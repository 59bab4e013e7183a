CONSTANTS
  Proc = {feedr}
  Daemon = feedr
  Source = {wire}
  Url = {u1, u2}
  None = None
  Run = {r1}
  Every = {1}
  StaleAge = 0
  StampLimit = 0
  MaxVersion = 1
SPECIFICATION Spec
INVARIANT NotModifiedIsTrue
