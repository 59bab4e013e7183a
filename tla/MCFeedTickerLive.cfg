CONSTANTS
  Proc = {feedr, cli}
  Daemon = feedr
  Source = {wire}
  Url = {u1}
  None = None
  Run = {r1, r2}
  Every = {1}
  StaleAge = 0
  StampLimit = 0
  MaxVersion = 0
SPECIFICATION FairSpec
PROPERTIES
  EveryRunEnds
  EveryDueSourceIsAsked
