CONSTANTS
  c1 = c1
  c2 = c2
  x = x
  y = y
  Cve = {c1, c2}
  Body = {x, y}
  Input <- MCInput
  None = None
  Limit = 1
  Writer = {w1, w2}
  Reader = {r1}
SPECIFICATION Spec
INVARIANTS
  TypeOK
  CurrentIsNewest
  EachVersionOnce
PROPERTY AnswersAreCurrent
