CONSTANTS
  run = run
  artifact = artifact
  item = item
  link = link
  x = x
  y = y
  z = z
  Id <- MCId
  Word <- MCWord
  Url <- MCUrl
  Row <- MCRow
  Kind <- MCKind
  Needs <- MCNeeds
  Running <- MCRunning
  Case <- MCCase
  Spoiled <- MCSpoiled
  None = None
  MaxAltered = 1
SPECIFICATION Spec
CHECK_DEADLOCK FALSE
INVARIANTS
  TypeOK
  NothingLostUnasked
  ReseededSoundly
  RollBackIsExplained
  CompleteIsApproved
