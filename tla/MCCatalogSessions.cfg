CONSTANTS
  m1 = m1
  m2 = m2
  m2edited = m2edited
  k1 = k1
  k2 = k2
  s1 = s1
  s2 = s2
  Proc = {p1, p2}
  Free = Free
  None = None
  Build <- MCBuild
  Tables <- MCTables
  Legacy <- MCLegacy
  Source = {s1, s2}
  Key = {k1, k2}
  Bodies <- MCBodies
  Wanted = {s1, s2}
  TickerOnly = TRUE
  Page = 1
  AssetTables <- MCAssetTables
  Document <- MCDocument
  AsOf = {2}
  Limit = 2
SYMMETRY ProcSymmetry
SPECIFICATION Spec
INVARIANTS
  TypeOK
  OpenedFits
  NothingCreatedTwice
  NothingMissed
  EffectiveIsUncorrected
  StoredIsAccepted
  AnswersHoldTogether
