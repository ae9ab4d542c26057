CONSTANTS
  Packets = {p1, p2}
  Verifs = {v1}
  Calls = {c1, c2}
  MinScores = {67}
  None = None
  MaxAlterations = 1
  Serial = TRUE
  Deaths = TRUE
SPECIFICATION Spec
SYMMETRY Symmetry
INVARIANTS ApprovalIsEarned VersionedOnce
PROPERTIES Lifecycle TamperingSticks RevocationSticks
