CONSTANTS
  Apis = {a1}
  Pilots = {s1}
  Nobody = Nobody
  MaxCrashes = 2
SPECIFICATION FairSpec
INVARIANTS SeededOnce CredentialsWork
PROPERTY ComesUp
CHECK_DEADLOCK FALSE
