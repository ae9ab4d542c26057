CONSTANTS
  Rows = {p1}
  Tenants = {t1}
  System = System
  Labels = {v1, v2}
  V1 = v1
  Calls = {}
  Serial = TRUE
  Restarts = TRUE
  Vendors <- TwoVendors
  Actions = {g1}
  Deciders = {d1}
  Overriders = {o1}
  NoVersion = NoVersion
  Readers = {r1}
  Hardened = FALSE
SPECIFICATION ESpec
INVARIANTS AnsweredMeansEvidence PacketIsHonest ViewsAgree ResponseCoherent ScoreNotOverstated
PROPERTIES PacketOnlyAdvances OnlyOverrideLowersTrust
