CONSTANTS
  Rows = {p1, p2, p3, p4}
  Tenants = {t1}
  System = System
  Labels = {v1, v2}
  V1 = v1
  Calls = {c1}
  Serial = TRUE
  Restarts = TRUE
  Vendors <- Intakes
  Actions = {g1}
  Deciders = {}
  Overriders = {}
  NoVersion = NoVersion
SPECIFICATION RSpec
SYMMETRY Symmetry
INVARIANTS TenantOneActive WindowMatchesStatus AlwaysBinds BoundToReleasedVersion
