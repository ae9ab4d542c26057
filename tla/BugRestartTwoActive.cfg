CONSTANTS
  Rows = {p1, p2}
  Tenants = {t1}
  System = System
  Labels = {v1, v2}
  V1 = v1
  Calls = {c1}
  Serial = TRUE
  Restarts = TRUE
SPECIFICATION Spec
SYMMETRY Symmetry
INVARIANT OneActivePerScope
