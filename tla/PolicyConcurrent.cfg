CONSTANTS
  Rows = {p1, p2, p3, p4}
  Tenants = {t1, t2}
  System = System
  Labels = {v1, v2}
  V1 = v1
  Calls = {c1, c2}
  Serial = FALSE
  Restarts = TRUE
SPECIFICATION Spec
PROPERTIES ForwardOnly ScopeKept
SYMMETRY Symmetry
