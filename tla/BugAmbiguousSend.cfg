CONSTANTS
    Jobs = {j1, j2}
    Approvals = {a1}
    Workers = {w1}
    Requests = {q1, q2}
    MaxChats = 1
    None = None
    Deaths = FALSE
    AuditFailures = FALSE
    AmbiguousSends = TRUE
    SerialOps = {"approve", "reject", "retry"}
SPECIFICATION Spec
INVARIANT AtMostOneSend
