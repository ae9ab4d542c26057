CONSTANTS
    Jobs = {j1, j2, j3}
    Approvals = {a1, a2}
    Workers = {w1}
    Requests = {q1, q2, q3}
    MaxChats = 2
    None = None
    Deaths = TRUE
    AuditFailures = TRUE
    AmbiguousSends = FALSE
    SerialOps = {"approve", "reject", "retry"}
SPECIFICATION Spec
SYMMETRY Symmetry
INVARIANTS AtMostOneSend RejectedNeverSent ReceiptsAgree
PROPERTY DecidedOnce
