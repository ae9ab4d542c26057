CONSTANTS
    Jobs = {j1, j2, j3}
    Approvals = {a1}
    Workers = {w1, w2}
    Requests = {q1, q2}
    MaxChats = 1
    None = None
    Deaths = TRUE
    AuditFailures = TRUE
    AmbiguousSends = TRUE
    SerialOps = {}
SPECIFICATION Spec
SYMMETRY Symmetry
INVARIANTS TypeOK OneSendJob SendNeedsApprovedDraft SucceededMeansSent
