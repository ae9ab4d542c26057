CONSTANTS
    Jobs = {j1, j2}
    Approvals = {a1}
    Workers = {w1}
    Requests = {q1}
    MaxChats = 1
    None = None
    Deaths = FALSE
    AuditFailures = FALSE
    AmbiguousSends = FALSE
    SerialOps = {"approve", "reject", "retry"}
SPECIFICATION FairSpec
PROPERTY ApprovedDraftIsEnqueued
