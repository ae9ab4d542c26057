CONSTANTS
    Jobs = {j1, j2}
    Approvals = {a1}
    Workers = {w1}
    Requests = {q1, q2, q3}
    MaxChats = 1
    None = None
    Deaths = FALSE
    AuditFailures = TRUE
    AmbiguousSends = FALSE
    SerialOps = {"approve", "reject"}
SPECIFICATION FairSpec
INVARIANT AtMostOneSend
PROPERTIES PendingJobsFinish ApproveLeadsToSendJob
