---------------------------- MODULE SendPipeline ----------------------------
(***************************************************************************)
(* The governed execution path of the repository: POST /chat makes a        *)
(* chat.orchestrate job; the polling worker (workers/runner.py) runs it,    *)
(* creates an approval and a Gmail draft; an operator approves or rejects   *)
(* over the API; approve enqueues an email.send_approved job; the worker    *)
(* sends the draft once and records it on the approval, on the delivery and *)
(* in the audit log; a failed send may be retried over the API.             *)
(*                                                                         *)
(* Workers are processes of their own, API requests threads of another one. *)
(* They share only the database.  Each commit is one atomic step; reads and *)
(* the commits that depend on them are separate steps, because no UPDATE of *)
(* the code names the value it read.  payload_json is rewritten as a whole  *)
(* from the copy the session read earlier (the identity map does not read   *)
(* an unexpired row again), so a worker or a request keeps that copy.       *)
(*                                                                         *)
(* The audit log is the atomic log that AuditChain is shown to implement.   *)
(* The Gmail provider is external: it may refuse a call with a normalised   *)
(* ConnectorError or with an exception of its client library.  Thread       *)
(* records, attempt counters and error texts decide nothing and are left    *)
(* out.                                                                     *)
(***************************************************************************)
EXTENDS Naturals, FiniteSets

CONSTANTS
    Jobs, Approvals,     \* primary keys of the tables jobs and approval_requests
    Workers, Requests,   \* worker processes, operator requests on the API
    None,
    Deaths,              \* may processes die or lose the database in mid-work?
    AuditFailures,       \* may audit_record raise in a worker? (in a request: Deaths)
    AmbiguousSends,      \* may a send reach the recipient and still raise?
    SerialOps,           \* operator calls that are made one at a time
    MaxChats             \* bound: chat messages submitted

ASSUME NoneAssumption == None \notin Jobs \cup Approvals
ASSUME FlagsAssumption ==
    {Deaths, AuditFailures, AmbiguousSends} \subseteq BOOLEAN

VARIABLES
    jobs,         \* table jobs
    approvals,    \* table approval_requests, payload_json decoded into body
    deliveries,   \* table email_delivery_records, by its UNIQUE approval_id
    audit,        \* audit events: <<action, resource id>>
    sent,         \* external: how often the provider sent the draft of an approval
    wk,           \* the workers: program counter and local variables
    rq,           \* the API requests: likewise
    drafted,      \* history: approvals for which the provider made a draft
    approved      \* history: approvals for which an approve was committed

vars == <<jobs, approvals, deliveries, audit, sent, wk, rq, drafted, approved>>

\* What a chat message asks for, as policy and email classification see it:
\* an outbound send (gated, with a draft), another gated action, a thread
\* read or a reply draft (one connector call), nothing external or blocked,
\* or a payload that does not validate.
Kinds == {"outbound", "gated", "connector", "plain", "invalid"}

NoBody == [draft |-> FALSE, decision |-> "none", msg |-> 0]
NoJob == [type |-> "none", status |-> "none", kind |-> "plain", appr |-> None]

IdleWorker ==
    [pc |-> "idle", job |-> None, appr |-> None, body |-> NoBody, msg |-> 0]
DoneRequest ==
    [pc |-> "done", op |-> "none", target |-> None, body |-> NoBody]

Init ==
    /\ jobs = [j \in Jobs |-> NoJob]
    /\ approvals = [a \in Approvals |-> [status |-> "none", body |-> NoBody]]
    /\ deliveries = [a \in Approvals |-> [status |-> "none", msg |-> 0]]
    /\ audit = {}
    /\ sent = [a \in Approvals |-> 0]
    /\ wk = [w \in Workers |-> IdleWorker]
    /\ rq = [q \in Requests |-> [DoneRequest EXCEPT !.pc = "idle"]]
    /\ drafted = {}
    /\ approved = {}

\* Local variables live as long as the session of the poll or the request.
WorkerAt(w, p) ==
    wk' = [wk EXCEPT ![w] = IF p = "idle" THEN IdleWorker ELSE [@ EXCEPT !.pc = p]]
RequestAt(q, p) ==
    rq' = [rq EXCEPT ![q] = IF p = "done" THEN DoneRequest ELSE [@ EXCEPT !.pc = p]]
Audited(action, id) == audit' = audit \cup {<<action, id>>}
SetJob(j, s) == jobs' = [jobs EXCEPT ![j].status = s]

SendJobsOf(a) == {j \in Jobs : jobs[j].type = "send" /\ jobs[j].appr = a}

-----------------------------------------------------------------------------
(* Intake and the claim of a job.                                          *)

\* POST /chat: a durable pending job, nothing executed inline.
Chat(j, kind) ==
    /\ jobs[j].status = "none"
    /\ Cardinality({i \in Jobs : jobs[i].type = "chat"}) < MaxChats
    /\ jobs' = [jobs EXCEPT ![j] = [type |-> "chat", status |-> "pending",
                                    kind |-> kind, appr |-> None]]
    /\ UNCHANGED <<approvals, deliveries, audit, sent, wk, rq, drafted, approved>>

\* A claim that also picks up jobs somebody left running.
MutClaimRunningToo(w, j) ==
    /\ wk[w].pc = "idle"
    /\ jobs[j].status \in {"pending", "running"}
    /\ wk' = [wk EXCEPT ![w] = [@ EXCEPT !.pc = "claim", !.job = j]]
    /\ UNCHANGED <<jobs, approvals, deliveries, audit, sent, rq, drafted, approved>>

\* claim_next_pending: the SELECT.  Jobs created in the same second tie.
ClaimRead(w, j) ==
    /\ wk[w].pc = "idle"
    /\ jobs[j].status = "pending"
    /\ wk' = [wk EXCEPT ![w] = [@ EXCEPT !.pc = "claim", !.job = j]]
    /\ UNCHANGED <<jobs, approvals, deliveries, audit, sent, rq, drafted, approved>>

\* poll_once finds nothing and the worker sleeps.
IdlePoll(w) ==
    /\ wk[w].pc = "idle"
    /\ \A j \in Jobs : jobs[j].status # "pending"
    /\ UNCHANGED vars

\* A status written as the enum member instead of its value.
MutClaimCommitEnum(w) ==
    /\ wk[w].pc = "claim"
    /\ SetJob(wk[w].job, "JobStatus.running")
    /\ WorkerAt(w, jobs[wk[w].job].type)
    /\ UNCHANGED <<approvals, deliveries, audit, sent, rq, drafted, approved>>

\* claim_next_pending: the UPDATE, which does not look at the status again;
\* then dispatch on the job's type.
ClaimCommit(w) ==
    /\ wk[w].pc = "claim"
    /\ SetJob(wk[w].job, "running")
    /\ WorkerAt(w, jobs[wk[w].job].type)
    /\ UNCHANGED <<approvals, deliveries, audit, sent, rq, drafted, approved>>

-----------------------------------------------------------------------------
(* chat.orchestrate.                                                       *)

\* Messages that need no approval.
Orchestrate(w) ==
    /\ wk[w].pc = "chat"
    /\ LET kind == jobs[wk[w].job].kind
       IN  /\ kind \notin {"outbound", "gated"}
           /\ WorkerAt(w, CASE kind = "invalid"   -> "fail"
                            [] kind = "connector" -> "connector"
                            [] OTHER              -> "succeed")
    /\ UNCHANGED <<jobs, approvals, deliveries, audit, sent, rq, drafted, approved>>

\* create_request: the approval is committed and visible to operators ...
CreateRequest(w, a) ==
    /\ wk[w].pc = "chat"
    /\ jobs[wk[w].job].kind \in {"outbound", "gated"}
    /\ approvals[a].status = "none"
    /\ approvals' = [approvals EXCEPT ![a] = [status |-> "pending", body |-> NoBody]]
    /\ wk' = [wk EXCEPT ![w] = [@ EXCEPT !.pc = "audit_created", !.appr = a]]
    /\ UNCHANGED <<jobs, deliveries, audit, sent, rq, drafted, approved>>

\* ... and audited; reading its id for the result loads the row once more.
AuditCreated(w) ==
    /\ wk[w].pc = "audit_created"
    /\ Audited("approval.created", wk[w].appr)
    /\ wk' = [wk EXCEPT ![w] =
                [@ EXCEPT !.body = approvals[wk[w].appr].body,
                          !.pc = IF jobs[wk[w].job].kind = "outbound"
                                   THEN "draft" ELSE "succeed"]]
    /\ UNCHANGED <<jobs, approvals, deliveries, sent, rq, drafted, approved>>

\* The connector makes the draft (or serves a read or a reply draft).
ProviderServes(w) ==
    /\ wk[w].pc \in {"draft", "connector"}
    /\ WorkerAt(w, IF wk[w].pc = "draft" THEN "merge" ELSE "succeed")
    /\ drafted' = IF wk[w].pc = "draft" THEN drafted \cup {wk[w].appr} ELSE drafted
    /\ UNCHANGED <<jobs, approvals, deliveries, audit, sent, rq, approved>>

\* merge_execution_context writes the copy read before the connector call.
MergeDraft(w) ==
    /\ wk[w].pc = "merge"
    /\ approvals' = [approvals EXCEPT ![wk[w].appr].body =
                       [wk[w].body EXCEPT !.draft = TRUE]]
    /\ WorkerAt(w, "deliver")
    /\ UNCHANGED <<jobs, deliveries, audit, sent, rq, drafted, approved>>

\* upsert_outbound_delivery.
UpsertDelivery(w) ==
    /\ wk[w].pc = "deliver"
    /\ deliveries' = [deliveries EXCEPT ![wk[w].appr].status = "awaiting_approval"]
    /\ WorkerAt(w, "succeed")
    /\ UNCHANGED <<jobs, approvals, audit, sent, rq, drafted, approved>>

-----------------------------------------------------------------------------
(* email.send_approved.                                                    *)

\* An eligibility test that forgets the draft.
MutEligibleNoDraft(row) == row.status = "approved"

\* validate_send_enqueue_eligibility, for the approvals the system creates
\* (kind job.gate, workflow email.outbound, source job present).
Eligible(row) == row.status = "approved" /\ row.body.draft

\* A send that does not look for an earlier message id.
MutSendLoadNoDedupe(w) ==
    LET a    == jobs[wk[w].job].appr
        body == approvals[a].body
    IN  /\ wk[w].pc = "send"
        /\ wk' = [wk EXCEPT ![w].appr = a, ![w].body = body,
                            ![w].pc = IF Eligible(approvals[a]) THEN "provider" ELSE "fail"]
        /\ UNCHANGED <<jobs, approvals, deliveries, audit, sent, rq, drafted, approved>>

\* Load the approval, check it, and find out whether it was sent before.
SendLoad(w) ==
    LET a    == jobs[wk[w].job].appr
        body == approvals[a].body
    IN  /\ wk[w].pc = "send"
        /\ wk' = [wk EXCEPT ![w] =
                    [@ EXCEPT !.appr = a, !.body = body, !.msg = body.msg,
                              !.pc = IF ~ Eligible(approvals[a]) THEN "fail"
                                     ELSE IF body.msg # 0 THEN "mark_sent"
                                     ELSE "provider"]]
        /\ UNCHANGED <<jobs, approvals, deliveries, audit, sent, rq, drafted, approved>>

\* The provider sends the draft and returns the id of the message.
ProviderSends(w) ==
    LET n == sent[wk[w].appr] + 1
    IN  /\ wk[w].pc = "provider"
        /\ sent' = [sent EXCEPT ![wk[w].appr] = n]
        /\ wk' = [wk EXCEPT ![w] = [@ EXCEPT !.pc = "record", !.msg = n]]
        /\ UNCHANGED <<jobs, approvals, deliveries, audit, rq, drafted, approved>>

\* A handler that takes an error of the provider for success.
MutProviderFailureIgnored(w) ==
    /\ wk[w].pc \in {"draft", "connector", "provider"}
    /\ WorkerAt(w, "succeed")
    /\ UNCHANGED <<jobs, approvals, deliveries, audit, sent, rq, drafted, approved>>

\* The provider call raises: a ConnectorError is caught by the task handler,
\* any other exception by process_job.
ProviderRaises(w) ==
    /\ wk[w].pc \in {"draft", "connector", "provider"}
    /\ \E p \in {"fail", "raise"} : WorkerAt(w, p)
    /\ UNCHANGED <<jobs, approvals, deliveries, audit, sent, rq, drafted, approved>>

\* The message is out, but the call raises: no message id in the answer
\* (PermanentProviderError) or the answer lost.
ProviderSendsAndRaises(w) ==
    /\ AmbiguousSends
    /\ wk[w].pc = "provider"
    /\ sent' = [sent EXCEPT ![wk[w].appr] = @ + 1]
    /\ \E p \in {"fail", "raise"} : WorkerAt(w, p)
    /\ UNCHANGED <<jobs, approvals, deliveries, audit, rq, drafted, approved>>

\* record_send_completed: the idempotency anchor, on the copy of SendLoad.
RecordSent(w) ==
    /\ wk[w].pc = "record"
    /\ approvals' = [approvals EXCEPT ![wk[w].appr].body =
                       [wk[w].body EXCEPT !.msg = wk[w].msg]]
    /\ WorkerAt(w, "mark_sent")
    /\ UNCHANGED <<jobs, deliveries, audit, sent, rq, drafted, approved>>

\* A mark that loses the message id.
MutMarkDeliverySentNoId(w) ==
    /\ wk[w].pc = "mark_sent"
    /\ deliveries' = [deliveries EXCEPT ![wk[w].appr].status = "sent"]
    /\ WorkerAt(w, "succeed")
    /\ UNCHANGED <<jobs, approvals, audit, sent, rq, drafted, approved>>

\* mark_delivery_sent, if there is a delivery row; a replay is not audited.
MarkDeliverySent(w) ==
    /\ wk[w].pc = "mark_sent"
    /\ deliveries' = IF deliveries[wk[w].appr].status = "none" THEN deliveries
                     ELSE [deliveries EXCEPT ![wk[w].appr] =
                             [status |-> "sent", msg |-> wk[w].msg]]
    /\ WorkerAt(w, IF wk[w].body.msg # 0 THEN "succeed" ELSE "audit_sent")
    /\ UNCHANGED <<jobs, approvals, audit, sent, rq, drafted, approved>>

AuditSent(w) ==
    /\ wk[w].pc = "audit_sent"
    /\ Audited("send.succeeded", wk[w].job)
    /\ WorkerAt(w, "succeed")
    /\ UNCHANGED <<jobs, approvals, deliveries, sent, rq, drafted, approved>>

-----------------------------------------------------------------------------
(* The end of a job.                                                       *)

\* mark_job_succeeded.
Succeed(w) ==
    /\ wk[w].pc = "succeed"
    /\ SetJob(wk[w].job, "succeeded")
    /\ WorkerAt(w, "idle")
    /\ UNCHANGED <<approvals, deliveries, audit, sent, rq, drafted, approved>>

\* mark_job_failed in the except clauses of the task handlers.
Fail(w) ==
    /\ wk[w].pc = "fail"
    /\ SetJob(wk[w].job, "failed")
    /\ WorkerAt(w, IF jobs[wk[w].job].type = "send" THEN "fail_delivery" ELSE "idle")
    /\ UNCHANGED <<approvals, deliveries, audit, sent, rq, drafted, approved>>

\* _audit_send_job_failed: mark_delivery_failed, which keeps the message id ...
FailDelivery(w) ==
    LET a == jobs[wk[w].job].appr
    IN  /\ wk[w].pc = "fail_delivery"
        /\ deliveries' = IF deliveries[a].status = "none" THEN deliveries
                         ELSE [deliveries EXCEPT ![a].status = "failed"]
        /\ WorkerAt(w, "audit_failed")
        /\ UNCHANGED <<jobs, approvals, audit, sent, rq, drafted, approved>>

\* ... and the audit event.
AuditFailed(w) ==
    /\ wk[w].pc = "audit_failed"
    /\ Audited("send.failed", wk[w].job)
    /\ WorkerAt(w, "idle")
    /\ UNCHANGED <<jobs, approvals, deliveries, sent, rq, drafted, approved>>

\* audit_record gives up after its last attempt.
AuditRaises(w) ==
    /\ AuditFailures
    /\ wk[w].pc \in {"audit_created", "audit_sent", "audit_failed"}
    /\ WorkerAt(w, "raise")
    /\ UNCHANGED <<jobs, approvals, deliveries, audit, sent, rq, drafted, approved>>

\* A worker boundary that logs the exception and goes on.
MutRaiseSwallowed(w) ==
    /\ wk[w].pc = "raise"
    /\ WorkerAt(w, "idle")
    /\ UNCHANGED <<jobs, approvals, deliveries, audit, sent, rq, drafted, approved>>

\* process_job's except clause: only the job is marked.
Raise(w) ==
    /\ wk[w].pc = "raise"
    /\ SetJob(wk[w].job, "failed")
    /\ WorkerAt(w, "idle")
    /\ UNCHANGED <<approvals, deliveries, audit, sent, rq, drafted, approved>>

\* The process dies and is restarted, or a commit fails and leaves the session
\* unusable: run_forever logs it and polls on.  Nobody looks at the job again.
WorkerDies(w) ==
    /\ Deaths
    /\ wk[w].pc # "idle"
    /\ WorkerAt(w, "idle")
    /\ UNCHANGED <<jobs, approvals, deliveries, audit, sent, rq, drafted, approved>>

-----------------------------------------------------------------------------
(* Operator requests: approve, reject, retry.                              *)

Active(q) == rq[q].pc \notin {"idle", "done"}
MayCall(op) == op \in SerialOps => \A q \in Requests : Active(q) => rq[q].op \notin SerialOps

\* A decision that does not look whether one was made before.
MutDecideReadAnyStatus(q, op, a) ==
    /\ rq[q].pc = "idle"
    /\ approvals[a].status # "none"
    /\ MayCall(op)
    /\ rq' = [rq EXCEPT ![q] = [pc |-> "decide", op |-> op, target |-> a,
                                body |-> approvals[a].body]]
    /\ UNCHANGED <<jobs, approvals, deliveries, audit, sent, wk, drafted, approved>>

\* approve and reject: load the row; 400 unless it is pending.
DecideRead(q, op, a) ==
    /\ rq[q].pc = "idle"
    /\ approvals[a].status # "none"
    /\ MayCall(op)
    /\ rq' = [rq EXCEPT ![q] =
                IF approvals[a].status # "pending" THEN DoneRequest
                ELSE [pc |-> "decide", op |-> op, target |-> a, body |-> approvals[a].body]]
    /\ UNCHANGED <<jobs, approvals, deliveries, audit, sent, wk, drafted, approved>>

\* Commit the decision and the payload as it was read.
DecideCommit(q) ==
    LET status == IF rq[q].op = "approve" THEN "approved" ELSE "rejected"
    IN  /\ rq[q].pc = "decide"
        /\ approvals' = [approvals EXCEPT ![rq[q].target] =
                           [status |-> status,
                            body |-> [rq[q].body EXCEPT !.decision = status]]]
        /\ approved' = IF status = "approved" THEN approved \cup {rq[q].target} ELSE approved
        /\ RequestAt(q, "audit")
        /\ UNCHANGED <<jobs, deliveries, audit, sent, wk, drafted>>

DecideAudit(q) ==
    /\ rq[q].pc = "audit"
    /\ Audited(IF rq[q].op = "approve" THEN "approval.approved" ELSE "approval.rejected",
               rq[q].target)
    /\ RequestAt(q, IF rq[q].op = "approve" THEN "enqueue" ELSE "done")
    /\ UNCHANGED <<jobs, approvals, deliveries, sent, wk, drafted, approved>>

\* An endpoint that tests the row as it was before the decision.
MutEnqueueStale(q) ==
    /\ rq[q].pc = "enqueue"
    /\ RequestAt(q, IF Eligible([status |-> "pending", body |-> rq[q].body])
                      THEN "lookup" ELSE "done")
    /\ UNCHANGED <<jobs, approvals, deliveries, audit, sent, wk, drafted, approved>>

\* should_enqueue_email_send_after_approval and the eligibility checks, on
\* the row as the audit commit makes the session read it again.
Enqueue(q) ==
    /\ rq[q].pc = "enqueue"
    /\ RequestAt(q, IF Eligible(approvals[rq[q].target]) THEN "lookup" ELSE "done")
    /\ UNCHANGED <<jobs, approvals, deliveries, audit, sent, wk, drafted, approved>>

\* get_job_by_idempotency_key.
LookupSendJob(q) ==
    /\ rq[q].pc = "lookup"
    /\ RequestAt(q, IF SendJobsOf(rq[q].target) # {} THEN "audit_enqueued" ELSE "create")
    /\ UNCHANGED <<jobs, approvals, deliveries, audit, sent, wk, drafted, approved>>

\* A jobs table without UNIQUE(idempotency_key).
MutCreateNoUnique(q, j) ==
    /\ rq[q].pc = "create"
    /\ jobs[j].status = "none"
    /\ jobs' = [jobs EXCEPT ![j] = [type |-> "send", status |-> "pending",
                                    kind |-> "plain", appr |-> rq[q].target]]
    /\ RequestAt(q, "audit_enqueued")
    /\ UNCHANGED <<approvals, deliveries, audit, sent, wk, drafted, approved>>

\* create_job under UNIQUE(idempotency_key).
CreateSendJob(q, j) ==
    /\ rq[q].pc = "create"
    /\ SendJobsOf(rq[q].target) = {}
    /\ jobs[j].status = "none"
    /\ jobs' = [jobs EXCEPT ![j] = [type |-> "send", status |-> "pending",
                                    kind |-> "plain", appr |-> rq[q].target]]
    /\ RequestAt(q, "audit_enqueued")
    /\ UNCHANGED <<approvals, deliveries, audit, sent, wk, drafted, approved>>

\* IntegrityError: the request ends with a server error.
CreateConflicts(q) ==
    /\ rq[q].pc = "create"
    /\ SendJobsOf(rq[q].target) # {}
    /\ RequestAt(q, "done")
    /\ UNCHANGED <<jobs, approvals, deliveries, audit, sent, wk, drafted, approved>>

AuditEnqueued(q) ==
    /\ rq[q].pc = "audit_enqueued"
    /\ Audited("send.enqueued", rq[q].target)
    /\ RequestAt(q, "done")
    /\ UNCHANGED <<jobs, approvals, deliveries, sent, wk, drafted, approved>>

\* job_not_failed and _assert_email_send_retry_allowed.
RetryAllowed(j) ==
    LET a == jobs[j].appr
    IN  /\ jobs[j].status = "failed"
        /\ approvals[a].status # "rejected"
        /\ approvals[a].body.msg = 0
        /\ ~ (deliveries[a].status = "sent" /\ deliveries[a].msg # 0)

RetryRead(q, j) ==
    /\ rq[q].pc = "idle"
    /\ MayCall("retry")
    /\ jobs[j].type = "send"
    /\ rq' = [rq EXCEPT ![q] =
                IF ~ RetryAllowed(j) THEN DoneRequest
                ELSE [pc |-> "retry", op |-> "retry", target |-> j, body |-> NoBody]]
    /\ UNCHANGED <<jobs, approvals, deliveries, audit, sent, wk, drafted, approved>>

RetryCommit(q) ==
    /\ rq[q].pc = "retry"
    /\ SetJob(rq[q].target, "pending")
    /\ RequestAt(q, "done")
    /\ UNCHANGED <<approvals, deliveries, audit, sent, wk, drafted, approved>>

\* The API process dies, or a commit or the audit log fails: server error.
RequestDies(q) ==
    /\ Deaths
    /\ Active(q)
    /\ RequestAt(q, "done")
    /\ UNCHANGED <<jobs, approvals, deliveries, audit, sent, wk, drafted, approved>>

-----------------------------------------------------------------------------

\* The next statement of a worker's process_job.
Process(w) ==
    \/ ClaimCommit(w) \/ Orchestrate(w) \/ (\E a \in Approvals : CreateRequest(w, a))
    \/ AuditCreated(w) \/ ProviderServes(w) \/ MergeDraft(w) \/ UpsertDelivery(w)
    \/ SendLoad(w) \/ ProviderSends(w) \/ ProviderRaises(w) \/ ProviderSendsAndRaises(w)
    \/ RecordSent(w) \/ MarkDeliverySent(w) \/ AuditSent(w)
    \/ Succeed(w) \/ Fail(w) \/ FailDelivery(w) \/ AuditFailed(w) \/ AuditRaises(w)
    \/ Raise(w)

Work(w) == (\E j \in Jobs : ClaimRead(w, j)) \/ Process(w)

\* The next statement of a request that has been accepted.
Serve(q) ==
    \/ DecideCommit(q) \/ DecideAudit(q) \/ Enqueue(q) \/ LookupSendJob(q)
    \/ (\E j \in Jobs : CreateSendJob(q, j)) \/ CreateConflicts(q)
    \/ AuditEnqueued(q) \/ RetryCommit(q)

Operator(q) ==
    \/ \E op \in {"approve", "reject"}, a \in Approvals : DecideRead(q, op, a)
    \/ \E j \in Jobs : RetryRead(q, j)

Next ==
    \/ \E j \in Jobs, kind \in Kinds : Chat(j, kind)
    \/ \E w \in Workers : Work(w) \/ IdlePoll(w) \/ WorkerDies(w)
    \/ \E q \in Requests : Operator(q) \/ Serve(q) \/ RequestDies(q)

Spec == Init /\ [][Next]_vars

\* Workers poll forever and accepted requests run on; nobody has to call.
FairSpec ==
    /\ Spec
    /\ \A w \in Workers : WF_vars(Work(w))
    /\ \A q \in Requests : WF_vars(Serve(q))

-----------------------------------------------------------------------------
(* Properties.                                                             *)

Bodies == [draft : BOOLEAN, decision : {"none", "approved", "rejected"}, msg : Nat]

WorkerPcs == {"idle", "claim", "chat", "audit_created", "draft", "connector", "merge",
              "deliver", "send", "provider", "record", "mark_sent", "audit_sent",
              "succeed", "fail", "fail_delivery", "audit_failed", "raise"}

RequestPcs == {"idle", "decide", "audit", "enqueue", "lookup", "create",
               "audit_enqueued", "retry", "done"}

JobRow == [type : {"none", "chat", "send"}, kind : Kinds,
           status : {"none", "pending", "running", "succeeded", "failed"},
           appr : Approvals \cup {None}]
ApprovalRow == [status : {"none", "pending", "approved", "rejected"}, body : Bodies]
DeliveryRow == [status : {"none", "awaiting_approval", "sent", "failed"}, msg : Nat]
AuditActions == {"approval.created", "approval.approved", "approval.rejected",
                 "send.enqueued", "send.succeeded", "send.failed"}
WorkerState == [pc : WorkerPcs, job : Jobs \cup {None}, appr : Approvals \cup {None},
                body : Bodies, msg : Nat]
RequestState == [pc : RequestPcs, op : {"none", "approve", "reject", "retry"},
                 target : Jobs \cup Approvals \cup {None}, body : Bodies]

\* Type invariant.
TypeOK ==
    /\ jobs \in [Jobs -> JobRow]
    /\ approvals \in [Approvals -> ApprovalRow]
    /\ deliveries \in [Approvals -> DeliveryRow]
    /\ audit \subseteq AuditActions \X (Jobs \cup Approvals)
    /\ sent \in [Approvals -> Nat]
    /\ wk \in [Workers -> WorkerState]
    /\ rq \in [Requests -> RequestState]
    /\ drafted \subseteq Approvals
    /\ approved \subseteq Approvals

\* Concurrent approve calls that both find no job for email.send:{approval_id}
\* still leave one send job for an approval.
OneSendJob ==
    \A i, j \in Jobs : jobs[i].type = "send" /\ jobs[j].type = "send"
                       /\ jobs[i].appr = jobs[j].appr => i = j

\* Nothing is enqueued for sending, let alone sent, unless an operator's
\* approve was committed and a draft made for the approval, however requests,
\* workers, lost updates and deaths interleave.
SendNeedsApprovedDraft ==
    /\ \A j \in Jobs : jobs[j].type = "send" => jobs[j].appr \in approved \cap drafted
    /\ \A a \in Approvals : sent[a] > 0 => a \in approved \cap drafted

\* A send job that reports success has sent, even if two workers claimed it.
SucceededMeansSent ==
    \A j \in Jobs : jobs[j].type = "send" /\ jobs[j].status = "succeeded"
                    => sent[jobs[j].appr] > 0

\* One approval, at most one message: over retries, racing retries, deaths of
\* the worker between the send and its record, and failures of the audit log.
AtMostOneSend == \A a \in Approvals : sent[a] <= 1

\* A rejected approval was not sent and never will be.
RejectedNeverSent == \A a \in Approvals : approvals[a].status = "rejected" => sent[a] = 0

\* A decision is final: no later request or worker changes it.
DecidedOnce ==
    [][\A a \in Approvals :
         approvals[a].status \in {"approved", "rejected"}
         => approvals'[a].status = approvals[a].status]_vars

\* The receipts of a successful send agree: the approval keeps its draft and
\* the id of the one message, and the delivery row (unless the worker died
\* before making it) is "sent" with that id.
ReceiptsAgree ==
    \A j \in Jobs :
      LET a == jobs[j].appr
      IN  jobs[j].type = "send" /\ jobs[j].status = "succeeded" =>
            /\ approvals[a].body.draft
            /\ approvals[a].body.msg = sent[a]
            /\ deliveries[a] \in {[status |-> "sent", msg |-> sent[a]],
                                  [status |-> "none", msg |-> 0]}

\* Every job that waits to run is brought to an end by the worker.
PendingJobsFinish ==
    \A j \in Jobs :
      jobs[j].status = "pending" ~> jobs[j].status \in {"succeeded", "failed"}

\* An approve that saw the draft leads to a send job for the approval.
ApproveLeadsToSendJob ==
    \A q \in Requests : \A a \in Approvals :
      (rq[q].pc = "audit" /\ rq[q].op = "approve" /\ rq[q].target = a /\ rq[q].body.draft)
      ~> SendJobsOf(a) # {}

(* What the documents say and the code does not do.                        *)

\* "email.send_approved job after approve": an approved approval that has its
\* draft gets a send job.
ApprovedDraftIsEnqueued ==
    \A a \in Approvals :
      (approvals[a].status = "approved" /\ approvals[a].body.draft) ~> SendJobsOf(a) # {}

=============================================================================
