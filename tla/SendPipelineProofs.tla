-------------------------- MODULE SendPipelineProofs --------------------------
(***************************************************************************)
(* Safety of the send pipeline for any number of jobs, approvals, workers    *)
(* and operator requests, with deaths, lost updates, failures of the audit   *)
(* log and ambiguous sends: the instances of SendPipeline differ in these,   *)
(* the theorems hold for all of them.                                        *)
(***************************************************************************)
EXTENDS SendPipeline, TLAPS

\* Rows of the table jobs.
JobsInv ==
    \A j \in Jobs :
      /\ jobs[j].status = "none" <=> jobs[j].type = "none"
      /\ jobs[j].type = "send" => /\ jobs[j].appr \in Approvals
                                  /\ jobs[j].appr \in approved
                                  /\ jobs[j].appr \in drafted
      /\ jobs[j].type = "send" /\ jobs[j].status = "succeeded" => sent[jobs[j].appr] > 0

\* Rows of the table approval_requests: what they claim has happened.
ApprovalsInv ==
    \A a \in Approvals :
      /\ approvals[a].status = "approved" => a \in approved
      /\ approvals[a].body.draft => a \in drafted
      /\ approvals[a].body.msg # 0 => sent[a] > 0
      /\ sent[a] > 0 => a \in approved /\ a \in drafted

\* A worker's locals: the job it runs, and a copy of a payload that, however
\* stale, only claims what has happened.
WorkersInv ==
    \A w \in Workers :
      LET p == wk[w].pc
          j == wk[w].job
          a == wk[w].appr
      IN  /\ p # "idle" => j \in Jobs /\ jobs[j].type # "none"
          /\ p \in {"chat", "audit_created", "draft", "connector", "merge", "deliver"}
             => jobs[j].type = "chat"
          /\ p \in {"send", "provider", "record", "mark_sent", "audit_sent",
                    "fail_delivery", "audit_failed"} => jobs[j].type = "send"
          /\ p \in {"provider", "record", "mark_sent", "audit_sent"} => a = jobs[j].appr
          /\ p \in {"audit_created", "draft", "merge", "deliver"} => a \in Approvals
          /\ p = "merge" => a \in drafted
          /\ p \in {"draft", "merge", "provider", "record"} =>
               /\ wk[w].body.draft => a \in drafted
               /\ wk[w].body.msg # 0 => sent[a] > 0
          /\ p \in {"record", "mark_sent", "audit_sent"} => sent[a] > 0
          /\ p = "succeed" /\ jobs[j].type = "send" => sent[jobs[j].appr] > 0

\* A request's locals: likewise.
RequestsInv ==
    \A q \in Requests :
      LET p == rq[q].pc
          t == rq[q].target
      IN  /\ p \in {"decide", "audit", "enqueue", "lookup", "create", "audit_enqueued"}
             => t \in Approvals
          /\ p = "decide" => /\ rq[q].body.draft => t \in drafted
                             /\ rq[q].body.msg # 0 => sent[t] > 0
          /\ p = "audit" /\ rq[q].op = "approve" => t \in approved
          /\ p \in {"enqueue", "lookup", "create"} => t \in approved
          /\ p \in {"lookup", "create"} => t \in drafted
          /\ p = "retry" => t \in Jobs /\ jobs[t].type = "send"

\* The inductive invariant.
IndInv == TypeOK /\ OneSendJob /\ JobsInv /\ ApprovalsInv /\ WorkersInv /\ RequestsInv

-----------------------------------------------------------------------------
(* What the helpers of the model write.                                    *)

LEMMA SetJobType ==
    ASSUME TypeOK, NEW j \in Jobs,
           NEW s \in {"none", "pending", "running", "succeeded", "failed"}, SetJob(j, s)
    PROVE  jobs' \in [Jobs -> JobRow]
BY DEF TypeOK, JobRow, SetJob

LEMMA WorkerAtType ==
    ASSUME TypeOK, NEW w \in Workers, NEW p \in WorkerPcs, WorkerAt(w, p)
    PROVE  wk' \in [Workers -> WorkerState]
<1>1. IdleWorker \in WorkerState
  BY DEF IdleWorker, WorkerState, WorkerPcs, NoBody, Bodies
<1>2. [wk[w] EXCEPT !.pc = p] \in WorkerState
  BY DEF TypeOK, WorkerState
<1> QED BY <1>1, <1>2 DEF TypeOK, WorkerAt

LEMMA RequestAtType ==
    ASSUME TypeOK, NEW q \in Requests, NEW p \in RequestPcs, RequestAt(q, p)
    PROVE  rq' \in [Requests -> RequestState]
<1>1. DoneRequest \in RequestState
  BY DEF DoneRequest, RequestState, RequestPcs, NoBody, Bodies
<1>2. [rq[q] EXCEPT !.pc = p] \in RequestState
  BY DEF TypeOK, RequestState
<1> QED BY <1>1, <1>2 DEF TypeOK, RequestAt

LEMMA AuditedType ==
    ASSUME TypeOK, NEW action \in AuditActions, NEW id \in Jobs \cup Approvals,
           Audited(action, id)
    PROVE  audit' \subseteq AuditActions \X (Jobs \cup Approvals)
BY DEF TypeOK, Audited

-----------------------------------------------------------------------------
(* Each action preserves the invariant.                                    *)

LEMMA ChatPreserves ==
    ASSUME IndInv, NEW j \in Jobs, NEW kind \in Kinds, Chat(j, kind) PROVE IndInv'
<1>1. TypeOK'
  <2>1. jobs' \in [Jobs -> JobRow]
    BY DEF IndInv, TypeOK, JobRow, Kinds, Chat
  <2> QED BY <2>1 DEF IndInv, TypeOK, Chat
<1>2. OneSendJob' /\ JobsInv'
  BY DEF IndInv, OneSendJob, TypeOK, JobsInv, Chat
<1>3. ApprovalsInv'
  BY DEF IndInv, TypeOK, ApprovalsInv, Chat
<1>4. WorkersInv'
  BY DEF IndInv, TypeOK, JobsInv, WorkersInv, Chat
<1>5. RequestsInv'
  BY DEF IndInv, TypeOK, JobsInv, RequestsInv, Chat
<1> QED BY <1>1, <1>2, <1>3, <1>4, <1>5 DEF IndInv

LEMMA ClaimReadPreserves ==
    ASSUME IndInv, NEW w \in Workers, NEW j \in Jobs, ClaimRead(w, j) PROVE IndInv'
<1>1. TypeOK'
  <2>1. wk' \in [Workers -> WorkerState]
    <3> DEFINE new == [wk[w] EXCEPT !.pc = "claim", !.job = j]
    <3>1. wk[w] \in WorkerState
      BY DEF IndInv, TypeOK, JobRow, ClaimRead
    <3>2. new \in WorkerState
      BY <3>1 DEF WorkerState, WorkerPcs
    <3>3. wk' = [wk EXCEPT ![w] = new]
      BY DEF ClaimRead
    <3> QED BY <3>2, <3>3 DEF IndInv, TypeOK
  <2> QED BY <2>1 DEF IndInv, TypeOK, ClaimRead
<1>2. OneSendJob' /\ JobsInv'
  BY DEF IndInv, OneSendJob, TypeOK, JobsInv, ClaimRead
<1>3. ApprovalsInv'
  BY DEF IndInv, TypeOK, ApprovalsInv, ClaimRead
<1>4. WorkersInv'
  BY DEF IndInv, TypeOK, JobsInv, WorkersInv, ClaimRead
<1>5. RequestsInv'
  BY DEF IndInv, TypeOK, RequestsInv, ClaimRead
<1> QED BY <1>1, <1>2, <1>3, <1>4, <1>5 DEF IndInv

LEMMA ClaimCommitPreserves ==
    ASSUME IndInv, NEW w \in Workers, ClaimCommit(w) PROVE IndInv'
<1>1. TypeOK'
  <2>1. jobs' \in [Jobs -> JobRow]
    BY SetJobType DEF IndInv, WorkersInv, RequestsInv, ClaimCommit
  <2>2. wk' \in [Workers -> WorkerState]
    BY WorkerAtType DEF IndInv, TypeOK, JobRow, WorkersInv, WorkerPcs, ClaimCommit
  <2> QED BY <2>1, <2>2 DEF IndInv, TypeOK, ClaimCommit
<1>2. OneSendJob' /\ JobsInv'
  BY DEF IndInv, OneSendJob, TypeOK, JobsInv, WorkersInv, ClaimCommit, WorkerAt,
       RequestAt, SetJob, IdleWorker, DoneRequest, NoBody
<1>3. ApprovalsInv'
  BY DEF IndInv, TypeOK, ApprovalsInv, ClaimCommit, WorkerAt, RequestAt, SetJob,
       IdleWorker, DoneRequest, NoBody
<1>4. WorkersInv'
  BY DEF IndInv, TypeOK, JobRow, WorkersInv, ClaimCommit, WorkerAt, RequestAt, SetJob,
       IdleWorker, DoneRequest, NoBody
<1>5. RequestsInv'
  BY DEF IndInv, TypeOK, RequestsInv, ClaimCommit, WorkerAt, RequestAt, SetJob,
       IdleWorker, DoneRequest, NoBody
<1> QED BY <1>1, <1>2, <1>3, <1>4, <1>5 DEF IndInv

LEMMA OrchestratePreserves ==
    ASSUME IndInv, NEW w \in Workers, Orchestrate(w) PROVE IndInv'
<1>1. TypeOK'
  <2>1. wk' \in [Workers -> WorkerState]
    BY WorkerAtType DEF IndInv, TypeOK, WorkerPcs, Orchestrate
  <2> QED BY <2>1 DEF IndInv, TypeOK, Orchestrate
<1>2. OneSendJob' /\ JobsInv'
  BY DEF IndInv, OneSendJob, TypeOK, JobsInv, Orchestrate, WorkerAt, RequestAt, SetJob,
       IdleWorker, DoneRequest, NoBody
<1>3. ApprovalsInv'
  BY DEF IndInv, TypeOK, ApprovalsInv, Orchestrate, WorkerAt, RequestAt, SetJob,
       IdleWorker, DoneRequest, NoBody
<1>4. WorkersInv'
  BY DEF IndInv, TypeOK, WorkersInv, Orchestrate, WorkerAt, RequestAt, SetJob, IdleWorker,
       DoneRequest, NoBody
<1>5. RequestsInv'
  BY DEF IndInv, TypeOK, RequestsInv, Orchestrate, WorkerAt, RequestAt, SetJob,
       IdleWorker, DoneRequest, NoBody
<1> QED BY <1>1, <1>2, <1>3, <1>4, <1>5 DEF IndInv

LEMMA CreateRequestPreserves ==
    ASSUME IndInv, NEW w \in Workers, NEW a \in Approvals, CreateRequest(w, a) PROVE IndInv'
<1>1. TypeOK'
  <2>1. approvals' \in [Approvals -> ApprovalRow]
    BY DEF IndInv, TypeOK, ApprovalRow, Bodies, NoBody, CreateRequest
  <2>2. wk' \in [Workers -> WorkerState]
    <3> DEFINE new == [wk[w] EXCEPT !.pc = "audit_created", !.appr = a]
    <3>1. wk[w] \in WorkerState
      BY DEF IndInv, TypeOK, JobRow, CreateRequest
    <3>2. new \in WorkerState
      BY <3>1 DEF WorkerState, WorkerPcs
    <3>3. wk' = [wk EXCEPT ![w] = new]
      BY DEF CreateRequest
    <3> QED BY <3>2, <3>3 DEF IndInv, TypeOK
  <2> QED BY <2>1, <2>2 DEF IndInv, TypeOK, CreateRequest
<1>2. OneSendJob' /\ JobsInv'
  BY DEF IndInv, OneSendJob, TypeOK, JobsInv, CreateRequest, NoBody
<1>3. ApprovalsInv'
  BY DEF IndInv, TypeOK, ApprovalsInv, CreateRequest, NoBody
<1>4. WorkersInv'
  BY DEF IndInv, TypeOK, WorkersInv, CreateRequest, NoBody
<1>5. RequestsInv'
  BY DEF IndInv, TypeOK, RequestsInv, CreateRequest, NoBody
<1> QED BY <1>1, <1>2, <1>3, <1>4, <1>5 DEF IndInv

LEMMA AuditCreatedPreserves ==
    ASSUME IndInv, NEW w \in Workers, AuditCreated(w) PROVE IndInv'
<1>1. TypeOK'
  <2>1. audit' \subseteq AuditActions \X (Jobs \cup Approvals)
    BY AuditedType DEF IndInv, AuditActions, WorkersInv, AuditCreated
  <2>2. wk' \in [Workers -> WorkerState]
    <3> DEFINE new == [wk[w] EXCEPT !.body = approvals[wk[w].appr].body,
                  !.pc = IF jobs[wk[w].job].kind = "outbound" THEN "draft" ELSE "succeed"]
    <3>1. wk[w] \in WorkerState /\ approvals[wk[w].appr].body \in Bodies
      BY DEF IndInv, TypeOK, ApprovalRow, Bodies, WorkersInv, AuditCreated
    <3>2. new \in WorkerState
      BY <3>1 DEF WorkerState, WorkerPcs
    <3>3. wk' = [wk EXCEPT ![w] = new]
      BY DEF AuditCreated
    <3> QED BY <3>2, <3>3 DEF IndInv, TypeOK
  <2> QED BY <2>1, <2>2 DEF IndInv, TypeOK, AuditCreated
<1>2. OneSendJob' /\ JobsInv'
  BY DEF IndInv, OneSendJob, TypeOK, JobsInv, AuditCreated, SetJob
<1>3. ApprovalsInv'
  BY DEF IndInv, TypeOK, ApprovalsInv, AuditCreated, SetJob
<1>4. WorkersInv'
  BY DEF IndInv, TypeOK, ApprovalsInv, WorkersInv, AuditCreated, SetJob
<1>5. RequestsInv'
  BY DEF IndInv, TypeOK, RequestsInv, AuditCreated, SetJob
<1> QED BY <1>1, <1>2, <1>3, <1>4, <1>5 DEF IndInv

LEMMA ProviderServesPreserves ==
    ASSUME IndInv, NEW w \in Workers, ProviderServes(w) PROVE IndInv'
<1>1. TypeOK'
  <2>1. wk' \in [Workers -> WorkerState]
    BY WorkerAtType DEF IndInv, TypeOK, WorkerPcs, ProviderServes
  <2>2. drafted' \subseteq Approvals
    BY DEF IndInv, TypeOK, WorkersInv, ProviderServes
  <2> QED BY <2>1, <2>2 DEF IndInv, TypeOK, ProviderServes
<1>2. OneSendJob' /\ JobsInv'
  BY DEF IndInv, OneSendJob, TypeOK, JobsInv, ProviderServes, WorkerAt, RequestAt, SetJob,
       IdleWorker, DoneRequest, NoBody
<1>3. ApprovalsInv'
  BY DEF IndInv, TypeOK, ApprovalsInv, ProviderServes, WorkerAt, RequestAt, SetJob,
       IdleWorker, DoneRequest, NoBody
<1>4. WorkersInv'
  BY DEF IndInv, TypeOK, WorkersInv, ProviderServes, WorkerAt, RequestAt, SetJob,
       IdleWorker, DoneRequest, NoBody
<1>5. RequestsInv'
  BY DEF IndInv, TypeOK, RequestsInv, ProviderServes, WorkerAt, RequestAt, SetJob,
       IdleWorker, DoneRequest, NoBody
<1> QED BY <1>1, <1>2, <1>3, <1>4, <1>5 DEF IndInv

LEMMA MergeDraftPreserves ==
    ASSUME IndInv, NEW w \in Workers, MergeDraft(w) PROVE IndInv'
<1>1. TypeOK'
  <2>1. approvals' \in [Approvals -> ApprovalRow]
    <3>1. wk[w].appr \in Approvals /\ wk[w].body \in Bodies /\ wk[w].msg \in Nat
      BY DEF IndInv, TypeOK, WorkerState, WorkersInv, MergeDraft
    <3>2. [wk[w].body EXCEPT !.draft = TRUE] \in Bodies
      BY <3>1 DEF Bodies
    <3> QED BY <3>1, <3>2 DEF IndInv, TypeOK, ApprovalRow, MergeDraft
  <2>2. wk' \in [Workers -> WorkerState]
    BY WorkerAtType DEF IndInv, TypeOK, WorkerPcs, MergeDraft
  <2> QED BY <2>1, <2>2 DEF IndInv, TypeOK, MergeDraft
<1>2. OneSendJob' /\ JobsInv'
  BY DEF IndInv, OneSendJob, TypeOK, JobsInv, MergeDraft, WorkerAt, RequestAt, SetJob,
       IdleWorker, DoneRequest, NoBody
<1>3. ApprovalsInv'
  BY DEF IndInv, TypeOK, ApprovalsInv, WorkersInv, MergeDraft, WorkerAt, RequestAt,
       SetJob, IdleWorker, DoneRequest, NoBody
<1>4. WorkersInv'
  BY DEF IndInv, TypeOK, WorkersInv, MergeDraft, WorkerAt, RequestAt, SetJob, IdleWorker,
       DoneRequest, NoBody
<1>5. RequestsInv'
  BY DEF IndInv, TypeOK, RequestsInv, MergeDraft, WorkerAt, RequestAt, SetJob, IdleWorker,
       DoneRequest, NoBody
<1> QED BY <1>1, <1>2, <1>3, <1>4, <1>5 DEF IndInv

LEMMA UpsertDeliveryPreserves ==
    ASSUME IndInv, NEW w \in Workers, UpsertDelivery(w) PROVE IndInv'
<1>1. TypeOK'
  <2>1. deliveries' \in [Approvals -> DeliveryRow]
    BY DEF IndInv, TypeOK, DeliveryRow, UpsertDelivery
  <2>2. wk' \in [Workers -> WorkerState]
    BY WorkerAtType DEF IndInv, TypeOK, WorkerPcs, UpsertDelivery
  <2> QED BY <2>1, <2>2 DEF IndInv, TypeOK, UpsertDelivery
<1>2. OneSendJob' /\ JobsInv'
  BY DEF IndInv, OneSendJob, TypeOK, JobsInv, UpsertDelivery, WorkerAt, RequestAt, SetJob,
       IdleWorker, DoneRequest, NoBody
<1>3. ApprovalsInv'
  BY DEF IndInv, TypeOK, ApprovalsInv, UpsertDelivery, WorkerAt, RequestAt, SetJob,
       IdleWorker, DoneRequest, NoBody
<1>4. WorkersInv'
  BY DEF IndInv, TypeOK, WorkersInv, UpsertDelivery, WorkerAt, RequestAt, SetJob,
       IdleWorker, DoneRequest, NoBody
<1>5. RequestsInv'
  BY DEF IndInv, TypeOK, RequestsInv, UpsertDelivery, WorkerAt, RequestAt, SetJob,
       IdleWorker, DoneRequest, NoBody
<1> QED BY <1>1, <1>2, <1>3, <1>4, <1>5 DEF IndInv

LEMMA SendLoadPreserves ==
    ASSUME IndInv, NEW w \in Workers, SendLoad(w) PROVE IndInv'
<1>1. TypeOK'
  <2>1. wk' \in [Workers -> WorkerState]
    <3> DEFINE a == jobs[wk[w].job].appr
               body == approvals[a].body
               p == IF ~ Eligible(approvals[a]) THEN "fail"
                    ELSE IF body.msg # 0 THEN "mark_sent" ELSE "provider"
               new == [wk[w] EXCEPT !.appr = a, !.body = body, !.msg = body.msg, !.pc = p]
    <3>1. wk[w] \in WorkerState /\ a \in Approvals
      BY DEF IndInv, TypeOK, JobsInv, WorkersInv, SendLoad
    <3>2. body \in Bodies /\ body.msg \in Nat
      BY <3>1 DEF IndInv, TypeOK, ApprovalRow, Bodies
    <3>3. p \in WorkerPcs
      BY DEF WorkerPcs
    <3>4. new \in WorkerState
      BY <3>1, <3>2, <3>3 DEF WorkerState
    <3>5. wk' = [wk EXCEPT ![w] = new]
      BY DEF SendLoad
    <3> QED BY <3>4, <3>5 DEF IndInv, TypeOK
  <2> QED BY <2>1 DEF IndInv, TypeOK, SendLoad
<1>2. OneSendJob' /\ JobsInv'
  BY DEF IndInv, OneSendJob, TypeOK, JobsInv, SendLoad, Eligible
<1>3. ApprovalsInv'
  BY DEF IndInv, TypeOK, ApprovalsInv, SendLoad, Eligible
<1>4. WorkersInv'
  <2> DEFINE a == jobs[wk[w].job].appr
             row == approvals[a]
  <2>1. wk[w].job \in Jobs /\ jobs[wk[w].job].type = "send" /\ a \in Approvals
    BY DEF IndInv, JobsInv, WorkersInv, SendLoad
  <2>2. /\ row.body.draft => a \in drafted
        /\ row.body.msg # 0 => sent[a] > 0
    BY <2>1 DEF IndInv, ApprovalsInv
  <2>3. wk'[w].job = wk[w].job /\ wk'[w].appr = a /\ wk'[w].body = row.body
    BY DEF IndInv, TypeOK, WorkerState, SendLoad
  <2>4. \/ wk'[w].pc \in {"fail", "provider"}
        \/ wk'[w].pc = "mark_sent" /\ row.body.msg # 0
    BY DEF IndInv, TypeOK, WorkerState, SendLoad
  <2>5. \A v \in Workers : v # w => wk'[v] = wk[v]
    BY DEF IndInv, TypeOK, SendLoad
  <2>6. UNCHANGED <<jobs, sent, drafted>>
    BY DEF SendLoad
  <2> QED BY <2>1, <2>2, <2>3, <2>4, <2>5, <2>6 DEF IndInv, WorkersInv
<1>5. RequestsInv'
  BY DEF IndInv, TypeOK, RequestsInv, SendLoad, Eligible
<1> QED BY <1>1, <1>2, <1>3, <1>4, <1>5 DEF IndInv

LEMMA ProviderSendsPreserves ==
    ASSUME IndInv, NEW w \in Workers, ProviderSends(w) PROVE IndInv'
<1>1. TypeOK'
  <2>1. sent' \in [Approvals -> Nat]
    BY DEF IndInv, TypeOK, JobsInv, WorkersInv, ProviderSends
  <2>2. wk' \in [Workers -> WorkerState]
    <3> DEFINE new == [wk[w] EXCEPT !.pc = "record",
                                     !.msg = sent[wk[w].appr] + 1]
    <3>1. wk[w] \in WorkerState /\ sent[wk[w].appr] + 1 \in Nat
      BY DEF IndInv, TypeOK, JobsInv, WorkersInv, ProviderSends
    <3>2. new \in WorkerState
      BY <3>1 DEF WorkerState, WorkerPcs
    <3>3. wk' = [wk EXCEPT ![w] = new]
      BY DEF ProviderSends
    <3> QED BY <3>2, <3>3 DEF IndInv, TypeOK
  <2> QED BY <2>1, <2>2 DEF IndInv, TypeOK, ProviderSends
<1>2. OneSendJob' /\ JobsInv'
  BY DEF IndInv, OneSendJob, TypeOK, JobsInv, ProviderSends
<1>3. ApprovalsInv'
  BY DEF IndInv, TypeOK, JobsInv, ApprovalsInv, WorkersInv, ProviderSends
<1>4. WorkersInv'
  BY DEF IndInv, TypeOK, JobsInv, WorkersInv, ProviderSends
<1>5. RequestsInv'
  BY DEF IndInv, TypeOK, RequestsInv, ProviderSends
<1> QED BY <1>1, <1>2, <1>3, <1>4, <1>5 DEF IndInv

LEMMA ProviderRaisesPreserves ==
    ASSUME IndInv, NEW w \in Workers, ProviderRaises(w) PROVE IndInv'
<1>1. TypeOK'
  <2>1. wk' \in [Workers -> WorkerState]
    BY WorkerAtType DEF IndInv, TypeOK, WorkerPcs, ProviderRaises
  <2> QED BY <2>1 DEF IndInv, TypeOK, ProviderRaises
<1>2. OneSendJob' /\ JobsInv'
  BY DEF IndInv, OneSendJob, TypeOK, JobsInv, ProviderRaises, WorkerAt, RequestAt, SetJob,
       IdleWorker, DoneRequest, NoBody
<1>3. ApprovalsInv'
  BY DEF IndInv, TypeOK, ApprovalsInv, ProviderRaises, WorkerAt, RequestAt, SetJob,
       IdleWorker, DoneRequest, NoBody
<1>4. WorkersInv'
  BY DEF IndInv, TypeOK, WorkersInv, ProviderRaises, WorkerAt, RequestAt, SetJob,
       IdleWorker, DoneRequest, NoBody
<1>5. RequestsInv'
  BY DEF IndInv, TypeOK, RequestsInv, ProviderRaises, WorkerAt, RequestAt, SetJob,
       IdleWorker, DoneRequest, NoBody
<1> QED BY <1>1, <1>2, <1>3, <1>4, <1>5 DEF IndInv

LEMMA ProviderSendsAndRaisesPreserves ==
    ASSUME IndInv, NEW w \in Workers, ProviderSendsAndRaises(w) PROVE IndInv'
<1>1. TypeOK'
  <2>1. sent' \in [Approvals -> Nat]
    BY DEF IndInv, TypeOK, JobsInv, WorkersInv, ProviderSendsAndRaises
  <2>2. wk' \in [Workers -> WorkerState]
    BY WorkerAtType DEF IndInv, TypeOK, WorkerPcs, ProviderSendsAndRaises
  <2> QED BY <2>1, <2>2 DEF IndInv, TypeOK, ProviderSendsAndRaises
<1>2. OneSendJob' /\ JobsInv'
  BY DEF IndInv, OneSendJob, TypeOK, JobsInv, ProviderSendsAndRaises, WorkerAt, RequestAt,
       SetJob, IdleWorker, DoneRequest, NoBody
<1>3. ApprovalsInv'
  BY DEF IndInv, TypeOK, JobsInv, ApprovalsInv, WorkersInv, ProviderSendsAndRaises,
       WorkerAt, RequestAt, SetJob, IdleWorker, DoneRequest, NoBody
<1>4. WorkersInv'
  BY DEF IndInv, TypeOK, WorkersInv, ProviderSendsAndRaises, WorkerAt, RequestAt, SetJob,
       IdleWorker, DoneRequest, NoBody
<1>5. RequestsInv'
  BY DEF IndInv, TypeOK, RequestsInv, ProviderSendsAndRaises, WorkerAt, RequestAt, SetJob,
       IdleWorker, DoneRequest, NoBody
<1> QED BY <1>1, <1>2, <1>3, <1>4, <1>5 DEF IndInv

LEMMA RecordSentPreserves ==
    ASSUME IndInv, NEW w \in Workers, RecordSent(w) PROVE IndInv'
<1>1. TypeOK'
  <2>1. approvals' \in [Approvals -> ApprovalRow]
    <3>1. wk[w].appr \in Approvals /\ wk[w].body \in Bodies /\ wk[w].msg \in Nat
      BY DEF IndInv, TypeOK, WorkerState, JobsInv, WorkersInv, RecordSent
    <3>2. [wk[w].body EXCEPT !.msg = wk[w].msg] \in Bodies
      BY <3>1 DEF Bodies
    <3> QED BY <3>1, <3>2 DEF IndInv, TypeOK, ApprovalRow, RecordSent
  <2>2. wk' \in [Workers -> WorkerState]
    BY WorkerAtType DEF IndInv, TypeOK, WorkerPcs, RecordSent
  <2> QED BY <2>1, <2>2 DEF IndInv, TypeOK, RecordSent
<1>2. OneSendJob' /\ JobsInv'
  BY DEF IndInv, OneSendJob, TypeOK, JobsInv, RecordSent, WorkerAt, RequestAt, SetJob,
       IdleWorker, DoneRequest, NoBody
<1>3. ApprovalsInv'
  BY DEF IndInv, TypeOK, ApprovalsInv, WorkersInv, RecordSent, WorkerAt, RequestAt,
       SetJob, IdleWorker, DoneRequest, NoBody
<1>4. WorkersInv'
  BY DEF IndInv, TypeOK, WorkersInv, RecordSent, WorkerAt, RequestAt, SetJob, IdleWorker,
       DoneRequest, NoBody
<1>5. RequestsInv'
  BY DEF IndInv, TypeOK, RequestsInv, RecordSent, WorkerAt, RequestAt, SetJob, IdleWorker,
       DoneRequest, NoBody
<1> QED BY <1>1, <1>2, <1>3, <1>4, <1>5 DEF IndInv

LEMMA MarkDeliverySentPreserves ==
    ASSUME IndInv, NEW w \in Workers, MarkDeliverySent(w) PROVE IndInv'
<1>1. TypeOK'
  <2>1. deliveries' \in [Approvals -> DeliveryRow]
    BY DEF IndInv, TypeOK, DeliveryRow, WorkerState, MarkDeliverySent
  <2>2. wk' \in [Workers -> WorkerState]
    BY WorkerAtType DEF IndInv, TypeOK, WorkerPcs, MarkDeliverySent
  <2> QED BY <2>1, <2>2 DEF IndInv, TypeOK, MarkDeliverySent
<1>2. OneSendJob' /\ JobsInv'
  BY DEF IndInv, OneSendJob, TypeOK, JobsInv, MarkDeliverySent, WorkerAt, RequestAt,
       SetJob, IdleWorker, DoneRequest, NoBody
<1>3. ApprovalsInv'
  BY DEF IndInv, TypeOK, ApprovalsInv, MarkDeliverySent, WorkerAt, RequestAt, SetJob,
       IdleWorker, DoneRequest, NoBody
<1>4. WorkersInv'
  BY DEF IndInv, TypeOK, WorkersInv, MarkDeliverySent, WorkerAt, RequestAt, SetJob,
       IdleWorker, DoneRequest, NoBody
<1>5. RequestsInv'
  BY DEF IndInv, TypeOK, RequestsInv, MarkDeliverySent, WorkerAt, RequestAt, SetJob,
       IdleWorker, DoneRequest, NoBody
<1> QED BY <1>1, <1>2, <1>3, <1>4, <1>5 DEF IndInv

LEMMA AuditSentPreserves ==
    ASSUME IndInv, NEW w \in Workers, AuditSent(w) PROVE IndInv'
<1>1. TypeOK'
  <2>1. audit' \subseteq AuditActions \X (Jobs \cup Approvals)
    BY AuditedType DEF IndInv, AuditActions, WorkersInv, AuditSent
  <2>2. wk' \in [Workers -> WorkerState]
    BY WorkerAtType DEF IndInv, TypeOK, WorkerPcs, AuditSent
  <2> QED BY <2>1, <2>2 DEF IndInv, TypeOK, AuditSent
<1>2. OneSendJob' /\ JobsInv'
  BY DEF IndInv, OneSendJob, TypeOK, JobsInv, AuditSent, WorkerAt, RequestAt, SetJob,
       IdleWorker, DoneRequest, NoBody
<1>3. ApprovalsInv'
  BY DEF IndInv, TypeOK, ApprovalsInv, AuditSent, WorkerAt, RequestAt, SetJob, IdleWorker,
       DoneRequest, NoBody
<1>4. WorkersInv'
  BY DEF IndInv, TypeOK, WorkersInv, AuditSent, WorkerAt, RequestAt, SetJob, IdleWorker,
       DoneRequest, NoBody
<1>5. RequestsInv'
  BY DEF IndInv, TypeOK, RequestsInv, AuditSent, WorkerAt, RequestAt, SetJob, IdleWorker,
       DoneRequest, NoBody
<1> QED BY <1>1, <1>2, <1>3, <1>4, <1>5 DEF IndInv

LEMMA SucceedPreserves ==
    ASSUME IndInv, NEW w \in Workers, Succeed(w) PROVE IndInv'
<1>1. TypeOK'
  <2>1. jobs' \in [Jobs -> JobRow]
    BY SetJobType DEF IndInv, WorkersInv, RequestsInv, Succeed
  <2>2. wk' \in [Workers -> WorkerState]
    BY WorkerAtType DEF IndInv, TypeOK, WorkerPcs, Succeed
  <2> QED BY <2>1, <2>2 DEF IndInv, TypeOK, Succeed
<1>2. OneSendJob' /\ JobsInv'
  BY DEF IndInv, OneSendJob, TypeOK, JobsInv, WorkersInv, Succeed, WorkerAt, RequestAt,
       SetJob, IdleWorker, DoneRequest, NoBody
<1>3. ApprovalsInv'
  BY DEF IndInv, TypeOK, ApprovalsInv, Succeed, WorkerAt, RequestAt, SetJob, IdleWorker,
       DoneRequest, NoBody
<1>4. WorkersInv'
  BY DEF IndInv, TypeOK, WorkersInv, Succeed, WorkerAt, RequestAt, SetJob, IdleWorker,
       DoneRequest, NoBody
<1>5. RequestsInv'
  BY DEF IndInv, TypeOK, RequestsInv, Succeed, WorkerAt, RequestAt, SetJob, IdleWorker,
       DoneRequest, NoBody
<1> QED BY <1>1, <1>2, <1>3, <1>4, <1>5 DEF IndInv

LEMMA FailPreserves ==
    ASSUME IndInv, NEW w \in Workers, Fail(w) PROVE IndInv'
<1>1. TypeOK'
  <2>1. jobs' \in [Jobs -> JobRow]
    BY SetJobType DEF IndInv, WorkersInv, RequestsInv, Fail
  <2>2. wk' \in [Workers -> WorkerState]
    BY WorkerAtType DEF IndInv, TypeOK, WorkerPcs, Fail
  <2> QED BY <2>1, <2>2 DEF IndInv, TypeOK, Fail
<1>2. OneSendJob' /\ JobsInv'
  BY DEF IndInv, OneSendJob, TypeOK, JobsInv, WorkersInv, Fail, WorkerAt, RequestAt,
       SetJob, IdleWorker, DoneRequest, NoBody
<1>3. ApprovalsInv'
  BY DEF IndInv, TypeOK, ApprovalsInv, Fail, WorkerAt, RequestAt, SetJob, IdleWorker,
       DoneRequest, NoBody
<1>4. WorkersInv'
  BY DEF IndInv, TypeOK, WorkersInv, Fail, WorkerAt, RequestAt, SetJob, IdleWorker,
       DoneRequest, NoBody
<1>5. RequestsInv'
  BY DEF IndInv, TypeOK, RequestsInv, Fail, WorkerAt, RequestAt, SetJob, IdleWorker,
       DoneRequest, NoBody
<1> QED BY <1>1, <1>2, <1>3, <1>4, <1>5 DEF IndInv

LEMMA FailDeliveryPreserves ==
    ASSUME IndInv, NEW w \in Workers, FailDelivery(w) PROVE IndInv'
<1>1. TypeOK'
  <2>1. deliveries' \in [Approvals -> DeliveryRow]
    BY DEF IndInv, TypeOK, DeliveryRow, WorkersInv, FailDelivery
  <2>2. wk' \in [Workers -> WorkerState]
    BY WorkerAtType DEF IndInv, TypeOK, WorkerPcs, FailDelivery
  <2> QED BY <2>1, <2>2 DEF IndInv, TypeOK, FailDelivery
<1>2. OneSendJob' /\ JobsInv'
  BY DEF IndInv, OneSendJob, TypeOK, JobsInv, FailDelivery, WorkerAt, RequestAt, SetJob,
       IdleWorker, DoneRequest, NoBody
<1>3. ApprovalsInv'
  BY DEF IndInv, TypeOK, ApprovalsInv, FailDelivery, WorkerAt, RequestAt, SetJob,
       IdleWorker, DoneRequest, NoBody
<1>4. WorkersInv'
  BY DEF IndInv, TypeOK, WorkersInv, FailDelivery, WorkerAt, RequestAt, SetJob,
       IdleWorker, DoneRequest, NoBody
<1>5. RequestsInv'
  BY DEF IndInv, TypeOK, RequestsInv, FailDelivery, WorkerAt, RequestAt, SetJob,
       IdleWorker, DoneRequest, NoBody
<1> QED BY <1>1, <1>2, <1>3, <1>4, <1>5 DEF IndInv

LEMMA AuditFailedPreserves ==
    ASSUME IndInv, NEW w \in Workers, AuditFailed(w) PROVE IndInv'
<1>1. TypeOK'
  <2>1. audit' \subseteq AuditActions \X (Jobs \cup Approvals)
    BY AuditedType DEF IndInv, AuditActions, WorkersInv, AuditFailed
  <2>2. wk' \in [Workers -> WorkerState]
    BY WorkerAtType DEF IndInv, TypeOK, WorkerPcs, AuditFailed
  <2> QED BY <2>1, <2>2 DEF IndInv, TypeOK, AuditFailed
<1>2. OneSendJob' /\ JobsInv'
  BY DEF IndInv, OneSendJob, TypeOK, JobsInv, AuditFailed, WorkerAt, RequestAt, SetJob,
       IdleWorker, DoneRequest, NoBody
<1>3. ApprovalsInv'
  BY DEF IndInv, TypeOK, ApprovalsInv, AuditFailed, WorkerAt, RequestAt, SetJob,
       IdleWorker, DoneRequest, NoBody
<1>4. WorkersInv'
  BY DEF IndInv, TypeOK, WorkersInv, AuditFailed, WorkerAt, RequestAt, SetJob, IdleWorker,
       DoneRequest, NoBody
<1>5. RequestsInv'
  BY DEF IndInv, TypeOK, RequestsInv, AuditFailed, WorkerAt, RequestAt, SetJob,
       IdleWorker, DoneRequest, NoBody
<1> QED BY <1>1, <1>2, <1>3, <1>4, <1>5 DEF IndInv

LEMMA AuditRaisesPreserves ==
    ASSUME IndInv, NEW w \in Workers, AuditRaises(w) PROVE IndInv'
<1>1. TypeOK'
  <2>1. wk' \in [Workers -> WorkerState]
    BY WorkerAtType DEF IndInv, TypeOK, WorkerPcs, AuditRaises
  <2> QED BY <2>1 DEF IndInv, TypeOK, AuditRaises
<1>2. OneSendJob' /\ JobsInv'
  BY DEF IndInv, OneSendJob, TypeOK, JobsInv, AuditRaises, WorkerAt, RequestAt, SetJob,
       IdleWorker, DoneRequest, NoBody
<1>3. ApprovalsInv'
  BY DEF IndInv, TypeOK, ApprovalsInv, AuditRaises, WorkerAt, RequestAt, SetJob,
       IdleWorker, DoneRequest, NoBody
<1>4. WorkersInv'
  BY DEF IndInv, TypeOK, WorkersInv, AuditRaises, WorkerAt, RequestAt, SetJob, IdleWorker,
       DoneRequest, NoBody
<1>5. RequestsInv'
  BY DEF IndInv, TypeOK, RequestsInv, AuditRaises, WorkerAt, RequestAt, SetJob,
       IdleWorker, DoneRequest, NoBody
<1> QED BY <1>1, <1>2, <1>3, <1>4, <1>5 DEF IndInv

LEMMA RaisePreserves ==
    ASSUME IndInv, NEW w \in Workers, Raise(w) PROVE IndInv'
<1>1. TypeOK'
  <2>1. jobs' \in [Jobs -> JobRow]
    BY SetJobType DEF IndInv, WorkersInv, RequestsInv, Raise
  <2>2. wk' \in [Workers -> WorkerState]
    BY WorkerAtType DEF IndInv, TypeOK, WorkerPcs, Raise
  <2> QED BY <2>1, <2>2 DEF IndInv, TypeOK, Raise
<1>2. OneSendJob' /\ JobsInv'
  BY DEF IndInv, OneSendJob, TypeOK, JobsInv, WorkersInv, Raise, WorkerAt, RequestAt,
       SetJob, IdleWorker, DoneRequest, NoBody
<1>3. ApprovalsInv'
  BY DEF IndInv, TypeOK, ApprovalsInv, Raise, WorkerAt, RequestAt, SetJob, IdleWorker,
       DoneRequest, NoBody
<1>4. WorkersInv'
  BY DEF IndInv, TypeOK, WorkersInv, Raise, WorkerAt, RequestAt, SetJob, IdleWorker,
       DoneRequest, NoBody
<1>5. RequestsInv'
  BY DEF IndInv, TypeOK, RequestsInv, Raise, WorkerAt, RequestAt, SetJob, IdleWorker,
       DoneRequest, NoBody
<1> QED BY <1>1, <1>2, <1>3, <1>4, <1>5 DEF IndInv

LEMMA WorkerDiesPreserves ==
    ASSUME IndInv, NEW w \in Workers, WorkerDies(w) PROVE IndInv'
<1>1. TypeOK'
  <2>1. wk' \in [Workers -> WorkerState]
    BY WorkerAtType DEF IndInv, TypeOK, WorkerPcs, WorkerDies
  <2> QED BY <2>1 DEF IndInv, TypeOK, WorkerDies
<1>2. OneSendJob' /\ JobsInv'
  BY DEF IndInv, OneSendJob, TypeOK, JobsInv, WorkerDies, WorkerAt, RequestAt, SetJob,
       IdleWorker, DoneRequest, NoBody
<1>3. ApprovalsInv'
  BY DEF IndInv, TypeOK, ApprovalsInv, WorkerDies, WorkerAt, RequestAt, SetJob,
       IdleWorker, DoneRequest, NoBody
<1>4. WorkersInv'
  BY DEF IndInv, TypeOK, WorkersInv, WorkerDies, WorkerAt, RequestAt, SetJob, IdleWorker,
       DoneRequest, NoBody
<1>5. RequestsInv'
  BY DEF IndInv, TypeOK, RequestsInv, WorkerDies, WorkerAt, RequestAt, SetJob, IdleWorker,
       DoneRequest, NoBody
<1> QED BY <1>1, <1>2, <1>3, <1>4, <1>5 DEF IndInv

LEMMA DecideReadPreserves ==
    ASSUME IndInv, NEW q \in Requests, NEW op \in {"approve", "reject"},
           NEW a \in Approvals, DecideRead(q, op, a) PROVE IndInv'
<1>1. TypeOK'
  <2>1. rq' \in [Requests -> RequestState]
    BY DEF IndInv, TypeOK, RequestState, RequestPcs, ApprovalRow, Bodies, DoneRequest,
         NoBody, DecideRead
  <2> QED BY <2>1 DEF IndInv, TypeOK, DecideRead
<1>2. OneSendJob' /\ JobsInv'
  BY DEF IndInv, OneSendJob, TypeOK, JobsInv, DecideRead, DoneRequest, NoBody
<1>3. ApprovalsInv'
  BY DEF IndInv, TypeOK, ApprovalsInv, DecideRead, DoneRequest, NoBody
<1>4. WorkersInv'
  BY DEF IndInv, TypeOK, WorkersInv, DecideRead, DoneRequest, NoBody
<1>5. RequestsInv'
  BY DEF IndInv, TypeOK, ApprovalsInv, RequestsInv, DecideRead, DoneRequest, NoBody
<1> QED BY <1>1, <1>2, <1>3, <1>4, <1>5 DEF IndInv

LEMMA DecideCommitPreserves ==
    ASSUME IndInv, NEW q \in Requests, DecideCommit(q) PROVE IndInv'
<1>1. TypeOK'
  <2>1. approvals' \in [Approvals -> ApprovalRow]
    BY DEF IndInv, TypeOK, ApprovalRow, RequestState, Bodies, NoBody, RequestsInv,
         DecideCommit
  <2>2. rq' \in [Requests -> RequestState]
    BY RequestAtType DEF IndInv, TypeOK, RequestPcs, DecideCommit
  <2>3. approved' \subseteq Approvals
    BY DEF IndInv, TypeOK, RequestsInv, DecideCommit
  <2> QED BY <2>1, <2>2, <2>3 DEF IndInv, TypeOK, DecideCommit
<1>2. OneSendJob' /\ JobsInv'
  BY DEF IndInv, OneSendJob, TypeOK, JobsInv, DecideCommit, RequestAt, SetJob,
       DoneRequest, NoBody
<1>3. ApprovalsInv'
  BY DEF IndInv, TypeOK, ApprovalsInv, RequestsInv, DecideCommit, RequestAt, SetJob,
       DoneRequest, NoBody
<1>4. WorkersInv'
  BY DEF IndInv, TypeOK, WorkersInv, DecideCommit, RequestAt, SetJob, DoneRequest, NoBody
<1>5. RequestsInv'
  BY DEF IndInv, TypeOK, RequestsInv, DecideCommit, RequestAt, SetJob, DoneRequest, NoBody
<1> QED BY <1>1, <1>2, <1>3, <1>4, <1>5 DEF IndInv

LEMMA DecideAuditPreserves ==
    ASSUME IndInv, NEW q \in Requests, DecideAudit(q) PROVE IndInv'
<1>1. TypeOK'
  <2>1. audit' \subseteq AuditActions \X (Jobs \cup Approvals)
    BY AuditedType DEF IndInv, AuditActions, RequestsInv, DecideAudit
  <2>2. rq' \in [Requests -> RequestState]
    BY RequestAtType DEF IndInv, TypeOK, RequestPcs, DecideAudit
  <2> QED BY <2>1, <2>2 DEF IndInv, TypeOK, DecideAudit
<1>2. OneSendJob' /\ JobsInv'
  BY DEF IndInv, OneSendJob, TypeOK, JobsInv, DecideAudit, RequestAt, SetJob, DoneRequest,
       NoBody
<1>3. ApprovalsInv'
  BY DEF IndInv, TypeOK, ApprovalsInv, DecideAudit, RequestAt, SetJob, DoneRequest, NoBody
<1>4. WorkersInv'
  BY DEF IndInv, TypeOK, WorkersInv, DecideAudit, RequestAt, SetJob, DoneRequest, NoBody
<1>5. RequestsInv'
  BY DEF IndInv, TypeOK, RequestsInv, DecideAudit, RequestAt, SetJob, DoneRequest, NoBody
<1> QED BY <1>1, <1>2, <1>3, <1>4, <1>5 DEF IndInv

LEMMA EnqueuePreserves ==
    ASSUME IndInv, NEW q \in Requests, Enqueue(q) PROVE IndInv'
<1>1. TypeOK'
  <2>1. rq' \in [Requests -> RequestState]
    BY RequestAtType DEF IndInv, TypeOK, RequestPcs, Enqueue
  <2> QED BY <2>1 DEF IndInv, TypeOK, Enqueue
<1>2. OneSendJob' /\ JobsInv'
  BY DEF IndInv, OneSendJob, TypeOK, JobsInv, Enqueue, RequestAt, SetJob, DoneRequest,
       NoBody, Eligible
<1>3. ApprovalsInv'
  BY DEF IndInv, TypeOK, ApprovalsInv, Enqueue, RequestAt, SetJob, DoneRequest, NoBody,
       Eligible
<1>4. WorkersInv'
  BY DEF IndInv, TypeOK, WorkersInv, Enqueue, RequestAt, SetJob, DoneRequest, NoBody,
       Eligible
<1>5. RequestsInv'
  BY DEF IndInv, TypeOK, ApprovalsInv, RequestsInv, Enqueue, RequestAt, SetJob,
       DoneRequest, NoBody, Eligible
<1> QED BY <1>1, <1>2, <1>3, <1>4, <1>5 DEF IndInv

LEMMA LookupSendJobPreserves ==
    ASSUME IndInv, NEW q \in Requests, LookupSendJob(q) PROVE IndInv'
<1>1. TypeOK'
  <2>1. rq' \in [Requests -> RequestState]
    BY RequestAtType DEF IndInv, TypeOK, RequestPcs, LookupSendJob
  <2> QED BY <2>1 DEF IndInv, TypeOK, LookupSendJob
<1>2. OneSendJob' /\ JobsInv'
  BY DEF IndInv, OneSendJob, SendJobsOf, TypeOK, JobsInv, LookupSendJob, RequestAt,
       SetJob, DoneRequest, NoBody
<1>3. ApprovalsInv'
  BY DEF IndInv, TypeOK, ApprovalsInv, LookupSendJob, RequestAt, SetJob, DoneRequest,
       NoBody
<1>4. WorkersInv'
  BY DEF IndInv, TypeOK, WorkersInv, LookupSendJob, RequestAt, SetJob, DoneRequest, NoBody
<1>5. RequestsInv'
  BY DEF IndInv, TypeOK, RequestsInv, LookupSendJob, RequestAt, SetJob, DoneRequest,
       NoBody
<1> QED BY <1>1, <1>2, <1>3, <1>4, <1>5 DEF IndInv

LEMMA CreateSendJobPreserves ==
    ASSUME IndInv, NEW q \in Requests, NEW j \in Jobs, CreateSendJob(q, j) PROVE IndInv'
<1>1. TypeOK'
  <2>1. jobs' \in [Jobs -> JobRow]
    BY DEF IndInv, TypeOK, JobRow, Kinds, RequestsInv, CreateSendJob
  <2>2. rq' \in [Requests -> RequestState]
    BY RequestAtType DEF IndInv, TypeOK, RequestPcs, CreateSendJob
  <2> QED BY <2>1, <2>2 DEF IndInv, TypeOK, CreateSendJob
<1>2. OneSendJob' /\ JobsInv'
  BY DEF IndInv, OneSendJob, SendJobsOf, TypeOK, JobsInv, RequestsInv, CreateSendJob,
       RequestAt, SetJob, DoneRequest, NoBody
<1>3. ApprovalsInv'
  BY DEF IndInv, TypeOK, ApprovalsInv, CreateSendJob, RequestAt, SetJob, DoneRequest,
       NoBody
<1>4. WorkersInv'
  BY DEF IndInv, TypeOK, JobsInv, WorkersInv, CreateSendJob, RequestAt, SetJob,
       DoneRequest, NoBody
<1>5. RequestsInv'
  BY DEF IndInv, TypeOK, RequestsInv, CreateSendJob, RequestAt, SetJob, DoneRequest,
       NoBody
<1> QED BY <1>1, <1>2, <1>3, <1>4, <1>5 DEF IndInv

LEMMA CreateConflictsPreserves ==
    ASSUME IndInv, NEW q \in Requests, CreateConflicts(q) PROVE IndInv'
<1>1. TypeOK'
  <2>1. rq' \in [Requests -> RequestState]
    BY RequestAtType DEF IndInv, TypeOK, RequestPcs, CreateConflicts
  <2> QED BY <2>1 DEF IndInv, TypeOK, CreateConflicts
<1>2. OneSendJob' /\ JobsInv'
  BY DEF IndInv, OneSendJob, SendJobsOf, TypeOK, JobsInv, CreateConflicts, RequestAt,
       SetJob, DoneRequest, NoBody
<1>3. ApprovalsInv'
  BY DEF IndInv, TypeOK, ApprovalsInv, CreateConflicts, RequestAt, SetJob, DoneRequest,
       NoBody
<1>4. WorkersInv'
  BY DEF IndInv, TypeOK, WorkersInv, CreateConflicts, RequestAt, SetJob, DoneRequest,
       NoBody
<1>5. RequestsInv'
  BY DEF IndInv, TypeOK, RequestsInv, CreateConflicts, RequestAt, SetJob, DoneRequest,
       NoBody
<1> QED BY <1>1, <1>2, <1>3, <1>4, <1>5 DEF IndInv

LEMMA AuditEnqueuedPreserves ==
    ASSUME IndInv, NEW q \in Requests, AuditEnqueued(q) PROVE IndInv'
<1>1. TypeOK'
  <2>1. audit' \subseteq AuditActions \X (Jobs \cup Approvals)
    BY AuditedType DEF IndInv, AuditActions, RequestsInv, AuditEnqueued
  <2>2. rq' \in [Requests -> RequestState]
    BY RequestAtType DEF IndInv, TypeOK, RequestPcs, AuditEnqueued
  <2> QED BY <2>1, <2>2 DEF IndInv, TypeOK, AuditEnqueued
<1>2. OneSendJob' /\ JobsInv'
  BY DEF IndInv, OneSendJob, TypeOK, JobsInv, AuditEnqueued, RequestAt, SetJob,
       DoneRequest, NoBody
<1>3. ApprovalsInv'
  BY DEF IndInv, TypeOK, ApprovalsInv, AuditEnqueued, RequestAt, SetJob, DoneRequest,
       NoBody
<1>4. WorkersInv'
  BY DEF IndInv, TypeOK, WorkersInv, AuditEnqueued, RequestAt, SetJob, DoneRequest, NoBody
<1>5. RequestsInv'
  BY DEF IndInv, TypeOK, RequestsInv, AuditEnqueued, RequestAt, SetJob, DoneRequest,
       NoBody
<1> QED BY <1>1, <1>2, <1>3, <1>4, <1>5 DEF IndInv

LEMMA RetryReadPreserves ==
    ASSUME IndInv, NEW q \in Requests, NEW j \in Jobs, RetryRead(q, j) PROVE IndInv'
<1>1. TypeOK'
  <2>1. rq' \in [Requests -> RequestState]
    BY DEF IndInv, TypeOK, RequestState, RequestPcs, ApprovalRow, Bodies, DoneRequest,
         NoBody, RetryRead
  <2> QED BY <2>1 DEF IndInv, TypeOK, RetryRead
<1>2. OneSendJob' /\ JobsInv'
  BY DEF IndInv, OneSendJob, TypeOK, JobsInv, RetryRead, DoneRequest, NoBody
<1>3. ApprovalsInv'
  BY DEF IndInv, TypeOK, ApprovalsInv, RetryRead, DoneRequest, NoBody
<1>4. WorkersInv'
  BY DEF IndInv, TypeOK, WorkersInv, RetryRead, DoneRequest, NoBody
<1>5. RequestsInv'
  BY DEF IndInv, TypeOK, RequestsInv, RetryRead, DoneRequest, NoBody
<1> QED BY <1>1, <1>2, <1>3, <1>4, <1>5 DEF IndInv

LEMMA RetryCommitPreserves ==
    ASSUME IndInv, NEW q \in Requests, RetryCommit(q) PROVE IndInv'
<1>1. TypeOK'
  <2>1. jobs' \in [Jobs -> JobRow]
    BY SetJobType DEF IndInv, WorkersInv, RequestsInv, RetryCommit
  <2>2. rq' \in [Requests -> RequestState]
    BY RequestAtType DEF IndInv, TypeOK, RequestPcs, RetryCommit
  <2> QED BY <2>1, <2>2 DEF IndInv, TypeOK, RetryCommit
<1>2. OneSendJob' /\ JobsInv'
  BY DEF IndInv, OneSendJob, TypeOK, JobsInv, RequestsInv, RetryCommit, RequestAt, SetJob,
       DoneRequest, NoBody
<1>3. ApprovalsInv'
  BY DEF IndInv, TypeOK, ApprovalsInv, RetryCommit, RequestAt, SetJob, DoneRequest, NoBody
<1>4. WorkersInv'
  BY DEF IndInv, TypeOK, WorkersInv, RetryCommit, RequestAt, SetJob, DoneRequest, NoBody
<1>5. RequestsInv'
  BY DEF IndInv, TypeOK, RequestsInv, RetryCommit, RequestAt, SetJob, DoneRequest, NoBody
<1> QED BY <1>1, <1>2, <1>3, <1>4, <1>5 DEF IndInv

LEMMA RequestDiesPreserves ==
    ASSUME IndInv, NEW q \in Requests, RequestDies(q) PROVE IndInv'
<1>1. TypeOK'
  <2>1. rq' \in [Requests -> RequestState]
    BY RequestAtType DEF IndInv, TypeOK, RequestPcs, RequestDies
  <2> QED BY <2>1 DEF IndInv, TypeOK, RequestDies
<1>2. OneSendJob' /\ JobsInv'
  BY DEF IndInv, OneSendJob, TypeOK, JobsInv, RequestDies, RequestAt, SetJob, DoneRequest,
       NoBody
<1>3. ApprovalsInv'
  BY DEF IndInv, TypeOK, ApprovalsInv, RequestDies, RequestAt, SetJob, DoneRequest, NoBody
<1>4. WorkersInv'
  BY DEF IndInv, TypeOK, WorkersInv, RequestDies, RequestAt, SetJob, DoneRequest, NoBody
<1>5. RequestsInv'
  BY DEF IndInv, TypeOK, RequestsInv, RequestDies, RequestAt, SetJob, DoneRequest, NoBody
<1> QED BY <1>1, <1>2, <1>3, <1>4, <1>5 DEF IndInv

-----------------------------------------------------------------------------
LEMMA InitEstablishes == Init => IndInv
<1> SUFFICES ASSUME Init PROVE IndInv
  OBVIOUS
<1>1. TypeOK
  BY DEF Init, TypeOK, JobRow, ApprovalRow, DeliveryRow, WorkerState, RequestState,
       Bodies, Kinds, WorkerPcs, RequestPcs, IdleWorker, DoneRequest, NoBody, NoJob
<1>2. OneSendJob /\ JobsInv /\ ApprovalsInv
  BY DEF Init, OneSendJob, JobsInv, ApprovalsInv, NoJob, NoBody
<1>3. WorkersInv /\ RequestsInv
  BY DEF Init, WorkersInv, RequestsInv, IdleWorker, DoneRequest
<1> QED BY <1>1, <1>2, <1>3 DEF IndInv

LEMMA NextPreserves == IndInv /\ [Next]_vars => IndInv'
<1> SUFFICES ASSUME IndInv, [Next]_vars PROVE IndInv'
  OBVIOUS
<1>1. CASE UNCHANGED vars
  BY <1>1 DEF IndInv, TypeOK, OneSendJob, JobsInv, ApprovalsInv, WorkersInv, RequestsInv,
       vars
<1>2. CASE \E j \in Jobs, kind \in Kinds : Chat(j, kind)
  BY <1>2, ChatPreserves
<1>3. ASSUME NEW w \in Workers, Work(w) \/ IdlePoll(w) \/ WorkerDies(w) PROVE IndInv'
  <2>1. CASE (\E j \in Jobs : ClaimRead(w, j)) \/ WorkerDies(w)
    BY <2>1, ClaimReadPreserves, WorkerDiesPreserves
  <2>2. CASE IdlePoll(w)
    BY <2>2, <1>1 DEF IdlePoll
  <2>3. CASE Process(w)
    BY <2>3, ClaimCommitPreserves, OrchestratePreserves, CreateRequestPreserves,
         AuditCreatedPreserves, ProviderServesPreserves, MergeDraftPreserves,
         UpsertDeliveryPreserves, SendLoadPreserves, ProviderSendsPreserves,
         ProviderRaisesPreserves, ProviderSendsAndRaisesPreserves, RecordSentPreserves,
         MarkDeliverySentPreserves, AuditSentPreserves, SucceedPreserves, FailPreserves,
         FailDeliveryPreserves, AuditFailedPreserves, AuditRaisesPreserves, RaisePreserves
         DEF Process
  <2> QED BY <1>3, <2>1, <2>2, <2>3 DEF Work
<1>4. ASSUME NEW q \in Requests, Operator(q) \/ Serve(q) \/ RequestDies(q) PROVE IndInv'
  <2>1. CASE Operator(q) \/ RequestDies(q)
    BY <2>1, DecideReadPreserves, RetryReadPreserves, RequestDiesPreserves DEF Operator
  <2>2. CASE Serve(q)
    BY <2>2, DecideCommitPreserves, DecideAuditPreserves, EnqueuePreserves,
         LookupSendJobPreserves, CreateSendJobPreserves, CreateConflictsPreserves,
         AuditEnqueuedPreserves, RetryCommitPreserves DEF Serve
  <2> QED BY <1>4, <2>1, <2>2
<1> QED BY <1>1, <1>2, <1>3, <1>4 DEF Next

\* IndInv holds in every reachable state of the pipeline.
THEOREM Invariance == Spec => []IndInv
BY InitEstablishes, NextPreserves, PTL DEF Spec

\* The tables and the locals of workers and requests keep their types.
THEOREM PipelineTypeCorrect == Spec => []TypeOK
<1>1. IndInv => TypeOK
  BY DEF IndInv
<1> QED BY <1>1, Invariance, PTL

\* At most one send job per approval, however approve calls race.
THEOREM SendJobsAreUnique == Spec => []OneSendJob
<1>1. IndInv => OneSendJob
  BY DEF IndInv
<1> QED BY <1>1, Invariance, PTL

\* No send job and no message without a committed approve and a draft.
THEOREM NothingSentUnapproved == Spec => []SendNeedsApprovedDraft
<1>1. IndInv => SendNeedsApprovedDraft
  BY DEF IndInv, JobsInv, ApprovalsInv, SendNeedsApprovedDraft
<1> QED BY <1>1, Invariance, PTL

\* A send job that is marked succeeded has sent its message.
THEOREM SuccessIsTruthful == Spec => []SucceededMeansSent
<1>1. IndInv => SucceededMeansSent
  BY DEF IndInv, JobsInv, SucceededMeansSent
<1> QED BY <1>1, Invariance, PTL
=============================================================================
