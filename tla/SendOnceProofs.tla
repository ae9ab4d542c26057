---------------------------- MODULE SendOnceProofs ----------------------------
(***************************************************************************)
(* At most one message for an approval, for any number of jobs, approvals  *)
(* and operator requests.  Decisions are made one at a time in the         *)
(* theorems on decisions; the theorems on sending are about one worker     *)
(* whose provider does not both send and raise, and either retries made    *)
(* one at a time or processes that do not die.                             *)
(***************************************************************************)
EXTENDS SendPipelineProofs

Decisions == {"approve", "reject"}
SerialDecisions == Decisions \subseteq SerialOps

-----------------------------------------------------------------------------
(* Decisions.                                                              *)

\* A decision under way is on an approval that is still pending, and the history of
\* approvals agrees with the table.
DecisionsInv ==
    /\ \A q, r \in Requests :
         Active(q) /\ Active(r) /\ rq[q].op \in SerialOps /\ rq[r].op \in SerialOps => q = r
    /\ \A q \in Requests :
         rq[q].pc = "decide" => /\ rq[q].op \in Decisions
                                /\ approvals[rq[q].target].status = "pending"
    /\ \A a \in approved : approvals[a].status = "approved"

\* What a step may do to the status of an approval.
LEMMA StatusStep ==
    ASSUME IndInv, [Next]_vars, NEW a \in Approvals
    PROVE  \/ approvals'[a].status = approvals[a].status /\ (a \in approved' => a \in approved)
           \/ approvals[a].status = "none" /\ approvals'[a].status = "pending" /\ approved' = approved
           \/ \E q \in Requests :
                /\ DecideCommit(q) /\ rq[q].target = a
                /\ rq'[q].pc = "audit"
                /\ approvals'[a].status = IF rq[q].op = "approve" THEN "approved" ELSE "rejected"
                /\ a \in approved' => rq[q].op = "approve" \/ a \in approved
<1>1. ASSUME NEW w \in Workers, NEW b \in Approvals, CreateRequest(w, b)
      PROVE  \/ approvals'[a].status = approvals[a].status
             \/ approvals[a].status = "none" /\ approvals'[a].status = "pending"
  BY <1>1 DEF CreateRequest, IndInv, TypeOK
<1>2. ASSUME NEW w \in Workers, MergeDraft(w) \/ RecordSent(w)
      PROVE  approvals'[a].status = approvals[a].status
  <2>1. \E body : approvals' = [approvals EXCEPT ![wk[w].appr].body = body]
    BY <1>2 DEF MergeDraft, RecordSent
  <2>2. approvals[a] \in ApprovalRow
    BY DEF IndInv, TypeOK
  <2> QED BY <2>1, <2>2 DEF IndInv, TypeOK, ApprovalRow
<1>3. ASSUME NEW q \in Requests, DecideCommit(q)
      PROVE  \/ approvals'[a].status = approvals[a].status /\ (a \in approved' => a \in approved)
             \/ /\ rq[q].target = a
                /\ rq'[q].pc = "audit"
                /\ approvals'[a].status = IF rq[q].op = "approve" THEN "approved" ELSE "rejected"
                /\ a \in approved' => rq[q].op = "approve" \/ a \in approved
  BY <1>3 DEF DecideCommit, RequestAt, IndInv, TypeOK
<1>4. \/ UNCHANGED <<approvals, approved>>
      \/ /\ UNCHANGED approved
         /\ \E w \in Workers : (\E b \in Approvals : CreateRequest(w, b)) \/ MergeDraft(w)
                               \/ RecordSent(w)
      \/ \E q \in Requests : DecideCommit(q)
  BY DEF Next, Work, Process, Operator, Serve, vars, Chat, ClaimRead, IdlePoll, ClaimCommit,
         Orchestrate, CreateRequest, AuditCreated, ProviderServes, MergeDraft, UpsertDelivery,
         SendLoad, ProviderSends, ProviderRaises, ProviderSendsAndRaises, RecordSent,
         MarkDeliverySent, AuditSent, Succeed, Fail, FailDelivery, AuditFailed, AuditRaises,
         Raise, WorkerDies, DecideRead, DecideAudit, Enqueue, LookupSendJob, CreateSendJob,
         CreateConflicts, AuditEnqueued, RetryRead, RetryCommit, RequestDies
<1> QED BY <1>1, <1>2, <1>3, <1>4

\* What a step may do to a request: it starts when it may, goes on, or ends.
LEMMA RequestStep ==
    ASSUME IndInv, [Next]_vars, NEW q \in Requests
    PROVE  \/ rq'[q] = rq[q]
           \/ ~ Active(q)'
           \/ /\ Active(q) /\ rq'[q].op = rq[q].op
              /\ rq'[q].pc \notin {"decide", "retry"}
           \/ /\ \E op \in Decisions, a \in Approvals : DecideRead(q, op, a)
              /\ rq'[q].pc = "decide" /\ rq'[q].op \in Decisions
              /\ MayCall(rq'[q].op)
              /\ approvals[rq'[q].target].status = "pending"
              /\ UNCHANGED <<approvals, jobs>>
              /\ \A r \in Requests \ {q} : rq'[r] = rq[r]
           \/ /\ \E j \in Jobs : RetryRead(q, j)
              /\ rq'[q].pc = "retry" /\ rq'[q].op = "retry"
              /\ MayCall(rq'[q].op)
              /\ jobs[rq'[q].target].status = "failed"
              /\ UNCHANGED <<approvals, jobs>>
              /\ \A r \in Requests \ {q} : rq'[r] = rq[r]
<1>1. ASSUME NEW r \in Requests, r # q, Operator(r) \/ Serve(r) \/ RequestDies(r)
      PROVE  rq'[q] = rq[q]
  BY <1>1 DEF Operator, Serve, DecideRead, DecideCommit, DecideAudit, Enqueue, LookupSendJob,
              CreateSendJob, CreateConflicts, AuditEnqueued, RetryRead, RetryCommit, RequestDies,
              RequestAt, IndInv, TypeOK
<1>2. ASSUME Serve(q) \/ RequestDies(q)
      PROVE  \/ ~ Active(q)'
             \/ /\ Active(q) /\ rq'[q].op = rq[q].op
                /\ rq'[q].pc \notin {"decide", "retry"}
  <2>1. Active(q)
    BY <1>2 DEF Serve, DecideCommit, DecideAudit, Enqueue, LookupSendJob, CreateSendJob,
                CreateConflicts, AuditEnqueued, RetryCommit, RequestDies, Active
  <2>2. \E p \in RequestPcs \ {"decide", "retry"} : RequestAt(q, p)
    BY <1>2 DEF Serve, DecideCommit, DecideAudit, Enqueue, LookupSendJob, CreateSendJob,
                CreateConflicts, AuditEnqueued, RetryCommit, RequestDies, RequestPcs
  <2>3. rq[q] \in RequestState
    BY DEF IndInv, TypeOK
  <2> QED BY <2>1, <2>2, <2>3 DEF RequestAt, Active, DoneRequest, IndInv, TypeOK, RequestState
<1>3. ASSUME NEW op \in Decisions, NEW a \in Approvals, DecideRead(q, op, a)
      PROVE  \/ ~ Active(q)'
             \/ /\ rq'[q].pc = "decide" /\ rq'[q].op \in Decisions
                /\ MayCall(rq'[q].op)
                /\ approvals[rq'[q].target].status = "pending"
                /\ UNCHANGED <<approvals, jobs>>
                /\ \A r \in Requests \ {q} : rq'[r] = rq[r]
  BY <1>3 DEF DecideRead, Active, DoneRequest, IndInv, TypeOK
<1>4. ASSUME NEW j \in Jobs, RetryRead(q, j)
      PROVE  \/ ~ Active(q)'
             \/ /\ rq'[q].pc = "retry" /\ rq'[q].op = "retry"
                /\ MayCall(rq'[q].op)
                /\ jobs[rq'[q].target].status = "failed"
                /\ UNCHANGED <<approvals, jobs>>
                /\ \A r \in Requests \ {q} : rq'[r] = rq[r]
  BY <1>4 DEF RetryRead, RetryAllowed, Active, DoneRequest, IndInv, TypeOK
<1>5. \/ UNCHANGED rq
      \/ \E r \in Requests : Operator(r) \/ Serve(r) \/ RequestDies(r)
  BY DEF Next, Work, Process, vars, Chat, ClaimRead, IdlePoll, ClaimCommit,
         Orchestrate, CreateRequest, AuditCreated, ProviderServes, MergeDraft, UpsertDelivery,
         SendLoad, ProviderSends, ProviderRaises, ProviderSendsAndRaises, RecordSent,
         MarkDeliverySent, AuditSent, Succeed, Fail, FailDelivery, AuditFailed, AuditRaises,
         Raise, WorkerDies
<1> QED BY <1>1, <1>2, <1>3, <1>4, <1>5 DEF Operator, Decisions

\* One at a time, nobody decides what has been decided.
LEMMA NextDecisions ==
    SerialDecisions /\ IndInv /\ DecisionsInv /\ [Next]_vars => DecisionsInv'
<1> SUFFICES ASSUME SerialDecisions, IndInv, DecisionsInv, [Next]_vars
             PROVE  DecisionsInv'
  OBVIOUS
<1>1. ASSUME NEW q \in Requests, NEW r \in Requests, Active(q)', Active(r)',
             rq'[q].op \in SerialOps, rq'[r].op \in SerialOps
      PROVE  q = r
  <2>1. ASSUME NEW x \in Requests, Active(x)', rq'[x].op \in SerialOps
        PROVE  \/ Active(x) /\ rq[x].op \in SerialOps
               \/ /\ \A y \in Requests : Active(y) => rq[y].op \notin SerialOps
                  /\ \A y \in Requests \ {x} : rq'[y] = rq[y]
    <3>1. CASE rq'[x] = rq[x] \/ (Active(x) /\ rq'[x].op = rq[x].op)
      BY <2>1, <3>1 DEF Active
    <3>2. CASE MayCall(rq'[x].op) /\ \A y \in Requests \ {x} : rq'[y] = rq[y]
      BY <2>1, <3>2 DEF MayCall
    <3> QED BY <2>1, <3>1, <3>2, RequestStep
  <2>2. CASE Active(q) /\ Active(r) /\ rq[q].op \in SerialOps /\ rq[r].op \in SerialOps
    BY <2>2 DEF DecisionsInv
  <2>3. ASSUME NEW x \in Requests, NEW y \in Requests, x # y, Active(y)',
               rq'[y].op \in SerialOps,
               \A z \in Requests : Active(z) => rq[z].op \notin SerialOps,
               \A z \in Requests \ {x} : rq'[z] = rq[z]
        PROVE  FALSE
    BY <2>3 DEF Active
  <2> QED BY <1>1, <2>1, <2>2, <2>3
<1>2. ASSUME NEW a \in Approvals, NEW q \in Requests, rq[q].pc = "decide", rq[q].target = a,
             rq'[q] = rq[q]
      PROVE  approvals'[a].status = "pending"
  <2>1. approvals[a].status = "pending" /\ rq[q].op \in SerialOps /\ Active(q)
    BY <1>2 DEF DecisionsInv, SerialDecisions, Active
  <2>2. ASSUME NEW r \in Requests, DecideCommit(r), rq'[r].pc = "audit"
        PROVE  FALSE
    <3>1. rq[r].op \in SerialOps /\ Active(r)
      BY <2>2 DEF DecideCommit, DecisionsInv, SerialDecisions, Active
    <3> QED BY <1>2, <2>1, <2>2, <3>1 DEF DecisionsInv
  <2> QED BY <2>1, <2>2, StatusStep
<1>3. ASSUME NEW q \in Requests, rq'[q].pc = "decide"
      PROVE  rq'[q].op \in Decisions /\ approvals'[rq'[q].target].status = "pending"
  <2>1. CASE rq'[q] = rq[q]
    <3>1. rq[q].target \in Approvals
      BY <1>3, <2>1 DEF IndInv, RequestsInv
    <3> QED BY <1>2, <1>3, <2>1, <3>1 DEF DecisionsInv
  <2>2. CASE rq'[q] # rq[q]
    BY <1>3, <2>2, RequestStep DEF Active
  <2> QED BY <2>1, <2>2
<1>4. ASSUME NEW a \in approved'
      PROVE  approvals'[a].status = "approved"
  <2>1. a \in Approvals
    BY <1>4, NextPreserves DEF IndInv, TypeOK
  <2>2. \A q \in Requests : DecideCommit(q) => approvals[rq[q].target].status = "pending"
    BY DEF DecideCommit, DecisionsInv
  <2>3. a \in approved => approvals[a].status = "approved"
    BY DEF DecisionsInv
  <2> QED BY <1>4, <2>1, <2>2, <2>3, StatusStep
<1> QED BY <1>1, <1>3, <1>4 DEF DecisionsInv

LEMMA InitDecisions == Init => DecisionsInv
BY DEF Init, DecisionsInv, DoneRequest, Active

LEMMA DecisionsInvariance == SerialDecisions => (Spec => []DecisionsInv)
<1> SUFFICES ASSUME SerialDecisions PROVE Spec => []DecisionsInv
  OBVIOUS
<1>1. IndInv /\ DecisionsInv /\ [Next]_vars => DecisionsInv'
  BY NextDecisions
<1> QED BY <1>1, InitDecisions, Invariance, PTL DEF Spec

\* With decisions made one at a time, a rejected approval was never sent, whatever the
\* workers and the retries do.
THEOREM RejectedIsNeverSent == SerialDecisions => (Spec => []RejectedNeverSent)
<1> SUFFICES ASSUME SerialDecisions PROVE Spec => []RejectedNeverSent
  OBVIOUS
<1>1. IndInv /\ DecisionsInv => RejectedNeverSent
  BY DEF IndInv, TypeOK, ApprovalsInv, DecisionsInv, RejectedNeverSent
<1> QED BY <1>1, DecisionsInvariance, Invariance, PTL

\* With decisions made one at a time, a decision is final.
THEOREM DecisionsAreFinal == SerialDecisions => (Spec => DecidedOnce)
<1> SUFFICES ASSUME SerialDecisions PROVE Spec => DecidedOnce
  OBVIOUS
<1> DEFINE Final == \A a \in Approvals : approvals[a].status \in {"approved", "rejected"}
                      => approvals'[a].status = approvals[a].status
<1>1. IndInv /\ DecisionsInv /\ [Next]_vars => [Final]_vars
  <2>1. DecisionsInv =>
          \A q \in Requests : DecideCommit(q) => approvals[rq[q].target].status = "pending"
    BY DEF DecideCommit, DecisionsInv
  <2> QED BY <2>1, StatusStep
<1> QED BY <1>1, DecisionsInvariance, Invariance, PTL DEF Spec, DecidedOnce

-----------------------------------------------------------------------------
(* Sending.                                                                *)

OneByOne ==
    /\ \A v, w \in Workers : v = w
    /\ ~ AmbiguousSends
    /\ SerialDecisions
    /\ "retry" \in SerialOps \/ ~ Deaths

\* What the provider did is what the approval says.
Settled(a) == approvals[a].body.msg = sent[a]

Receipted(a) ==
    /\ approvals[a].body.draft
    /\ approvals[a].body.msg = sent[a]
    /\ deliveries[a] \in {[status |-> "sent", msg |-> sent[a]], [status |-> "none", msg |-> 0]}

\* A send that is not recorded on its approval is being recorded, or the worker died and
\* the job stays running for good.
SentInv ==
    \A a \in Approvals :
      /\ sent[a] <= 1
      /\ sent[a] > 0 => \E j \in Jobs : jobs[j].type = "send" /\ jobs[j].appr = a
      /\ \/ Settled(a)
         \/ \E w \in Workers : wk[w].pc = "record" /\ wk[w].appr = a
         \/ Deaths /\ \A j \in Jobs : jobs[j].type = "send" /\ jobs[j].appr = a
                                      => jobs[j].status = "running"
      /\ deliveries[a].status = "none" => deliveries[a].msg = 0

\* What the worker knows of the approval it works on.
Hands(w) ==
    LET p == wk[w].pc
        j == wk[w].job
        a == wk[w].appr
    IN  /\ p \in {"audit_created", "draft", "merge", "deliver"} => sent[a] = 0
        /\ p \notin {"idle", "record"} /\ jobs[j].type = "send" => Settled(jobs[j].appr)
        /\ p = "provider" => sent[a] = 0 /\ wk[w].body.draft
        /\ p = "record" => sent[a] = 1 /\ wk[w].msg = 1 /\ wk[w].body.draft
        /\ p = "mark_sent" => wk[w].msg = sent[a] /\ approvals[a].body.draft
        /\ p \in {"audit_sent", "succeed"} /\ jobs[j].type = "send" => Receipted(jobs[j].appr)
        /\ p # "idle" => jobs[j].status # "succeeded"

HandsInv == \A w \in Workers : Hands(w)

\* With retries made one at a time: the status of the job the worker runs, and of the
\* job that is about to be retried.
RetryInv ==
    "retry" \in SerialOps =>
      /\ \A w \in Workers :
           /\ wk[w].pc = "claim" => jobs[wk[w].job].status = "pending"
           /\ wk[w].pc \notin {"idle", "claim", "fail_delivery", "audit_failed", "raise"}
              => jobs[wk[w].job].status = "running"
      /\ \A q \in Requests :
           rq[q].pc = "retry" => rq[q].op = "retry" /\ jobs[rq[q].target].status = "failed"

OnceInv == SentInv /\ HandsInv /\ RetryInv /\ ReceiptsAgree

\* Only an approved approval was sent.
LEMMA SentIsApproved ==
    ASSUME IndInv, DecisionsInv, NEW a \in Approvals, sent[a] > 0
    PROVE  approvals[a].status = "approved"
BY DEF IndInv, ApprovalsInv, DecisionsInv

\* With one worker, whoever is at work is that worker.
LEMMA Alone ==
    ASSUME OneByOne, NEW v \in Workers, NEW w \in Workers
    PROVE  v = w
BY DEF OneByOne

\* What a step may do to the messages sent for an approval.
LEMMA SentStep ==
    ASSUME OneByOne, IndInv, HandsInv, [Next]_vars, NEW a \in Approvals
    PROVE  \/ sent'[a] = sent[a]
           \/ \E w \in Workers :
                /\ wk[w].pc = "provider" /\ wk[w].appr = a
                /\ sent[a] = 0 /\ sent'[a] = 1
                /\ wk'[w].pc = "record" /\ wk'[w].appr = a /\ wk'[w].msg = 1
                /\ wk'[w].job = wk[w].job /\ wk'[w].body = wk[w].body
                /\ UNCHANGED <<jobs, approvals, deliveries, rq>>
<1>1. ASSUME NEW w \in Workers, ProviderSends(w), sent'[a] # sent[a]
      PROVE  /\ wk[w].pc = "provider" /\ wk[w].appr = a
             /\ sent[a] = 0 /\ sent'[a] = 1
             /\ wk'[w].pc = "record" /\ wk'[w].appr = a /\ wk'[w].msg = 1
             /\ wk'[w].job = wk[w].job /\ wk'[w].body = wk[w].body
             /\ UNCHANGED <<jobs, approvals, deliveries, rq>>
  <2>1. wk[w].pc = "provider" /\ wk[w].appr = a /\ sent'[a] = sent[a] + 1
    BY <1>1 DEF ProviderSends, IndInv, TypeOK
  <2>2. sent[a] = 0
    BY <2>1 DEF HandsInv, Hands
  <2>3. wk' = [wk EXCEPT ![w] = [wk[w] EXCEPT !.pc = "record", !.msg = 1]]
    BY <1>1, <2>1, <2>2 DEF ProviderSends
  <2>4. wk[w] \in WorkerState
    BY DEF IndInv, TypeOK
  <2>5. wk'[w] = [wk[w] EXCEPT !.pc = "record", !.msg = 1]
    BY <2>3 DEF IndInv, TypeOK
  <2>6. UNCHANGED <<jobs, approvals, deliveries, rq>>
    BY <1>1 DEF ProviderSends
  <2> QED BY <2>1, <2>2, <2>4, <2>5, <2>6 DEF WorkerState
<1>2. UNCHANGED sent \/ \E w \in Workers : ProviderSends(w)
  BY DEF OneByOne, Next, Work, Process, Operator, Serve, vars, Chat, ClaimRead, IdlePoll,
         ClaimCommit, Orchestrate, CreateRequest, AuditCreated, ProviderServes, MergeDraft,
         UpsertDelivery, SendLoad, ProviderRaises, ProviderSendsAndRaises, RecordSent,
         MarkDeliverySent, AuditSent, Succeed, Fail, FailDelivery, AuditFailed, AuditRaises,
         Raise, WorkerDies, DecideRead, DecideCommit, DecideAudit, Enqueue, LookupSendJob,
         CreateSendJob, CreateConflicts, AuditEnqueued, RetryRead, RetryCommit, RequestDies
<1> QED BY <1>1, <1>2

\* What a step may do to what an approval says of its draft and its message: a stale copy
\* is written only before anything was sent.
LEMMA BodyStep ==
    ASSUME OneByOne, IndInv, DecisionsInv, HandsInv, [Next]_vars, NEW a \in Approvals
    PROVE  \/ /\ approvals'[a].body.msg = approvals[a].body.msg
              /\ approvals'[a].body.draft = approvals[a].body.draft
           \/ sent[a] = 0 /\ sent'[a] = 0 /\ approvals'[a].body.msg = 0
           \/ \E w \in Workers :
                /\ wk[w].pc = "record" /\ wk[w].appr = a
                /\ sent[a] = 1 /\ sent'[a] = 1
                /\ approvals'[a].body.msg = 1 /\ approvals'[a].body.draft
                /\ wk'[w].pc = "mark_sent" /\ wk'[w].job = wk[w].job /\ wk'[w].appr = a
                /\ wk'[w].msg = 1
                /\ UNCHANGED <<jobs, deliveries, rq>>
<1>0. /\ approvals[a] \in ApprovalRow
      /\ sent[a] > 0 => approvals[a].status = "approved"
      /\ sent[a] \in Nat
  BY SentIsApproved DEF IndInv, TypeOK
<1>1. ASSUME NEW w \in Workers, NEW b \in Approvals, CreateRequest(w, b)
      PROVE  \/ approvals'[a] = approvals[a]
             \/ sent[a] = 0 /\ sent'[a] = 0 /\ approvals'[a].body.msg = 0
  BY <1>0, <1>1 DEF CreateRequest, IndInv, TypeOK, NoBody
<1>2. ASSUME NEW w \in Workers, MergeDraft(w), approvals'[a] # approvals[a]
      PROVE  sent[a] = 0 /\ sent'[a] = 0 /\ approvals'[a].body.msg = 0
  <2>1. wk[w].appr = a /\ wk[w].pc = "merge" /\ UNCHANGED sent
    BY <1>2 DEF MergeDraft, IndInv, TypeOK
  <2>2. sent[a] = 0
    BY <2>1 DEF HandsInv, Hands
  <2>3. wk[w].body \in Bodies /\ wk[w].body.msg = 0
    <3>1. wk[w].body \in Bodies
      BY DEF IndInv, TypeOK, WorkerState
    <3>2. wk[w].body.msg # 0 => sent[a] > 0
      BY <2>1 DEF IndInv, WorkersInv
    <3> QED BY <2>2, <3>1, <3>2
  <2>4. approvals'[a].body = [wk[w].body EXCEPT !.draft = TRUE]
    BY <1>0, <1>2, <2>1 DEF MergeDraft, IndInv, TypeOK, ApprovalRow
  <2> QED BY <2>1, <2>2, <2>3, <2>4 DEF Bodies
<1>3. ASSUME NEW q \in Requests, DecideCommit(q), approvals'[a] # approvals[a]
      PROVE  sent[a] = 0 /\ sent'[a] = 0 /\ approvals'[a].body.msg = 0
  <2>1. rq[q].target = a /\ rq[q].pc = "decide" /\ UNCHANGED sent
    BY <1>3 DEF DecideCommit, IndInv, TypeOK
  <2>2. sent[a] = 0
    BY <1>0, <2>1 DEF DecisionsInv
  <2>3. rq[q].body \in Bodies /\ rq[q].body.msg = 0
    <3>1. rq[q].body \in Bodies
      BY DEF IndInv, TypeOK, RequestState
    <3>2. rq[q].body.msg # 0 => sent[a] > 0
      BY <2>1 DEF IndInv, RequestsInv
    <3> QED BY <2>2, <3>1, <3>2
  <2>4. \E s : approvals'[a].body = [rq[q].body EXCEPT !.decision = s]
    BY <1>3, <2>1 DEF DecideCommit, IndInv, TypeOK
  <2> QED BY <2>1, <2>2, <2>3, <2>4 DEF Bodies
<1>4. ASSUME NEW w \in Workers, RecordSent(w), approvals'[a] # approvals[a]
      PROVE  /\ wk[w].pc = "record" /\ wk[w].appr = a
             /\ sent[a] = 1 /\ sent'[a] = 1
             /\ approvals'[a].body.msg = 1 /\ approvals'[a].body.draft
             /\ wk'[w].pc = "mark_sent" /\ wk'[w].job = wk[w].job /\ wk'[w].appr = a
             /\ wk'[w].msg = 1
             /\ UNCHANGED <<jobs, deliveries, rq>>
  <2>1. wk[w].appr = a /\ wk[w].pc = "record" /\ UNCHANGED <<sent, jobs, deliveries, rq>>
    BY <1>4 DEF RecordSent, IndInv, TypeOK
  <2>2. sent[a] = 1 /\ wk[w].msg = 1 /\ wk[w].body.draft
    BY <2>1 DEF HandsInv, Hands
  <2>3. wk[w] \in WorkerState /\ wk[w].body \in Bodies
    BY DEF IndInv, TypeOK, WorkerState
  <2>4. approvals'[a].body = [wk[w].body EXCEPT !.msg = 1]
    BY <1>0, <1>4, <2>1, <2>2 DEF RecordSent, IndInv, TypeOK, ApprovalRow
  <2>5. wk'[w] = [wk[w] EXCEPT !.pc = "mark_sent"]
    BY <1>4 DEF RecordSent, WorkerAt, IndInv, TypeOK
  <2> QED BY <2>1, <2>2, <2>3, <2>4, <2>5 DEF Bodies, WorkerState
<1>5. \/ UNCHANGED approvals
      \/ \E w \in Workers : (\E b \in Approvals : CreateRequest(w, b)) \/ MergeDraft(w)
                            \/ RecordSent(w)
      \/ \E q \in Requests : DecideCommit(q)
  BY DEF Next, Work, Process, Operator, Serve, vars, Chat, ClaimRead, IdlePoll, ClaimCommit,
         Orchestrate, CreateRequest, AuditCreated, ProviderServes, MergeDraft, UpsertDelivery,
         SendLoad, ProviderSends, ProviderRaises, ProviderSendsAndRaises, RecordSent,
         MarkDeliverySent, AuditSent, Succeed, Fail, FailDelivery, AuditFailed, AuditRaises,
         Raise, WorkerDies, DecideRead, DecideAudit, Enqueue, LookupSendJob, CreateSendJob,
         CreateConflicts, AuditEnqueued, RetryRead, RetryCommit, RequestDies
<1> QED BY <1>1, <1>2, <1>3, <1>4, <1>5

\* What is settled stays so until the provider sends.
LEMMA SettledStays ==
    ASSUME OneByOne, IndInv, DecisionsInv, HandsInv, [Next]_vars, NEW a \in Approvals,
           sent'[a] = sent[a], Settled(a)
    PROVE  Settled(a)'
BY BodyStep DEF Settled

\* What a step may do to a delivery.
LEMMA DeliveryStep ==
    ASSUME IndInv, [Next]_vars, NEW a \in Approvals
    PROVE  \/ deliveries'[a] = deliveries[a]
           \/ \E w \in Workers :
                /\ wk[w].pc = "deliver" /\ wk[w].appr = a
                /\ deliveries'[a].status = "awaiting_approval"
           \/ \E w \in Workers :
                /\ wk[w].pc = "mark_sent" /\ wk[w].appr = a
                /\ deliveries'[a] = [status |-> "sent", msg |-> wk[w].msg]
           \/ \E w \in Workers :
                /\ wk[w].pc = "fail_delivery" /\ jobs[wk[w].job].appr = a
                /\ deliveries'[a].status = "failed"
<1>0. deliveries[a] \in DeliveryRow
  BY DEF IndInv, TypeOK
<1>1. ASSUME NEW w \in Workers, UpsertDelivery(w), deliveries'[a] # deliveries[a]
      PROVE  /\ wk[w].pc = "deliver" /\ wk[w].appr = a
             /\ deliveries'[a].status = "awaiting_approval"
  BY <1>0, <1>1 DEF UpsertDelivery, IndInv, TypeOK, DeliveryRow
<1>2. ASSUME NEW w \in Workers, MarkDeliverySent(w), deliveries'[a] # deliveries[a]
      PROVE  /\ wk[w].pc = "mark_sent" /\ wk[w].appr = a
             /\ deliveries'[a] = [status |-> "sent", msg |-> wk[w].msg]
  BY <1>2 DEF MarkDeliverySent, IndInv, TypeOK
<1>3. ASSUME NEW w \in Workers, FailDelivery(w), deliveries'[a] # deliveries[a]
      PROVE  /\ wk[w].pc = "fail_delivery" /\ jobs[wk[w].job].appr = a
             /\ deliveries'[a].status = "failed"
  BY <1>0, <1>3 DEF FailDelivery, IndInv, TypeOK, DeliveryRow
<1>4. \/ UNCHANGED deliveries
      \/ \E w \in Workers : UpsertDelivery(w) \/ MarkDeliverySent(w) \/ FailDelivery(w)
  BY DEF Next, Work, Process, Operator, Serve, vars, Chat, ClaimRead, IdlePoll, ClaimCommit,
         Orchestrate, CreateRequest, AuditCreated, ProviderServes, MergeDraft,
         SendLoad, ProviderSends, ProviderRaises, ProviderSendsAndRaises, RecordSent,
         AuditSent, Succeed, Fail, AuditFailed, AuditRaises, DecideCommit,
         Raise, WorkerDies, DecideRead, DecideAudit, Enqueue, LookupSendJob, CreateSendJob,
         CreateConflicts, AuditEnqueued, RetryRead, RetryCommit, RequestDies
<1> QED BY <1>1, <1>2, <1>3, <1>4

\* What a step may do to a job.
LEMMA JobStep ==
    ASSUME IndInv, [Next]_vars, NEW j \in Jobs
    PROVE  \/ jobs'[j] = jobs[j]
           \/ /\ jobs[j].status = "none" /\ jobs[j].type = "none" /\ jobs'[j].status = "pending"
              /\ jobs'[j].type = "send" =>
                   \A i \in Jobs : ~ (jobs[i].type = "send" /\ jobs[i].appr = jobs'[j].appr)
              /\ UNCHANGED <<approvals, deliveries, sent, wk>>
           \/ /\ jobs[j].type # "none" /\ jobs'[j].type = jobs[j].type
              /\ jobs'[j].appr = jobs[j].appr
              /\ \/ \E w \in Workers :
                      /\ wk[w].job = j /\ wk'[w].pc # wk[w].pc
                      /\ UNCHANGED <<approvals, deliveries, sent>>
                      /\ \/ wk[w].pc = "claim" /\ jobs'[j].status = "running"
                         \/ /\ wk[w].pc = "succeed" /\ jobs'[j].status = "succeeded"
                            /\ wk'[w].pc = "idle"
                         \/ wk[w].pc \in {"fail", "raise"} /\ jobs'[j].status = "failed"
                 \/ \E q \in Requests :
                      /\ rq[q].pc = "retry" /\ rq[q].target = j
                      /\ jobs'[j].status = "pending" /\ rq'[q].pc = "done"
                      /\ UNCHANGED <<approvals, deliveries, sent, wk>>
<1>0. jobs[j] \in JobRow
  BY DEF IndInv, TypeOK
<1>1. ASSUME NEW i \in Jobs, NEW kind \in Kinds, Chat(i, kind), jobs'[j] # jobs[j]
      PROVE  /\ jobs[j].status = "none" /\ jobs[j].type = "none" /\ jobs'[j].status = "pending"
             /\ jobs'[j].type = "chat"
             /\ UNCHANGED <<approvals, deliveries, sent, wk>>
  BY <1>1 DEF Chat, IndInv, TypeOK, JobsInv
<1>2. ASSUME NEW q \in Requests, NEW i \in Jobs, CreateSendJob(q, i), jobs'[j] # jobs[j]
      PROVE  /\ jobs[j].status = "none" /\ jobs[j].type = "none" /\ jobs'[j].status = "pending"
             /\ \A k \in Jobs : ~ (jobs[k].type = "send" /\ jobs[k].appr = jobs'[j].appr)
             /\ UNCHANGED <<approvals, deliveries, sent, wk>>
  BY <1>2 DEF CreateSendJob, SendJobsOf, IndInv, TypeOK, JobsInv
<1>3. ASSUME NEW w \in Workers, ClaimCommit(w) \/ Succeed(w) \/ Fail(w) \/ Raise(w),
             jobs'[j] # jobs[j]
      PROVE  /\ jobs[j].type # "none" /\ jobs'[j].type = jobs[j].type
             /\ jobs'[j].appr = jobs[j].appr
             /\ wk[w].job = j /\ wk'[w].pc # wk[w].pc
             /\ UNCHANGED <<approvals, deliveries, sent>>
             /\ \/ wk[w].pc = "claim" /\ jobs'[j].status = "running"
                \/ /\ wk[w].pc = "succeed" /\ jobs'[j].status = "succeeded"
                   /\ wk'[w].pc = "idle"
                \/ wk[w].pc \in {"fail", "raise"} /\ jobs'[j].status = "failed"
  <2>1. wk[w].job = j /\ wk[w].pc # "idle"
    BY <1>3 DEF ClaimCommit, Succeed, Fail, Raise, SetJob, IndInv, TypeOK
  <2>2. jobs[j].type # "none"
    BY <2>1 DEF IndInv, WorkersInv
  <2>3. PICK s \in {"running", "succeeded", "failed"} :
          /\ jobs' = [jobs EXCEPT ![j].status = s]
          /\ \/ s = "running" /\ wk[w].pc = "claim"
             \/ s = "succeeded" /\ wk[w].pc = "succeed" /\ WorkerAt(w, "idle")
             \/ s = "failed" /\ wk[w].pc \in {"fail", "raise"}
    BY <1>3, <2>1 DEF ClaimCommit, Succeed, Fail, Raise, SetJob
  <2>4. jobs'[j] = [jobs[j] EXCEPT !.status = s]
    BY <2>3 DEF IndInv, TypeOK
  <2>5. WorkerAt(w, "idle") => wk'[w].pc = "idle"
    BY DEF WorkerAt, IdleWorker, IndInv, TypeOK
  <2>6. UNCHANGED <<approvals, deliveries, sent>>
    BY <1>3 DEF ClaimCommit, Succeed, Fail, Raise
  <2>7. wk'[w].pc # wk[w].pc
    <3>1. PICK p \in {"chat", "send", "fail_delivery", "idle"} :
            WorkerAt(w, p) /\ wk[w].pc # p
      BY <1>0, <1>3, <2>1, <2>2 DEF ClaimCommit, Succeed, Fail, Raise, JobRow
    <3>2. wk'[w].pc = p
      BY <3>1 DEF WorkerAt, IdleWorker, IndInv, TypeOK, WorkerState
    <3> QED BY <3>1, <3>2
  <2> QED BY <1>0, <2>1, <2>2, <2>3, <2>4, <2>5, <2>6, <2>7 DEF JobRow
<1>4. ASSUME NEW q \in Requests, RetryCommit(q), jobs'[j] # jobs[j]
      PROVE  /\ jobs[j].type # "none" /\ jobs'[j].type = jobs[j].type
             /\ jobs'[j].appr = jobs[j].appr
             /\ rq[q].pc = "retry" /\ rq[q].target = j
             /\ jobs'[j].status = "pending" /\ rq'[q].pc = "done"
             /\ UNCHANGED <<approvals, deliveries, sent, wk>>
  <2>1. rq[q].pc = "retry" /\ rq[q].target = j
    BY <1>4 DEF RetryCommit, SetJob, IndInv, TypeOK
  <2>2. jobs[j].type = "send"
    BY <2>1 DEF IndInv, RequestsInv
  <2>3. jobs'[j] = [jobs[j] EXCEPT !.status = "pending"]
    BY <1>4, <2>1 DEF RetryCommit, SetJob, IndInv, TypeOK
  <2>4. rq'[q].pc = "done"
    BY <1>4 DEF RetryCommit, RequestAt, DoneRequest, IndInv, TypeOK
  <2> QED BY <1>0, <1>4, <2>1, <2>2, <2>3, <2>4 DEF RetryCommit, JobRow
<1>5. \/ UNCHANGED jobs
      \/ \E i \in Jobs, kind \in Kinds : Chat(i, kind)
      \/ \E w \in Workers : ClaimCommit(w) \/ Succeed(w) \/ Fail(w) \/ Raise(w)
      \/ \E q \in Requests : RetryCommit(q) \/ \E i \in Jobs : CreateSendJob(q, i)
  BY DEF Next, Work, Process, Operator, Serve, vars, ClaimRead, IdlePoll,
         Orchestrate, CreateRequest, AuditCreated, ProviderServes, MergeDraft, UpsertDelivery,
         SendLoad, ProviderSends, ProviderRaises, ProviderSendsAndRaises, RecordSent,
         MarkDeliverySent, AuditSent, FailDelivery, AuditFailed, AuditRaises, DecideCommit,
         WorkerDies, DecideRead, DecideAudit, Enqueue, LookupSendJob,
         CreateConflicts, AuditEnqueued, RetryRead, RequestDies
<1> QED BY <1>1, <1>2, <1>3, <1>4, <1>5

ChatPcs == {"chat", "audit_created", "draft", "connector", "merge", "deliver"}
FailPcs == {"fail", "raise", "fail_delivery", "audit_failed"}

\* What a step may do to the hands of a worker, by where they are.
LEMMA WorkerStep ==
    ASSUME OneByOne, IndInv, [Next]_vars, NEW w \in Workers
    PROVE  \/ wk'[w] = wk[w]
           \/ /\ wk'[w].pc = "idle"
              /\ wk[w].pc = "record" => Deaths /\ UNCHANGED <<jobs, approvals, deliveries, sent>>
           \/ /\ wk[w].pc = "idle" /\ wk'[w].pc = "claim"
              /\ wk'[w].job \in Jobs /\ jobs[wk'[w].job].status = "pending"
              /\ UNCHANGED <<jobs, approvals, deliveries, sent>>
           \/ /\ wk'[w].job = wk[w].job
              /\ \/ /\ wk[w].pc = "claim" /\ wk'[w].pc \in {"chat", "send"}
                    /\ jobs'[wk[w].job].status = "running"
                    /\ UNCHANGED <<approvals, deliveries, sent>>
                 \/ /\ wk[w].pc \in ChatPcs /\ UNCHANGED <<jobs, sent>>
                    /\ \/ wk'[w].pc \in {"connector", "succeed"}
                       \/ /\ wk'[w].pc = "audit_created"
                          /\ wk'[w].appr \in Approvals /\ approvals[wk'[w].appr].status = "none"
                       \/ /\ wk[w].pc \in {"audit_created", "draft", "merge"}
                          /\ wk'[w].pc \in {"draft", "merge", "deliver"}
                          /\ wk'[w].appr = wk[w].appr
                 \/ /\ wk[w].pc = "send" /\ UNCHANGED <<jobs, approvals, deliveries, sent>>
                    /\ wk'[w].pc \in {"provider", "mark_sent"}
                    /\ wk'[w].appr = jobs[wk[w].job].appr
                    /\ wk'[w].body = approvals[wk'[w].appr].body
                    /\ wk'[w].msg = approvals[wk'[w].appr].body.msg
                    /\ wk'[w].body.draft
                    /\ wk'[w].pc = "provider" => wk'[w].msg = 0
                 \/ /\ wk[w].pc = "provider" /\ wk'[w].pc = "record"
                    /\ wk'[w].appr = wk[w].appr /\ wk'[w].body = wk[w].body
                    /\ wk'[w].msg = sent[wk[w].appr] + 1
                    /\ sent'[wk[w].appr] = sent[wk[w].appr] + 1
                    /\ UNCHANGED <<jobs, approvals, deliveries>>
                 \/ /\ wk[w].pc = "record" /\ wk'[w].pc = "mark_sent"
                    /\ wk'[w].appr = wk[w].appr /\ wk'[w].msg = wk[w].msg
                    /\ approvals'[wk[w].appr].body.msg = wk[w].msg
                    /\ approvals'[wk[w].appr].body.draft = wk[w].body.draft
                    /\ UNCHANGED <<jobs, deliveries, sent>>
                 \/ /\ wk[w].pc = "mark_sent" /\ wk'[w].pc \in {"succeed", "audit_sent"}
                    /\ deliveries[wk[w].appr].status = "none" =>
                         deliveries'[wk[w].appr] = deliveries[wk[w].appr]
                    /\ deliveries[wk[w].appr].status # "none" =>
                         deliveries'[wk[w].appr] = [status |-> "sent", msg |-> wk[w].msg]
                    /\ UNCHANGED <<jobs, approvals, sent>>
                 \/ /\ wk[w].pc = "audit_sent" /\ wk'[w].pc = "succeed"
                    /\ UNCHANGED <<jobs, approvals, deliveries, sent>>
                 \/ /\ wk'[w].pc \in FailPcs /\ wk[w].pc \notin {"idle", "record"}
                    /\ UNCHANGED sent
                    /\ \/ wk'[w].pc = "fail_delivery" /\ jobs'[wk[w].job].status = "failed"
                       \/ /\ UNCHANGED jobs
                          /\ wk'[w].pc = "fail" =>
                               wk[w].pc \in {"chat", "draft", "connector", "send", "provider"}
                          /\ wk'[w].pc = "fail_delivery" => wk[w].pc = "fail_delivery"
<1>0. /\ wk[w] \in WorkerState
      /\ wk[w].pc # "idle" => wk[w].job \in Jobs
      /\ jobs \in [Jobs -> JobRow]
  BY DEF IndInv, TypeOK, WorkersInv
<1>1. ASSUME NEW p, p # "idle", WorkerAt(w, p)
      PROVE  wk'[w] = [wk[w] EXCEPT !.pc = p]
  BY <1>1 DEF WorkerAt, IndInv, TypeOK
<1>2. ASSUME WorkerAt(w, "idle")
      PROVE  wk'[w].pc = "idle"
  BY <1>2 DEF WorkerAt, IdleWorker, IndInv, TypeOK
<1>3. ASSUME NEW j \in Jobs, ClaimRead(w, j)
      PROVE  /\ wk[w].pc = "idle" /\ wk'[w].pc = "claim"
             /\ wk'[w].job \in Jobs /\ jobs[wk'[w].job].status = "pending"
             /\ UNCHANGED <<jobs, approvals, deliveries, sent>>
  <2>1. wk'[w] = [wk[w] EXCEPT !.pc = "claim", !.job = j]
    BY <1>3 DEF ClaimRead, IndInv, TypeOK
  <2> QED BY <1>0, <1>3, <2>1 DEF ClaimRead, WorkerState
<1>4. ASSUME ClaimCommit(w)
      PROVE  /\ wk'[w].job = wk[w].job
             /\ wk[w].pc = "claim" /\ wk'[w].pc \in {"chat", "send"}
             /\ jobs'[wk[w].job].status = "running"
             /\ UNCHANGED <<approvals, deliveries, sent>>
  <2>1. wk[w].pc = "claim" /\ wk[w].job \in Jobs /\ jobs[wk[w].job].type \in {"chat", "send"}
    BY <1>4 DEF ClaimCommit, IndInv, TypeOK, WorkersInv, JobRow
  <2>2. wk'[w] = [wk[w] EXCEPT !.pc = jobs[wk[w].job].type]
    BY <1>1, <1>4, <2>1 DEF ClaimCommit
  <2>3. jobs'[wk[w].job].status = "running"
    BY <1>0, <1>4, <2>1 DEF ClaimCommit, SetJob, JobRow
  <2>4. UNCHANGED <<approvals, deliveries, sent>>
    BY <1>4 DEF ClaimCommit
  <2> QED BY <1>0, <2>1, <2>2, <2>3, <2>4 DEF WorkerState
<1>5. ASSUME Orchestrate(w) \/ ProviderServes(w) \/ MergeDraft(w) \/ UpsertDelivery(w)
      PROVE  \/ /\ wk'[w].job = wk[w].job
                /\ wk[w].pc \in ChatPcs /\ UNCHANGED <<jobs, sent>>
                /\ \/ wk'[w].pc \in {"connector", "succeed"}
                   \/ /\ wk[w].pc \in {"audit_created", "draft", "merge"}
                      /\ wk'[w].pc \in {"draft", "merge", "deliver"}
                      /\ wk'[w].appr = wk[w].appr
             \/ /\ wk'[w].job = wk[w].job
                /\ wk'[w].pc = "fail" /\ wk[w].pc = "chat" /\ UNCHANGED <<jobs, sent>>
  <2>1. PICK p \in {"fail", "connector", "succeed", "merge", "deliver"} :
          /\ WorkerAt(w, p)
          /\ wk[w].pc \in ChatPcs
          /\ p = "fail" => wk[w].pc = "chat"
          /\ p \in {"merge", "deliver"} => wk[w].pc \in {"draft", "merge"}
    BY <1>5 DEF Orchestrate, ProviderServes, MergeDraft, UpsertDelivery, ChatPcs
  <2>2. UNCHANGED <<jobs, sent>>
    BY <1>5 DEF Orchestrate, ProviderServes, MergeDraft, UpsertDelivery
  <2>3. wk'[w] = [wk[w] EXCEPT !.pc = p]
    BY <1>1, <2>1
  <2> QED BY <1>0, <2>1, <2>2, <2>3 DEF WorkerState
<1>6. ASSUME NEW a \in Approvals, CreateRequest(w, a)
      PROVE  /\ wk'[w].job = wk[w].job
             /\ wk[w].pc \in ChatPcs /\ UNCHANGED <<jobs, sent>>
             /\ wk'[w].pc = "audit_created"
             /\ wk'[w].appr \in Approvals /\ approvals[wk'[w].appr].status = "none"
  <2>1. wk'[w] = [wk[w] EXCEPT !.pc = "audit_created", !.appr = a]
    BY <1>6 DEF CreateRequest, IndInv, TypeOK
  <2>2. wk[w].pc = "chat" /\ approvals[a].status = "none" /\ UNCHANGED <<jobs, sent>>
    BY <1>6 DEF CreateRequest
  <2> QED BY <1>0, <2>1, <2>2 DEF WorkerState, ChatPcs
<1>7. ASSUME AuditCreated(w)
      PROVE  /\ wk'[w].job = wk[w].job
             /\ wk[w].pc \in ChatPcs /\ UNCHANGED <<jobs, sent>>
             /\ \/ wk'[w].pc = "succeed"
                \/ /\ wk[w].pc = "audit_created" /\ wk'[w].pc = "draft"
                   /\ wk'[w].appr = wk[w].appr
  <2>1. PICK p \in {"draft", "succeed"} :
          wk' = [wk EXCEPT ![w] = [wk[w] EXCEPT !.body = approvals[wk[w].appr].body, !.pc = p]]
    BY <1>7 DEF AuditCreated
  <2>2. wk'[w] = [wk[w] EXCEPT !.body = approvals[wk[w].appr].body, !.pc = p]
    BY <2>1 DEF IndInv, TypeOK
  <2>3. wk[w].pc = "audit_created" /\ UNCHANGED <<jobs, sent>>
    BY <1>7 DEF AuditCreated
  <2> QED BY <1>0, <2>2, <2>3 DEF WorkerState, ChatPcs
<1>8. ASSUME SendLoad(w)
      PROVE  /\ wk'[w].job = wk[w].job
             /\ wk[w].pc = "send" /\ UNCHANGED <<jobs, approvals, deliveries, sent>>
             /\ \/ wk'[w].pc = "fail"
                \/ /\ wk'[w].pc \in {"provider", "mark_sent"}
                   /\ wk'[w].appr = jobs[wk[w].job].appr
                   /\ wk'[w].body = approvals[wk'[w].appr].body
                   /\ wk'[w].msg = approvals[wk'[w].appr].body.msg
                   /\ wk'[w].body.draft
                   /\ wk'[w].pc = "provider" => wk'[w].msg = 0
  <2> DEFINE a == jobs[wk[w].job].appr
             body == approvals[a].body
  <2>1. PICK p \in {"fail", "provider", "mark_sent"} :
          /\ wk' = [wk EXCEPT ![w] = [wk[w] EXCEPT !.appr = a, !.body = body, !.msg = body.msg,
                                                    !.pc = p]]
          /\ p # "fail" => body.draft
          /\ p = "provider" => body.msg = 0
    BY <1>8 DEF SendLoad, Eligible
  <2>2. wk'[w] = [wk[w] EXCEPT !.appr = a, !.body = body, !.msg = body.msg, !.pc = p]
    BY <2>1 DEF IndInv, TypeOK
  <2>3. wk[w].pc = "send" /\ UNCHANGED <<jobs, approvals, deliveries, sent>>
    BY <1>8 DEF SendLoad
  <2> HIDE DEF a
  <2>4. /\ wk'[w].job = wk[w].job /\ wk'[w].appr = a /\ wk'[w].pc = p
        /\ wk'[w].body = body /\ wk'[w].msg = body.msg
    BY <1>0, <2>2 DEF WorkerState
  <2> QED BY <2>1, <2>3, <2>4 DEF a
<1>9. ASSUME ProviderSends(w)
      PROVE  /\ wk'[w].job = wk[w].job
             /\ wk[w].pc = "provider" /\ wk'[w].pc = "record"
             /\ wk'[w].appr = wk[w].appr /\ wk'[w].body = wk[w].body
             /\ wk'[w].msg = sent[wk[w].appr] + 1
             /\ sent'[wk[w].appr] = sent[wk[w].appr] + 1
             /\ UNCHANGED <<jobs, approvals, deliveries>>
  <2> DEFINE n == sent[wk[w].appr] + 1
  <2>1. /\ wk[w].pc = "provider" /\ UNCHANGED <<jobs, approvals, deliveries>>
        /\ sent' = [sent EXCEPT ![wk[w].appr] = n]
        /\ wk' = [wk EXCEPT ![w] = [wk[w] EXCEPT !.pc = "record", !.msg = n]]
    BY <1>9 DEF ProviderSends
  <2>2. wk[w].appr \in Approvals
    BY <2>1 DEF IndInv, WorkersInv, JobsInv
  <2>3. sent'[wk[w].appr] = n
    BY <2>1, <2>2 DEF IndInv, TypeOK
  <2>4. wk'[w] = [wk[w] EXCEPT !.pc = "record", !.msg = n]
    BY <2>1 DEF IndInv, TypeOK
  <2> HIDE DEF n
  <2>5. /\ wk'[w].job = wk[w].job /\ wk'[w].pc = "record" /\ wk'[w].msg = n
        /\ wk'[w].appr = wk[w].appr /\ wk'[w].body = wk[w].body
    BY <1>0, <2>4 DEF WorkerState
  <2> QED BY <2>1, <2>3, <2>5 DEF n
<1>10. ASSUME RecordSent(w)
       PROVE  /\ wk'[w].job = wk[w].job
              /\ wk[w].pc = "record" /\ wk'[w].pc = "mark_sent"
              /\ wk'[w].appr = wk[w].appr /\ wk'[w].msg = wk[w].msg
              /\ approvals'[wk[w].appr].body.msg = wk[w].msg
              /\ approvals'[wk[w].appr].body.draft = wk[w].body.draft
              /\ UNCHANGED <<jobs, deliveries, sent>>
  <2>1. wk[w].pc = "record" /\ UNCHANGED <<jobs, deliveries, sent>> /\ WorkerAt(w, "mark_sent")
    BY <1>10 DEF RecordSent
  <2>2. wk[w].appr \in Approvals
    BY <2>1 DEF IndInv, WorkersInv, JobsInv
  <2>3. wk'[w] = [wk[w] EXCEPT !.pc = "mark_sent"]
    BY <1>1, <2>1
  <2>4. approvals'[wk[w].appr].body = [wk[w].body EXCEPT !.msg = wk[w].msg]
    BY <1>10, <2>2 DEF RecordSent, IndInv, TypeOK, ApprovalRow
  <2>5. wk[w].body \in Bodies
    BY <1>0 DEF WorkerState
  <2>6. /\ approvals'[wk[w].appr].body.msg = wk[w].msg
        /\ approvals'[wk[w].appr].body.draft = wk[w].body.draft
    BY <2>4, <2>5 DEF Bodies
  <2> QED BY <1>0, <2>1, <2>3, <2>6 DEF WorkerState
<1>11. ASSUME MarkDeliverySent(w)
       PROVE  /\ wk'[w].job = wk[w].job
              /\ wk[w].pc = "mark_sent" /\ wk'[w].pc \in {"succeed", "audit_sent"}
              /\ deliveries[wk[w].appr].status = "none" =>
                   deliveries'[wk[w].appr] = deliveries[wk[w].appr]
              /\ deliveries[wk[w].appr].status # "none" =>
                   deliveries'[wk[w].appr] = [status |-> "sent", msg |-> wk[w].msg]
              /\ UNCHANGED <<jobs, approvals, sent>>
  <2>1. /\ wk[w].pc = "mark_sent" /\ UNCHANGED <<jobs, approvals, sent>>
        /\ \E p \in {"succeed", "audit_sent"} : WorkerAt(w, p)
    BY <1>11 DEF MarkDeliverySent
  <2>2. wk[w].appr \in Approvals
    BY <2>1 DEF IndInv, WorkersInv, JobsInv
  <2>3. wk'[w].job = wk[w].job /\ wk'[w].pc \in {"succeed", "audit_sent"}
    <3>1. PICK p \in {"succeed", "audit_sent"} : WorkerAt(w, p)
      BY <2>1
    <3>2. wk'[w] = [wk[w] EXCEPT !.pc = p]
      BY <1>1, <3>1
    <3> QED BY <1>0, <3>2 DEF WorkerState
  <2> QED BY <1>11, <2>1, <2>2, <2>3 DEF MarkDeliverySent, IndInv, TypeOK
<1>12. ASSUME AuditSent(w)
       PROVE  /\ wk'[w].job = wk[w].job
              /\ wk[w].pc = "audit_sent" /\ wk'[w].pc = "succeed"
              /\ UNCHANGED <<jobs, approvals, deliveries, sent>>
  <2>1. PICK p \in {"succeed"} : WorkerAt(w, p)
    BY <1>12 DEF AuditSent
  <2>2. wk'[w] = [wk[w] EXCEPT !.pc = p]
    BY <1>1, <2>1
  <2>3. wk[w].pc = "audit_sent" /\ UNCHANGED <<jobs, approvals, deliveries, sent>>
    BY <1>12 DEF AuditSent
  <2> QED BY <1>0, <2>2, <2>3 DEF WorkerState
<1>13. ASSUME Fail(w)
       PROVE  \/ wk'[w].pc = "idle" /\ wk[w].pc # "record"
              \/ /\ wk'[w].job = wk[w].job
                 /\ wk'[w].pc = "fail_delivery" /\ wk[w].pc \notin {"idle", "record"}
                 /\ UNCHANGED sent /\ jobs'[wk[w].job].status = "failed"
  <2>1. wk[w].pc = "fail" /\ UNCHANGED sent /\ jobs' = [jobs EXCEPT ![wk[w].job].status = "failed"]
    BY <1>13 DEF Fail, SetJob
  <2>2. PICK p \in {"idle", "fail_delivery"} : WorkerAt(w, p)
    BY <1>13 DEF Fail
  <2>3. jobs'[wk[w].job].status = "failed"
    BY <1>0, <2>1 DEF JobRow
  <2>4. CASE p = "idle"
    BY <1>2, <2>1, <2>2, <2>4
  <2>5. CASE p = "fail_delivery"
    <3>1. wk'[w] = [wk[w] EXCEPT !.pc = p]
      BY <1>1, <2>2, <2>5
    <3> QED BY <1>0, <2>1, <2>3, <2>5, <3>1 DEF WorkerState
  <2> QED BY <2>4, <2>5
<1>14. ASSUME ProviderRaises(w) \/ FailDelivery(w) \/ AuditRaises(w)
       PROVE  /\ wk'[w].job = wk[w].job
              /\ wk'[w].pc \in FailPcs /\ wk[w].pc \notin {"idle", "record"}
              /\ UNCHANGED <<sent, jobs>>
              /\ wk'[w].pc = "fail" => wk[w].pc \in {"draft", "connector", "provider"}
              /\ wk'[w].pc # "fail_delivery"
  <2>1. PICK p \in FailPcs \ {"fail_delivery"} :
          /\ WorkerAt(w, p) /\ UNCHANGED <<sent, jobs>>
          /\ wk[w].pc \notin {"idle", "record"}
          /\ p = "fail" => wk[w].pc \in {"draft", "connector", "provider"}
    BY <1>14 DEF ProviderRaises, FailDelivery, AuditRaises, FailPcs
  <2>2. wk'[w] = [wk[w] EXCEPT !.pc = p]
    BY <1>1, <2>1 DEF FailPcs
  <2> QED BY <1>0, <2>1, <2>2 DEF WorkerState
<1>15. ASSUME Succeed(w) \/ AuditFailed(w) \/ Raise(w)
       PROVE  wk'[w].pc = "idle" /\ wk[w].pc # "record"
  BY <1>2, <1>15 DEF Succeed, AuditFailed, Raise
<1>16. ASSUME WorkerDies(w)
       PROVE  wk'[w].pc = "idle" /\ Deaths /\ UNCHANGED <<jobs, approvals, deliveries, sent>>
  BY <1>2, <1>16 DEF WorkerDies
<1>17. ASSUME NEW v \in Workers, Work(v) \/ IdlePoll(v) \/ WorkerDies(v)
       PROVE  UNCHANGED wk \/ Work(w) \/ WorkerDies(w)
  BY <1>17, Alone DEF IdlePoll, vars
<1>18. UNCHANGED wk \/ Work(w) \/ WorkerDies(w)
  BY <1>17 DEF Next, Operator, Serve, vars, Chat, DecideRead, DecideCommit, DecideAudit, Enqueue,
         LookupSendJob, CreateSendJob, CreateConflicts, AuditEnqueued, RetryRead, RetryCommit,
         RequestDies
<1>19. ~ ProviderSendsAndRaises(w)
  BY DEF ProviderSendsAndRaises, OneByOne
<1>20. CASE Work(w)
  BY <1>3, <1>4, <1>5, <1>6, <1>7, <1>8, <1>9, <1>10, <1>11, <1>12, <1>13, <1>14, <1>15, <1>19,
     <1>20 DEF Work, Process, FailPcs
<1> QED BY <1>16, <1>18, <1>20


\* A job for sending stays one, for the same approval; a job at work keeps its row.
LEMMA JobKept ==
    ASSUME IndInv, [Next]_vars, NEW j \in Jobs, jobs[j].type # "none"
    PROVE  jobs'[j].type = jobs[j].type /\ jobs'[j].appr = jobs[j].appr
BY JobStep

\* The worker that sends, records or receipts runs the one send job of its approval.
LEMMA SenderHasJob ==
    ASSUME IndInv, NEW w \in Workers, NEW j \in Jobs, jobs[j].type = "send",
           \/ /\ wk[w].pc \in {"provider", "record", "mark_sent"}
              /\ wk[w].appr = jobs[j].appr
           \/ wk[w].pc = "fail_delivery" /\ jobs[wk[w].job].appr = jobs[j].appr
    PROVE  wk[w].job = j
BY DEF IndInv, OneSendJob, WorkersInv

LEMMA NextRecorded ==
    ASSUME OneByOne, IndInv, DecisionsInv, OnceInv, [Next]_vars, NEW a \in Approvals
    PROVE  \/ Settled(a)'
           \/ \E w \in Workers : wk'[w].pc = "record" /\ wk'[w].appr = a
           \/ Deaths /\ \A j \in Jobs : jobs'[j].type = "send" /\ jobs'[j].appr = a
                                        => jobs'[j].status = "running"
<1> USE DEF OnceInv
<1>1. CASE sent'[a] # sent[a]
  BY <1>1, SentStep
<1>2. CASE sent'[a] = sent[a] /\ Settled(a)
  BY <1>2, SettledStays
<1>3. ASSUME NEW w \in Workers, sent'[a] = sent[a], wk[w].pc = "record", wk[w].appr = a
      PROVE  \/ Settled(a)'
             \/ wk'[w].pc = "record" /\ wk'[w].appr = a
             \/ Deaths /\ \A j \in Jobs : jobs'[j].type = "send" /\ jobs'[j].appr = a
                                          => jobs'[j].status = "running"
  <2>1. CASE wk'[w] = wk[w]
    BY <1>3, <2>1
  <2>2. CASE Deaths /\ UNCHANGED jobs
    <3>1. "retry" \in SerialOps
      BY <2>2 DEF OneByOne
    <3>2. jobs[wk[w].job].status = "running"
      BY <1>3, <3>1 DEF RetryInv
    <3>3. \A j \in Jobs : jobs[j].type = "send" /\ jobs[j].appr = a => wk[w].job = j
      BY <1>3, SenderHasJob
    <3> QED BY <2>2, <3>2, <3>3
  <2>3. CASE approvals'[wk[w].appr].body.msg = wk[w].msg
    <3>1. sent[a] = 1 /\ wk[w].msg = 1
      BY <1>3 DEF HandsInv, Hands
    <3> QED BY <1>3, <2>3, <3>1 DEF Settled
  <2> QED BY <1>3, <2>1, <2>2, <2>3, WorkerStep DEF ChatPcs
<1>4. ASSUME sent'[a] = sent[a], ~ Settled(a), Deaths,
             \A j \in Jobs : jobs[j].type = "send" /\ jobs[j].appr = a
                             => jobs[j].status = "running",
             NEW j \in Jobs, jobs'[j].type = "send", jobs'[j].appr = a
      PROVE  jobs'[j].status = "running"
  <2>1. sent[a] > 0
    BY <1>4 DEF Settled, IndInv, TypeOK, ApprovalsInv
  <2>2. PICK i \in Jobs : jobs[i].type = "send" /\ jobs[i].appr = a
    BY <2>1 DEF SentInv
  <2>3. ASSUME jobs[j].type = "send", jobs[j].appr = a, NEW w \in Workers, wk[w].job = j,
               wk[w].pc \in {"succeed", "fail", "raise"}
        PROVE  FALSE
    BY <1>4, <2>3 DEF HandsInv, Hands
  <2>4. ASSUME jobs[j].type = "send", jobs[j].appr = a, NEW q \in Requests, rq[q].pc = "retry",
               rq[q].target = j
        PROVE  FALSE
    BY <1>4, <2>4 DEF OneByOne, RetryInv
  <2> QED BY <1>4, <2>2, <2>3, <2>4, JobStep
<1>5. \/ Settled(a)
      \/ \E w \in Workers : wk[w].pc = "record" /\ wk[w].appr = a
      \/ Deaths /\ \A j \in Jobs : jobs[j].type = "send" /\ jobs[j].appr = a
                                   => jobs[j].status = "running"
  BY DEF SentInv
<1> QED BY <1>1, <1>2, <1>3, <1>4, <1>5

\* The provider is asked only while nothing was sent.
LEMMA NextSent ==
    ASSUME OneByOne, IndInv, DecisionsInv, OnceInv, [Next]_vars
    PROVE  SentInv'
<1> SUFFICES ASSUME NEW a \in Approvals
             PROVE  /\ sent'[a] <= 1
                    /\ sent'[a] > 0 =>
                         \E j \in Jobs : jobs'[j].type = "send" /\ jobs'[j].appr = a
                    /\ deliveries'[a].status = "none" => deliveries'[a].msg = 0
  BY NextRecorded DEF SentInv
<1> USE DEF OnceInv
<1>1. sent'[a] <= 1
  BY SentStep DEF SentInv
<1>2. ASSUME sent'[a] > 0
      PROVE  \E j \in Jobs : jobs[j].type = "send" /\ jobs[j].appr = a
  <2>1. CASE sent[a] > 0
    BY <2>1 DEF SentInv
  <2>2. ASSUME NEW w \in Workers, wk[w].pc = "provider", wk[w].appr = a
        PROVE  wk[w].job \in Jobs /\ jobs[wk[w].job].type = "send" /\ jobs[wk[w].job].appr = a
    BY <2>2 DEF IndInv, WorkersInv
  <2> QED BY <1>2, <2>1, <2>2, SentStep
<1>3. deliveries'[a].status = "none" => deliveries'[a].msg = 0
  <2>1. \A m : [status |-> "sent", msg |-> m].status = "sent"
    OBVIOUS
  <2>2. deliveries'[a].status = "none" => deliveries'[a] = deliveries[a]
    BY <2>1, DeliveryStep
  <2> QED BY <2>2 DEF SentInv
<1> QED BY <1>1, <1>2, <1>3, JobKept

\* What the sender's receipts say stays true while nobody else is at work on the approval.
LEMMA ReceiptedStays ==
    ASSUME OneByOne, IndInv, DecisionsInv, HandsInv, [Next]_vars, NEW a \in Approvals,
           Receipted(a), sent[a] > 0,
           \A w \in Workers : /\ wk[w].pc \in {"provider", "record", "mark_sent"} => wk[w].appr # a
                              /\ wk[w].pc = "fail_delivery" => jobs[wk[w].job].appr # a
    PROVE  Receipted(a)'
<1>1. sent'[a] = sent[a]
  BY SentStep
<1>2. /\ approvals'[a].body.msg = approvals[a].body.msg
      /\ approvals'[a].body.draft = approvals[a].body.draft
  BY BodyStep
<1>3. \A w \in Workers : wk[w].pc = "deliver" => wk[w].appr # a
  BY DEF HandsInv, Hands
<1>4. deliveries'[a] = deliveries[a]
  BY <1>3, DeliveryStep
<1> QED BY <1>1, <1>2, <1>4 DEF Receipted

\* A worker that does not move keeps what it knows.
LEMMA HandsKept ==
    ASSUME OneByOne, IndInv, DecisionsInv, OnceInv, [Next]_vars, NEW w \in Workers,
           wk'[w] = wk[w]
    PROVE  Hands(w)'
<1> USE DEF OnceInv
<1> DEFINE p == wk[w].pc
           j == wk[w].job
           a == wk[w].appr
<1>1. p # "idle" => /\ j \in Jobs /\ jobs[j].type # "none"
                    /\ jobs[j].type = "send" => jobs[j].appr \in Approvals
  BY DEF IndInv, WorkersInv, JobsInv
<1>2. p # "idle" => jobs'[j].type = jobs[j].type /\ jobs'[j].appr = jobs[j].appr
  BY <1>1, JobKept
<1>3. \A b \in Approvals : sent'[b] = sent[b]
  <2>1. \A v \in Workers : v = w
    BY Alone
  <2> QED BY <2>1, SentStep
<1>4. \A v \in Workers : wk'[v].pc = wk[v].pc
  BY Alone
<1>5. p \in {"audit_created", "draft", "merge", "deliver", "provider", "record", "mark_sent"}
        => a \in Approvals
  BY DEF IndInv, WorkersInv, JobsInv
<1>6. p \notin {"idle", "record"} /\ jobs[j].type = "send" => Settled(jobs[j].appr)'
  <2> SUFFICES ASSUME p \notin {"idle", "record"}, jobs[j].type = "send"
               PROVE  Settled(jobs[j].appr)'
    OBVIOUS
  <2>1. PICK b \in Approvals : b = jobs[j].appr
    BY <1>1
  <2>2. Settled(b)
    BY <2>1 DEF HandsInv, Hands
  <2>3. Settled(b)'
    BY <2>2, <1>3, SettledStays
  <2> QED BY <1>2, <2>1, <2>3 DEF Settled
<1>7. p = "mark_sent" => approvals'[a].body.draft
  <2> SUFFICES ASSUME p = "mark_sent" PROVE approvals'[a].body.draft
    OBVIOUS
  <2>1. a \in Approvals /\ sent[a] > 0 /\ approvals[a].body.draft
    BY <1>5 DEF IndInv, WorkersInv, HandsInv, Hands
  <2>2. \A v \in Workers : wk[v].pc # "record"
    BY Alone
  <2> QED BY <2>1, <2>2, BodyStep
<1>8. ASSUME p \in {"audit_sent", "succeed"}, jobs[j].type = "send"
      PROVE  /\ approvals'[jobs[j].appr].body.draft
             /\ approvals'[jobs[j].appr].body.msg = sent'[jobs[j].appr]
             /\ deliveries'[jobs[j].appr] \in {[status |-> "sent", msg |-> sent'[jobs[j].appr]],
                                               [status |-> "none", msg |-> 0]}
  <2>1. PICK b \in Approvals : b = jobs[j].appr
    BY <1>1, <1>8
  <2>2. Receipted(b) /\ sent[b] > 0
    BY <1>8, <2>1 DEF HandsInv, Hands, IndInv, WorkersInv
  <2>3. \A v \in Workers : wk[v].pc \notin {"provider", "record", "mark_sent", "fail_delivery"}
    BY <1>8, Alone
  <2>4. Receipted(b)'
    BY <2>2, <2>3, ReceiptedStays
  <2> QED BY <2>1, <2>4 DEF Receipted
<1>9. p # "idle" => jobs'[j].status # "succeeded"
  <2>1. p # "idle" => jobs[j].status # "succeeded"
    BY DEF HandsInv, Hands
  <2> QED BY <1>1, <1>4, <2>1, JobStep
<1>10. Hands(w)
  BY DEF HandsInv
<1>11. jobs'[j].type = "send" /\ p # "idle" => jobs[j].type = "send"
  BY <1>2
<1>12. p \in {"audit_sent", "succeed"} /\ jobs[j].type = "send" => Receipted(jobs[j].appr)'
  <2> SUFFICES ASSUME p \in {"audit_sent", "succeed"}, jobs[j].type = "send"
               PROVE  Receipted(jobs[j].appr)'
    OBVIOUS
  <2>1. jobs'[wk'[w].job].appr = jobs[j].appr
    BY <1>2
  <2> QED BY <1>8, <2>1 DEF Receipted
<1>13. p \notin {"idle", "record"} /\ jobs'[j].type = "send" => Settled(jobs[j].appr)'
  BY <1>6, <1>11
<1>14. p \in {"audit_sent", "succeed"} /\ jobs'[j].type = "send" => Receipted(jobs[j].appr)'
  BY <1>11, <1>12
<1>15. /\ p \in {"audit_created", "draft", "merge", "deliver", "provider", "record", "mark_sent"}
            => sent'[a] = sent[a]
  BY <1>3, <1>5
<1> QED BY <1>7, <1>9, <1>10, <1>13, <1>14, <1>15 DEF Hands

\* What a worker learns when it claims a job and works on a chat message.
LEMMA HandsOfChat ==
    ASSUME OneByOne, IndInv, DecisionsInv, OnceInv, [Next]_vars, NEW w \in Workers,
           wk'[w].job = wk[w].job, wk[w].pc \in ChatPcs, UNCHANGED <<jobs, sent>>,
           \/ wk'[w].pc \in {"connector", "succeed"}
           \/ /\ wk'[w].pc = "audit_created"
              /\ wk'[w].appr \in Approvals /\ approvals[wk'[w].appr].status = "none"
           \/ /\ wk[w].pc \in {"audit_created", "draft", "merge"}
              /\ wk'[w].pc \in {"draft", "merge", "deliver"}
              /\ wk'[w].appr = wk[w].appr
    PROVE  Hands(w)'
<1>1. jobs[wk[w].job].type = "chat" /\ jobs[wk[w].job].status # "succeeded"
  BY DEF ChatPcs, IndInv, WorkersInv, OnceInv, HandsInv, Hands
<1>2. wk'[w].pc \in {"audit_created", "draft", "merge", "deliver"} => sent[wk'[w].appr] = 0
  <2>1. CASE wk'[w].pc = "audit_created" /\ wk'[w].appr \in Approvals
             /\ approvals[wk'[w].appr].status = "none"
    <3>1. PICK a \in Approvals : a = wk'[w].appr
      BY <2>1
    <3>2. sent[a] \in Nat /\ ~ (sent[a] > 0)
      BY <2>1, <3>1, SentIsApproved DEF IndInv, TypeOK
    <3> QED BY <3>1, <3>2
  <2>2. CASE wk[w].pc \in {"audit_created", "draft", "merge"} /\ wk'[w].appr = wk[w].appr
    BY <2>2 DEF OnceInv, HandsInv, Hands
  <2> QED BY <2>1, <2>2
<1> QED BY <1>1, <1>2 DEF Hands

\* What a worker learns from the claim to the provider's answer and its record.
LEMMA HandsOfSend ==
    ASSUME OneByOne, IndInv, DecisionsInv, OnceInv, [Next]_vars, NEW w \in Workers,
           wk'[w].job = wk[w].job,
           \/ /\ wk[w].pc = "send" /\ UNCHANGED <<jobs, approvals, deliveries, sent>>
              /\ wk'[w].pc \in {"provider", "mark_sent"}
              /\ wk'[w].appr = jobs[wk[w].job].appr
              /\ wk'[w].body = approvals[wk'[w].appr].body
              /\ wk'[w].msg = approvals[wk'[w].appr].body.msg
              /\ wk'[w].body.draft
              /\ wk'[w].pc = "provider" => wk'[w].msg = 0
           \/ /\ wk[w].pc = "provider" /\ wk'[w].pc = "record"
              /\ wk'[w].appr = wk[w].appr /\ wk'[w].body = wk[w].body
              /\ wk'[w].msg = sent[wk[w].appr] + 1
              /\ sent'[wk[w].appr] = sent[wk[w].appr] + 1
              /\ UNCHANGED <<jobs, approvals, deliveries>>
           \/ /\ wk[w].pc = "record" /\ wk'[w].pc = "mark_sent"
              /\ wk'[w].appr = wk[w].appr /\ wk'[w].msg = wk[w].msg
              /\ approvals'[wk[w].appr].body.msg = wk[w].msg
              /\ approvals'[wk[w].appr].body.draft = wk[w].body.draft
              /\ UNCHANGED <<jobs, deliveries, sent>>
           \/ /\ wk[w].pc = "mark_sent" /\ wk'[w].pc \in {"succeed", "audit_sent"}
              /\ deliveries[wk[w].appr].status = "none" =>
                   deliveries'[wk[w].appr] = deliveries[wk[w].appr]
              /\ deliveries[wk[w].appr].status # "none" =>
                   deliveries'[wk[w].appr] = [status |-> "sent", msg |-> wk[w].msg]
              /\ UNCHANGED <<jobs, approvals, sent>>
           \/ /\ wk[w].pc = "audit_sent" /\ wk'[w].pc = "succeed"
              /\ UNCHANGED <<jobs, approvals, deliveries, sent>>
    PROVE  Hands(w)'
<1> DEFINE j == wk[w].job
           b == jobs[j].appr
<1>1. /\ j \in Jobs /\ jobs[j].type = "send" /\ b \in Approvals
      /\ wk[w].pc \in {"provider", "record", "mark_sent", "audit_sent"} => wk[w].appr = b
  BY DEF IndInv, WorkersInv, JobsInv
<1>2. Hands(w) /\ jobs[j].status # "succeeded"
  BY DEF OnceInv, HandsInv, Hands
<1>3. CASE wk[w].pc = "send"
  BY <1>1, <1>2, <1>3 DEF Hands, Settled
<1>4. CASE wk[w].pc = "provider"
  BY <1>1, <1>2, <1>4 DEF Hands
<1>5. CASE wk[w].pc = "record"
  BY <1>1, <1>2, <1>5 DEF Hands, Settled
<1>6. CASE wk[w].pc = "mark_sent"
  <2>1. /\ approvals[b].body.draft /\ approvals[b].body.msg = sent[b] /\ wk[w].msg = sent[b]
        /\ wk[w].appr = b
    BY <1>1, <1>2, <1>6 DEF Hands, Settled
  <2>2. deliveries'[b] \in {[status |-> "sent", msg |-> sent[b]], [status |-> "none", msg |-> 0]}
    <3>1. CASE deliveries[b].status = "none"
      <4>1. deliveries[b] \in DeliveryRow /\ deliveries[b].msg = 0
        BY <1>1, <3>1 DEF IndInv, TypeOK, OnceInv, SentInv
      <4>2. deliveries'[b] = deliveries[b]
        BY <1>6, <2>1, <3>1
      <4> QED BY <3>1, <4>1, <4>2 DEF DeliveryRow
    <3>2. CASE deliveries[b].status # "none"
      BY <1>6, <2>1, <3>2
    <3> QED BY <3>1, <3>2
  <2>3. UNCHANGED <<jobs, approvals, sent>> /\ wk'[w].pc \in {"succeed", "audit_sent"}
    BY <1>6
  <2>4. Receipted(b)' /\ Settled(b)'
    BY <2>1, <2>2, <2>3 DEF Receipted, Settled
  <2> QED BY <1>2, <2>3, <2>4 DEF Hands
<1>7. CASE wk[w].pc = "audit_sent"
  BY <1>1, <1>2, <1>7 DEF Hands, Settled, Receipted
<1> QED BY <1>3, <1>4, <1>5, <1>6, <1>7

LEMMA NextHands ==
    ASSUME OneByOne, IndInv, DecisionsInv, OnceInv, [Next]_vars
    PROVE  HandsInv'
<1> SUFFICES ASSUME NEW w \in Workers PROVE Hands(w)'
  BY DEF HandsInv
<1> DEFINE j == wk[w].job
           b == jobs[j].appr
<1>1. wk[w].pc # "idle" =>
        /\ j \in Jobs /\ jobs'[j].type = jobs[j].type /\ jobs'[j].appr = jobs[j].appr
        /\ jobs[j].type = "send" => b \in Approvals
  BY JobKept DEF IndInv, WorkersInv, JobsInv
<1>2. Hands(w)
  BY DEF OnceInv, HandsInv
<1>3. CASE wk'[w] = wk[w]
  BY <1>3, HandsKept
<1>4. CASE wk'[w].pc = "idle"
  BY <1>4 DEF Hands
<1>5. CASE /\ wk'[w].pc = "claim"
           /\ wk'[w].job \in Jobs /\ jobs[wk'[w].job].status = "pending"
           /\ wk[w].pc = "idle"
           /\ UNCHANGED <<jobs, approvals, deliveries, sent>>
  <2>1. jobs[wk'[w].job].type = "send" => Settled(jobs[wk'[w].job].appr)
    <3> SUFFICES ASSUME jobs[wk'[w].job].type = "send"
                 PROVE  Settled(jobs[wk'[w].job].appr)
      OBVIOUS
    <3>1. PICK i \in Jobs : i = wk'[w].job
      BY <1>5
    <3>2. PICK a \in Approvals : a = jobs[i].appr
      BY <3>1 DEF IndInv, JobsInv
    <3>3. \A v \in Workers : wk[v].pc # "record"
      BY <1>5, Alone
    <3>4. jobs[i].type = "send" /\ jobs[i].status # "running"
      BY <1>5, <3>1
    <3>5. Settled(a)
      BY <3>2, <3>3, <3>4 DEF OnceInv, SentInv
    <3> QED BY <3>1, <3>2, <3>5
  <2> QED BY <1>5, <2>1 DEF Hands, Settled
<1>6. CASE /\ wk'[w].job = wk[w].job
           /\ wk[w].pc = "claim" /\ wk'[w].pc \in {"chat", "send"}
           /\ jobs'[wk[w].job].status = "running"
           /\ UNCHANGED <<approvals, deliveries, sent>>
  <2>1. jobs'[j].type = "send" => approvals[b].body.msg = sent[b] /\ jobs'[j].appr = b
    BY <1>1, <1>2, <1>6 DEF Hands, Settled
  <2> QED BY <1>6, <2>1 DEF Hands, Settled
<1>7. CASE /\ wk'[w].job = wk[w].job
           /\ wk'[w].pc \in FailPcs /\ wk[w].pc \notin {"idle", "record"}
           /\ UNCHANGED sent
           /\ jobs'[j].status = "failed" \/ UNCHANGED jobs
  <2>1. jobs'[j].type = "send" => approvals'[b].body.msg = sent[b] /\ jobs'[j].appr = b
    <3> SUFFICES ASSUME jobs'[j].type = "send"
                 PROVE  approvals'[b].body.msg = sent[b]
      BY <1>1, <1>7
    <3>1. PICK a \in Approvals : a = b
      BY <1>1, <1>7
    <3>2. Settled(a)
      BY <1>1, <1>2, <1>7, <3>1 DEF Hands
    <3>3. Settled(a)'
      BY <1>7, <3>2, SettledStays DEF OnceInv
    <3> QED BY <1>7, <3>1, <3>3 DEF Settled
  <2>2. jobs'[j].status # "succeeded"
    BY <1>2, <1>7 DEF Hands
  <2> QED BY <1>7, <2>1, <2>2 DEF Hands, Settled, FailPcs
<1> QED BY <1>3, <1>4, <1>5, <1>6, <1>7, WorkerStep, HandsOfChat, HandsOfSend

LEMMA NextRetry ==
    ASSUME OneByOne, IndInv, DecisionsInv, OnceInv, [Next]_vars
    PROVE  RetryInv'
<1> SUFFICES ASSUME "retry" \in SerialOps
             PROVE  /\ \A w \in Workers :
                         /\ wk'[w].pc = "claim" => jobs'[wk'[w].job].status = "pending"
                         /\ wk'[w].pc \notin {"idle", "claim", "fail_delivery", "audit_failed",
                                              "raise"}
                            => jobs'[wk'[w].job].status = "running"
                    /\ \A q \in Requests :
                         rq'[q].pc = "retry" =>
                           rq'[q].op = "retry" /\ jobs'[rq'[q].target].status = "failed"
  BY DEF RetryInv
<1>1. /\ \A w \in Workers :
           /\ wk[w].pc = "claim" => jobs[wk[w].job].status = "pending"
           /\ wk[w].pc \notin {"idle", "claim", "fail_delivery", "audit_failed", "raise"}
              => jobs[wk[w].job].status = "running"
      /\ \A q \in Requests :
           rq[q].pc = "retry" => rq[q].op = "retry" /\ jobs[rq[q].target].status = "failed"
  BY DEF OnceInv, RetryInv
<1>2. ASSUME NEW w \in Workers
      PROVE  /\ wk'[w].pc = "claim" => jobs'[wk'[w].job].status = "pending"
             /\ wk'[w].pc \notin {"idle", "claim", "fail_delivery", "audit_failed", "raise"}
                => jobs'[wk'[w].job].status = "running"
  <2>1. CASE wk'[w] = wk[w] /\ wk[w].pc \notin {"idle", "fail_delivery", "audit_failed", "raise"}
    <3>1. wk[w].job \in Jobs /\ jobs[wk[w].job].status # "none"
      BY <2>1 DEF IndInv, WorkersInv, JobsInv
    <3>2. jobs[wk[w].job].status # "failed"
      BY <1>1, <2>1
    <3>3. \A v \in Workers : wk'[v] = wk[v]
      BY <2>1, Alone
    <3>4. jobs'[wk[w].job].status = jobs[wk[w].job].status
      <4>1. PICK i \in Jobs : i = wk[w].job
        BY <3>1
      <4>2. \A v \in Workers : v = w
        BY Alone
      <4> QED BY <1>1, <2>1, <3>1, <3>2, <3>3, <4>1, <4>2, JobStep
    <3> QED BY <1>1, <2>1, <3>4
  <2> QED BY <1>1, <2>1, WorkerStep DEF ChatPcs, FailPcs
<1>3. ASSUME NEW q \in Requests, rq'[q].pc = "retry"
      PROVE  rq'[q].op = "retry" /\ jobs'[rq'[q].target].status = "failed"
  <2>1. CASE rq'[q] = rq[q]
    <3>1. PICK i \in Jobs : i = rq[q].target
      BY <1>3, <2>1 DEF IndInv, RequestsInv
    <3>2. jobs[i].status = "failed" /\ rq[q].op = "retry"
      BY <1>1, <1>3, <2>1, <3>1
    <3>3. \A w \in Workers : wk[w].job = i => wk[w].pc \notin {"claim", "succeed", "fail"}
      BY <1>1, <3>2
    <3>4. ASSUME NEW r \in Requests, rq[r].pc = "retry", rq'[r].pc = "done"
          PROVE  FALSE
      BY <1>1, <1>3, <2>1, <3>4 DEF DecisionsInv, Active
    <3>5. jobs'[i].status = "failed"
      BY <3>2, <3>3, <3>4, JobStep DEF IndInv, JobsInv
    <3> QED BY <2>1, <3>1, <3>2, <3>5
  <2>2. CASE rq'[q] # rq[q]
    BY <1>3, <2>2, RequestStep DEF Active
  <2> QED BY <2>1, <2>2
<1> QED BY <1>2, <1>3

LEMMA NextReceipts ==
    ASSUME OneByOne, IndInv, DecisionsInv, OnceInv, [Next]_vars
    PROVE  ReceiptsAgree'
<1> SUFFICES ASSUME NEW j \in Jobs, jobs'[j].type = "send", jobs'[j].status = "succeeded"
             PROVE  Receipted(jobs[j].appr)'
  BY DEF ReceiptsAgree, Receipted
<1>1. CASE jobs'[j] = jobs[j]
  <2>1. PICK a \in Approvals : a = jobs[j].appr
    BY <1>1 DEF IndInv, JobsInv
  <2>2. Receipted(a) /\ sent[a] > 0
    BY <1>1, <2>1 DEF OnceInv, ReceiptsAgree, Receipted, IndInv, JobsInv
  <2>3. \A w \in Workers : wk[w].pc # "idle" => wk[w].job # j
    BY <1>1 DEF OnceInv, HandsInv, Hands
  <2>4. \A w \in Workers : /\ wk[w].pc \in {"provider", "record", "mark_sent"} => wk[w].appr # a
                           /\ wk[w].pc = "fail_delivery" => jobs[wk[w].job].appr # a
    BY <1>1, <2>1, <2>3, SenderHasJob
  <2>5. Receipted(a)'
    BY <2>2, <2>4, ReceiptedStays DEF OnceInv
  <2> QED BY <1>1, <2>1, <2>5 DEF Receipted
<1>2. ASSUME NEW w \in Workers, wk[w].job = j, wk[w].pc = "succeed",
             jobs'[j].type = jobs[j].type, jobs'[j].appr = jobs[j].appr,
             UNCHANGED <<approvals, deliveries, sent>>
      PROVE  Receipted(jobs[j].appr)'
  <2>1. Receipted(jobs[j].appr)
    BY <1>2 DEF OnceInv, HandsInv, Hands
  <2> QED BY <1>2, <2>1 DEF Receipted
<1> QED BY <1>1, <1>2, JobStep

LEMMA InitOnce == Init => OnceInv
<1> SUFFICES ASSUME Init PROVE OnceInv
  OBVIOUS
<1>1. \A w \in Workers : wk[w].pc = "idle"
  BY DEF Init, IdleWorker
<1>2. SentInv
  BY DEF Init, SentInv, Settled, NoBody
<1>3. HandsInv
  BY <1>1 DEF HandsInv, Hands
<1>4. RetryInv
  BY <1>1 DEF Init, RetryInv, DoneRequest
<1>5. ReceiptsAgree
  BY DEF Init, ReceiptsAgree, NoJob
<1> QED BY <1>2, <1>3, <1>4, <1>5 DEF OnceInv

LEMMA OnceInvariance == OneByOne => (Spec => []OnceInv)
<1> SUFFICES ASSUME OneByOne PROVE Spec => []OnceInv
  OBVIOUS
<1>1. IndInv /\ DecisionsInv /\ OnceInv /\ [Next]_vars => OnceInv'
  BY NextSent, NextHands, NextRetry, NextReceipts DEF OnceInv
<1>2. Spec => []DecisionsInv
  BY DecisionsInvariance DEF OneByOne
<1> QED BY <1>1, <1>2, InitOnce, Invariance, PTL DEF Spec

\* One approval, at most one message, over any sequence of operator calls, deaths of the
\* worker between the send and its record, failures of the audit log and retries.
THEOREM AtMostOneMessage == OneByOne => (Spec => []AtMostOneSend)
<1> SUFFICES ASSUME OneByOne PROVE Spec => []AtMostOneSend
  OBVIOUS
<1>1. OnceInv => AtMostOneSend
  BY DEF OnceInv, SentInv, AtMostOneSend
<1> QED BY <1>1, OnceInvariance, PTL

\* What a successful send leaves on the approval and on the delivery agrees with what the
\* provider did.
THEOREM ReceiptsAlwaysAgree == OneByOne => (Spec => []ReceiptsAgree)
<1> SUFFICES ASSUME OneByOne PROVE Spec => []ReceiptsAgree
  OBVIOUS
<1>1. OnceInv => ReceiptsAgree
  BY DEF OnceInv
<1> QED BY <1>1, OnceInvariance, PTL

=============================================================================
