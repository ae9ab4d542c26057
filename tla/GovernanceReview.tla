-------------------------- MODULE GovernanceReview --------------------------
(***************************************************************************)
(* A vendor governance review from intake to evidence: the submit handler  *)
(* of services/governance_workflow.py with the graph nodes it creates      *)
(* (services/evidence_graph.py), the decision on its approval gate         *)
(* (services/approval_service.py, kind governance.review), the human       *)
(* override (services/override_service.py) and the three views that report *)
(* a review's status: list_runs, get_run and the evidence packet.          *)
(*                                                                         *)
(* It composes with the policy registry: PolicyVersions moves the active   *)
(* version that submit reads and binds.  submit makes up to nine commits   *)
(* of its own; each is a step here.  A submit or a decision that dies      *)
(* between two commits, or whose audit event is given up, is one that      *)
(* takes no further step: every step is optional, and no other request     *)
(* waits for it.  Each action id stands for one submit request.            *)
(*                                                                         *)
(* Every UPDATE of a governed action names only the column it changes      *)
(* (approval_id, or status), so the two writers do not overwrite each      *)
(* other.                                                                  *)
(***************************************************************************)
EXTENDS PolicyVersions, Risk

CONSTANTS Vendors,           \* the intakes that are submitted
          Actions,           \* governed actions, each by one submit request
          Deciders,          \* threads that serve approve and reject requests: one, so
                             \* that decisions are made one at a time
          Overriders,        \* threads that serve override requests
          NoVersion          \* policy_version_id NULL

ASSUME VendorsAssumption == Vendors \subseteq Intakes
ASSUME NoVersionAssumption == NoVersion \notin Rows

VARIABLES runs,        \* table governed_actions
          gates,       \* status of the approval whose job_id is the action
          nodes,       \* risk assessments and evidence artifacts: <<kind, action>>
          overrides,   \* table action_overrides: <<tenant, governed action>>
          trail,       \* audit events of reviews: <<action, tenant, governed action>>
          sub,         \* the submit requests
          dq,          \* the decision requests
          oq           \* the override requests

reviewVars == <<runs, gates, nodes, overrides, trail, sub, dq, oq>>
rvars == <<vars, reviewVars>>

Statuses == {"blocked", "pending_approval", "cleared", "override_recorded"}

GovernedAction ==
  [tenant : Scopes, version : Rows \cup {NoVersion}, category : PolicyCategory,
   level : Levels, status : Statuses, linked : BOOLEAN]
NoAction == [status |-> "none"]

SubmitPcs == {"system", "create", "risk", "submitted", "policy_evaluated", "risk_classified",
              "gate", "gate_audit", "link", "approval_required", "auto_cleared", "blocked",
              "artifact"}

Submits ==
  [pc : {"idle", "done", "dead"}]
    \cup [pc : SubmitPcs, tenant : Scopes, category : PolicyCategory, level : Levels,
          version : Rows \cup {NoVersion}]

Decisions == {"approved", "rejected"}

\* A thread that decides or overrides and has no request.
Free == [pc |-> "idle"]

(***************************************************************************)
(* The rows and the requests stay in their domains.                        *)
(***************************************************************************)
RTypeOK ==
  /\ runs \in [Actions -> GovernedAction \cup {NoAction}]
  /\ gates \in [Actions -> {"none", "pending"} \cup Decisions]
  /\ nodes \subseteq {"risk_assessment", "evidence_artifact"} \X Actions
  /\ overrides \subseteq Scopes \X Actions
  /\ sub \in [Actions -> Submits]
  /\ \A d \in Deciders : dq[d].pc \in {"idle", "commit", "audit"}
  /\ \A o \in Overriders : oq[o].pc \in {"idle", "audit"}

RInit ==
  /\ Init
  /\ runs = [a \in Actions |-> NoAction]
  /\ gates = [a \in Actions |-> "none"]
  /\ nodes = {}
  /\ overrides = {}
  /\ trail = {}
  /\ sub = [a \in Actions |-> [pc |-> "idle"]]
  /\ dq = [d \in Deciders |-> Free]
  /\ oq = [o \in Overriders |-> Free]

-----------------------------------------------------------------------------
(***************************************************************************)
(* submit_vendor_governance_review.                                        *)
(***************************************************************************)
SubmitAt(a, p) ==
  sub' = [sub EXCEPT ![a] = IF p = "done" THEN [pc |-> "done"] ELSE [@ EXCEPT !.pc = p]]

\* Classify the intake and look for an active version of the tenant's own.
Submit(a) ==
  \E t \in Scopes, i \in Vendors :
    LET own == _active_versions(t) IN
    /\ server = "up"
    /\ sub[a].pc = "idle"
    /\ \E v \in IF own = {} THEN {NoVersion} ELSE own :
         sub' = [sub EXCEPT ![a] =
                   [pc |-> IF own = {} /\ t # System THEN "system" ELSE "create",
                    tenant |-> t, version |-> v,
                    category |-> _policy_category_for(i), level |-> classify_risk(i)]]
    /\ UNCHANGED <<vars, runs, gates, nodes, overrides, trail, dq, oq>>

\* Variant: fall back to the latest version of the system, active or not.
MutReadSystemDefault(a) ==
  /\ sub[a].pc = "system"
  /\ \E v \in {w \in Present : policies[w].tenant = System} :
       sub' = [sub EXCEPT ![a] = [@ EXCEPT !.pc = "create", !.version = v]]
  /\ UNCHANGED <<vars, runs, gates, nodes, overrides, trail, dq, oq>>

\* get_active falls back to the system default.
ReadSystemDefault(a) ==
  LET system == _active_versions(System) IN
  /\ sub[a].pc = "system"
  /\ \E v \in IF system = {} THEN {NoVersion} ELSE system :
       sub' = [sub EXCEPT ![a] = [@ EXCEPT !.pc = "create", !.version = v]]
  /\ UNCHANGED <<vars, runs, gates, nodes, overrides, trail, dq, oq>>

\* create_governed_action binds the version.
CreateAction(a) ==
  /\ sub[a].pc = "create"
  /\ runs' = [runs EXCEPT ![a] =
                [tenant |-> sub[a].tenant, version |-> sub[a].version,
                 category |-> sub[a].category, level |-> sub[a].level,
                 status |-> SubmitStatus(sub[a].category, sub[a].level), linked |-> FALSE]]
  /\ SubmitAt(a, "risk")
  /\ UNCHANGED <<vars, gates, nodes, overrides, trail, dq, oq>>

\* create_risk_assessment.
AssessRisk(a) ==
  /\ sub[a].pc = "risk"
  /\ nodes' = nodes \cup {<<"risk_assessment", a>>}
  /\ SubmitAt(a, "submitted")
  /\ UNCHANGED <<vars, runs, gates, overrides, trail, dq, oq>>

\* What follows an audit event of submit.
AfterAudit(a) ==
  CASE sub[a].pc = "submitted" -> "policy_evaluated"
    [] sub[a].pc = "policy_evaluated" -> "risk_classified"
    [] sub[a].pc = "risk_classified" ->
         IF evaluate_action(sub[a].category).blocked THEN "blocked"
         ELSE IF RequiresApproval(sub[a].category, sub[a].level) THEN "gate" ELSE "auto_cleared"
    [] OTHER -> "artifact"

\* An audit event of the review, named by the step it follows.
AuditStep(a) ==
  /\ sub[a].pc \in {"submitted", "policy_evaluated", "risk_classified",
                    "approval_required", "auto_cleared", "blocked"}
  /\ trail' = trail \cup {<<sub[a].pc, sub[a].tenant, a>>}
  /\ SubmitAt(a, AfterAudit(a))
  /\ UNCHANGED <<vars, runs, gates, nodes, overrides, dq, oq>>

\* create_request of kind governance.review: the approval can be decided from
\* here on; then its audit event.
CreateGate(a) ==
  /\ sub[a].pc = "gate"
  /\ gates' = [gates EXCEPT ![a] = "pending"]
  /\ SubmitAt(a, "gate_audit")
  /\ UNCHANGED <<vars, runs, nodes, overrides, trail, dq, oq>>

AuditGate(a) ==
  /\ sub[a].pc = "gate_audit"
  /\ trail' = trail \cup {<<"approval.created", sub[a].tenant, a>>}
  /\ SubmitAt(a, "link")
  /\ UNCHANGED <<vars, runs, gates, nodes, overrides, dq, oq>>

\* Variant: the link also writes back the status the action was created with.
MutLinkGateRewrites(a) ==
  /\ sub[a].pc = "link"
  /\ runs' = [runs EXCEPT ![a].linked = TRUE,
                          ![a].status = SubmitStatus(sub[a].category, sub[a].level)]
  /\ SubmitAt(a, "approval_required")
  /\ UNCHANGED <<vars, gates, nodes, overrides, trail, dq, oq>>

\* Variant: the approval is created but never linked.
MutLinkGateSkipped(a) ==
  /\ sub[a].pc = "link"
  /\ SubmitAt(a, "approval_required")
  /\ UNCHANGED <<vars, runs, gates, nodes, overrides, trail, dq, oq>>

\* action.approval_id = approval.id
LinkGate(a) ==
  /\ sub[a].pc = "link"
  /\ runs' = [runs EXCEPT ![a].linked = TRUE]
  /\ SubmitAt(a, "approval_required")
  /\ UNCHANGED <<vars, gates, nodes, overrides, trail, dq, oq>>

\* record_evidence_artifact; the request answers.
RecordArtifact(a) ==
  /\ sub[a].pc = "artifact"
  /\ nodes' = nodes \cup {<<"evidence_artifact", a>>}
  /\ SubmitAt(a, "done")
  /\ UNCHANGED <<vars, runs, gates, overrides, trail, dq, oq>>

-----------------------------------------------------------------------------
(***************************************************************************)
(* POST /approvals/{id}/approve and /reject on a review's gate.            *)
(***************************************************************************)

\* Variant: an approval that is decided already can be decided again.
MutDecideRead(d) ==
  \E a \in Actions, s \in Decisions :
    /\ server = "up"
    /\ dq[d].pc = "idle"
    /\ gates[a] # "none"
    /\ dq' = [dq EXCEPT ![d] = [pc |-> "commit", action |-> a, decision |-> s]]
    /\ UNCHANGED <<vars, runs, gates, nodes, overrides, trail, sub, oq>>

DecideRead(d) ==
  \E a \in Actions, s \in Decisions :
    /\ server = "up"
    /\ dq[d].pc = "idle"
    /\ gates[a] = "pending"
    /\ dq' = [dq EXCEPT ![d] = [pc |-> "commit", action |-> a, decision |-> s]]
    /\ UNCHANGED <<vars, runs, gates, nodes, overrides, trail, sub, oq>>

DecideCommit(d) ==
  /\ dq[d].pc = "commit"
  /\ gates' = [gates EXCEPT ![dq[d].action] = dq[d].decision]
  /\ dq' = [dq EXCEPT ![d] = [@ EXCEPT !.pc = "audit"]]
  /\ UNCHANGED <<vars, runs, nodes, overrides, trail, sub, oq>>

\* A review's gate is not of kind job.gate: nothing is enqueued.
DecideAudit(d) ==
  /\ dq[d].pc = "audit"
  /\ trail' = trail \cup {<<dq[d].decision, runs[dq[d].action].tenant, dq[d].action>>}
  /\ dq' = [dq EXCEPT ![d] = Free]
  /\ UNCHANGED <<vars, runs, gates, nodes, overrides, sub, oq>>

-----------------------------------------------------------------------------
(***************************************************************************)
(* POST /workflows/runs/{id}/override: create_override.                    *)
(***************************************************************************)
\* _scoped: a tenant finds its own reviews, the operator (System) all of them.
Finds(t, a) == runs[a] # NoAction /\ (t = System \/ runs[a].tenant = t)

OVERRIDABLE_RISK == {"medium", "high"}

\* Variant: the risk level is not looked at.
MutOverride(o) ==
  \E t \in Scopes, a \in Actions :
    /\ server = "up"
    /\ oq[o].pc = "idle"
    /\ Finds(t, a)
    /\ overrides' = overrides \cup {<<t, a>>}
    /\ runs' = [runs EXCEPT ![a].status = "override_recorded"]
    /\ oq' = [oq EXCEPT ![o] = [pc |-> "audit", tenant |-> t, action |-> a]]
    /\ UNCHANGED <<vars, gates, nodes, trail, sub, dq>>

\* The level never changes, so reading and committing are one step; the
\* override row and the action's status are one commit.  The row, and the audit
\* event, carry the caller's tenant: none when the operator overrides.
Override(o) ==
  \E t \in Scopes, a \in Actions :
    /\ server = "up"
    /\ oq[o].pc = "idle"
    /\ Finds(t, a)
    /\ runs[a].level \in OVERRIDABLE_RISK
    /\ overrides' = overrides \cup {<<t, a>>}
    /\ runs' = [runs EXCEPT ![a].status = "override_recorded"]
    /\ oq' = [oq EXCEPT ![o] = [pc |-> "audit", tenant |-> t, action |-> a]]
    /\ UNCHANGED <<vars, gates, nodes, trail, sub, dq>>

OverrideAudit(o) ==
  /\ oq[o].pc = "audit"
  /\ trail' = trail \cup {<<"overridden", oq[o].tenant, oq[o].action>>}
  /\ oq' = [oq EXCEPT ![o] = Free]
  /\ UNCHANGED <<vars, runs, gates, nodes, overrides, sub, dq>>

-----------------------------------------------------------------------------
\* The audit event of an override is given up, and the thread is free again.
OverrideDies(o) ==
  /\ oq[o].pc = "audit"
  /\ oq' = [oq EXCEPT ![o] = Free]
  /\ UNCHANGED <<vars, runs, gates, nodes, overrides, trail, sub, dq>>

\* The API process stops with every request it serves.
StopAll ==
  /\ Stop
  /\ sub' = [a \in Actions |-> IF sub[a].pc \in SubmitPcs THEN [pc |-> "dead"] ELSE sub[a]]
  /\ dq' = [d \in Deciders |-> Free]
  /\ oq' = [o \in Overriders |-> Free]
  /\ UNCHANGED <<runs, gates, nodes, overrides, trail>>

RegistryMoves ==
  /\ \/ \E c \in Calls : Serve(c)
     \/ SeedInsert \/ SeedReactivate \/ SeedRaises
  /\ UNCHANGED reviewVars

\* The next statement of a submit.
SubmitStep(a) ==
  \/ ReadSystemDefault(a) \/ CreateAction(a) \/ AssessRisk(a) \/ AuditStep(a)
  \/ CreateGate(a) \/ AuditGate(a) \/ LinkGate(a) \/ RecordArtifact(a)

RNext ==
  \/ RegistryMoves
  \/ StopAll
  \/ \E a \in Actions : Submit(a) \/ SubmitStep(a)
  \/ \E d \in Deciders : DecideRead(d) \/ DecideCommit(d) \/ DecideAudit(d)
  \/ \E o \in Overriders : Override(o) \/ OverrideAudit(o) \/ OverrideDies(o)

RSpec == RInit /\ [][RNext]_rvars

-----------------------------------------------------------------------------
(***************************************************************************)
(* The views of a review that exists.                                      *)
(***************************************************************************)
Created == {a \in Actions : runs[a] # NoAction}

_APPROVAL_STATUS_MAP ==
  [pending |-> "pending_approval", approved |-> "approved", rejected |-> "rejected"]

\* The approval that an action row leads to.
LinkedApproval(action, a) == IF action.linked THEN gates[a] ELSE "none"

\* _run_status, which GET /workflows/runs/{id} shows.
_run_status(a) ==
  IF evaluate_action(runs[a].category).blocked THEN "blocked"
  ELSE IF ~ runs[a].linked THEN "cleared" ELSE _APPROVAL_STATUS_MAP[gates[a]]

\* list_runs shows the stored status.
list_status(a) == runs[a].status

\* What the evidence packet shows of an action row and its approval.
_effective_action_status(action, approval) ==
  IF action.status = "override_recorded" \/ approval = "none"
  THEN action.status ELSE _APPROVAL_STATUS_MAP[approval]

PacketStatus(a) == _effective_action_status(runs[a], LinkedApproval(runs[a], a))

\* The actions somebody overrode.
Overridden == {o[2] : o \in overrides}

-----------------------------------------------------------------------------
(***************************************************************************)
(* A review is bound to a version that has been in force, of its own       *)
(* tenant or of the system, never to a draft or to another tenant's,       *)
(* however activations interleave with the two reads of get_active and     *)
(* with the commit.                                                        *)
(***************************************************************************)
BoundToReleasedVersion ==
  \A a \in Created :
    LET v == runs[a].version IN
    v # NoVersion => /\ policies[v].status \in {"active", "superseded"}
                     /\ policies[v].tenant \in {System, runs[a].tenant}

(***************************************************************************)
(* The packet shows "approved" or "rejected" only for a review whose gate  *)
(* was decided so, "cleared" only for a low-risk one, and an override only *)
(* for one that the gate covers: a low-risk review has nothing to          *)
(* override.                                                               *)
(***************************************************************************)
PacketIsHonest ==
  \A a \in Created :
    LET s == PacketStatus(a) IN
    /\ s \in Decisions => gates[a] = s
    /\ s = "cleared" => runs[a].level = "low" /\ gates[a] = "none"
    /\ s = "override_recorded" => a \in Overridden /\ runs[a].level # "low"
    /\ a \in Overridden => s = "override_recorded"

(***************************************************************************)
(* What a packet says of a review only advances: a decision stands until a *)
(* human override, and an override, "a terminal authorization decision",   *)
(* stands for ever, while submit, decisions, overrides and restarts        *)
(* interleave.                                                             *)
(***************************************************************************)
PacketOnlyAdvances ==
  [][\A a \in Created :
       LET old == PacketStatus(a)
           new == PacketStatus(a)'
       IN  /\ old \in Decisions => new \in {old, "override_recorded"}
           /\ old = "override_recorded" => new = old
           /\ old = "cleared" => new = old]_rvars

(***************************************************************************)
(* Once submit has answered, the three views tell the same story of a      *)
(* review nobody overrode: get_run and the packet show the same status     *)
(* through every decision, and both the run and the list show it as        *)
(* cleared only when it was below the gate.                                *)
(***************************************************************************)
ViewsAgree ==
  \A a \in Actions : sub[a].pc = "done" /\ a \notin Overridden =>
    /\ _run_status(a) = PacketStatus(a)
    /\ _run_status(a) = "cleared" <=> list_status(a) = "cleared"
    /\ list_status(a) = "cleared" => runs[a].level = "low"

=============================================================================
