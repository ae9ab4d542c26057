------------------------------ MODULE Evidence ------------------------------
(***************************************************************************)
(* What readers are told about a governance review: the evidence graph     *)
(* (get_evidence_graph of services/evidence_graph.py), the packet built    *)
(* from it (services/evidence_packet.py), the incident replay              *)
(* (services/incident_replay.py) and the trust score of the packet, as     *)
(* served by app/api/evidence.py, app/api/incidents.py and                 *)
(* app/api/trust.py.                                                       *)
(*                                                                         *)
(* A graph is read statement by statement, and every SELECT sees what is   *)
(* committed by then: the review goes on meanwhile.  Rows that were loaded *)
(* stay in the session: the second graph of a replay finds the action and  *)
(* the approval as the first one loaded them, but selects the audit        *)
(* events, the artifacts and the overrides again.  A reader is a tenant or *)
(* the operator (System), whose queries are not filtered.                  *)
(*                                                                         *)
(* A review has no workflow, no jobs and no mapped controls: only a demo   *)
(* script creates them.                                                    *)
(***************************************************************************)
EXTENDS GovernanceReview, TrustScore

CONSTANTS Readers,    \* requests that read
          Hardened    \* TRUE: app_env is staging or production

ASSUME HardenedAssumption == Hardened \in BOOLEAN

VARIABLE rd    \* the readers

evars == <<rvars, rd>>

\* The tables that are read.
evidence == <<runs, gates, nodes, overrides, trail>>

Quiet == [pc |-> "idle"]

-----------------------------------------------------------------------------
(***************************************************************************)
(* The queries of a reader in scope t.                                     *)
(***************************************************************************)

\* Variant: the operator's queries are filtered by its missing tenant too.
MutSees(t, owner) == owner = t

\* if tenant_id is not None: where(tenant_id == ...)
Sees(t, owner) == t = System \/ owner = t

\* Events whose resource is the approval; those of all others are the action.
ApprovalEvents == {"approval.created"} \cup Decisions

\* The events of the ids in an action row: the approval's only when linked.
audit_events(t, action, a) ==
  LET Of(e) == e[3] = a /\ (e[1] \in ApprovalEvents => action.linked)
  IN  {e[1] : e \in {x \in trail : Of(x) /\ Sees(t, x[2])}}

list_evidence_artifacts(a) == {n \in nodes : n = <<"evidence_artifact", a>>}

action_overrides(t, a) == {o \in overrides : o[2] = a /\ Sees(t, o[1])}

\* Recorded events verify (NoFalseAlarm of AuditChain).
verify(t) == IF \E e \in trail : Sees(t, e[2]) THEN "verified" ELSE "empty"

-----------------------------------------------------------------------------
(***************************************************************************)
(* The packet of a graph, and its score.                                   *)
(***************************************************************************)
evidence_gaps(g) ==
  {"missing_control_mappings"}
    \cup (IF g.approval = "none" THEN {"missing_approval"} ELSE {})
    \cup (IF g.events = {} THEN {"missing_audit_records"} ELSE {})
    \cup (IF g.artifacts = {} THEN {"missing_evidence_artifacts"} ELSE {})

_assemble(g, verification) ==
  [status |-> _effective_action_status(g.loaded, g.approval), approval |-> g.approval,
   version |-> g.loaded.version, events |-> g.events, overrides |-> g.overrides,
   gaps |-> evidence_gaps(g), chain |-> verification, tenant |-> g.tenant]

\* What the scorers read of a packet.  Any event whose name holds "approv" counts
\* as a decision.
score_action(p) ==
  score_packet(
    [chain |-> p.chain, approvals |-> If(p.approval # "none", 1),
     approved |-> If(p.approval = "approved", 1), controls |-> FALSE,
     gaps |-> Cardinality(p.gaps), regulations |-> FALSE, hardened |-> Hardened,
     tenant |-> p.tenant # System, overrides |-> p.overrides # {}, decisions |-> 1,
     bound |-> If(p.version # NoVersion, 1), submitted |-> "submitted" \in p.events,
     decided |-> p.events \cap (ApprovalEvents \cup {"approval_required"}) # {}])

\* The graph that a reader would get if nothing happened while it reads.
GraphNow(t, a) ==
  [tenant |-> t, loaded |-> runs[a], approval |-> LinkedApproval(runs[a], a),
   events |-> audit_events(t, runs[a], a), artifacts |-> list_evidence_artifacts(a),
   overrides |-> action_overrides(t, a)]

PacketNow(t, a) == _assemble(GraphNow(t, a), verify(t))

-----------------------------------------------------------------------------
(***************************************************************************)
(* get_evidence_graph, statement by statement.                             *)
(***************************************************************************)
EInit == RInit /\ rd = [r \in Readers |-> Quiet]

Goes(r, from, to, column, value) ==
  /\ rd[r].pc = from
  /\ rd' = [rd EXCEPT ![r] = [f \in DOMAIN @ \cup {column} |->
               IF f = "pc" THEN to ELSE IF f = column THEN value ELSE @[f]]]
  /\ UNCHANGED rvars

\* get_governed_action; a review that is not found in the scope answers 404.
LoadAction(r) ==
  \E t \in Scopes, a \in Actions, replay \in BOOLEAN :
    /\ server = "up"
    /\ rd[r] = Quiet
    /\ Finds(t, a)
    /\ rd' = [rd EXCEPT ![r] = [pc |-> "approval", tenant |-> t, action |-> a,
                                loaded |-> runs[a], replay |-> replay]]
    /\ UNCHANGED rvars

LoadApproval(r) ==
  Goes(r, "approval", IF rd[r].replay THEN "timeline" ELSE "events", "approval",
       LinkedApproval(rd[r].loaded, rd[r].action))

\* The first graph of a replay: only its events are used, as the timeline.
ReadTimeline(r) ==
  Goes(r, "timeline", "events", "timeline",
       audit_events(rd[r].tenant, rd[r].loaded, rd[r].action))

ReadEvents(r) ==
  Goes(r, "events", "artifacts", "events",
       audit_events(rd[r].tenant, rd[r].loaded, rd[r].action))

ReadArtifacts(r) ==
  Goes(r, "artifacts", "overrides", "artifacts", list_evidence_artifacts(rd[r].action))

ReadOverrides(r) ==
  Goes(r, "overrides", "verify", "overrides",
       action_overrides(rd[r].tenant, rd[r].action))

\* _assemble verifies the audit chain, and the response is sent.
Respond(r) ==
  /\ rd[r].pc = "verify"
  /\ rd' = [rd EXCEPT ![r] = Quiet]
  /\ UNCHANGED rvars

Read(r) ==
  \/ LoadAction(r) \/ LoadApproval(r) \/ ReadTimeline(r) \/ ReadEvents(r)
  \/ ReadArtifacts(r) \/ ReadOverrides(r) \/ Respond(r)

ENext ==
  \/ RNext /\ rd' = IF server' = "up" THEN rd ELSE [r \in Readers |-> Quiet]
  \/ \E r \in Readers : Read(r)

ESpec == EInit /\ [][ENext]_evars

-----------------------------------------------------------------------------
\* The packet in the response that a reader is about to get.
Response(r) == _assemble(rd[r], verify(rd[r].tenant))

Responding == {r \in Readers : rd[r].pc = "verify"}

(***************************************************************************)
(* A review that answered left its evidence: whoever finds it gets a       *)
(* packet with every step audited and no gap but the controls nobody       *)
(* mapped and, at low risk only, the approval.  Policy and risk agree on   *)
(* who needs one, although they are two tables: a review that waited for   *)
(* an approval at low risk could not be overridden.                        *)
(***************************************************************************)
AnsweredMeansEvidence ==
  \A a \in Actions, t \in Scopes : sub[a].pc = "done" /\ Finds(t, a) =>
    LET p == PacketNow(t, a) IN
    /\ p.gaps \subseteq {"missing_control_mappings", "missing_approval"}
    /\ "missing_approval" \in p.gaps <=> runs[a].level = "low"
    /\ {"submitted", "policy_evaluated", "risk_classified"} \subseteq p.events

(***************************************************************************)
(* A response hangs together although it was read in pieces: an override   *)
(* it shows as the status, or in an event, is listed (unless the operator  *)
(* recorded it and a tenant reads: that row is filtered); no event of an   *)
(* approval is shown beside the gap "missing_approval"; and the timeline   *)
(* of a replay shows nothing that the packet's events lack.                *)
(***************************************************************************)
ResponseCoherent ==
  \A r \in Responding :
    LET p == Response(r)
        timeline == IF rd[r].replay THEN rd[r].timeline ELSE {}
    IN  /\ p.status = "override_recorded" =>
             p.overrides # {} \/ (p.tenant # System /\ <<System, rd[r].action>> \in overrides)
        /\ "overridden" \in p.events => p.overrides # {}
        /\ "missing_approval" \in p.gaps => (p.events \cup timeline) \cap ApprovalEvents = {}
        /\ timeline \subseteq p.events

(***************************************************************************)
(* A score computed while the review moves never overstates: the packet    *)
(* that was read in pieces scores at most what the evidence on record is   *)
(* worth when the score is stored, but for an override recorded since.     *)
(***************************************************************************)
ScoreNotOverstated ==
  \A r \in Responding :
    \E now \in {PacketNow(rd[r].tenant, rd[r].action)}, p \in {Response(r)} :
      p.overrides = now.overrides => score_action(p) <= score_action(now)

(***************************************************************************)
(* Trust only falls by a human override: nothing else that happens to a    *)
(* review, deaths and restarts included, lowers the score of its evidence  *)
(* in anybody's scope.                                                     *)
(***************************************************************************)
OnlyOverrideLowersTrust ==
  [][evidence' # evidence => \A a \in Created, t \in Scopes : Finds(t, a) =>
       \E old \in {GraphNow(t, a)}, new \in {GraphNow(t, a)'} :
         old.overrides = new.overrides =>
           score_action(_assemble(old, verify(t))) <= score_action(_assemble(new, verify(t)'))]_evars

=============================================================================
