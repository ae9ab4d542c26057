----------------------- MODULE GovernanceReviewProofs -----------------------
(***************************************************************************)
(* Governance reviews for any number of reviews, rows, tenants, intakes    *)
(* and requests, with deaths and restarts.  The reviews do not disturb the *)
(* registry, so its theorems hold of the composition; a review's row, its  *)
(* approval and its override are related by the step its submit has        *)
(* reached.                                                                *)
(***************************************************************************)
EXTENDS GovernanceReview, PolicyVersionsProofs

\* The records of the requests in flight.
SubmitRecord ==
  [pc : SubmitPcs, tenant : Scopes, category : PolicyCategory, level : Levels,
   version : Rows \cup {NoVersion}]

DecisionRecord == [pc : {"commit", "audit"}, action : Actions, decision : Decisions]

OverrideRecord == [pc : {"audit"}, tenant : Scopes, action : Actions]

ReviewTypes ==
  /\ RTypeOK
  /\ dq \in [Deciders -> DecisionRecord \cup {Free}]
  /\ oq \in [Overriders -> OverrideRecord \cup {Free}]

\* A review that waits for an approval.
Waits(category, level) == SubmitStatus(category, level) = "pending_approval"

BeforeCreate == {"idle", "system", "create"}

\* Steps of submit at which no approval exists, or it does.
Ungated == {"risk", "submitted", "policy_evaluated", "risk_classified", "gate",
            "auto_cleared", "blocked"}
Gated == {"gate_audit", "link", "approval_required"}

\* The row of a review, its approval and its override.
RowOK(a) ==
  /\ sub[a].pc \in BeforeCreate => runs[a] = NoAction
  /\ runs[a] = NoAction => /\ gates[a] = "none"
                           /\ sub[a].pc \in BeforeCreate \cup {"dead"}
                           /\ a \notin Overridden
  /\ runs[a] # NoAction =>
       /\ sub[a].pc \in SubmitPcs => /\ sub[a].tenant = runs[a].tenant
                                     /\ sub[a].category = runs[a].category
                                     /\ sub[a].level = runs[a].level
       /\ gates[a] # "none" => Waits(runs[a].category, runs[a].level)
       /\ runs[a].linked => gates[a] # "none"
       /\ runs[a].status = IF a \in Overridden THEN "override_recorded"
                           ELSE SubmitStatus(runs[a].category, runs[a].level)
       /\ a \in Overridden => runs[a].level \in OVERRIDABLE_RISK

\* How far submit has come.
StageOK(a) ==
  LET p == sub[a].pc IN
  /\ p \in Ungated => gates[a] = "none"
  /\ p \in {"gate"} \cup Gated => Waits(runs[a].category, runs[a].level)
  /\ p \in Gated => gates[a] # "none"
  /\ p \in {"auto_cleared", "blocked"} => ~ Waits(runs[a].category, runs[a].level)
  /\ p = "approval_required" => runs[a].linked
  /\ p \in {"artifact", "done"} => (runs[a].linked <=> Waits(runs[a].category, runs[a].level))

ReviewsOK == \A a \in Actions : RowOK(a) /\ StageOK(a)

\* A decision is about an approval that exists.
DecidersOK == \A d \in Deciders : dq[d].pc # "idle" => gates[dq[d].action] # "none"

ReviewInv == ReviewTypes /\ ReviewsOK /\ DecidersOK

-----------------------------------------------------------------------------
\* The locals of a submit in each phase.
LEMMA SubmitCases ==
  ASSUME ReviewTypes, NEW a \in Actions
  PROVE  /\ sub[a].pc \in {"idle", "done", "dead"} \cup SubmitPcs
         /\ sub[a].pc \in SubmitPcs => sub[a] \in SubmitRecord
<1>1. sub[a] \in Submits
  BY DEF ReviewTypes, RTypeOK
<1> QED
  BY <1>1 DEF Submits, SubmitRecord, SubmitPcs

\* The columns of a review that exists.
LEMMA ActionCases ==
  ASSUME ReviewTypes, NEW a \in Actions
  PROVE  runs[a] # NoAction <=> runs[a] \in GovernedAction
<1>1. runs[a] \in GovernedAction \cup {NoAction}
  BY DEF ReviewTypes, RTypeOK
<1>2. \A r \in GovernedAction : r # NoAction
  BY DEF GovernedAction, NoAction, Statuses
<1> QED
  BY <1>1, <1>2

\* The move of a submit to its next statement.
LEMMA SubmitMoves ==
  ASSUME ReviewTypes, NEW a \in Actions, NEW p \in SubmitPcs \cup {"done"},
         sub[a].pc \in SubmitPcs, SubmitAt(a, p)
  PROVE  /\ sub' \in [Actions -> Submits]
         /\ sub'[a].pc = p
         /\ p # "done" => /\ sub'[a].tenant = sub[a].tenant
                          /\ sub'[a].category = sub[a].category
                          /\ sub'[a].level = sub[a].level
                          /\ sub'[a].version = sub[a].version
         /\ \A b \in Actions \ {a} : sub'[b] = sub[b]
<1>1. sub[a] \in SubmitRecord
  BY SubmitCases
<1>2. sub \in [Actions -> Submits]
  BY DEF ReviewTypes, RTypeOK
<1>3. CASE p = "done"
  BY <1>2, <1>3 DEF SubmitAt, Submits
<1>4. CASE p # "done"
  <2>1. sub' = [sub EXCEPT ![a] = [sub[a] EXCEPT !.pc = p]]
    BY <1>2, <1>4 DEF SubmitAt
  <2>2. p \in SubmitPcs
    BY <1>4
  <2>3. /\ [sub[a] EXCEPT !.pc = p] \in SubmitRecord
        /\ [sub[a] EXCEPT !.pc = p].pc = p
        /\ [sub[a] EXCEPT !.pc = p].tenant = sub[a].tenant
        /\ [sub[a] EXCEPT !.pc = p].category = sub[a].category
        /\ [sub[a] EXCEPT !.pc = p].level = sub[a].level
        /\ [sub[a] EXCEPT !.pc = p].version = sub[a].version
    BY <1>1, <2>2 DEF SubmitRecord
  <2>4. SubmitRecord \subseteq Submits
    BY DEF SubmitRecord, Submits
  <2> QED
    BY <1>2, <2>1, <2>3, <2>4
<1> QED
  BY <1>3, <1>4

\* The answers of the policy and of the risk tables that a status rests on.
LEMMA StatusCases ==
  ASSUME NEW category, NEW level
  PROVE  /\ SubmitStatus(category, level) \in {"blocked", "pending_approval", "cleared"}
         /\ SubmitStatus(category, level) = "blocked" <=> evaluate_action(category).blocked
         /\ Waits(category, level) <=> /\ ~ evaluate_action(category).blocked
                                       /\ RequiresApproval(category, level)
         /\ SubmitStatus(category, level) = "cleared" => level \notin {"medium", "high"}
BY DEF Waits, SubmitStatus, RequiresApproval

\* The reviews a step does not touch keep what holds of them.
LEMMA Untouched ==
  ASSUME NEW b \in Actions, RowOK(b), StageOK(b),
         sub'[b] = sub[b], runs'[b] = runs[b], gates'[b] = gates[b],
         b \in Overridden' <=> b \in Overridden
  PROVE  RowOK(b)' /\ StageOK(b)'
BY DEF RowOK, StageOK

\* A step of one review.
LEMMA OneReview ==
  ASSUME ReviewsOK, NEW a \in Actions, RowOK(a)', StageOK(a)',
         \A b \in Actions \ {a} : /\ sub'[b] = sub[b]
                                  /\ runs'[b] = runs[b]
                                  /\ gates'[b] = gates[b]
                                  /\ b \in Overridden' <=> b \in Overridden
  PROVE  ReviewsOK'
<1> SUFFICES ASSUME NEW b \in Actions, b # a
             PROVE  RowOK(b)' /\ StageOK(b)'
  BY DEF ReviewsOK
<1> QED
  BY Untouched DEF ReviewsOK

\* A decision in flight keeps its approval while no approval disappears.
LEMMA DecidersKept ==
  ASSUME ReviewInv, dq' = dq,
         \A a \in Actions : gates[a] # "none" => gates'[a] # "none"
  PROVE  DecidersOK'
<1> SUFFICES ASSUME NEW d \in Deciders, dq[d].pc # "idle"
             PROVE  dq[d].action \in Actions
  BY DEF DecidersOK, ReviewInv
<1>1. dq[d] \in DecisionRecord \cup {Free}
  BY DEF ReviewInv, ReviewTypes
<1> QED
  BY <1>1 DEF DecisionRecord, Free

LEMMA InitReview == RInit => ReviewInv
<1> SUFFICES ASSUME RInit
             PROVE  ReviewInv
  OBVIOUS
<1>1. ReviewTypes
  BY DEF RInit, ReviewTypes, RTypeOK, Submits, Free
<1>2. Overridden = {}
  BY DEF RInit, Overridden
<1>3. ASSUME NEW a \in Actions
      PROVE  sub[a].pc = "idle" /\ runs[a] = NoAction /\ gates[a] = "none"
  BY DEF RInit
<1>4. ReviewsOK
  BY <1>2, <1>3 DEF ReviewsOK, RowOK, StageOK, BeforeCreate, Ungated, Gated
<1>5. DecidersOK
  BY DEF RInit, DecidersOK, Free
<1> QED
  BY <1>1, <1>4, <1>5 DEF ReviewInv

\* A submit that has read no more than the registry.
LEMMA EarlyReview ==
  ASSUME ReviewInv, NEW a \in Actions, Submit(a) \/ ReadSystemDefault(a)
  PROVE  ReviewInv'
<1>1. /\ sub[a].pc \in {"idle", "system"}
      /\ UNCHANGED <<vars, runs, gates, nodes, overrides, trail, dq, oq>>
  BY DEF Submit, ReadSystemDefault
<1>2. /\ sub'[a] \in Submits
      /\ sub'[a].pc \in {"system", "create"}
      /\ sub' = [sub EXCEPT ![a] = sub'[a]]
  <2>1. CASE Submit(a)
    <3>1. PICK t \in Scopes, i \in Vendors, v \in Rows \cup {NoVersion} :
            sub' = [sub EXCEPT ![a] =
                     [pc |-> IF _active_versions(t) = {} /\ t # System THEN "system" ELSE "create",
                      tenant |-> t, version |-> v,
                      category |-> _policy_category_for(i), level |-> classify_risk(i)]]
      BY <2>1 DEF Submit, _active_versions, Present
    <3>2. /\ _policy_category_for(i) \in PolicyCategory
          /\ classify_risk(i) \in Levels
      BY DEF _policy_category_for, PolicyCategory, _POLICY_SCORE, classify_risk, LevelOf, Levels
    <3> QED
      BY <3>1, <3>2 DEF ReviewInv, ReviewTypes, RTypeOK, Submits, SubmitPcs
  <2>2. CASE ReadSystemDefault(a)
    <3>1. PICK v \in Rows \cup {NoVersion} :
            sub' = [sub EXCEPT ![a] = [sub[a] EXCEPT !.pc = "create", !.version = v]]
      BY <2>2 DEF ReadSystemDefault, _active_versions, Present, ReviewInv, ReviewTypes, RTypeOK
    <3>2. sub[a] \in SubmitRecord
      BY <2>2, SubmitCases DEF ReadSystemDefault, SubmitPcs, ReviewInv
    <3>3. /\ [sub[a] EXCEPT !.pc = "create", !.version = v] \in SubmitRecord
          /\ [sub[a] EXCEPT !.pc = "create", !.version = v].pc = "create"
      BY <3>2 DEF SubmitRecord, SubmitPcs
    <3> QED
      BY <3>1, <3>3 DEF ReviewInv, ReviewTypes, RTypeOK, SubmitRecord, Submits
  <2> QED
    BY <2>1, <2>2
<1>3. ReviewTypes'
  BY <1>1, <1>2 DEF ReviewInv, ReviewTypes, RTypeOK
<1>4. \A b \in Actions \ {a} : sub'[b] = sub[b]
  BY <1>2 DEF ReviewInv, ReviewTypes, RTypeOK
<1>5. RowOK(a) /\ StageOK(a) /\ Overridden' = Overridden
  BY <1>1 DEF ReviewInv, ReviewsOK, Overridden
<1>6. RowOK(a)' /\ StageOK(a)'
  BY <1>1, <1>2, <1>5 DEF RowOK, StageOK, BeforeCreate, Ungated, Gated
<1>7. ReviewsOK'
  BY <1>1, <1>4, <1>5, <1>6, OneReview DEF ReviewInv
<1> QED
  BY <1>1, <1>3, <1>7, DecidersKept DEF ReviewInv

LEMMA CreateReview ==
  ASSUME ReviewInv, NEW a \in Actions, CreateAction(a)
  PROVE  ReviewInv'
<1> DEFINE row == [tenant |-> sub[a].tenant, version |-> sub[a].version,
                   category |-> sub[a].category, level |-> sub[a].level,
                   status |-> SubmitStatus(sub[a].category, sub[a].level), linked |-> FALSE]
<1>1. /\ sub[a].pc = "create"
      /\ runs' = [runs EXCEPT ![a] = row]
      /\ SubmitAt(a, "risk")
      /\ UNCHANGED <<vars, gates, nodes, overrides, trail, dq, oq>>
  BY DEF CreateAction
<1>2. sub[a] \in SubmitRecord
  BY <1>1, SubmitCases DEF SubmitPcs, ReviewInv
<1>3. row \in GovernedAction
  BY <1>2, StatusCases DEF SubmitRecord, GovernedAction, Statuses
<1>4. /\ sub' \in [Actions -> Submits]
      /\ sub'[a].pc = "risk"
      /\ sub'[a].tenant = sub[a].tenant
      /\ sub'[a].category = sub[a].category
      /\ sub'[a].level = sub[a].level
      /\ \A b \in Actions \ {a} : sub'[b] = sub[b]
  BY <1>1, SubmitMoves DEF SubmitPcs, ReviewInv
<1>5. /\ runs'[a] = row
      /\ \A b \in Actions \ {a} : runs'[b] = runs[b]
      /\ runs' \in [Actions -> GovernedAction \cup {NoAction}]
  BY <1>1, <1>3 DEF ReviewInv, ReviewTypes, RTypeOK
<1>6. ReviewTypes'
  BY <1>1, <1>4, <1>5 DEF ReviewInv, ReviewTypes, RTypeOK
<1>7. /\ RowOK(a)
      /\ runs[a] = NoAction
      /\ a \notin Overridden
      /\ gates[a] = "none"
      /\ Overridden' = Overridden
  BY <1>1 DEF ReviewInv, ReviewsOK, RowOK, BeforeCreate, Overridden
<1>8. RowOK(a)' /\ StageOK(a)'
  BY <1>1, <1>3, <1>4, <1>5, <1>7 DEF RowOK, StageOK, BeforeCreate, Ungated, Gated, SubmitPcs,
                                      GovernedAction, NoAction, Statuses
<1>9. ReviewsOK'
  BY <1>1, <1>4, <1>5, <1>7, <1>8, OneReview DEF ReviewInv
<1> QED
  BY <1>1, <1>6, <1>9, DecidersKept DEF ReviewInv

\* A step of submit that leaves the review and its approval alone: what it
\* needs to know is where submit goes.
LEMMA SubmitOnly ==
  ASSUME ReviewInv, NEW a \in Actions, NEW p \in SubmitPcs \cup {"done"},
         sub[a].pc \in SubmitPcs \ BeforeCreate, SubmitAt(a, p), p \notin BeforeCreate,
         UNCHANGED <<runs, gates, overrides, dq, oq>>,
         nodes' \subseteq {"risk_assessment", "evidence_artifact"} \X Actions,
         \A w \in {Waits(runs[a].category, runs[a].level)} :
           /\ p \in Ungated => sub[a].pc \in Ungated
           /\ p = "gate" => w
           /\ p \in Gated => sub[a].pc \in Gated
           /\ p \in {"auto_cleared", "blocked"} => ~ w
           /\ p # "approval_required"
           /\ p \in {"artifact", "done"} =>
                sub[a].pc \in {"approval_required", "auto_cleared", "blocked", "artifact"}
  PROVE  ReviewInv'
<1>1. /\ sub' \in [Actions -> Submits]
      /\ sub'[a].pc = p
      /\ p # "done" => /\ sub'[a].tenant = sub[a].tenant
                       /\ sub'[a].category = sub[a].category
                       /\ sub'[a].level = sub[a].level
      /\ \A b \in Actions \ {a} : sub'[b] = sub[b]
  BY SubmitMoves DEF ReviewInv
<1>2. ReviewTypes'
  BY <1>1 DEF ReviewInv, ReviewTypes, RTypeOK
<1>3. RowOK(a) /\ StageOK(a) /\ Overridden' = Overridden
  BY DEF ReviewInv, ReviewsOK, Overridden
<1>4. RowOK(a)'
  BY <1>1, <1>3 DEF RowOK, BeforeCreate, SubmitPcs
<1>5. StageOK(a)'
  BY <1>1, <1>3 DEF RowOK, StageOK, BeforeCreate, SubmitPcs, Ungated, Gated
<1>6. ReviewsOK'
  BY <1>1, <1>3, <1>4, <1>5, OneReview DEF ReviewInv
<1> QED
  BY <1>2, <1>6, DecidersKept DEF ReviewInv

\* A submit that has created its review carries the columns of its row.
LEMMA SubmitColumns ==
  ASSUME ReviewInv, NEW a \in Actions, sub[a].pc \in SubmitPcs \ BeforeCreate
  PROVE  /\ runs[a] \in GovernedAction
         /\ sub[a].tenant = runs[a].tenant
         /\ sub[a].category = runs[a].category
         /\ sub[a].level = runs[a].level
BY ActionCases DEF ReviewInv, ReviewsOK, RowOK, SubmitPcs

LEMMA AuditReview ==
  ASSUME ReviewInv, NEW a \in Actions, AuditStep(a)
  PROVE  ReviewInv'
<1>1. /\ sub[a].pc \in {"submitted", "policy_evaluated", "risk_classified",
                        "approval_required", "auto_cleared", "blocked"}
      /\ SubmitAt(a, AfterAudit(a))
      /\ UNCHANGED <<vars, runs, gates, nodes, overrides, dq, oq>>
  BY DEF AuditStep
<1>2. sub[a].pc \in SubmitPcs \ BeforeCreate
  BY <1>1 DEF SubmitPcs, BeforeCreate
<1>3. /\ sub[a].pc \in {"submitted", "policy_evaluated"} =>
           AfterAudit(a) \in {"policy_evaluated", "risk_classified"}
      /\ sub[a].pc = "risk_classified" =>
           \/ AfterAudit(a) = "gate" /\ Waits(runs[a].category, runs[a].level)
           \/ /\ AfterAudit(a) \in {"blocked", "auto_cleared"}
              /\ ~ Waits(runs[a].category, runs[a].level)
      /\ sub[a].pc \in {"approval_required", "auto_cleared", "blocked"} =>
           AfterAudit(a) = "artifact"
  BY <1>2, SubmitColumns, StatusCases DEF AfterAudit
<1> QED
  BY <1>1, <1>2, <1>3, SubmitOnly DEF ReviewInv, ReviewTypes, RTypeOK, SubmitPcs, BeforeCreate,
                                      Ungated, Gated

\* The steps of submit that write a node or the event of the approval.
LEMMA NodeReview ==
  ASSUME ReviewInv, NEW a \in Actions, AssessRisk(a) \/ AuditGate(a) \/ RecordArtifact(a)
  PROVE  ReviewInv'
<1>1. CASE AssessRisk(a)
  BY <1>1, SubmitOnly DEF AssessRisk, ReviewInv, ReviewTypes, RTypeOK, SubmitPcs, BeforeCreate,
                          Ungated, Gated
<1>2. CASE AuditGate(a)
  BY <1>2, SubmitOnly DEF AuditGate, ReviewInv, ReviewTypes, RTypeOK, SubmitPcs, BeforeCreate,
                          Ungated, Gated
<1>3. CASE RecordArtifact(a)
  BY <1>3, SubmitOnly DEF RecordArtifact, ReviewInv, ReviewTypes, RTypeOK, SubmitPcs,
                          BeforeCreate, Ungated, Gated
<1> QED
  BY <1>1, <1>2, <1>3

LEMMA GateReview ==
  ASSUME ReviewInv, NEW a \in Actions, CreateGate(a)
  PROVE  ReviewInv'
<1>1. /\ sub[a].pc = "gate"
      /\ gates' = [gates EXCEPT ![a] = "pending"]
      /\ SubmitAt(a, "gate_audit")
      /\ UNCHANGED <<vars, runs, nodes, overrides, trail, dq, oq>>
  BY DEF CreateGate
<1>2. /\ sub' \in [Actions -> Submits]
      /\ sub'[a].pc = "gate_audit"
      /\ sub'[a].tenant = sub[a].tenant
      /\ sub'[a].category = sub[a].category
      /\ sub'[a].level = sub[a].level
      /\ \A b \in Actions \ {a} : sub'[b] = sub[b]
  BY <1>1, SubmitMoves DEF ReviewInv, SubmitPcs
<1>3. /\ gates'[a] = "pending"
      /\ \A b \in Actions \ {a} : gates'[b] = gates[b]
  BY <1>1 DEF ReviewInv, ReviewTypes, RTypeOK
<1>4. ReviewTypes'
  BY <1>1, <1>2 DEF ReviewInv, ReviewTypes, RTypeOK
<1>5. RowOK(a) /\ StageOK(a) /\ Overridden' = Overridden
  BY <1>1 DEF ReviewInv, ReviewsOK, Overridden
<1>6. RowOK(a)' /\ StageOK(a)'
  BY <1>1, <1>2, <1>3, <1>5 DEF RowOK, StageOK, BeforeCreate, SubmitPcs, Ungated, Gated
<1>7. ReviewsOK'
  BY <1>1, <1>2, <1>3, <1>5, <1>6, OneReview DEF ReviewInv
<1>8. DecidersOK'
  BY <1>1, <1>3, DecidersKept
<1> QED
  BY <1>4, <1>7, <1>8 DEF ReviewInv

LEMMA LinkReview ==
  ASSUME ReviewInv, NEW a \in Actions, LinkGate(a)
  PROVE  ReviewInv'
<1>1. /\ sub[a].pc = "link"
      /\ runs' = [runs EXCEPT ![a].linked = TRUE]
      /\ SubmitAt(a, "approval_required")
      /\ UNCHANGED <<vars, gates, nodes, overrides, trail, dq, oq>>
  BY DEF LinkGate
<1>2. /\ sub' \in [Actions -> Submits]
      /\ sub'[a].pc = "approval_required"
      /\ sub'[a].tenant = sub[a].tenant
      /\ sub'[a].category = sub[a].category
      /\ sub'[a].level = sub[a].level
      /\ \A b \in Actions \ {a} : sub'[b] = sub[b]
  BY <1>1, SubmitMoves DEF ReviewInv, SubmitPcs
<1>3. runs[a] \in GovernedAction
  BY <1>1, SubmitColumns DEF SubmitPcs, BeforeCreate
<1>4. /\ runs'[a] = [runs[a] EXCEPT !.linked = TRUE]
      /\ \A b \in Actions \ {a} : runs'[b] = runs[b]
  BY <1>1 DEF ReviewInv, ReviewTypes, RTypeOK
<1>5. /\ runs'[a] \in GovernedAction
      /\ runs'[a].linked
      /\ runs'[a].tenant = runs[a].tenant
      /\ runs'[a].category = runs[a].category
      /\ runs'[a].level = runs[a].level
      /\ runs'[a].status = runs[a].status
  BY <1>3, <1>4 DEF GovernedAction
<1>6. ReviewTypes'
  BY <1>1, <1>2, <1>5 DEF ReviewInv, ReviewTypes, RTypeOK
<1>7. /\ runs[a] # NoAction
      /\ runs'[a] # NoAction
  BY <1>3, <1>5 DEF GovernedAction, NoAction, Statuses
<1>8. RowOK(a) /\ StageOK(a) /\ Overridden' = Overridden
  BY <1>1 DEF ReviewInv, ReviewsOK, Overridden
<1>9. RowOK(a)' /\ StageOK(a)'
  BY <1>1, <1>2, <1>5, <1>7, <1>8 DEF RowOK, StageOK, BeforeCreate, SubmitPcs, Ungated, Gated
<1>10. ReviewsOK'
  BY <1>1, <1>2, <1>4, <1>8, <1>9, OneReview DEF ReviewInv
<1> QED
  BY <1>1, <1>6, <1>10, DecidersKept DEF ReviewInv

-----------------------------------------------------------------------------
\* The locals of a decision in flight.
LEMMA DecisionCases ==
  ASSUME ReviewTypes, NEW d \in Deciders
  PROVE  /\ dq[d].pc \in {"idle", "commit", "audit"}
         /\ dq[d].pc # "idle" => dq[d] \in DecisionRecord
<1>1. dq[d] \in DecisionRecord \cup {Free}
  BY DEF ReviewTypes
<1> QED
  BY <1>1 DEF DecisionRecord, Free

LEMMA DecideReview ==
  ASSUME ReviewInv, NEW d \in Deciders, DecideRead(d) \/ DecideCommit(d) \/ DecideAudit(d)
  PROVE  ReviewInv'
<1>1. CASE DecideRead(d)
  <2>1. PICK a \in Actions, s \in Decisions :
          /\ gates[a] = "pending"
          /\ dq' = [dq EXCEPT ![d] = [pc |-> "commit", action |-> a, decision |-> s]]
          /\ UNCHANGED <<vars, runs, gates, nodes, overrides, trail, sub, oq>>
    BY <1>1 DEF DecideRead
  <2>2. /\ dq'[d].action = a
        /\ \A e \in Deciders \ {d} : dq'[e] = dq[e]
        /\ dq' \in [Deciders -> DecisionRecord \cup {Free}]
    BY <2>1 DEF ReviewInv, ReviewTypes, DecisionRecord
  <2>3. ReviewTypes'
    BY <2>1, <2>2, DecisionCases DEF ReviewInv, ReviewTypes, RTypeOK, DecisionRecord, Free
  <2>4. DecidersOK'
    BY <2>1, <2>2 DEF ReviewInv, DecidersOK
  <2>5. ReviewsOK'
    BY <2>1, Untouched DEF ReviewInv, ReviewsOK, Overridden
  <2> QED
    BY <2>3, <2>4, <2>5 DEF ReviewInv
<1>2. CASE DecideCommit(d)
  <2>1. dq[d].pc = "commit" /\ dq[d] \in DecisionRecord
    BY <1>2, DecisionCases DEF DecideCommit, ReviewInv
  <2>2. PICK a \in Actions, s \in Decisions : a = dq[d].action /\ s = dq[d].decision
    BY <2>1 DEF DecisionRecord
  <2>3. /\ gates' = [gates EXCEPT ![a] = s]
        /\ dq' = [dq EXCEPT ![d] = [dq[d] EXCEPT !.pc = "audit"]]
        /\ UNCHANGED <<vars, runs, nodes, overrides, trail, sub, oq>>
        /\ [dq[d] EXCEPT !.pc = "audit"] \in DecisionRecord
        /\ [dq[d] EXCEPT !.pc = "audit"].action = a
    BY <1>2, <2>1, <2>2 DEF DecideCommit, DecisionRecord, ReviewInv, ReviewTypes
  <2>4. /\ dq'[d] \in DecisionRecord
        /\ dq'[d].action = a
        /\ \A e \in Deciders \ {d} : dq'[e] = dq[e]
        /\ dq' \in [Deciders -> DecisionRecord \cup {Free}]
    BY <2>3 DEF ReviewInv, ReviewTypes
  <2>5. gates[a] # "none"
    BY <2>1, <2>2 DEF ReviewInv, DecidersOK
  <2>6. /\ gates'[a] \in Decisions
        /\ \A b \in Actions \ {a} : gates'[b] = gates[b]
        /\ gates' \in [Actions -> {"none", "pending"} \cup Decisions]
    BY <2>3 DEF ReviewInv, ReviewTypes, RTypeOK
  <2>7. ReviewTypes'
    <3>1. \A e \in Deciders : dq'[e].pc \in {"idle", "commit", "audit"}
      BY <2>4 DEF DecisionRecord, Free
    <3> QED
      BY <2>3, <2>4, <2>6, <3>1 DEF ReviewInv, ReviewTypes, RTypeOK
  <2>8. RowOK(a)' /\ StageOK(a)'
    BY <2>3, <2>5, <2>6 DEF ReviewInv, ReviewsOK, RowOK, StageOK, Overridden, Decisions
  <2>9. ReviewsOK'
    BY <2>3, <2>6, <2>8, OneReview DEF ReviewInv, Overridden
  <2>10. DecidersOK'
    <3> SUFFICES ASSUME NEW e \in Deciders, dq'[e].pc # "idle"
                 PROVE  gates'[dq'[e].action] # "none"
      BY DEF DecidersOK
    <3>1. gates'[a] # "none"
      BY <2>6 DEF Decisions
    <3>2. CASE e = d
      BY <2>4, <3>1, <3>2
    <3>3. CASE e # d
      <4>1. dq'[e] = dq[e] /\ dq[e] \in DecisionRecord /\ gates[dq[e].action] # "none"
        BY <2>4, <3>3, DecisionCases DEF ReviewInv, DecidersOK
      <4>2. dq[e].action \in Actions
        BY <4>1 DEF DecisionRecord
      <4> QED
        BY <2>6, <3>1, <4>1, <4>2
    <3> QED
      BY <3>2, <3>3
  <2> QED
    BY <2>7, <2>9, <2>10 DEF ReviewInv
<1>3. CASE DecideAudit(d)
  <2>1. /\ dq' = [dq EXCEPT ![d] = Free]
        /\ UNCHANGED <<vars, runs, gates, nodes, overrides, sub, oq>>
    BY <1>3 DEF DecideAudit
  <2>2. /\ dq'[d].pc = "idle"
        /\ \A e \in Deciders \ {d} : dq'[e] = dq[e]
        /\ dq' \in [Deciders -> DecisionRecord \cup {Free}]
    BY <2>1 DEF ReviewInv, ReviewTypes, Free
  <2>3. ReviewTypes'
    BY <2>1, <2>2 DEF ReviewInv, ReviewTypes, RTypeOK
  <2>4. DecidersOK'
    BY <2>1, <2>2 DEF ReviewInv, DecidersOK
  <2>5. ReviewsOK'
    BY <2>1, Untouched DEF ReviewInv, ReviewsOK, Overridden
  <2> QED
    BY <2>3, <2>4, <2>5 DEF ReviewInv
<1> QED
  BY <1>1, <1>2, <1>3

LEMMA OverrideReview ==
  ASSUME ReviewInv, NEW o \in Overriders, Override(o)
  PROVE  ReviewInv'
<1>1. PICK t \in Scopes, a \in Actions :
        /\ Finds(t, a)
        /\ runs[a].level \in OVERRIDABLE_RISK
        /\ overrides' = overrides \cup {<<t, a>>}
        /\ runs' = [runs EXCEPT ![a].status = "override_recorded"]
        /\ oq' = [oq EXCEPT ![o] = [pc |-> "audit", tenant |-> t, action |-> a]]
        /\ UNCHANGED <<vars, gates, nodes, trail, sub, dq>>
  BY DEF Override
<1>2. runs[a] # NoAction /\ runs[a] \in GovernedAction
  BY <1>1, ActionCases DEF Finds, ReviewInv
<1>3. /\ runs'[a] = [runs[a] EXCEPT !.status = "override_recorded"]
      /\ \A b \in Actions \ {a} : runs'[b] = runs[b]
  BY <1>1 DEF ReviewInv, ReviewTypes, RTypeOK
<1>4. /\ runs'[a] \in GovernedAction
      /\ runs'[a].status = "override_recorded"
      /\ runs'[a].tenant = runs[a].tenant
      /\ runs'[a].category = runs[a].category
      /\ runs'[a].level = runs[a].level
      /\ runs'[a].linked = runs[a].linked
  BY <1>2, <1>3 DEF GovernedAction, Statuses
<1>5. runs'[a] # NoAction
  BY <1>4 DEF GovernedAction, NoAction
<1>6. oq' \in [Overriders -> OverrideRecord \cup {Free}]
  BY <1>1 DEF ReviewInv, ReviewTypes, OverrideRecord
<1>7. ReviewTypes'
  <2>1. \A p \in Overriders : oq'[p].pc \in {"idle", "audit"}
    BY <1>6 DEF OverrideRecord, Free
  <2> QED
    BY <1>1, <1>4, <1>6, <2>1 DEF ReviewInv, ReviewTypes, RTypeOK
<1>8. a \in Overridden' /\ \A b \in Actions \ {a} : b \in Overridden' <=> b \in Overridden
  <2>1. Overridden' = Overridden \cup {<<t, a>>[2]}
    BY <1>1 DEF Overridden
  <2> QED
    BY <2>1
<1>9. RowOK(a)' /\ StageOK(a)'
  BY <1>1, <1>2, <1>4, <1>5, <1>8 DEF ReviewInv, ReviewsOK, RowOK, StageOK
<1>10. ReviewsOK'
  BY <1>1, <1>3, <1>8, <1>9, OneReview DEF ReviewInv
<1> QED
  BY <1>1, <1>7, <1>10, DecidersKept DEF ReviewInv

\* The end of an override request, with or without its audit event.
LEMMA OverrideEnds ==
  ASSUME ReviewInv, NEW o \in Overriders, OverrideAudit(o) \/ OverrideDies(o)
  PROVE  ReviewInv'
<1>1. /\ oq' = [oq EXCEPT ![o] = Free]
      /\ UNCHANGED <<vars, runs, gates, nodes, overrides, sub, dq>>
  BY DEF OverrideAudit, OverrideDies
<1>2. ReviewTypes'
  BY <1>1 DEF ReviewInv, ReviewTypes, RTypeOK, Free
<1>3. ReviewsOK'
  BY <1>1, Untouched DEF ReviewInv, ReviewsOK, Overridden
<1> QED
  BY <1>1, <1>2, <1>3, DecidersKept DEF ReviewInv

\* The process stops: what was committed stays, and who served is gone.
LEMMA StopReview ==
  ASSUME ReviewInv, StopAll
  PROVE  ReviewInv'
<1>1. /\ sub' = [a \in Actions |-> IF sub[a].pc \in SubmitPcs THEN [pc |-> "dead"] ELSE sub[a]]
      /\ dq' = [d \in Deciders |-> Free]
      /\ oq' = [o \in Overriders |-> Free]
      /\ UNCHANGED <<runs, gates, nodes, overrides, trail>>
  BY DEF StopAll
<1>2. ReviewTypes'
  BY <1>1 DEF ReviewInv, ReviewTypes, RTypeOK, Submits, Free
<1>3. ASSUME NEW a \in Actions
      PROVE  RowOK(a)' /\ StageOK(a)'
  <2>1. Overridden' = Overridden
    BY <1>1 DEF Overridden
  <2>2. CASE sub[a].pc \in SubmitPcs
    <3>1. sub'[a].pc = "dead"
      BY <1>1, <2>2
    <3> QED
      BY <1>1, <2>1, <3>1 DEF ReviewInv, ReviewsOK, RowOK, StageOK, BeforeCreate, SubmitPcs,
                              Ungated, Gated
  <2>3. CASE sub[a].pc \notin SubmitPcs
    BY <1>1, <2>1, <2>3, Untouched DEF ReviewInv, ReviewsOK
  <2> QED
    BY <2>2, <2>3
<1>4. DecidersOK'
  BY <1>1 DEF DecidersOK, Free
<1> QED
  BY <1>2, <1>3, <1>4 DEF ReviewInv, ReviewsOK

LEMMA NextReview == ReviewInv /\ [RNext]_rvars => ReviewInv'
<1> SUFFICES ASSUME ReviewInv, [RNext]_rvars
             PROVE  ReviewInv'
  OBVIOUS
<1>1. CASE UNCHANGED reviewVars
  <2>1. UNCHANGED <<runs, gates, nodes, overrides, trail, sub, dq, oq>>
    BY <1>1 DEF reviewVars
  <2>2. ReviewTypes'
    BY <2>1 DEF ReviewInv, ReviewTypes, RTypeOK
  <2>3. ReviewsOK'
    BY <2>1, Untouched DEF ReviewInv, ReviewsOK, Overridden
  <2> QED
    BY <2>1, <2>2, <2>3, DecidersKept DEF ReviewInv
<1>2. ASSUME NEW a \in Actions, Submit(a) \/ SubmitStep(a)
      PROVE  ReviewInv'
  BY <1>2, EarlyReview, CreateReview, AuditReview, NodeReview, GateReview, LinkReview
     DEF SubmitStep
<1>3. ASSUME NEW d \in Deciders, DecideRead(d) \/ DecideCommit(d) \/ DecideAudit(d)
      PROVE  ReviewInv'
  BY <1>3, DecideReview
<1>4. ASSUME NEW o \in Overriders, Override(o) \/ OverrideAudit(o) \/ OverrideDies(o)
      PROVE  ReviewInv'
  BY <1>4, OverrideReview, OverrideEnds
<1> QED
  BY <1>1, <1>2, <1>3, <1>4, StopReview DEF RNext, RegistryMoves, rvars

(***************************************************************************)
(* A review's row, approval, overrides and submit request stay in their    *)
(* domains and in step: an approval exists only where policy or risk asked *)
(* for one, the status is the one submit computed until an override, and   *)
(* each step of submit finds the rows of the steps before it.              *)
(***************************************************************************)
THEOREM ReviewInvariant == RSpec => []ReviewInv
BY InitReview, NextReview, PTL DEF RSpec

-----------------------------------------------------------------------------
LEMMA RegistryStep == [RNext]_rvars => [Next]_vars
BY DEF RNext, rvars, vars, reviewVars, RegistryMoves, StopAll, Next,
       Submit, SubmitStep, ReadSystemDefault, CreateAction, AssessRisk, AuditStep, CreateGate,
       AuditGate, LinkGate, RecordArtifact, DecideRead, DecideCommit, DecideAudit, Override,
       OverrideAudit, OverrideDies

(***************************************************************************)
(* The reviews only read the registry: with them running, it still is the  *)
(* registry that PolicyVersions specifies.                                 *)
(***************************************************************************)
THEOREM ReviewsImplementRegistry == RSpec => Spec
<1>1. RInit => Init
  BY DEF RInit
<1> QED
  BY <1>1, RegistryStep, PTL DEF RSpec, Spec

(***************************************************************************)
(* The promises of the registry while reviews read it, when the requests   *)
(* that write versions come one at a time: one active version per tenant,  *)
(* end dates on the superseded ones, and always a version to bind to.      *)
(***************************************************************************)
THEOREM ReviewsFindTheActiveVersion ==
  Serial => (RSpec => [](TenantOneActive /\ WindowMatchesStatus /\ AlwaysBinds))
BY OneActiveVersion, ReviewsImplementRegistry, PTL

-----------------------------------------------------------------------------
(***************************************************************************)
(* The views.                                                              *)
(***************************************************************************)

\* The status in the packet, from the row, the approval and the overrides.
LEMMA PacketCases ==
  ASSUME ReviewInv, NEW a \in Created
  PROVE  /\ a \in Overridden => PacketStatus(a) = "override_recorded"
         /\ a \notin Overridden /\ ~ runs[a].linked =>
              PacketStatus(a) = SubmitStatus(runs[a].category, runs[a].level)
         /\ a \notin Overridden /\ runs[a].linked =>
              /\ PacketStatus(a) = _APPROVAL_STATUS_MAP[gates[a]]
              /\ gates[a] \in {"pending"} \cup Decisions
<1>1. RowOK(a) /\ runs[a] # NoAction /\ a \in Actions
  BY DEF Created, ReviewInv, ReviewsOK
<1>2. runs[a] \in GovernedAction
  BY <1>1, ActionCases DEF ReviewInv
<1>3. gates[a] \in {"none", "pending"} \cup Decisions
  BY <1>1 DEF ReviewInv, ReviewTypes, RTypeOK
<1>4. /\ runs[a].status = "override_recorded" <=> a \in Overridden
      /\ a \notin Overridden => runs[a].status = SubmitStatus(runs[a].category, runs[a].level)
  BY <1>1, StatusCases DEF RowOK
<1>5. runs[a].linked => gates[a] # "none"
  BY <1>1 DEF RowOK
<1> QED
  BY <1>3, <1>4, <1>5 DEF PacketStatus, _effective_action_status, LinkedApproval

LEMMA MapCases ==
  /\ _APPROVAL_STATUS_MAP["pending"] = "pending_approval"
  /\ _APPROVAL_STATUS_MAP["approved"] = "approved"
  /\ _APPROVAL_STATUS_MAP["rejected"] = "rejected"
BY DEF _APPROVAL_STATUS_MAP

LEMMA ReviewImpliesHonest == ReviewInv => PacketIsHonest
<1> SUFFICES ASSUME ReviewInv, NEW a \in Created
             PROVE  LET s == PacketStatus(a) IN
                    /\ s \in Decisions => gates[a] = s
                    /\ s = "cleared" => runs[a].level = "low" /\ gates[a] = "none"
                    /\ s = "override_recorded" => a \in Overridden /\ runs[a].level # "low"
                    /\ a \in Overridden => s = "override_recorded"
  BY DEF PacketIsHonest
<1>1. RowOK(a) /\ runs[a] # NoAction /\ a \in Actions
  BY DEF Created, ReviewInv, ReviewsOK
<1>2. runs[a].level \in {"low", "medium", "high"}
  BY <1>1, ActionCases DEF ReviewInv, GovernedAction, Levels
<1>3. CASE a \in Overridden
  BY <1>1, <1>2, <1>3, PacketCases DEF RowOK, OVERRIDABLE_RISK, Decisions
<1>4. CASE a \notin Overridden /\ ~ runs[a].linked
  BY <1>1, <1>2, <1>4, PacketCases, StatusCases DEF RowOK, Waits, Decisions
<1>5. CASE a \notin Overridden /\ runs[a].linked
  BY <1>5, PacketCases, MapCases DEF Decisions
<1> QED
  BY <1>3, <1>4, <1>5

LEMMA ReviewImpliesViews == ReviewInv => ViewsAgree
<1> SUFFICES ASSUME ReviewInv, NEW a \in Actions, sub[a].pc = "done", a \notin Overridden
             PROVE  /\ _run_status(a) = PacketStatus(a)
                    /\ _run_status(a) = "cleared" <=> list_status(a) = "cleared"
                    /\ list_status(a) = "cleared" => runs[a].level = "low"
  BY DEF ViewsAgree
<1>1. RowOK(a) /\ StageOK(a)
  BY DEF ReviewInv, ReviewsOK
<1>2. runs[a] # NoAction /\ a \in Created
  BY <1>1 DEF RowOK, BeforeCreate, Created
<1>3. runs[a].level \in {"low", "medium", "high"}
  BY <1>2, ActionCases DEF ReviewInv, GovernedAction, Levels
<1>4. /\ runs[a].status = SubmitStatus(runs[a].category, runs[a].level)
      /\ runs[a].linked <=> Waits(runs[a].category, runs[a].level)
  BY <1>1, <1>2 DEF RowOK, StageOK
<1>5. CASE runs[a].linked
  BY <1>2, <1>4, <1>5, PacketCases, MapCases, StatusCases
     DEF _run_status, list_status, Decisions, Waits
<1>6. CASE ~ runs[a].linked
  BY <1>2, <1>3, <1>4, <1>6, PacketCases, StatusCases DEF _run_status, list_status, Waits
<1> QED
  BY <1>5, <1>6

(***************************************************************************)
(* What the packet says is true of the review, and once submit has         *)
(* answered the run, the list and the packet tell the same story, for any  *)
(* number of reviews, deciders and overriders.                             *)
(***************************************************************************)
THEOREM ViewsAreHonest == RSpec => [](PacketIsHonest /\ ViewsAgree)
BY ReviewInvariant, ReviewImpliesHonest, ReviewImpliesViews, PTL

-----------------------------------------------------------------------------
(***************************************************************************)
(* What a step may do to a review that exists.                             *)
(***************************************************************************)

\* Every step of the composition keeps the columns of a review that no handler
\* writes again, its overrides and the link to its approval.
KeepsReviews ==
  \A a \in Created :
    /\ runs'[a] # NoAction
    /\ runs'[a].tenant = runs[a].tenant
    /\ runs'[a].version = runs[a].version
    /\ runs'[a].category = runs[a].category
    /\ runs'[a].level = runs[a].level
    /\ runs[a].linked => runs'[a].linked
    /\ a \in Overridden => a \in Overridden'

LEMMA StepKeepsReviews == ReviewInv /\ [RNext]_rvars => KeepsReviews
<1> SUFFICES ASSUME ReviewInv, [RNext]_rvars
             PROVE  KeepsReviews
  OBVIOUS
<1>1. ASSUME NEW a \in Actions, CreateAction(a)
      PROVE  KeepsReviews
  <2>1. sub[a].pc = "create" /\ overrides' = overrides
        /\ \A b \in Actions \ {a} : runs'[b] = runs[b]
    BY <1>1 DEF CreateAction, ReviewInv, ReviewTypes, RTypeOK
  <2>2. a \notin Created
    BY <2>1 DEF ReviewInv, ReviewsOK, RowOK, BeforeCreate, Created
  <2> QED
    BY <2>1, <2>2 DEF KeepsReviews, Created, Overridden
<1>2. ASSUME NEW a \in Actions, LinkGate(a)
      PROVE  KeepsReviews
  <2>1. /\ runs' = [runs EXCEPT ![a].linked = TRUE]
        /\ overrides' = overrides
    BY <1>2 DEF LinkGate
  <2>2. ASSUME NEW b \in Created
        PROVE  /\ runs'[b] # NoAction
               /\ runs'[b].tenant = runs[b].tenant
               /\ runs'[b].version = runs[b].version
               /\ runs'[b].category = runs[b].category
               /\ runs'[b].level = runs[b].level
               /\ runs[b].linked => runs'[b].linked
    <3>1. runs[b] \in GovernedAction
      BY ActionCases DEF Created, ReviewInv
    <3>2. runs'[b] = IF b = a THEN [runs[b] EXCEPT !.linked = TRUE] ELSE runs[b]
      BY <2>1 DEF Created, ReviewInv, ReviewTypes, RTypeOK
    <3> QED
      BY <3>1, <3>2 DEF GovernedAction, NoAction, Statuses
  <2> QED
    BY <2>1, <2>2 DEF KeepsReviews, Overridden
<1>3. ASSUME NEW o \in Overriders, Override(o)
      PROVE  KeepsReviews
  <2>1. PICK t \in Scopes, a \in Actions :
          /\ overrides' = overrides \cup {<<t, a>>}
          /\ runs' = [runs EXCEPT ![a].status = "override_recorded"]
    BY <1>3 DEF Override
  <2>2. ASSUME NEW b \in Created
        PROVE  /\ runs'[b] # NoAction
               /\ runs'[b].tenant = runs[b].tenant
               /\ runs'[b].version = runs[b].version
               /\ runs'[b].category = runs[b].category
               /\ runs'[b].level = runs[b].level
               /\ runs[b].linked => runs'[b].linked
    <3>1. runs[b] \in GovernedAction
      BY ActionCases DEF Created, ReviewInv
    <3>2. runs'[b] = IF b = a THEN [runs[b] EXCEPT !.status = "override_recorded"] ELSE runs[b]
      BY <2>1 DEF Created, ReviewInv, ReviewTypes, RTypeOK
    <3> QED
      BY <3>1, <3>2 DEF GovernedAction, NoAction, Statuses
  <2> QED
    BY <2>1, <2>2 DEF KeepsReviews, Overridden
<1>4. CASE UNCHANGED <<runs, overrides>>
  BY <1>4 DEF KeepsReviews, Created, Overridden
<1> QED
  BY <1>1, <1>2, <1>3, <1>4
     DEF RNext, rvars, reviewVars, RegistryMoves, StopAll, Submit, SubmitStep,
         ReadSystemDefault, AssessRisk, AuditStep, CreateGate, AuditGate, RecordArtifact,
         DecideRead, DecideCommit, DecideAudit, OverrideAudit, OverrideDies

-----------------------------------------------------------------------------
(***************************************************************************)
(* The version a review is bound to.                                       *)
(***************************************************************************)

\* A version that a review of tenant t may be bound to, if there is one.
Released(v, t) ==
  v # NoVersion => /\ v \in Present
                   /\ policies[v].status \in {"active", "superseded"}
                   /\ policies[v].tenant \in {System, t}

\* What a submit has read, and what a review is bound to, has been released.
BoundInv ==
  \A a \in Actions :
    /\ sub[a].pc = "create" => Released(sub[a].version, sub[a].tenant)
    /\ runs[a] # NoAction => Released(runs[a].version, runs[a].tenant)

\* The same of the table after a step.
ReleasedThen(v, t) ==
  v # NoVersion => /\ v \in Present'
                   /\ policies'[v].status \in {"active", "superseded"}
                   /\ policies'[v].tenant \in {System, t}

\* An activation that races with submit may supersede what submit has read, but
\* never takes it back.
LEMMA ReleasedStays ==
  ASSUME RowsInv, RowsInv', [Next]_vars
  PROVE  \A v, t : Released(v, t) => ReleasedThen(v, t)
<1> SUFFICES ASSUME NEW v, NEW t, Released(v, t), v # NoVersion
             PROVE  ReleasedThen(v, t)
  BY DEF ReleasedThen
<1>1. /\ v \in Present
      /\ policies[v].status \in {"active", "superseded"}
      /\ policies[v].tenant \in {System, t}
  BY DEF Released
<1>2. /\ v \in Rows
      /\ policies'[v] # NoRow
      /\ policies'[v].tenant = policies[v].tenant
      /\ policies'[v].status # "draft"
  BY <1>1, StepKeepsHistory DEF KeepsHistory, Present
<1>3. policies'[v] \in GovernancePolicy /\ v \in Present'
  BY <1>2 DEF RowsInv, TypeOK, Present
<1> QED
  BY <1>1, <1>2, <1>3 DEF GovernancePolicy, ReleasedThen

\* What get_active finds, for the tenant or for the system, is released.
LEMMA ActiveIsReleased ==
  ASSUME RowsInv, UNCHANGED vars, NEW t, NEW o, o \in {System, t}
  PROVE  \A v \in _active_versions(o) : ReleasedThen(v, t)
BY DEF _active_versions, ReleasedThen, Present, vars

LEMMA NextBound == RowsInv /\ RowsInv' /\ ReviewInv /\ BoundInv /\ [RNext]_rvars => BoundInv'
<1> SUFFICES ASSUME RowsInv, RowsInv', ReviewInv, BoundInv, [RNext]_rvars, NEW a \in Actions
             PROVE  /\ sub'[a].pc = "create" => ReleasedThen(sub'[a].version, sub'[a].tenant)
                    /\ runs'[a] # NoAction => ReleasedThen(runs'[a].version, runs'[a].tenant)
  BY DEF BoundInv, Released, ReleasedThen
<1>1. \A v, t : Released(v, t) => ReleasedThen(v, t)
  BY RegistryStep, ReleasedStays
<1>2. CASE runs[a] # NoAction
  <2>1. /\ runs'[a].version = runs[a].version
        /\ runs'[a].tenant = runs[a].tenant
        /\ runs'[a] # NoAction
    BY <1>2, StepKeepsReviews DEF KeepsReviews, Created
  <2>2. sub'[a].pc # "create"
    BY <2>1, NextReview DEF ReviewInv, ReviewsOK, RowOK, BeforeCreate
  <2> QED
    BY <1>1, <1>2, <2>1, <2>2 DEF BoundInv
<1>3. CASE Submit(a)
  <2>1. PICK t \in Scopes, v \in Rows \cup {NoVersion} :
          /\ v = NoVersion \/ v \in _active_versions(t)
          /\ sub'[a].version = v
          /\ sub'[a].tenant = t
    BY <1>3 DEF Submit, ReviewInv, ReviewTypes, RTypeOK, _active_versions, Present
  <2>2. runs' = runs /\ UNCHANGED vars
    BY <1>3 DEF Submit
  <2>3. ReleasedThen(v, t)
    BY <2>1, <2>2, ActiveIsReleased DEF ReleasedThen
  <2> QED
    BY <1>1, <2>1, <2>2, <2>3 DEF BoundInv
<1>4. CASE ReadSystemDefault(a)
  <2>1. PICK v \in Rows \cup {NoVersion} :
          /\ v = NoVersion \/ v \in _active_versions(System)
          /\ sub' = [sub EXCEPT ![a] = [sub[a] EXCEPT !.pc = "create", !.version = v]]
    BY <1>4 DEF ReadSystemDefault, ReviewInv, ReviewTypes, RTypeOK, _active_versions, Present
  <2>2. sub[a] \in SubmitRecord
    BY <1>4, SubmitCases DEF ReadSystemDefault, SubmitPcs, ReviewInv
  <2>3. sub'[a].version = v /\ sub'[a].tenant = sub[a].tenant
    BY <2>1, <2>2 DEF SubmitRecord, ReviewInv, ReviewTypes, RTypeOK
  <2>4. runs' = runs /\ UNCHANGED vars
    BY <1>4 DEF ReadSystemDefault
  <2>5. ReleasedThen(v, sub[a].tenant)
    BY <2>1, <2>4, ActiveIsReleased DEF ReleasedThen
  <2> QED
    BY <1>1, <2>3, <2>4, <2>5 DEF BoundInv
<1>5. CASE CreateAction(a)
  <2>1. /\ sub[a].pc = "create"
        /\ runs'[a].tenant = sub[a].tenant
        /\ runs'[a].version = sub[a].version
    BY <1>5 DEF CreateAction, ReviewInv, ReviewTypes, RTypeOK
  <2>2. sub'[a].pc = "risk"
    BY <1>5, SubmitMoves DEF CreateAction, SubmitPcs, ReviewInv
  <2> QED
    BY <1>1, <2>1, <2>2 DEF BoundInv
<1>6. ASSUME runs[a] = NoAction,
             ~ Submit(a), ~ ReadSystemDefault(a), ~ CreateAction(a)
      PROVE  /\ runs'[a] = NoAction
             /\ sub'[a].pc = "create" => sub'[a] = sub[a]
  <2>1. sub[a].pc \in BeforeCreate \cup {"dead"} /\ gates[a] = "none"
    BY <1>6 DEF ReviewInv, ReviewsOK, RowOK
  <2>2. ~ SubmitStep(a)
    BY <1>6, <2>1 DEF BeforeCreate, SubmitStep, AssessRisk, AuditStep, CreateGate, AuditGate,
                      LinkGate, RecordArtifact
  <2>3. ASSUME NEW b \in Actions, Submit(b) \/ SubmitStep(b)
        PROVE  sub'[a] = sub[a] /\ runs'[a] = runs[a]
    <3>1. b # a
      BY <1>6, <2>2, <2>3
    <3>2. \A p : SubmitAt(b, p) => sub'[a] = sub[a]
      BY <3>1 DEF SubmitAt, ReviewInv, ReviewTypes, RTypeOK
    <3>3. CASE Submit(b) \/ ReadSystemDefault(b)
      BY <3>1, <3>3 DEF Submit, ReadSystemDefault, ReviewInv, ReviewTypes, RTypeOK
    <3>4. CASE CreateAction(b) \/ LinkGate(b)
      BY <3>1, <3>2, <3>4 DEF CreateAction, LinkGate, ReviewInv, ReviewTypes, RTypeOK
    <3>5. CASE AssessRisk(b) \/ AuditStep(b) \/ CreateGate(b) \/ AuditGate(b) \/ RecordArtifact(b)
      BY <3>2, <3>5 DEF AssessRisk, AuditStep, CreateGate, AuditGate, RecordArtifact
    <3> QED
      BY <2>3, <3>3, <3>4, <3>5 DEF SubmitStep
  <2>4. ASSUME NEW o \in Overriders, Override(o)
        PROVE  sub'[a] = sub[a] /\ runs'[a] = runs[a]
    BY <1>6, <2>4 DEF Override, Finds, ReviewInv, ReviewTypes, RTypeOK
  <2>5. CASE StopAll
    BY <1>6, <2>5 DEF StopAll
  <2>6. CASE UNCHANGED <<runs, sub>>
    BY <1>6, <2>6
  <2> QED
    BY <1>6, <2>3, <2>4, <2>5, <2>6
       DEF RNext, rvars, reviewVars, RegistryMoves, DecideRead, DecideCommit, DecideAudit,
           OverrideAudit, OverrideDies
<1> QED
  BY <1>1, <1>2, <1>3, <1>4, <1>5, <1>6 DEF BoundInv

(***************************************************************************)
(* The version a review is bound to has been in force and is its tenant's  *)
(* own or the system's, for any number of reviews and of activations that  *)
(* race with each other and with the reads of submit.                      *)
(***************************************************************************)
THEOREM BoundToReleased == RSpec => []BoundToReleasedVersion
<1>1. RInit => BoundInv
  BY DEF RInit, BoundInv
<1>2. BoundInv => BoundToReleasedVersion
  BY DEF BoundInv, BoundToReleasedVersion, Released, Created
<1>3. RSpec => []RowsInv
  BY RowsInvariant, ReviewsImplementRegistry, PTL
<1>4. RSpec => []BoundInv
  BY <1>1, <1>3, ReviewInvariant, NextBound, PTL DEF RSpec
<1> QED
  BY <1>2, <1>4, PTL

-----------------------------------------------------------------------------
(***************************************************************************)
(* Decisions made one at a time.                                           *)
(***************************************************************************)
OneDecider == \A d, e \in Deciders : d = e

\* What a decision is about to commit on is still pending.
PendingInv ==
  \A d \in Deciders : dq[d].pc = "commit" => gates[dq[d].action] = "pending"

LEMMA NextPending == OneDecider /\ ReviewInv /\ PendingInv /\ [RNext]_rvars => PendingInv'
<1> SUFFICES ASSUME OneDecider, ReviewInv, PendingInv, [RNext]_rvars,
                    NEW d \in Deciders, dq'[d].pc = "commit"
             PROVE  gates'[dq'[d].action] = "pending"
  BY DEF PendingInv
<1>1. CASE DecideRead(d)
  BY <1>1 DEF DecideRead, ReviewInv, ReviewTypes
<1>2. CASE DecideCommit(d)
  <2>1. dq[d] \in DecisionRecord /\ dq'[d] = [dq[d] EXCEPT !.pc = "audit"]
    BY <1>2, DecisionCases DEF DecideCommit, ReviewInv, ReviewTypes
  <2> QED
    BY <2>1 DEF DecisionRecord
<1>3. CASE DecideAudit(d) \/ StopAll
  BY <1>3 DEF DecideAudit, StopAll, Free, ReviewInv, ReviewTypes
<1>4. ASSUME NEW a \in Actions, CreateGate(a)
      PROVE  gates'[dq'[d].action] = "pending"
  <2>1. dq' = dq /\ gates' = [gates EXCEPT ![a] = "pending"]
    BY <1>4 DEF CreateGate
  <2>2. gates[dq[d].action] = "pending" /\ dq[d].action \in Actions
    BY <2>1, DecisionCases DEF PendingInv, ReviewInv, DecisionRecord
  <2> QED
    BY <2>1, <2>2 DEF ReviewInv, ReviewTypes, RTypeOK
<1>5. CASE UNCHANGED <<gates, dq>>
  BY <1>5 DEF PendingInv
<1> QED
  BY <1>1, <1>2, <1>3, <1>4, <1>5
     DEF OneDecider, RNext, rvars, reviewVars, RegistryMoves, Submit, SubmitStep,
         ReadSystemDefault, CreateAction, AssessRisk, AuditStep, AuditGate, LinkGate,
         RecordArtifact, Override, OverrideAudit, OverrideDies

\* A decision, once committed, stands.
LEMMA DecisionStands ==
  ASSUME ReviewInv, PendingInv, [RNext]_rvars, NEW a \in Actions, gates[a] \in Decisions
  PROVE  gates'[a] = gates[a]
<1>1. ASSUME NEW d \in Deciders, DecideCommit(d)
      PROVE  gates'[a] = gates[a]
  <2>1. /\ gates[dq[d].action] = "pending"
        /\ gates' = [gates EXCEPT ![dq[d].action] = dq[d].decision]
    BY <1>1 DEF DecideCommit, PendingInv
  <2> QED
    BY <2>1 DEF Decisions, ReviewInv, ReviewTypes, RTypeOK
<1>2. ASSUME NEW b \in Actions, CreateGate(b)
      PROVE  gates'[a] = gates[a]
  <2>1. /\ gates[b] = "none"
        /\ gates' = [gates EXCEPT ![b] = "pending"]
    BY <1>2 DEF CreateGate, ReviewInv, ReviewsOK, StageOK, Ungated
  <2> QED
    BY <2>1 DEF Decisions, ReviewInv, ReviewTypes, RTypeOK
<1>3. CASE UNCHANGED gates
  BY <1>3
<1> QED
  BY <1>1, <1>2, <1>3
     DEF RNext, rvars, reviewVars, RegistryMoves, StopAll, Submit, SubmitStep,
         ReadSystemDefault, CreateAction, AssessRisk, AuditStep, AuditGate, LinkGate,
         RecordArtifact, DecideRead, DecideAudit, Override, OverrideAudit, OverrideDies

\* PacketCases after a step.
PacketReads ==
  \A b \in Created :
    /\ b \in Overridden => PacketStatus(b) = "override_recorded"
    /\ b \notin Overridden /\ ~ runs[b].linked =>
         PacketStatus(b) = SubmitStatus(runs[b].category, runs[b].level)
    /\ b \notin Overridden /\ runs[b].linked =>
         PacketStatus(b) = _APPROVAL_STATUS_MAP[gates[b]]

LEMMA PacketCasesThen == ReviewInv' => PacketReads'
<1>1. ReviewInv => PacketReads
  BY PacketCases DEF PacketReads
<1> QED
  BY <1>1, PTL

\* What a step may make of the status in the packet.
LEMMA PacketStep ==
  ASSUME ReviewInv, ReviewInv', PendingInv, [RNext]_rvars, NEW a \in Created
  PROVE  /\ PacketStatus(a) \in Decisions =>
              PacketStatus(a)' \in {PacketStatus(a), "override_recorded"}
         /\ PacketStatus(a) = "override_recorded" => PacketStatus(a)' = PacketStatus(a)
         /\ PacketStatus(a) = "cleared" => PacketStatus(a)' = PacketStatus(a)
<1>1. /\ a \in Actions
      /\ runs[a] # NoAction
      /\ a \in Created'
      /\ runs'[a].category = runs[a].category
      /\ runs'[a].level = runs[a].level
      /\ runs[a].linked => runs'[a].linked
      /\ a \in Overridden => a \in Overridden'
  BY StepKeepsReviews DEF KeepsReviews, Created
<1>2. RowOK(a)'
  BY <1>1 DEF ReviewInv, ReviewsOK
<1>3. /\ a \in Overridden' => PacketStatus(a)' = "override_recorded"
      /\ a \notin Overridden' /\ ~ runs'[a].linked =>
           PacketStatus(a)' = SubmitStatus(runs'[a].category, runs'[a].level)
      /\ a \notin Overridden' /\ runs'[a].linked =>
           PacketStatus(a)' = _APPROVAL_STATUS_MAP[gates'[a]]
  BY <1>1, PacketCasesThen DEF PacketReads
<1>4. CASE a \in Overridden
  BY <1>1, <1>3, <1>4, PacketCases DEF Decisions
<1>5. CASE a \notin Overridden /\ runs[a].linked
  <2>1. PacketStatus(a) = _APPROVAL_STATUS_MAP[gates[a]] /\ gates[a] \in {"pending"} \cup Decisions
    BY <1>5, PacketCases
  <2>2. CASE gates[a] = "pending"
    BY <2>1, <2>2, MapCases DEF Decisions
  <2>3. CASE gates[a] \in Decisions
    <3>1. gates'[a] = gates[a]
      BY <1>1, <2>3, DecisionStands
    <3>2. PacketStatus(a) \in Decisions
      BY <2>1, <2>3, MapCases DEF Decisions
    <3> QED
      BY <1>1, <1>3, <1>5, <2>1, <3>1, <3>2 DEF Decisions
  <2> QED
    BY <2>1, <2>2, <2>3
<1>6. CASE a \notin Overridden /\ ~ runs[a].linked
  <2>1. PacketStatus(a) = SubmitStatus(runs[a].category, runs[a].level)
    BY <1>6, PacketCases
  <2>2. PacketStatus(a) \notin Decisions /\ PacketStatus(a) # "override_recorded"
    BY <2>1, StatusCases DEF Decisions
  <2>3. ASSUME PacketStatus(a) = "cleared"
        PROVE  PacketStatus(a)' = PacketStatus(a)
    <3>1. ~ Waits(runs[a].category, runs[a].level) /\ runs[a].level \notin OVERRIDABLE_RISK
      BY <2>1, <2>3, StatusCases DEF Waits, OVERRIDABLE_RISK
    <3>2. a \notin Overridden' /\ ~ runs'[a].linked
      BY <1>1, <1>2, <3>1 DEF RowOK, Created
    <3> QED
      BY <1>1, <1>3, <2>1, <3>2
  <2> QED
    BY <2>2, <2>3
<1> QED
  BY <1>4, <1>5, <1>6

(***************************************************************************)
(* When decisions are made one at a time, what a packet says of a review   *)
(* only advances: a decision stands until an override, and an override for *)
(* ever, however submits, overrides, deaths and restarts interleave.       *)
(***************************************************************************)
THEOREM PacketAdvances == OneDecider => (RSpec => PacketOnlyAdvances)
<1> SUFFICES ASSUME OneDecider
             PROVE  RSpec => PacketOnlyAdvances
  OBVIOUS
<1> DEFINE Advances ==
      \A a \in Created :
        LET old == PacketStatus(a)
            new == PacketStatus(a)'
        IN  /\ old \in Decisions => new \in {old, "override_recorded"}
            /\ old = "override_recorded" => new = old
            /\ old = "cleared" => new = old
<1>1. RInit => PendingInv
  BY DEF RInit, PendingInv, Free
<1>2. ReviewInv /\ PendingInv /\ [RNext]_rvars => PendingInv'
  BY NextPending
<1>3. ReviewInv /\ ReviewInv' /\ PendingInv /\ [RNext]_rvars => [Advances]_rvars
  BY PacketStep
<1>4. QED
  BY <1>1, <1>2, <1>3, ReviewInvariant, PTL DEF RSpec, PacketOnlyAdvances

=============================================================================
