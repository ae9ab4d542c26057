--------------------------- MODULE EvidenceProofs ---------------------------
(***************************************************************************)
(* What readers are told of a governance review, for any number of         *)
(* reviews, readers and other requests.  The evidence on record only       *)
(* grows, and a reader's locals are at each statement part of what is on   *)
(* record: a response hangs together and its score is no more than the     *)
(* evidence is worth.                                                      *)
(***************************************************************************)
EXTENDS Evidence, GovernanceReviewProofs

-----------------------------------------------------------------------------
(***************************************************************************)
(* The risk tables.                                                        *)
(***************************************************************************)

\* A category and a level that some intake is given.
Rated(category, level) ==
  \E i \in Intakes : category = _policy_category_for(i) /\ level = classify_risk(i)

\* What the policy gates scores as a medium risk at least: exposure or autonomy
\* gives two points and the category one.
LEMMA PolicyAndRiskAgree ==
  ASSUME NEW category, NEW level, Rated(category, level)
  PROVE  Waits(category, level) <=> level # "low"
<1>1. PICK i \in Intakes : category = _policy_category_for(i) /\ level = classify_risk(i)
  BY DEF Rated
<1>2. /\ i.sensitivity \in {"none", "public", "internal", "confidential", "pii", "phi",
                             "regulated", "other", "absent"}
      /\ i.autonomy \in {"none", "assisted", "semi_autonomous", "autonomous", "other", "absent"}
      /\ i.exposure \in BOOLEAN
  BY DEF Intakes, Sensitivities, Autonomies, _SENSITIVITY_SCORE, _AUTONOMY_SCORE
<1>3. SensitivityPoints(i) \in 0 .. 3
  BY <1>2 DEF SensitivityPoints, _norm, _SENSITIVITY_SCORE
<1>4. /\ AutonomyPoints(i) \in 0 .. 3
      /\ i.autonomy \in {"autonomous", "semi_autonomous"} => AutonomyPoints(i) >= 2
  BY <1>2 DEF AutonomyPoints, _norm, _AUTONOMY_SCORE
<1>5. category \in {"outbound_send", "draft_only"}
  BY <1>1 DEF _policy_category_for
<1>6. category = "outbound_send" => level # "low"
  <2>1. category = "outbound_send" => i.exposure \/ i.autonomy \in {"autonomous", "semi_autonomous"}
    BY <1>1 DEF _policy_category_for
  <2>2. category = "outbound_send" => RiskScore(i) >= 3
    BY <1>1, <1>2, <1>3, <1>4, <2>1 DEF RiskScore, _POLICY_SCORE
  <2> QED
    BY <1>1, <2>2 DEF classify_risk, LevelOf, MEDIUM_THRESHOLD, HIGH_THRESHOLD
<1>7. level \in {"low", "medium", "high"}
  BY <1>1 DEF classify_risk, LevelOf
<1> QED
  BY <1>5, <1>6, <1>7 DEF Waits, SubmitStatus, evaluate_action, RequiresApproval

\* Every review is rated so.
RatedInv ==
  \A a \in Actions :
    /\ sub[a].pc \in SubmitPcs => Rated(sub[a].category, sub[a].level)
    /\ runs[a] # NoAction => Rated(runs[a].category, runs[a].level)

\* Only its own steps, and a stop, move a submit.
LEMMA SubmitMoved ==
  ASSUME ReviewInv, [RNext]_rvars, NEW a \in Actions
  PROVE  sub'[a] = sub[a] \/ sub'[a].pc = "dead" \/ Submit(a) \/ SubmitStep(a)
<1>1. ASSUME NEW b \in Actions, b # a, Submit(b) \/ SubmitStep(b)
      PROVE  sub'[a] = sub[a]
  <2>1. \A p : SubmitAt(b, p) => sub'[a] = sub[a]
    BY <1>1 DEF SubmitAt, ReviewInv, ReviewTypes, RTypeOK
  <2>2. CASE Submit(b) \/ ReadSystemDefault(b)
    BY <1>1, <2>2 DEF Submit, ReadSystemDefault, ReviewInv, ReviewTypes, RTypeOK
  <2>3. CASE ~ Submit(b) /\ ~ ReadSystemDefault(b)
    BY <1>1, <2>1, <2>3 DEF SubmitStep, CreateAction, AssessRisk, AuditStep, CreateGate,
                            AuditGate, LinkGate, RecordArtifact
  <2> QED
    BY <2>2, <2>3
<1>2. CASE StopAll
  BY <1>2 DEF StopAll
<1>3. CASE UNCHANGED sub
  BY <1>3
<1> QED
  BY <1>1, <1>2, <1>3
     DEF RNext, rvars, reviewVars, RegistryMoves, DecideRead, DecideCommit, DecideAudit,
         Override, OverrideAudit, OverrideDies

\* A submit keeps what it has classified, and only Submit starts one.
LEMMA SubmitFrame ==
  ASSUME ReviewInv, [RNext]_rvars, NEW a \in Actions, sub'[a].pc \in SubmitPcs
  PROVE  \/ Submit(a)
         \/ /\ sub[a].pc \in SubmitPcs
            /\ sub'[a].category = sub[a].category
            /\ sub'[a].level = sub[a].level
<1>1. CASE ReadSystemDefault(a)
  <2>1. PICK v \in Rows \cup {NoVersion} :
          sub' = [sub EXCEPT ![a] = [sub[a] EXCEPT !.pc = "create", !.version = v]]
    BY <1>1 DEF ReadSystemDefault, ReviewInv, ReviewTypes, RTypeOK, _active_versions, Present
  <2>2. sub[a] \in SubmitRecord /\ sub[a].pc = "system"
    BY <1>1, SubmitCases DEF ReadSystemDefault, SubmitPcs, ReviewInv
  <2>3. sub'[a] = [sub[a] EXCEPT !.pc = "create", !.version = v]
    BY <2>1 DEF ReviewInv, ReviewTypes, RTypeOK
  <2> QED
    BY <2>2, <2>3 DEF SubmitRecord, SubmitPcs
<1>2. CASE SubmitStep(a) /\ ~ ReadSystemDefault(a)
  <2>1. PICK p \in SubmitPcs \cup {"done"} : SubmitAt(a, p) /\ sub[a].pc \in SubmitPcs
    BY <1>2 DEF SubmitStep, CreateAction, AssessRisk, AuditStep, AfterAudit, CreateGate,
                AuditGate, LinkGate, RecordArtifact, SubmitPcs
  <2>2. p # "done"
    BY <2>1, SubmitMoves DEF SubmitPcs, ReviewInv
  <2> QED
    BY <2>1, <2>2, SubmitMoves DEF ReviewInv
<1>3. CASE sub'[a] = sub[a] \/ sub'[a].pc = "dead"
  BY <1>3 DEF SubmitPcs
<1> QED
  BY <1>1, <1>2, <1>3, SubmitMoved

LEMMA NextRated == ReviewInv /\ ReviewInv' /\ RatedInv /\ [RNext]_rvars => RatedInv'
<1> SUFFICES ASSUME ReviewInv, ReviewInv', RatedInv, [RNext]_rvars, NEW a \in Actions
             PROVE  /\ sub'[a].pc \in SubmitPcs => Rated(sub'[a].category, sub'[a].level)
                    /\ runs'[a] # NoAction => Rated(runs'[a].category, runs'[a].level)
  BY DEF RatedInv, Rated
<1>1. CASE Submit(a)
  <2>1. PICK i \in Vendors : /\ sub'[a].category = _policy_category_for(i)
                             /\ sub'[a].level = classify_risk(i)
    BY <1>1 DEF Submit, ReviewInv, ReviewTypes, RTypeOK
  <2>2. runs'[a] = runs[a]
    BY <1>1 DEF Submit
  <2> QED
    BY <2>1, <2>2, VendorsAssumption DEF RatedInv, Rated
<1>2. sub'[a].pc \in SubmitPcs => Rated(sub'[a].category, sub'[a].level)
  BY <1>1, SubmitFrame DEF RatedInv
<1>3. CASE runs[a] # NoAction
  BY <1>2, <1>3, StepKeepsReviews DEF KeepsReviews, Created, RatedInv
<1>4. CASE runs[a] = NoAction /\ runs'[a] # NoAction
  <2>1. sub[a].pc \in BeforeCreate \cup {"dead"}
    BY <1>4 DEF ReviewInv, ReviewsOK, RowOK
  <2>2. CreateAction(a)
    <3>1. ASSUME NEW b \in Actions, LinkGate(b)
          PROVE  runs'[a] = runs[a]
      <4>1. b # a /\ runs' = [runs EXCEPT ![b].linked = TRUE]
        BY <2>1, <3>1 DEF LinkGate, BeforeCreate
      <4> QED
        BY <4>1 DEF ReviewInv, ReviewTypes, RTypeOK
    <3>2. ASSUME NEW b \in Actions, CreateAction(b), b # a
          PROVE  runs'[a] = runs[a]
      BY <3>2 DEF CreateAction, ReviewInv, ReviewTypes, RTypeOK
    <3>3. ASSUME NEW o \in Overriders, Override(o)
          PROVE  runs'[a] = runs[a]
      BY <1>4, <3>3 DEF Override, Finds, ReviewInv, ReviewTypes, RTypeOK
    <3> QED
      BY <1>4, <3>1, <3>2, <3>3
         DEF RNext, rvars, reviewVars, RegistryMoves, StopAll, Submit, SubmitStep,
             ReadSystemDefault, AssessRisk, AuditStep, CreateGate, AuditGate, RecordArtifact,
             DecideRead, DecideCommit, DecideAudit, OverrideAudit, OverrideDies
  <2>3. /\ sub[a].pc = "create"
        /\ runs'[a].category = sub[a].category
        /\ runs'[a].level = sub[a].level
    BY <2>2 DEF CreateAction, ReviewInv, ReviewTypes, RTypeOK
  <2> QED
    BY <1>2, <2>3 DEF RatedInv, SubmitPcs
<1> QED
  BY <1>2, <1>3, <1>4

-----------------------------------------------------------------------------
(***************************************************************************)
(* What is on record.                                                      *)
(***************************************************************************)
EventNames == {"submitted", "policy_evaluated", "risk_classified", "approval_required",
               "auto_cleared", "blocked", "approval.created", "approved", "rejected",
               "overridden"}

AfterClassified == {"gate", "gate_audit", "link", "approval_required", "auto_cleared",
                    "blocked", "artifact", "done"}

\* The events and nodes that the steps of submit have left behind them.
SubmitOnRecord ==
  \A a \in Actions :
    LET p == sub[a].pc
        t == runs[a].tenant
    IN  /\ p \in {"policy_evaluated", "risk_classified"} \cup AfterClassified =>
             <<"submitted", t, a>> \in trail
        /\ p \in {"risk_classified"} \cup AfterClassified => <<"policy_evaluated", t, a>> \in trail
        /\ p \in AfterClassified => <<"risk_classified", t, a>> \in trail
        /\ p = "done" => <<"evidence_artifact", a>> \in nodes

\* An event of an override follows its row, and a row is the operator's or of the
\* review's own tenant.
OverridesOnRecord ==
  /\ \A t \in Scopes, a \in Actions : <<"overridden", t, a>> \in trail => <<t, a>> \in overrides
  /\ \A o \in Overriders : oq[o].pc = "audit" => <<oq[o].tenant, oq[o].action>> \in overrides
  /\ \A t \in Scopes, a \in Actions : <<t, a>> \in overrides => t \in {System, runs[a].tenant}

RecordInv ==
  /\ trail \subseteq EventNames \X Scopes \X Actions
  /\ SubmitOnRecord
  /\ OverridesOnRecord

\* Nothing on record disappears.
RecordGrows == trail \subseteq trail' /\ nodes \subseteq nodes' /\ overrides \subseteq overrides'

LEMMA StepRecordGrows == [RNext]_rvars => RecordGrows
BY DEF RecordGrows, RNext, rvars, reviewVars, RegistryMoves, StopAll, Submit, SubmitStep,
       ReadSystemDefault, CreateAction, AssessRisk, AuditStep, CreateGate, AuditGate, LinkGate,
       RecordArtifact, DecideRead, DecideCommit, DecideAudit, Override, OverrideAudit,
       OverrideDies

LEMMA NextSubmitOnRecord ==
  ASSUME ReviewInv, ReviewInv', RecordInv, [RNext]_rvars
  PROVE  SubmitOnRecord'
<1> SUFFICES ASSUME NEW a \in Actions
             PROVE  LET p == sub'[a].pc
                        t == runs'[a].tenant
                    IN  /\ p \in {"policy_evaluated", "risk_classified"} \cup AfterClassified =>
                             <<"submitted", t, a>> \in trail'
                        /\ p \in {"risk_classified"} \cup AfterClassified =>
                             <<"policy_evaluated", t, a>> \in trail'
                        /\ p \in AfterClassified => <<"risk_classified", t, a>> \in trail'
                        /\ p = "done" => <<"evidence_artifact", a>> \in nodes'
  BY DEF SubmitOnRecord
<1>1. RecordGrows
  BY StepRecordGrows
<1>2. CASE sub'[a].pc \in BeforeCreate \cup {"risk", "submitted", "dead"}
  BY <1>2 DEF BeforeCreate, AfterClassified
<1>3. CASE sub[a].pc \in SubmitPcs \ BeforeCreate /\ SubmitStep(a)
  <2>1. /\ runs[a] \in GovernedAction
        /\ sub[a].tenant = runs[a].tenant
        /\ runs[a] # NoAction
    BY <1>3, SubmitColumns, ActionCases DEF ReviewInv
  <2>2. runs'[a].tenant = runs[a].tenant
    BY <2>1, StepKeepsReviews DEF KeepsReviews, Created
  <2>3. CASE AuditStep(a)
    <3>1. /\ sub'[a].pc = AfterAudit(a)
          /\ trail' = trail \cup {<<sub[a].pc, runs[a].tenant, a>>}
          /\ sub[a].pc \in {"submitted", "policy_evaluated", "risk_classified",
                            "approval_required", "auto_cleared", "blocked"}
      <4>1. AfterAudit(a) \in SubmitPcs \cup {"done"}
        BY DEF AfterAudit, SubmitPcs
      <4> QED
        BY <1>3, <2>1, <2>3, <4>1, SubmitMoves DEF AuditStep, ReviewInv
    <3>2. CASE sub[a].pc \in {"submitted", "policy_evaluated", "risk_classified"}
      BY <1>1, <2>2, <3>1, <3>2 DEF AfterAudit, RecordGrows, RecordInv, SubmitOnRecord,
                                    AfterClassified
    <3>3. CASE sub[a].pc \in {"approval_required", "auto_cleared", "blocked"}
      BY <1>1, <2>2, <3>1, <3>3 DEF AfterAudit, RecordGrows, RecordInv, SubmitOnRecord,
                                    AfterClassified
    <3> QED
      BY <3>1, <3>2, <3>3
  <2>4. CASE AssessRisk(a)
    <3>1. sub'[a].pc = "submitted"
      BY <2>4, SubmitMoves DEF AssessRisk, SubmitPcs, ReviewInv
    <3> QED
      BY <1>2, <3>1
  <2>5. CASE CreateGate(a) \/ AuditGate(a) \/ LinkGate(a)
    <3>1. /\ sub[a].pc \in {"gate", "gate_audit", "link"}
          /\ sub'[a].pc \in {"gate_audit", "link", "approval_required"}
      BY <2>5, SubmitMoves DEF CreateGate, AuditGate, LinkGate, SubmitPcs, ReviewInv
    <3> QED
      BY <1>1, <2>2, <3>1 DEF RecordGrows, RecordInv, SubmitOnRecord, AfterClassified
  <2>6. CASE RecordArtifact(a)
    <3>1. /\ sub[a].pc = "artifact"
          /\ sub'[a].pc = "done"
          /\ nodes' = nodes \cup {<<"evidence_artifact", a>>}
      BY <2>6, SubmitMoves DEF RecordArtifact, SubmitPcs, ReviewInv
    <3> QED
      BY <1>1, <2>2, <3>1 DEF RecordGrows, RecordInv, SubmitOnRecord, AfterClassified
  <2> QED
    BY <1>3, <2>3, <2>4, <2>5, <2>6
       DEF SubmitStep, ReadSystemDefault, CreateAction, BeforeCreate
<1>4. CASE Submit(a) \/ (SubmitStep(a) /\ sub[a].pc \notin SubmitPcs \ BeforeCreate)
  <2>1. Submit(a) \/ ReadSystemDefault(a) \/ CreateAction(a)
    BY <1>4 DEF SubmitStep, AssessRisk, AuditStep, CreateGate, AuditGate, LinkGate,
                RecordArtifact, SubmitPcs, BeforeCreate
  <2>2. CASE Submit(a)
    BY <1>2, <2>2 DEF Submit, ReviewInv, ReviewTypes, RTypeOK, BeforeCreate
  <2>3. CASE ReadSystemDefault(a)
    <3>1. PICK v \in Rows \cup {NoVersion} :
            sub' = [sub EXCEPT ![a] = [sub[a] EXCEPT !.pc = "create", !.version = v]]
      BY <2>3 DEF ReadSystemDefault, ReviewInv, ReviewTypes, RTypeOK, _active_versions, Present
    <3>2. sub[a] \in SubmitRecord
      BY <2>3, SubmitCases DEF ReadSystemDefault, SubmitPcs, ReviewInv
    <3>3. sub'[a].pc = "create"
      BY <3>1, <3>2 DEF SubmitRecord, ReviewInv, ReviewTypes, RTypeOK
    <3> QED
      BY <1>2, <3>3 DEF BeforeCreate
  <2>4. CASE CreateAction(a)
    <3>1. sub'[a].pc = "risk"
      BY <2>4, SubmitMoves DEF CreateAction, SubmitPcs, ReviewInv
    <3> QED
      BY <1>2, <3>1
  <2> QED
    BY <2>1, <2>2, <2>3, <2>4
<1>5. CASE sub'[a] = sub[a] /\ sub'[a].pc \notin BeforeCreate \cup {"risk", "submitted", "dead"}
  <2>1. runs[a] # NoAction
    BY <1>5 DEF ReviewInv, ReviewsOK, RowOK
  <2>2. runs'[a].tenant = runs[a].tenant
    BY <2>1, StepKeepsReviews DEF KeepsReviews, Created
  <2> QED
    BY <1>1, <1>5, <2>2 DEF RecordGrows, RecordInv, SubmitOnRecord
<1> QED
  BY <1>2, <1>3, <1>4, <1>5, SubmitMoved

\* The locals of an override that waits for its event.
LEMMA OverrideCases ==
  ASSUME ReviewTypes, NEW o \in Overriders
  PROVE  oq[o].pc = "audit" => oq[o].tenant \in Scopes /\ oq[o].action \in Actions
<1>1. oq[o] \in OverrideRecord \cup {Free}
  BY DEF ReviewTypes
<1> QED
  BY <1>1 DEF OverrideRecord, Free

LEMMA NextTrailTyped ==
  ASSUME ReviewInv, RecordInv, [RNext]_rvars
  PROVE  trail' \subseteq EventNames \X Scopes \X Actions
<1>1. ASSUME NEW a \in Actions, AuditStep(a) \/ AuditGate(a)
      PROVE  trail' \subseteq EventNames \X Scopes \X Actions
  <2>1. PICK e \in EventNames : trail' = trail \cup {<<e, sub[a].tenant, a>>}
    BY <1>1 DEF AuditStep, AuditGate, EventNames
  <2>2. sub[a] \in SubmitRecord
    BY <1>1, SubmitCases DEF AuditStep, AuditGate, SubmitPcs, ReviewInv
  <2>3. sub[a].tenant \in Scopes
    BY <2>2 DEF SubmitRecord
  <2> QED
    BY <2>1, <2>3 DEF RecordInv
<1>2. ASSUME NEW d \in Deciders, DecideAudit(d)
      PROVE  trail' \subseteq EventNames \X Scopes \X Actions
  <2>1. dq[d] \in DecisionRecord /\ gates[dq[d].action] # "none"
    BY <1>2, DecisionCases DEF DecideAudit, ReviewInv, DecidersOK
  <2>2. dq[d].action \in Actions /\ dq[d].decision \in Decisions
    BY <2>1 DEF DecisionRecord
  <2>3. runs[dq[d].action] # NoAction
    BY <2>1, <2>2 DEF ReviewInv, ReviewsOK, RowOK
  <2>4. runs[dq[d].action] \in GovernedAction
    BY <2>2, <2>3, ActionCases DEF ReviewInv
  <2>5. runs[dq[d].action].tenant \in Scopes /\ dq[d].decision \in EventNames
    BY <2>2, <2>4 DEF GovernedAction, EventNames, Decisions
  <2> QED
    BY <1>2, <2>2, <2>5 DEF DecideAudit, RecordInv
<1>3. ASSUME NEW o \in Overriders, OverrideAudit(o)
      PROVE  trail' \subseteq EventNames \X Scopes \X Actions
  <2>1. oq[o].tenant \in Scopes /\ oq[o].action \in Actions
    BY <1>3, OverrideCases DEF OverrideAudit, ReviewInv
  <2> QED
    BY <1>3, <2>1 DEF OverrideAudit, RecordInv, EventNames
<1>4. CASE UNCHANGED trail
  BY <1>4 DEF RecordInv
<1> QED
  BY <1>1, <1>2, <1>3, <1>4
     DEF RNext, rvars, reviewVars, RegistryMoves, StopAll, Submit, SubmitStep,
         ReadSystemDefault, CreateAction, AssessRisk, CreateGate, LinkGate, RecordArtifact,
         DecideRead, DecideCommit, Override, OverrideDies

\* The rows and the requests of overrides that no override step touches.
LEMMA OverridesUntouched ==
  ASSUME ReviewInv, RecordInv, [RNext]_rvars, UNCHANGED <<overrides, oq>>,
         \A t \in Scopes, a \in Actions :
           <<"overridden", t, a>> \in trail' => <<"overridden", t, a>> \in trail
  PROVE  OverridesOnRecord'
<1>1. \A t \in Scopes, a \in Actions : <<t, a>> \in overrides => t \in {System, runs'[a].tenant}
  <2> SUFFICES ASSUME NEW t \in Scopes, NEW a \in Actions, <<t, a>> \in overrides
               PROVE  t \in {System, runs'[a].tenant}
    OBVIOUS
  <2>1. a \in Overridden
    <3>1. <<t, a>>[2] \in Overridden
      BY DEF Overridden
    <3> QED
      BY <3>1
  <2>2. runs[a] # NoAction
    BY <2>1 DEF ReviewInv, ReviewsOK, RowOK
  <2>3. runs'[a].tenant = runs[a].tenant
    BY <2>2, StepKeepsReviews DEF KeepsReviews, Created
  <2> QED
    BY <2>3 DEF RecordInv, OverridesOnRecord
<1> QED
  BY <1>1 DEF RecordInv, OverridesOnRecord

LEMMA NextOverridesOnRecord ==
  ASSUME ReviewInv, RecordInv, [RNext]_rvars
  PROVE  OverridesOnRecord'
<1>1. ASSUME NEW o \in Overriders, Override(o)
      PROVE  OverridesOnRecord'
  <2>1. PICK t \in Scopes, a \in Actions :
          /\ Finds(t, a)
          /\ overrides' = overrides \cup {<<t, a>>}
          /\ runs' = [runs EXCEPT ![a].status = "override_recorded"]
          /\ oq' = [oq EXCEPT ![o] = [pc |-> "audit", tenant |-> t, action |-> a]]
          /\ trail' = trail
    BY <1>1 DEF Override
  <2>2. \A p \in Overriders \ {o} : oq'[p] = oq[p]
    BY <2>1 DEF ReviewInv, ReviewTypes
  <2>3. /\ oq'[o].tenant = t
        /\ oq'[o].action = a
    BY <2>1 DEF ReviewInv, ReviewTypes
  <2>4. ASSUME NEW u \in Scopes, NEW b \in Actions, <<u, b>> \in overrides'
        PROVE  u \in {System, runs'[b].tenant}
    <3>1. CASE <<u, b>> \in overrides
      <4>1. <<u, b>>[2] \in Overridden
        BY <3>1 DEF Overridden
      <4>2. runs[b] # NoAction
        BY <4>1 DEF ReviewInv, ReviewsOK, RowOK
      <4>3. runs'[b].tenant = runs[b].tenant
        BY <4>2, StepKeepsReviews DEF KeepsReviews, Created
      <4> QED
        BY <3>1, <4>3 DEF RecordInv, OverridesOnRecord
    <3>2. CASE u = t /\ b = a
      <4>1. runs'[a].tenant = runs[a].tenant
        BY <2>1, StepKeepsReviews DEF Finds, KeepsReviews, Created
      <4> QED
        BY <2>1, <3>2, <4>1 DEF Finds
    <3> QED
      BY <2>1, <2>4, <3>1, <3>2
  <2> QED
    BY <2>1, <2>2, <2>3, <2>4 DEF RecordInv, OverridesOnRecord
<1>2. ASSUME NEW o \in Overriders, OverrideAudit(o) \/ OverrideDies(o)
      PROVE  OverridesOnRecord'
  <2>1. /\ UNCHANGED <<runs, overrides>>
        /\ oq[o].pc = "audit"
        /\ trail' \subseteq trail \cup {<<"overridden", oq[o].tenant, oq[o].action>>}
        /\ oq' = [oq EXCEPT ![o] = Free]
    BY <1>2 DEF OverrideAudit, OverrideDies
  <2>2. \A p \in Overriders : oq'[p] = oq[p] \/ oq'[p].pc = "idle"
    BY <2>1 DEF ReviewInv, ReviewTypes, Free
  <2> QED
    BY <2>1, <2>2 DEF RecordInv, OverridesOnRecord
<1>3. CASE StopAll
  BY <1>3 DEF StopAll, Free, RecordInv, OverridesOnRecord
<1>4. ASSUME NEW a \in Actions, AuditStep(a) \/ AuditGate(a)
      PROVE  OverridesOnRecord'
  <2>1. PICK e \in EventNames \ {"overridden"} : trail' = trail \cup {<<e, sub[a].tenant, a>>}
    BY <1>4 DEF AuditStep, AuditGate, EventNames
  <2> QED
    BY <1>4, <2>1, OverridesUntouched DEF AuditStep, AuditGate
<1>5. ASSUME NEW d \in Deciders, DecideAudit(d)
      PROVE  OverridesOnRecord'
  <2>1. dq[d].decision # "overridden"
    BY <1>5, DecisionCases DEF DecideAudit, ReviewInv, DecisionRecord, Decisions
  <2> QED
    BY <1>5, <2>1, OverridesUntouched DEF DecideAudit
<1>6. CASE UNCHANGED <<overrides, oq, trail>>
  BY <1>6, OverridesUntouched
<1> QED
  BY <1>1, <1>2, <1>3, <1>4, <1>5, <1>6
     DEF RNext, rvars, reviewVars, RegistryMoves, Submit, SubmitStep, ReadSystemDefault,
         CreateAction, AssessRisk, CreateGate, LinkGate, RecordArtifact, DecideRead,
         DecideCommit

EvidenceInv == ReviewInv /\ RatedInv /\ RecordInv

LEMMA InitEvidence == RInit => EvidenceInv
<1> SUFFICES ASSUME RInit
             PROVE  EvidenceInv
  OBVIOUS
<1>1. RatedInv
  BY DEF RInit, RatedInv, SubmitPcs
<1>2. RecordInv
  BY DEF RInit, RecordInv, SubmitOnRecord, OverridesOnRecord, Free, AfterClassified
<1> QED
  BY <1>1, <1>2, InitReview DEF EvidenceInv

LEMMA NextEvidence == EvidenceInv /\ [RNext]_rvars => EvidenceInv'
<1> SUFFICES ASSUME EvidenceInv, [RNext]_rvars
             PROVE  EvidenceInv'
  OBVIOUS
<1>1. ReviewInv /\ ReviewInv' /\ RatedInv /\ RecordInv
  BY NextReview DEF EvidenceInv
<1>2. RatedInv'
  BY <1>1, NextRated
<1>3. RecordInv'
  BY <1>1, NextTrailTyped, NextSubmitOnRecord, NextOverridesOnRecord DEF RecordInv
<1> QED
  BY <1>1, <1>2, <1>3 DEF EvidenceInv

-----------------------------------------------------------------------------
\* An event on record that a scope sees and, if it is one of an approval, that the
\* action row leads to.
Shown(n, t, linked, a) ==
  /\ n \in ApprovalEvents => linked
  /\ \E u \in Scopes : <<n, u, a>> \in trail /\ Sees(t, u)

\* A reader is given the names of these.
LEMMA EventsShown ==
  ASSUME trail \subseteq EventNames \X Scopes \X Actions,
         NEW t, NEW action, NEW a \in Actions, NEW n
  PROVE  n \in audit_events(t, action, a) <=> Shown(n, t, action.linked, a)
<1>1. ASSUME n \in audit_events(t, action, a)
      PROVE  Shown(n, t, action.linked, a)
  <2>1. PICK e \in trail : /\ e[1] = n
                           /\ e[3] = a
                           /\ e[1] \in ApprovalEvents => action.linked
                           /\ Sees(t, e[2])
    BY <1>1 DEF audit_events
  <2>2. e = <<e[1], e[2], e[3]>> /\ e[2] \in Scopes
    BY <2>1
  <2> QED
    BY <2>1, <2>2 DEF Shown
<1>2. ASSUME Shown(n, t, action.linked, a)
      PROVE  n \in audit_events(t, action, a)
  <2> PICK u \in Scopes : <<n, u, a>> \in trail /\ Sees(t, u)
    BY <1>2 DEF Shown
  <2> DEFINE e == <<n, u, a>>
  <2>1. e \in trail /\ e[1] = n /\ e[2] = u /\ e[3] = a
    OBVIOUS
  <2> HIDE DEF e
  <2> QED
    BY <1>2, <2>1 DEF audit_events, Shown
<1> QED
  BY <1>1, <1>2

\* The approval that a row leads to.
LEMMA LinkedCases ==
  ASSUME ReviewInv, NEW a \in Created
  PROVE  LinkedApproval(runs[a], a) = "none" <=> ~ runs[a].linked
BY DEF ReviewInv, ReviewsOK, RowOK, Created, LinkedApproval

LEMMA EvidenceImpliesAnswered == EvidenceInv => AnsweredMeansEvidence
<1> SUFFICES ASSUME EvidenceInv, NEW a \in Actions, NEW t \in Scopes,
                    sub[a].pc = "done", Finds(t, a)
             PROVE  LET p == PacketNow(t, a) IN
                    /\ p.gaps \subseteq {"missing_control_mappings", "missing_approval"}
                    /\ "missing_approval" \in p.gaps <=> runs[a].level = "low"
                    /\ {"submitted", "policy_evaluated", "risk_classified"} \subseteq p.events
  BY DEF AnsweredMeansEvidence
<1>1. a \in Created /\ Sees(t, runs[a].tenant)
  BY DEF Finds, Created, Sees
<1>2. runs[a].tenant \in Scopes
  BY <1>1, ActionCases DEF Created, EvidenceInv, ReviewInv, GovernedAction
<1>3. {"submitted", "policy_evaluated", "risk_classified"} \subseteq audit_events(t, runs[a], a)
  <2>1. ASSUME NEW n \in {"submitted", "policy_evaluated", "risk_classified"}
        PROVE  n \in audit_events(t, runs[a], a)
    <3>1. <<n, runs[a].tenant, a>> \in trail
      BY DEF EvidenceInv, RecordInv, SubmitOnRecord, AfterClassified
    <3>2. n \notin ApprovalEvents
      BY DEF ApprovalEvents, Decisions
    <3> QED
      BY <1>1, <1>2, <3>1, <3>2, EventsShown DEF EvidenceInv, RecordInv, Shown
  <2> QED
    BY <2>1
<1>4. list_evidence_artifacts(a) # {}
  BY DEF list_evidence_artifacts, EvidenceInv, RecordInv, SubmitOnRecord
<1>5. LinkedApproval(runs[a], a) = "none" <=> runs[a].level = "low"
  <2>1. runs[a].linked <=> Waits(runs[a].category, runs[a].level)
    BY DEF EvidenceInv, ReviewInv, ReviewsOK, StageOK
  <2>2. Rated(runs[a].category, runs[a].level)
    BY <1>1 DEF Created, EvidenceInv, RatedInv
  <2> QED
    BY <1>1, <2>1, <2>2, LinkedCases, PolicyAndRiskAgree DEF EvidenceInv
<1> QED
  BY <1>3, <1>4, <1>5 DEF PacketNow, GraphNow, _assemble, evidence_gaps

-----------------------------------------------------------------------------
(***************************************************************************)
(* The readers.                                                            *)
(***************************************************************************)

\* What a reader has loaded of the action: columns that never change, and a
\* status and a link that were there.
HeadOK(r) ==
  LET x == rd[r] IN
  x.pc # "idle" =>
    /\ {"pc", "tenant", "action", "loaded", "replay"} \subseteq DOMAIN x
    /\ x.tenant \in Scopes
    /\ x.action \in Actions
    /\ runs[x.action] # NoAction
    /\ Sees(x.tenant, runs[x.action].tenant)
    /\ x.loaded.version = runs[x.action].version
    /\ x.loaded.linked => runs[x.action].linked
    /\ x.loaded.status = "override_recorded" => x.action \in Overridden
    /\ x.replay \in BOOLEAN

ApprovalOK(r) ==
  LET x == rd[r] IN
  x.pc \in {"timeline", "events", "artifacts", "overrides", "verify"} =>
    /\ "approval" \in DOMAIN x
    /\ x.approval = "none" <=> ~ x.loaded.linked
    /\ x.approval \in {"none", "pending"} \cup Decisions

EventsOK(r) ==
  LET x == rd[r] IN
  /\ x.pc \in {"events", "artifacts", "overrides", "verify"} /\ x.replay =>
       /\ "timeline" \in DOMAIN x
       /\ \A n \in x.timeline : Shown(n, x.tenant, x.loaded.linked, x.action)
  /\ x.pc \in {"artifacts", "overrides", "verify"} =>
       /\ "events" \in DOMAIN x
       /\ \A n \in x.events : Shown(n, x.tenant, x.loaded.linked, x.action)
       /\ x.replay => x.timeline \subseteq x.events

ArtifactsOK(r) ==
  LET x == rd[r] IN
  x.pc \in {"overrides", "verify"} =>
    /\ "artifacts" \in DOMAIN x
    /\ x.artifacts # {} => <<"evidence_artifact", x.action>> \in nodes

OverridesOK(r) ==
  LET x == rd[r] IN
  x.pc = "verify" =>
    /\ "overrides" \in DOMAIN x
    /\ "overridden" \in x.events => x.overrides # {}
    /\ x.loaded.status = "override_recorded" =>
         x.overrides # {} \/ (x.tenant # System /\ <<System, x.action>> \in overrides)

ReaderOK(r) == HeadOK(r) /\ ApprovalOK(r) /\ EventsOK(r) /\ ArtifactsOK(r) /\ OverridesOK(r)

ReadersInv ==
  /\ rd = [r \in Readers |-> rd[r]]
  /\ \A r \in Readers : "pc" \in DOMAIN rd[r]
  /\ \A r \in Readers : ReaderOK(r)

\* A request that is not reading claims nothing.
LEMMA QuietOK ==
  ASSUME NEW r, rd'[r] = Quiet
  PROVE  ReaderOK(r)'
BY DEF Quiet, ReaderOK, HeadOK, ApprovalOK, EventsOK, ArtifactsOK, OverridesOK

\* What a reader holds stays true while the review goes on.
LEMMA ReaderStays ==
  ASSUME EvidenceInv, [RNext]_rvars, NEW r \in Readers, ReaderOK(r), rd'[r] = rd[r]
  PROVE  ReaderOK(r)'
<1>1. RecordGrows /\ KeepsReviews
  BY StepRecordGrows, StepKeepsReviews DEF EvidenceInv
<1>2. HeadOK(r)'
  <2>1. SUFFICES ASSUME rd[r].pc # "idle"
                 PROVE  HeadOK(r)'
    BY DEF HeadOK
  <2>2. rd[r].action \in Created
    BY <2>1 DEF ReaderOK, HeadOK, Created
  <2> QED
    BY <1>1, <2>1, <2>2 DEF ReaderOK, HeadOK, KeepsReviews
<1>3. ApprovalOK(r)'
  BY DEF ReaderOK, ApprovalOK
<1>4. EventsOK(r)'
  BY <1>1 DEF ReaderOK, EventsOK, Shown, RecordGrows
<1>5. ArtifactsOK(r)'
  BY <1>1 DEF ReaderOK, ArtifactsOK, RecordGrows
<1>6. OverridesOK(r)'
  BY <1>1 DEF ReaderOK, OverridesOK, RecordGrows
<1> QED
  BY <1>2, <1>3, <1>4, <1>5, <1>6 DEF ReaderOK

\* A step of one reader: the others hold what they held, and nothing else moves.
LEMMA OneReader ==
  ASSUME EvidenceInv, ReadersInv, UNCHANGED rvars, NEW r \in Readers, NEW x,
         rd' = [rd EXCEPT ![r] = x], "pc" \in DOMAIN x, ReaderOK(r)'
  PROVE  ReadersInv'
<1>1. rd'[r] = x /\ \A q \in Readers \ {r} : rd'[q] = rd[q]
  BY DEF ReadersInv
<1>2. rd' = [q \in Readers |-> rd'[q]]
  BY DEF ReadersInv
<1>3. ASSUME NEW q \in Readers, q # r
      PROVE  ReaderOK(q)'
  BY <1>1, <1>3, ReaderStays DEF ReadersInv
<1> QED
  BY <1>1, <1>2, <1>3 DEF ReadersInv

\* The record y of a reader is x with one more column.
Grown(y, x, to, column, value) ==
  /\ \A f \in DOMAIN x \cup {column} : f \in DOMAIN y
  /\ y["pc"] = to
  /\ y[column] = value
  /\ \A f \in DOMAIN x \ {"pc", column} : y[f] = x[f]

\* The tables that the rows of a reader are about do not move while it reads.
LEMMA ReadFrame ==
  ASSUME UNCHANGED rvars
  PROVE  /\ UNCHANGED <<runs, gates, nodes, overrides, trail>>
         /\ Overridden' = Overridden
BY DEF rvars, reviewVars, Overridden

LEMMA LoadActionOK ==
  ASSUME EvidenceInv, ReadersInv, NEW r \in Readers, LoadAction(r)
  PROVE  ReadersInv'
<1>1. PICK t \in Scopes, a \in Actions, replay \in BOOLEAN :
        /\ Finds(t, a)
        /\ rd' = [rd EXCEPT ![r] = [pc |-> "approval", tenant |-> t, action |-> a,
                                    loaded |-> runs[a], replay |-> replay]]
        /\ UNCHANGED rvars
  BY DEF LoadAction
<1> DEFINE x == [pc |-> "approval", tenant |-> t, action |-> a, loaded |-> runs[a],
                 replay |-> replay]
<1>2. rd'[r] = x
  BY <1>1 DEF ReadersInv
<1>3. DOMAIN x = {"pc", "tenant", "action", "loaded", "replay"}
  OBVIOUS
<1>4. runs[a] # NoAction /\ Sees(t, runs[a].tenant)
  BY <1>1 DEF Finds, Sees
<1>5. runs[a].status = "override_recorded" => a \in Overridden
  BY <1>4, StatusCases DEF EvidenceInv, ReviewInv, ReviewsOK, RowOK
<1>6. UNCHANGED <<runs, gates, nodes, overrides, trail>> /\ Overridden' = Overridden
  BY <1>1, ReadFrame
<1>7. ReaderOK(r)'
  BY <1>2, <1>3, <1>4, <1>5, <1>6
     DEF ReaderOK, HeadOK, ApprovalOK, EventsOK, ArtifactsOK, OverridesOK
<1> QED
  BY <1>1, <1>3, <1>7, OneReader

\* A reader that reads one more column keeps the others, and nothing else moves.
LEMMA ReadKeeps ==
  ASSUME EvidenceInv, ReadersInv, UNCHANGED rvars, NEW r \in Readers,
         rd[r].pc # "idle", NEW to, to # "idle",
         NEW column \in {"approval", "timeline", "events", "artifacts", "overrides"}, NEW value,
         Grown(rd'[r], rd[r], to, column, value),
         rd' = [q \in Readers |-> IF q = r THEN rd'[r] ELSE rd[q]]
  PROVE  /\ rd'[r].tenant = rd[r].tenant
         /\ rd'[r].action = rd[r].action
         /\ rd'[r].loaded = rd[r].loaded
         /\ rd'[r].replay = rd[r].replay
         /\ HeadOK(r)'
         /\ ReaderOK(r)' => ReadersInv'
<1> DEFINE x == rd'[r]
<1>1. /\ \A f \in DOMAIN rd[r] \cup {column} : f \in DOMAIN x
      /\ x["pc"] = to
      /\ \A f \in DOMAIN rd[r] \ {"pc", column} : x[f] = rd[r][f]
  BY DEF Grown
<1>2. HeadOK(r)
  BY DEF ReadersInv, ReaderOK
<1>3. /\ x.tenant = rd[r].tenant
      /\ x.action = rd[r].action
      /\ x.loaded = rd[r].loaded
      /\ x.replay = rd[r].replay
      /\ {"pc", "tenant", "action", "loaded", "replay"} \subseteq DOMAIN x
  BY <1>1, <1>2 DEF HeadOK
<1>4. UNCHANGED <<runs, gates, nodes, overrides, trail>> /\ Overridden' = Overridden
  BY ReadFrame
<1>5. HeadOK(r)'
  BY <1>1, <1>2, <1>3, <1>4 DEF HeadOK
<1>6. ReaderOK(r)' => ReadersInv'
  <2>1. rd' = [rd EXCEPT ![r] = x] /\ "pc" \in DOMAIN x
    BY <1>3 DEF ReadersInv
  <2> QED
    BY <2>1, OneReader
<1> QED
  BY <1>3, <1>5, <1>6

LEMMA LoadApprovalOK ==
  ASSUME EvidenceInv, ReadersInv, NEW r \in Readers, LoadApproval(r)
  PROVE  ReadersInv'
<1> DEFINE to == IF rd[r].replay THEN "timeline" ELSE "events"
           value == LinkedApproval(rd[r].loaded, rd[r].action)
<1>1. /\ rd[r].pc = "approval"
      /\ Grown(rd'[r], rd[r], to, "approval", value)
      /\ rd' = [q \in Readers |-> IF q = r THEN rd'[r] ELSE rd[q]]
      /\ UNCHANGED rvars
  BY DEF LoadApproval, Goes, Grown, ReadersInv
<1>2. to \in {"timeline", "events"} /\ (rd[r].replay => to = "timeline")
  OBVIOUS
<1>3. /\ value = "none" <=> ~ rd[r].loaded.linked
      /\ value \in {"none", "pending"} \cup Decisions
  <2>1. rd[r].pc = "approval" /\ HeadOK(r)
    BY <1>1 DEF ReadersInv, ReaderOK
  <2>2. rd[r].action \in Actions /\ runs[rd[r].action] # NoAction
    BY <2>1 DEF HeadOK
  <2>3. gates[rd[r].action] \in {"none", "pending"} \cup Decisions
    BY <2>2 DEF EvidenceInv, ReviewInv, ReviewTypes, RTypeOK
  <2>4. rd[r].loaded.linked => gates[rd[r].action] # "none"
    BY <2>1, <2>2 DEF HeadOK, EvidenceInv, ReviewInv, ReviewsOK, RowOK
  <2> QED
    BY <2>3, <2>4 DEF LinkedApproval
<1> HIDE DEF to, value
<1>4. /\ rd'[r].pc = to
      /\ rd'[r].approval = value
      /\ "approval" \in DOMAIN rd'[r]
      /\ rd'[r].loaded = rd[r].loaded
      /\ rd'[r].replay = rd[r].replay
      /\ HeadOK(r)'
      /\ ReaderOK(r)' => ReadersInv'
  BY <1>1, <1>2, ReadFrame, ReadKeeps DEF Grown
<1>5. ApprovalOK(r)'
  BY <1>3, <1>4 DEF ApprovalOK
<1>6. EventsOK(r)' /\ ArtifactsOK(r)' /\ OverridesOK(r)'
  BY <1>2, <1>4 DEF EventsOK, ArtifactsOK, OverridesOK
<1> QED
  BY <1>4, <1>5, <1>6 DEF ReaderOK

LEMMA ReadTimelineOK ==
  ASSUME EvidenceInv, ReadersInv, NEW r \in Readers, ReadTimeline(r)
  PROVE  ReadersInv'
<1> DEFINE value == audit_events(rd[r].tenant, rd[r].loaded, rd[r].action)
<1>1. /\ rd[r].pc = "timeline"
      /\ Grown(rd'[r], rd[r], "events", "timeline", value)
      /\ rd' = [q \in Readers |-> IF q = r THEN rd'[r] ELSE rd[q]]
      /\ UNCHANGED rvars
  BY DEF ReadTimeline, Goes, Grown, ReadersInv
<1>2. ReaderOK(r) /\ rd[r].pc = "timeline"
  BY <1>1 DEF ReadersInv
<1>3. \A n \in value : Shown(n, rd[r].tenant, rd[r].loaded.linked, rd[r].action)
  BY <1>2, EventsShown DEF ReaderOK, HeadOK, EvidenceInv, RecordInv
<1> HIDE DEF value
<1>4. /\ rd'[r].pc = "events"
      /\ rd'[r].timeline = value
      /\ "timeline" \in DOMAIN rd'[r]
      /\ \A f \in DOMAIN rd[r] \ {"pc", "timeline"} : f \in DOMAIN rd'[r] /\ rd'[r][f] = rd[r][f]
      /\ rd'[r].tenant = rd[r].tenant
      /\ rd'[r].action = rd[r].action
      /\ rd'[r].loaded = rd[r].loaded
      /\ HeadOK(r)'
      /\ UNCHANGED trail
      /\ ReaderOK(r)' => ReadersInv'
  BY <1>1, ReadFrame, ReadKeeps DEF Grown
<1>5. ApprovalOK(r)'
  BY <1>2, <1>4 DEF ReaderOK, ApprovalOK
<1>6. EventsOK(r)'
  BY <1>3, <1>4 DEF EventsOK, Shown
<1>7. ArtifactsOK(r)' /\ OverridesOK(r)'
  BY <1>4 DEF ArtifactsOK, OverridesOK
<1> QED
  BY <1>4, <1>5, <1>6, <1>7 DEF ReaderOK

LEMMA ReadEventsOK ==
  ASSUME EvidenceInv, ReadersInv, NEW r \in Readers, ReadEvents(r)
  PROVE  ReadersInv'
<1> DEFINE value == audit_events(rd[r].tenant, rd[r].loaded, rd[r].action)
<1>1. /\ rd[r].pc = "events"
      /\ Grown(rd'[r], rd[r], "artifacts", "events", value)
      /\ rd' = [q \in Readers |-> IF q = r THEN rd'[r] ELSE rd[q]]
      /\ UNCHANGED rvars
  BY DEF ReadEvents, Goes, Grown, ReadersInv
<1>2. ReaderOK(r) /\ rd[r].pc = "events"
  BY <1>1 DEF ReadersInv
<1>3. \A n : n \in value <=> Shown(n, rd[r].tenant, rd[r].loaded.linked, rd[r].action)
  BY <1>2, EventsShown DEF ReaderOK, HeadOK, EvidenceInv, RecordInv
<1> HIDE DEF value
<1>4. /\ rd'[r].pc = "artifacts"
      /\ rd'[r].events = value
      /\ "events" \in DOMAIN rd'[r]
      /\ \A f \in DOMAIN rd[r] \ {"pc", "events"} : f \in DOMAIN rd'[r] /\ rd'[r][f] = rd[r][f]
      /\ rd'[r].tenant = rd[r].tenant
      /\ rd'[r].action = rd[r].action
      /\ rd'[r].loaded = rd[r].loaded
      /\ rd'[r].replay = rd[r].replay
      /\ HeadOK(r)'
      /\ UNCHANGED trail
      /\ ReaderOK(r)' => ReadersInv'
  BY <1>1, ReadFrame, ReadKeeps DEF Grown
<1>5. ApprovalOK(r)'
  BY <1>2, <1>4 DEF ReaderOK, ApprovalOK
<1>6. EventsOK(r)'
  <2>1. rd[r].replay =>
          /\ "timeline" \in DOMAIN rd[r]
          /\ \A n \in rd[r].timeline : Shown(n, rd[r].tenant, rd[r].loaded.linked, rd[r].action)
    BY <1>2 DEF ReaderOK, EventsOK
  <2>2. rd[r].replay => "timeline" \in DOMAIN rd'[r] /\ rd'[r].timeline = rd[r].timeline
    BY <1>4, <2>1
  <2> QED
    BY <1>3, <1>4, <2>1, <2>2 DEF EventsOK, Shown
<1>7. ArtifactsOK(r)' /\ OverridesOK(r)'
  BY <1>4 DEF ArtifactsOK, OverridesOK
<1> QED
  BY <1>4, <1>5, <1>6, <1>7 DEF ReaderOK

LEMMA ReadArtifactsOK ==
  ASSUME EvidenceInv, ReadersInv, NEW r \in Readers, ReadArtifacts(r)
  PROVE  ReadersInv'
<1> DEFINE value == list_evidence_artifacts(rd[r].action)
<1>1. /\ rd[r].pc = "artifacts"
      /\ Grown(rd'[r], rd[r], "overrides", "artifacts", value)
      /\ rd' = [q \in Readers |-> IF q = r THEN rd'[r] ELSE rd[q]]
      /\ UNCHANGED rvars
  BY DEF ReadArtifacts, Goes, Grown, ReadersInv
<1>2. ReaderOK(r) /\ rd[r].pc = "artifacts"
  BY <1>1 DEF ReadersInv
<1>3. value # {} => <<"evidence_artifact", rd[r].action>> \in nodes
  BY DEF list_evidence_artifacts
<1> HIDE DEF value
<1>4. /\ rd'[r].pc = "overrides"
      /\ rd'[r].artifacts = value
      /\ "artifacts" \in DOMAIN rd'[r]
      /\ \A f \in DOMAIN rd[r] \ {"pc", "artifacts"} : f \in DOMAIN rd'[r] /\ rd'[r][f] = rd[r][f]
      /\ rd'[r].tenant = rd[r].tenant
      /\ rd'[r].action = rd[r].action
      /\ rd'[r].loaded = rd[r].loaded
      /\ rd'[r].replay = rd[r].replay
      /\ HeadOK(r)'
      /\ UNCHANGED <<nodes, trail>>
      /\ ReaderOK(r)' => ReadersInv'
  BY <1>1, ReadFrame, ReadKeeps DEF Grown
<1>5. ApprovalOK(r)'
  BY <1>2, <1>4 DEF ReaderOK, ApprovalOK
<1>6. EventsOK(r)'
  BY <1>2, <1>4 DEF ReaderOK, EventsOK, Shown
<1>7. ArtifactsOK(r)' /\ OverridesOK(r)'
  BY <1>3, <1>4 DEF ArtifactsOK, OverridesOK
<1> QED
  BY <1>4, <1>5, <1>6, <1>7 DEF ReaderOK

\* The overrides that are listed were there when the events were read: the row of
\* an override is written before its event.
LEMMA ReadOverridesOK ==
  ASSUME EvidenceInv, ReadersInv, NEW r \in Readers, ReadOverrides(r)
  PROVE  ReadersInv'
<1> DEFINE value == action_overrides(rd[r].tenant, rd[r].action)
<1>1. /\ rd[r].pc = "overrides"
      /\ Grown(rd'[r], rd[r], "verify", "overrides", value)
      /\ rd' = [q \in Readers |-> IF q = r THEN rd'[r] ELSE rd[q]]
      /\ UNCHANGED rvars
  BY DEF ReadOverrides, Goes, Grown, ReadersInv
<1>2. ReaderOK(r) /\ rd[r].pc = "overrides"
  BY <1>1 DEF ReadersInv
<1>3. rd[r].action \in Actions /\ rd[r].tenant \in Scopes
  BY <1>2 DEF ReaderOK, HeadOK
<1>4. \A u \in Scopes : <<u, rd[r].action>> \in overrides /\ Sees(rd[r].tenant, u) => value # {}
  BY DEF action_overrides
<1>5. "overridden" \in rd[r].events => value # {}
  <2>1. SUFFICES ASSUME "overridden" \in rd[r].events
                 PROVE  value # {}
    OBVIOUS
  <2>2. PICK u \in Scopes : /\ <<"overridden", u, rd[r].action>> \in trail
                            /\ Sees(rd[r].tenant, u)
    BY <1>2, <2>1 DEF ReaderOK, EventsOK, Shown
  <2>3. <<u, rd[r].action>> \in overrides
    BY <1>3, <2>2 DEF EvidenceInv, RecordInv, OverridesOnRecord
  <2> QED
    BY <1>4, <2>2, <2>3
<1>6. rd[r].loaded.status = "override_recorded" =>
        \/ value # {}
        \/ rd[r].tenant # System /\ <<System, rd[r].action>> \in overrides
  <2>1. SUFFICES ASSUME rd[r].loaded.status = "override_recorded"
                 PROVE  \/ value # {}
                        \/ rd[r].tenant # System /\ <<System, rd[r].action>> \in overrides
    OBVIOUS
  <2>2. rd[r].action \in Overridden /\ Sees(rd[r].tenant, runs[rd[r].action].tenant)
    BY <1>2, <2>1 DEF ReaderOK, HeadOK
  <2>3. PICK u \in Scopes : <<u, rd[r].action>> \in overrides
    BY <2>2 DEF Overridden, EvidenceInv, ReviewInv, ReviewTypes, RTypeOK
  <2>4. u \in {System, runs[rd[r].action].tenant}
    BY <1>3, <2>3 DEF EvidenceInv, RecordInv, OverridesOnRecord
  <2> QED
    BY <1>4, <2>2, <2>3, <2>4 DEF Sees
<1> HIDE DEF value
<1>7. /\ rd'[r].pc = "verify"
      /\ rd'[r].overrides = value
      /\ "overrides" \in DOMAIN rd'[r]
      /\ \A f \in DOMAIN rd[r] \ {"pc", "overrides"} : f \in DOMAIN rd'[r] /\ rd'[r][f] = rd[r][f]
      /\ rd'[r].tenant = rd[r].tenant
      /\ rd'[r].action = rd[r].action
      /\ rd'[r].loaded = rd[r].loaded
      /\ rd'[r].replay = rd[r].replay
      /\ HeadOK(r)'
      /\ UNCHANGED <<nodes, overrides, trail>>
      /\ ReaderOK(r)' => ReadersInv'
  BY <1>1, ReadFrame, ReadKeeps DEF Grown
<1>8. ApprovalOK(r)'
  BY <1>2, <1>7 DEF ReaderOK, ApprovalOK
<1>9. EventsOK(r)'
  BY <1>2, <1>7 DEF ReaderOK, EventsOK, Shown
<1>10. ArtifactsOK(r)'
  BY <1>2, <1>7 DEF ReaderOK, ArtifactsOK
<1>11. OverridesOK(r)'
  <2>1. "events" \in DOMAIN rd[r]
    BY <1>2 DEF ReaderOK, EventsOK
  <2>2. rd'[r].events = rd[r].events
    BY <1>7, <2>1
  <2> QED
    BY <1>5, <1>6, <1>7, <2>2 DEF OverridesOK
<1> QED
  BY <1>7, <1>8, <1>9, <1>10, <1>11 DEF ReaderOK

\* Respond ends the request, and a stop of the server ends them all.
LEMMA NextReaders == EvidenceInv /\ ReadersInv /\ [ENext]_evars => ReadersInv'
<1> SUFFICES ASSUME EvidenceInv, ReadersInv, [ENext]_evars
             PROVE  ReadersInv'
  OBVIOUS
<1>1. ASSUME NEW r \in Readers, Respond(r)
      PROVE  ReadersInv'
  <2>1. rd' = [rd EXCEPT ![r] = Quiet] /\ UNCHANGED rvars
    BY <1>1 DEF Respond
  <2>2. rd'[r] = Quiet /\ "pc" \in DOMAIN Quiet
    BY <2>1 DEF ReadersInv, Quiet
  <2>3. ReaderOK(r)'
    BY <2>2, QuietOK
  <2> QED
    BY <2>1, <2>2, <2>3, OneReader
<1>2. CASE RNext /\ rd' = IF server' = "up" THEN rd ELSE [r \in Readers |-> Quiet]
  <2>1. CASE rd' = rd
    <3>1. \A r \in Readers : ReaderOK(r)'
      BY <1>2, <2>1, ReaderStays DEF ReadersInv
    <3> QED
      BY <2>1, <3>1 DEF ReadersInv
  <2>2. CASE rd' = [r \in Readers |-> Quiet]
    <3>1. \A r \in Readers : ReaderOK(r)'
      BY <2>2, QuietOK
    <3>2. "pc" \in DOMAIN Quiet
      BY DEF Quiet
    <3> QED
      BY <2>2, <3>1, <3>2 DEF ReadersInv
  <2> QED
    BY <1>2, <2>1, <2>2
<1>3. CASE UNCHANGED evars
  <2>1. UNCHANGED rvars /\ rd' = rd
    BY <1>3 DEF evars
  <2>2. \A r \in Readers : ReaderOK(r)'
    BY <2>1, ReaderStays DEF ReadersInv
  <2> QED
    BY <2>1, <2>2 DEF ReadersInv
<1> QED
  BY <1>1, <1>2, <1>3, LoadActionOK, LoadApprovalOK, ReadTimelineOK, ReadEventsOK,
     ReadArtifactsOK, ReadOverridesOK
     DEF ENext, Read

LEMMA InitReaders == EInit => ReadersInv
BY DEF EInit, Quiet, ReadersInv, ReaderOK, HeadOK, ApprovalOK, EventsOK, ArtifactsOK,
       OverridesOK

-----------------------------------------------------------------------------
(***************************************************************************)
(* The theorems of a reader's program.                                     *)
(***************************************************************************)

\* Readers change nothing of a review: app/api/evidence.py, incidents.py and
\* trust.py only select, and every behaviour with readers is one without them.
THEOREM ReadersOnlyRead == ESpec => RSpec
<1>1. EInit => RInit
  BY DEF EInit
<1>2. [ENext]_evars => [RNext]_rvars
  BY DEF ENext, evars, Read, LoadAction, LoadApproval, ReadTimeline, ReadEvents,
         ReadArtifacts, ReadOverrides, Respond, Goes
<1> QED
  BY <1>1, <1>2, PTL DEF ESpec, RSpec

\* At every moment: what is on record, and what the readers hold of it.
THEOREM EvidenceInvariant == ESpec => [](EvidenceInv /\ ReadersInv)
<1>1. EInit => EvidenceInv /\ ReadersInv
  BY InitEvidence, InitReaders DEF EInit
<1>2. EvidenceInv /\ ReadersInv /\ [ENext]_evars => EvidenceInv' /\ ReadersInv'
  <2>1. [ENext]_evars => [RNext]_rvars
    BY DEF ENext, evars, Read, LoadAction, LoadApproval, ReadTimeline, ReadEvents,
           ReadArtifacts, ReadOverrides, Respond, Goes
  <2> QED
    BY <2>1, NextEvidence, NextReaders
<1> QED
  BY <1>1, <1>2, PTL DEF ESpec

\* A review that submit_governed_action answered has its three events, its
\* artifact and, unless its risk is low, an approval, in everybody's packet.
THEOREM AnsweredLeavesEvidence == ESpec => []AnsweredMeansEvidence
BY EvidenceInvariant, EvidenceImpliesAnswered, PTL

LEMMA ReadersImplyCoherent == EvidenceInv /\ ReadersInv => ResponseCoherent
<1> SUFFICES ASSUME EvidenceInv, ReadersInv, NEW r \in Responding
             PROVE  LET p == Response(r)
                        timeline == IF rd[r].replay THEN rd[r].timeline ELSE {}
                    IN  /\ p.status = "override_recorded" =>
                             \/ p.overrides # {}
                             \/ p.tenant # System /\ <<System, rd[r].action>> \in overrides
                        /\ "overridden" \in p.events => p.overrides # {}
                        /\ "missing_approval" \in p.gaps =>
                             (p.events \cup timeline) \cap ApprovalEvents = {}
                        /\ timeline \subseteq p.events
  BY DEF ResponseCoherent
<1>1. r \in Readers /\ rd[r].pc = "verify" /\ ReaderOK(r)
  BY DEF Responding, ReadersInv
<1>2. ASSUME rd[r].approval = "none"
      PROVE  /\ rd[r].events \cap ApprovalEvents = {}
             /\ rd[r].replay => rd[r].timeline \cap ApprovalEvents = {}
  BY <1>1, <1>2 DEF ReaderOK, ApprovalOK, EventsOK, Shown
<1>3. Response(r).status = "override_recorded" => rd[r].loaded.status = "override_recorded"
  <2>1. rd[r].approval \in {"none", "pending", "approved", "rejected"}
    BY <1>1 DEF ReaderOK, ApprovalOK, Decisions
  <2> QED
    BY <2>1, MapCases DEF Response, _assemble, _effective_action_status
<1>4. "missing_approval" \in Response(r).gaps => rd[r].approval = "none"
  BY DEF Response, _assemble, evidence_gaps
<1>5. /\ Response(r).overrides = rd[r].overrides
      /\ Response(r).events = rd[r].events
      /\ Response(r).tenant = rd[r].tenant
  BY DEF Response, _assemble
<1> QED
  BY <1>1, <1>2, <1>3, <1>4, <1>5 DEF ReaderOK, EventsOK, OverridesOK

\* What a response shows hangs together, although get_evidence_graph selects it
\* statement by statement while the review goes on.
THEOREM ResponsesAreCoherent == ESpec => []ResponseCoherent
BY EvidenceInvariant, ReadersImplyCoherent, PTL

\* Readers disturb none of what is shown of a review.
THEOREM ViewsAreHonestToReaders == ESpec => [](PacketIsHonest /\ ViewsAgree)
BY ReadersOnlyRead, ViewsAreHonest, PTL

\* One decision request at a time: what a packet shows of a decision only advances.
THEOREM PacketAdvancesForReaders == OneDecider => (ESpec => PacketOnlyAdvances)
BY ReadersOnlyRead, PacketAdvances

-----------------------------------------------------------------------------
(***************************************************************************)
(* The score of what is read.                                              *)
(***************************************************************************)

\* A packet q holds all that p holds.
Covers(q, p) ==
  /\ p.chain = "verified" => q.chain = "verified"
  /\ p.chain # "failed" /\ q.chain # "failed"
  /\ p.approval = "approved" => q.approval = "approved"
  /\ IsFiniteSet(p.gaps) /\ q.gaps \subseteq p.gaps
  /\ p.tenant = q.tenant
  /\ p.version = q.version
  /\ p.overrides = q.overrides
  /\ p.events \subseteq q.events

\* The scorers of a packet of one review, by what they depend on.
LEMMA ScoreOf ==
  ASSUME NEW p, p.chain # "failed", Cardinality(p.gaps) \in Nat
  PROVE  score_action(p) =
           If(p.chain = "verified", 15) + If(p.approval = "approved", 12)
             + (IF 4 * Cardinality(p.gaps) > 12 THEN 0 ELSE 12 - 4 * Cardinality(p.gaps))
             + (IF Hardened THEN 10 ELSE Round(10, 2)) + If(p.tenant # System, 8)
             + (IF p.overrides # {} THEN Round(7, 2) ELSE 7)
             + Share(7, If(p.version # NoVersion, 1), 1)
             + If("submitted" \in p.events, 3)
             + If(p.events \cap (ApprovalEvents \cup {"approval_required"}) # {}, 4)
<1> DEFINE x == [chain |-> p.chain, approvals |-> If(p.approval # "none", 1),
     approved |-> If(p.approval = "approved", 1), controls |-> FALSE,
     gaps |-> Cardinality(p.gaps), regulations |-> FALSE, hardened |-> Hardened,
     tenant |-> p.tenant # System, overrides |-> p.overrides # {}, decisions |-> 1,
     bound |-> If(p.version # NoVersion, 1), submitted |-> "submitted" \in p.events,
     decided |-> p.events \cap (ApprovalEvents \cup {"approval_required"}) # {}]
<1>1. score_action(p) = score_packet(x)
  BY DEF score_action
<1>2. _score_audit_integrity(x) = If(p.chain = "verified", 15)
  BY DEF _score_audit_integrity
<1>3. _score_approval_coverage(x) = If(p.approval = "approved", 12)
  BY DEF _score_approval_coverage, Share, Round, If
<1>4. _score_control_coverage(x) = 0 /\ _score_regulatory_mapping(x) = 0
  BY DEF _score_control_coverage, _score_regulatory_mapping, If
<1>5. _score_evidence_completeness(x) =
        (IF 4 * Cardinality(p.gaps) > 12 THEN 0 ELSE 12 - 4 * Cardinality(p.gaps))
  BY DEF _score_evidence_completeness
<1>6. /\ _score_rbac_enforcement(x) = (IF Hardened THEN 10 ELSE Round(10, 2))
      /\ _score_tenant_isolation(x) = If(p.tenant # System, 8)
      /\ _score_incident_history(x) = (IF p.overrides # {} THEN Round(7, 2) ELSE 7)
  BY DEF _score_rbac_enforcement, _score_tenant_isolation, _score_incident_history, If
<1>7. _score_policy_enforcement(x) = Share(7, If(p.version # NoVersion, 1), 1)
  BY DEF _score_policy_enforcement
<1>8. _score_execution_traceability(x) =
        If("submitted" \in p.events, 3)
          + If(p.events \cap (ApprovalEvents \cup {"approval_required"}) # {}, 4)
  <2>1. 7 \div 2 = 3
    OBVIOUS
  <2> QED
    BY <2>1 DEF _score_execution_traceability
<1> HIDE DEF x
<1>9. /\ If(p.chain = "verified", 15) \in Int
      /\ If(p.approval = "approved", 12) \in Int
      /\ (IF 4 * Cardinality(p.gaps) > 12 THEN 0 ELSE 12 - 4 * Cardinality(p.gaps)) \in Int
      /\ (IF Hardened THEN 10 ELSE Round(10, 2)) \in Int
      /\ If(p.tenant # System, 8) \in Int
      /\ (IF p.overrides # {} THEN Round(7, 2) ELSE 7) \in Int
      /\ Share(7, If(p.version # NoVersion, 1), 1) \in Int
      /\ If("submitted" \in p.events, 3) \in Int
      /\ If(p.events \cap (ApprovalEvents \cup {"approval_required"}) # {}, 4) \in Int
  BY DEF If, Round, Share
<1> QED
  BY <1>1, <1>2, <1>3, <1>4, <1>5, <1>6, <1>7, <1>8, <1>9 DEF score_packet

\* More evidence is never worth less.
LEMMA ScoreMonotone ==
  ASSUME NEW p, NEW q, Covers(q, p)
  PROVE  score_action(p) <= score_action(q)
<1> DEFINE m == Cardinality(p.gaps)
           n == Cardinality(q.gaps)
           rest == (IF Hardened THEN 10 ELSE Round(10, 2)) + If(p.tenant # System, 8)
                     + (IF p.overrides # {} THEN Round(7, 2) ELSE 7)
                     + Share(7, If(p.version # NoVersion, 1), 1)
           Decides(e) == e \cap (ApprovalEvents \cup {"approval_required"}) # {}
<1>1. m \in Nat /\ n \in Nat /\ n <= m
  BY FS_Subset, FS_CardinalityType DEF Covers
<1>2. rest \in Int
  BY DEF If, Round, Share
<1>3. Decides(p.events) => Decides(q.events)
  BY DEF Covers
<1> HIDE DEF m, n, Decides
<1>4. score_action(p) =
        If(p.chain = "verified", 15) + If(p.approval = "approved", 12)
          + (IF 4 * m > 12 THEN 0 ELSE 12 - 4 * m) + rest
          + If("submitted" \in p.events, 3) + If(Decides(p.events), 4)
  <2>1. p.chain # "failed" /\ Cardinality(p.gaps) \in Nat
    BY <1>1 DEF Covers, m
  <2> QED
    BY <1>1, <2>1, ScoreOf DEF m, Decides, If, Round, Share
<1>5. score_action(q) =
        If(q.chain = "verified", 15) + If(q.approval = "approved", 12)
          + (IF 4 * n > 12 THEN 0 ELSE 12 - 4 * n) + rest
          + If("submitted" \in q.events, 3) + If(Decides(q.events), 4)
  <2>1. q.chain # "failed" /\ Cardinality(q.gaps) \in Nat
    BY <1>1 DEF Covers, n
  <2>2. p.tenant = q.tenant /\ p.version = q.version /\ p.overrides = q.overrides
    BY DEF Covers
  <2> QED
    BY <1>1, <2>1, <2>2, ScoreOf DEF n, Decides, If, Round, Share
<1> HIDE DEF rest
<1>6. /\ p.chain = "verified" => q.chain = "verified"
      /\ p.approval = "approved" => q.approval = "approved"
      /\ "submitted" \in p.events => "submitted" \in q.events
  BY DEF Covers
<1> QED
  BY <1>1, <1>2, <1>3, <1>4, <1>5, <1>6 DEF If

\* A graph h holds all that g holds, and no new override.
GraphCovers(h, g) ==
  /\ g.approval = "approved" => h.approval = "approved"
  /\ g.approval # "none" => h.approval # "none"
  /\ g.events \subseteq h.events
  /\ g.artifacts # {} => h.artifacts # {}
  /\ g.tenant = h.tenant
  /\ g.loaded.version = h.loaded.version
  /\ g.overrides = h.overrides

LEMMA AssembledCovers ==
  ASSUME NEW g, NEW h, GraphCovers(h, g),
         NEW c \in {"verified", "empty"}, NEW d \in {"verified", "empty"},
         c = "verified" => d = "verified"
  PROVE  Covers(_assemble(h, d), _assemble(g, c))
<1> DEFINE p == _assemble(g, c)
           q == _assemble(h, d)
           All == ({"missing_control_mappings"} \cup {"missing_approval"})
                    \cup ({"missing_audit_records"} \cup {"missing_evidence_artifacts"})
<1>1. /\ p.chain = c /\ q.chain = d
      /\ p.approval = g.approval /\ q.approval = h.approval
      /\ p.gaps = evidence_gaps(g) /\ q.gaps = evidence_gaps(h)
      /\ p.tenant = g.tenant /\ q.tenant = h.tenant
      /\ p.version = g.loaded.version /\ q.version = h.loaded.version
      /\ p.overrides = g.overrides /\ q.overrides = h.overrides
      /\ p.events = g.events /\ q.events = h.events
  BY DEF _assemble
<1>2. evidence_gaps(h) \subseteq evidence_gaps(g)
  BY DEF evidence_gaps, GraphCovers
<1>3. IsFiniteSet(evidence_gaps(g))
  <2>1. IsFiniteSet(All)
    <3>1. IsFiniteSet({"missing_control_mappings"}) /\ IsFiniteSet({"missing_approval"})
      BY FS_Singleton
    <3>2. /\ IsFiniteSet({"missing_audit_records"})
          /\ IsFiniteSet({"missing_evidence_artifacts"})
      BY FS_Singleton
    <3>3. /\ IsFiniteSet({"missing_control_mappings"} \cup {"missing_approval"})
          /\ IsFiniteSet({"missing_audit_records"} \cup {"missing_evidence_artifacts"})
      BY <3>1, <3>2, FS_Union
    <3> QED
      BY <3>3, FS_Union
  <2>2. evidence_gaps(g) \in SUBSET All
    BY DEF evidence_gaps
  <2> QED
    BY <2>1, <2>2, FS_Subset
<1> HIDE DEF p, q, All
<1>4. Covers(q, p)
  BY <1>1, <1>2, <1>3 DEF Covers, GraphCovers
<1> QED
  BY <1>4 DEF p, q

\* An approval that a reader has seen given is given.
ApprovedStands ==
  \A r \in Readers :
    rd[r].pc \in {"timeline", "events", "artifacts", "overrides", "verify"} =>
      (rd[r].approval = "approved" => gates[rd[r].action] = "approved")

LEMMA ResponseCovered ==
  ASSUME EvidenceInv, ReadersInv, ApprovedStands, NEW r \in Responding,
         Response(r).overrides = PacketNow(rd[r].tenant, rd[r].action).overrides
  PROVE  Covers(PacketNow(rd[r].tenant, rd[r].action), Response(r))
<1> DEFINE t == rd[r].tenant
           a == rd[r].action
           now == GraphNow(t, a)
<1>1. r \in Readers /\ rd[r].pc = "verify" /\ ReaderOK(r)
  BY DEF Responding, ReadersInv
<1>2. /\ t \in Scopes /\ a \in Actions /\ a \in Created
      /\ rd[r].loaded.version = runs[a].version
      /\ rd[r].loaded.linked => runs[a].linked
  BY <1>1 DEF ReaderOK, HeadOK, Created
<1>3. /\ now.tenant = t
      /\ now.loaded = runs[a]
      /\ now.approval = LinkedApproval(runs[a], a)
      /\ now.events = audit_events(t, runs[a], a)
      /\ now.artifacts = list_evidence_artifacts(a)
      /\ now.overrides = action_overrides(t, a)
  BY DEF GraphNow
<1>4. rd[r].overrides = now.overrides
  BY DEF Response, PacketNow, _assemble
<1>5. rd[r].approval # "none" => runs[a].linked
  BY <1>1, <1>2 DEF ReaderOK, ApprovalOK
<1>6. /\ rd[r].approval = "approved" => now.approval = "approved"
      /\ rd[r].approval # "none" => now.approval # "none"
  <2>1. rd[r].approval = "approved" => gates[a] = "approved"
    BY <1>1 DEF ApprovedStands
  <2>2. now.approval = "none" <=> ~ runs[a].linked
    BY <1>2, <1>3, LinkedCases DEF EvidenceInv
  <2> QED
    BY <1>3, <1>5, <2>1, <2>2 DEF LinkedApproval
<1>7. rd[r].events \subseteq now.events
  <2>1. ASSUME NEW n \in rd[r].events
        PROVE  n \in audit_events(t, runs[a], a)
    <3>1. Shown(n, t, runs[a].linked, a)
      BY <1>1, <1>2 DEF ReaderOK, EventsOK, Shown
    <3> QED
      BY <1>2, <3>1, EventsShown DEF EvidenceInv, RecordInv
  <2> QED
    BY <1>3, <2>1
<1>8. rd[r].artifacts # {} => now.artifacts # {}
  BY <1>1, <1>3 DEF ReaderOK, ArtifactsOK, list_evidence_artifacts
<1>9. GraphCovers(now, rd[r])
  BY <1>2, <1>3, <1>4, <1>6, <1>7, <1>8 DEF GraphCovers
<1>10. verify(t) \in {"verified", "empty"}
  BY DEF verify
<1> HIDE DEF now
<1>11. Covers(_assemble(now, verify(t)), _assemble(rd[r], verify(t)))
  BY <1>9, <1>10, AssembledCovers
<1> QED
  BY <1>11 DEF now, PacketNow, Response

LEMMA NextApprovedStands ==
  ASSUME EvidenceInv, ReadersInv, PendingInv, ApprovedStands, [ENext]_evars
  PROVE  ApprovedStands'
<1> SUFFICES ASSUME NEW r \in Readers,
                    rd'[r].pc \in {"timeline", "events", "artifacts", "overrides", "verify"},
                    rd'[r].approval = "approved"
             PROVE  gates'[rd'[r].action] = "approved"
  BY DEF ApprovedStands
<1>1. [RNext]_rvars
  BY DEF ENext, evars, Read, LoadAction, LoadApproval, ReadTimeline, ReadEvents,
         ReadArtifacts, ReadOverrides, Respond, Goes
<1>2. CASE rd'[r] = rd[r]
  <2>1. rd[r].action \in Actions /\ gates[rd[r].action] = "approved"
    BY <1>2 DEF ApprovedStands, ReadersInv, ReaderOK, HeadOK
  <2> QED
    BY <1>1, <1>2, <2>1, DecisionStands DEF Decisions, EvidenceInv
<1>3. CASE LoadApproval(r)
  <2>1. /\ rd[r].pc = "approval"
        /\ rd'[r].approval = LinkedApproval(rd[r].loaded, rd[r].action)
        /\ rd'[r].action = rd[r].action
        /\ UNCHANGED gates
    <3>1. rd[r].pc = "approval" /\ HeadOK(r)
      BY <1>3 DEF LoadApproval, Goes, ReadersInv, ReaderOK
    <3>2. UNCHANGED gates
      BY <1>3 DEF LoadApproval, Goes, rvars, reviewVars
    <3>3. "action" \in DOMAIN rd[r]
      BY <3>1 DEF HeadOK
    <3>4. rd'[r].approval = LinkedApproval(rd[r].loaded, rd[r].action)
      BY <1>3 DEF LoadApproval, Goes, ReadersInv
    <3>5. rd'[r].action = rd[r].action
      BY <1>3, <3>3 DEF LoadApproval, Goes, ReadersInv
    <3> QED
      BY <3>1, <3>2, <3>4, <3>5
  <2> QED
    BY <2>1 DEF LinkedApproval
<1>4. CASE ReadTimeline(r) \/ ReadEvents(r) \/ ReadArtifacts(r) \/ ReadOverrides(r)
  <2>1. /\ rd[r].pc \in {"timeline", "events", "artifacts", "overrides"}
        /\ ReaderOK(r)
    BY <1>4 DEF ReadTimeline, ReadEvents, ReadArtifacts, ReadOverrides, Goes, ReadersInv
  <2>2. {"action", "approval"} \subseteq DOMAIN rd[r]
    BY <2>1 DEF ReaderOK, HeadOK, ApprovalOK
  <2>3. rd'[r].approval = rd[r].approval /\ rd'[r].action = rd[r].action
    BY <1>4, <2>2 DEF ReadTimeline, ReadEvents, ReadArtifacts, ReadOverrides, Goes, ReadersInv
  <2>4. UNCHANGED gates
    BY <1>4 DEF ReadTimeline, ReadEvents, ReadArtifacts, ReadOverrides, Goes, rvars, reviewVars
  <2> QED
    BY <2>1, <2>3, <2>4 DEF ApprovedStands
<1>5. CASE LoadAction(r) \/ Respond(r) \/ rd'[r] = Quiet
  <2>1. rd'[r].pc \in {"idle", "approval"}
    BY <1>5 DEF LoadAction, Respond, Quiet, ReadersInv
  <2> QED
    BY <2>1
<1>6. ASSUME NEW q \in Readers, q # r, Read(q)
      PROVE  rd'[r] = rd[r]
  BY <1>6 DEF Read, LoadAction, LoadApproval, ReadTimeline, ReadEvents, ReadArtifacts,
              ReadOverrides, Respond, Goes, ReadersInv
<1> QED
  BY <1>2, <1>3, <1>4, <1>5, <1>6 DEF ENext, evars, Read

\* One decision at a time: a score computed of what was read in pieces is never
\* more than the evidence is worth by then, but for an override recorded since.
THEOREM ScoresNotOverstated == OneDecider => (ESpec => []ScoreNotOverstated)
<1> SUFFICES ASSUME OneDecider
             PROVE  ESpec => []ScoreNotOverstated
  OBVIOUS
<1>1. EInit => PendingInv /\ ApprovedStands
  BY DEF EInit, RInit, PendingInv, Free, ApprovedStands, Quiet
<1>2. [ENext]_evars => [RNext]_rvars
  BY DEF ENext, evars, Read, LoadAction, LoadApproval, ReadTimeline, ReadEvents,
         ReadArtifacts, ReadOverrides, Respond, Goes
<1>3. EvidenceInv /\ ReadersInv /\ PendingInv /\ ApprovedStands /\ [ENext]_evars =>
        PendingInv' /\ ApprovedStands'
  BY <1>2, NextPending, NextApprovedStands DEF EvidenceInv
<1>4. EvidenceInv /\ ReadersInv /\ ApprovedStands => ScoreNotOverstated
  BY ResponseCovered, ScoreMonotone DEF ScoreNotOverstated
<1> QED
  BY <1>1, <1>3, <1>4, EvidenceInvariant, PTL DEF ESpec

\* What anybody finds of a review is worth no less after a step.
LEMMA TrustStands ==
  ASSUME EvidenceInv, EvidenceInv', PendingInv, [RNext]_rvars, NEW a \in Created,
         NEW t \in Scopes, Finds(t, a), GraphNow(t, a).overrides = GraphNow(t, a)'.overrides
  PROVE  score_action(_assemble(GraphNow(t, a), verify(t)))
           <= score_action(_assemble(GraphNow(t, a)', verify(t)'))
<1> DEFINE old == GraphNow(t, a)
           new == [tenant |-> t, loaded |-> runs'[a], approval |-> LinkedApproval(runs[a], a)',
                   events |-> audit_events(t, runs[a], a)',
                   artifacts |-> list_evidence_artifacts(a)',
                   overrides |-> action_overrides(t, a)']
<1>1. GraphNow(t, a)' = new
  BY DEF GraphNow
<1>2. RecordGrows /\ KeepsReviews
  BY StepRecordGrows, StepKeepsReviews DEF EvidenceInv
<1>3. /\ a \in Actions
      /\ runs'[a] # NoAction
      /\ runs'[a].version = runs[a].version
      /\ runs[a].linked => runs'[a].linked
  BY <1>2 DEF Created, KeepsReviews
<1>4. /\ old.approval = "approved" => LinkedApproval(runs[a], a)' = "approved"
      /\ old.approval # "none" => LinkedApproval(runs[a], a)' # "none"
  <2>1. old.approval = LinkedApproval(runs[a], a)
    BY DEF GraphNow
  <2>2. old.approval = "none" <=> ~ runs[a].linked
    BY <2>1, LinkedCases DEF EvidenceInv
  <2>3. runs'[a].linked => gates'[a] # "none"
    BY <1>3 DEF EvidenceInv, ReviewInv, ReviewsOK, RowOK
  <2>4. gates[a] = "approved" => gates'[a] = "approved"
    BY <1>3, DecisionStands DEF Decisions, EvidenceInv
  <2> QED
    BY <1>3, <2>1, <2>2, <2>3, <2>4 DEF LinkedApproval
<1>5. audit_events(t, runs[a], a) \subseteq audit_events(t, runs[a], a)'
  BY <1>2, <1>3 DEF audit_events, RecordGrows
<1>6. list_evidence_artifacts(a) # {} => list_evidence_artifacts(a)' # {}
  BY <1>2 DEF list_evidence_artifacts, RecordGrows
<1>7. verify(t) = "verified" => verify(t)' = "verified"
  BY <1>2 DEF verify, RecordGrows
<1>8. verify(t) \in {"verified", "empty"} /\ verify(t)' \in {"verified", "empty"}
  BY DEF verify
<1>9. GraphCovers(new, old)
  BY <1>1, <1>3, <1>4, <1>5, <1>6 DEF GraphCovers, GraphNow
<1> HIDE DEF old, new
<1>10. Covers(_assemble(new, verify(t)'), _assemble(old, verify(t)))
  BY <1>7, <1>8, <1>9, AssembledCovers
<1> QED
  BY <1>1, <1>10, ScoreMonotone DEF old

\* One decision at a time: the score of a review's evidence falls by a human
\* override only, whatever else happens to it, stops and restarts included.
THEOREM TrustFallsByOverride == OneDecider => (ESpec => OnlyOverrideLowersTrust)
<1> SUFFICES ASSUME OneDecider
             PROVE  ESpec => OnlyOverrideLowersTrust
  OBVIOUS
<1> DEFINE Stands ==
      evidence' # evidence => \A a \in Created, t \in Scopes : Finds(t, a) =>
        \E old \in {GraphNow(t, a)}, new \in {GraphNow(t, a)'} :
          old.overrides = new.overrides =>
            score_action(_assemble(old, verify(t))) <= score_action(_assemble(new, verify(t)'))
<1>1. EInit => PendingInv
  BY DEF EInit, RInit, PendingInv, Free
<1>2. [ENext]_evars => [RNext]_rvars
  BY DEF ENext, evars, Read, LoadAction, LoadApproval, ReadTimeline, ReadEvents,
         ReadArtifacts, ReadOverrides, Respond, Goes
<1>3. EvidenceInv /\ PendingInv /\ [ENext]_evars => PendingInv'
  BY <1>2, NextPending DEF EvidenceInv
<1>4. EvidenceInv /\ EvidenceInv' /\ PendingInv /\ [ENext]_evars => [Stands]_evars
  BY <1>2, TrustStands
<1> QED
  BY <1>1, <1>3, <1>4, EvidenceInvariant, PTL DEF ESpec, OnlyOverrideLowersTrust

=============================================================================
