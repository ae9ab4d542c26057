-------------------------------- MODULE Risk --------------------------------
(***************************************************************************)
(* The pure rules of a governance review: the intake's policy category     *)
(* (services/governance_workflow.py), what the policy says of it           *)
(* (services/policy_service.py) and its risk (services/risk_service.py).   *)
(*                                                                         *)
(* An intake is what the rules tell apart of the request: the two labels   *)
(* ("absent" is None, "other" any label the tables do not name; case and   *)
(* spaces do not matter) and the external exposure.                        *)
(***************************************************************************)
EXTENDS Integers

_SENSITIVITY_SCORE ==
  [none |-> 0, public |-> 0, internal |-> 1, confidential |-> 2, pii |-> 2,
   phi |-> 3, regulated |-> 3, other |-> 1]

_AUTONOMY_SCORE ==
  [none |-> 0, assisted |-> 1, semi_autonomous |-> 2, autonomous |-> 3, other |-> 1]

_POLICY_SCORE ==
  [read_only |-> 0, draft_only |-> 0, outbound_send |-> 1, publish |-> 1, destructive |-> 3]

HIGH_THRESHOLD == 6
MEDIUM_THRESHOLD == 3

Sensitivities == DOMAIN _SENSITIVITY_SCORE \cup {"absent"}
Autonomies == DOMAIN _AUTONOMY_SCORE \cup {"absent"}

Intakes == [sensitivity : Sensitivities, exposure : BOOLEAN, autonomy : Autonomies]

_norm(label) == IF label = "absent" THEN "none" ELSE label

SensitivityPoints(i) == _SENSITIVITY_SCORE[_norm(i.sensitivity)]
AutonomyPoints(i) == _AUTONOMY_SCORE[_norm(i.autonomy)]

PolicyCategory == DOMAIN _POLICY_SCORE

Levels == {"low", "medium", "high"}

_policy_category_for(i) ==
  IF i.exposure \/ i.autonomy \in {"autonomous", "semi_autonomous"}
  THEN "outbound_send" ELSE "draft_only"

evaluate_action(category) ==
  [blocked |-> category = "destructive",
   requires_approval |-> category \in {"outbound_send", "publish"}]

RiskScore(i) ==
  SensitivityPoints(i) + (IF i.exposure THEN 2 ELSE 0) + AutonomyPoints(i)
    + _POLICY_SCORE[_policy_category_for(i)]

LevelOf(score) ==
  IF score >= HIGH_THRESHOLD THEN "high"
  ELSE IF score >= MEDIUM_THRESHOLD THEN "medium" ELSE "low"

classify_risk(i) == LevelOf(RiskScore(i))

RequiresApproval(category, level) ==
  evaluate_action(category).requires_approval \/ level \in {"medium", "high"}

\* The status the governed action is created with.
SubmitStatus(category, level) ==
  IF evaluate_action(category).blocked THEN "blocked"
  ELSE IF RequiresApproval(category, level) THEN "pending_approval" ELSE "cleared"

=============================================================================
