----------------------------- MODULE TrustScore -----------------------------
(***************************************************************************)
(* The trust score of services/trust_score_service.py: a pure function of  *)
(* an evidence packet.  A packet is what the ten scorers tell apart of it: *)
(* the result of the audit verification, how many approvals it lists and   *)
(* how many are approved, how many decisions it lists and how many are     *)
(* bound to a policy version, the number of gaps, and whether controls,    *)
(* regulations, a tenant, overrides and lifecycle events are present.  The *)
(* texts of the reasons are left out.                                      *)
(***************************************************************************)
EXTENDS Integers

\* round() of n / d in Python: the nearest integer, ties to the even one.
Round(n, d) ==
  LET q == n \div d
      r == 2 * (n % d)
  IN  IF r > d \/ (r = d /\ q % 2 = 1) THEN q + 1 ELSE q

If(condition, points) == IF condition THEN points ELSE 0

\* A share of the points: all, in proportion, or none when there is nothing.
Share(points, part, whole) == IF whole = 0 THEN 0 ELSE Round(points * part, whole)

_score_audit_integrity(p) == If(p.chain = "verified", 15)

\* Variant: a review that lists no approval is taken to need none.
MutApprovalCoverage(p) == IF p.approvals = 0 THEN 12 ELSE Share(12, p.approved, p.approvals)

_score_approval_coverage(p) == Share(12, p.approved, p.approvals)

_score_control_coverage(p) == If(p.controls, 12)
_score_evidence_completeness(p) == IF 4 * p.gaps > 12 THEN 0 ELSE 12 - 4 * p.gaps
_score_regulatory_mapping(p) == If(p.regulations, 10)
_score_rbac_enforcement(p) == IF p.hardened THEN 10 ELSE Round(10, 2)
_score_tenant_isolation(p) == If(p.tenant, 8)
_score_incident_history(p) ==
  If(p.chain # "failed", IF p.overrides THEN Round(7, 2) ELSE 7)
_score_policy_enforcement(p) == Share(7, p.bound, p.decisions)
_score_execution_traceability(p) == If(p.submitted, 7 \div 2) + If(p.decided, 7 - 7 \div 2)

\* The maxima sum to 100, so the clamp to 0..100 changes nothing.
score_packet(p) ==
  _score_audit_integrity(p) + _score_approval_coverage(p) + _score_control_coverage(p)
    + _score_evidence_completeness(p) + _score_regulatory_mapping(p)
    + _score_rbac_enforcement(p) + _score_tenant_isolation(p) + _score_incident_history(p)
    + _score_policy_enforcement(p) + _score_execution_traceability(p)

=============================================================================
