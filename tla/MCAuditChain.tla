---------------------------- MODULE MCAuditChain ----------------------------
(* Three concurrent calls of record() for two tenants.                      *)
EXTENDS AuditChain, TLC

CONSTANTS c1, c2, c3, t1, t2

MCCalls == {c1, c2, c3}
MCTenantOf == c1 :> t1 @@ c2 :> t2 @@ c3 :> t1
=============================================================================
