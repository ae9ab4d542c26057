---------------------------- MODULE Verification ----------------------------
(***************************************************************************)
(* Evidence that outlives a review: packets that are stored, signed,       *)
(* revoked and verified (services/evidence_store.py,                       *)
(* services/evidence_signature_service.py), and the procurement            *)
(* verification that consumes them and the trust score                     *)
(* (services/verification_service.py), with the routes that call them.     *)
(*                                                                         *)
(* One governed action of one tenant is the subject; the tenant and the    *)
(* unscoped operator act on it.  Every call is a thread with a session of  *)
(* its own: what it reads, and each of its commits, is a step.  The audit  *)
(* events that follow the commits, and the stored score rows, are read by  *)
(* nothing here; that an audit event fails is a call that dies.  A commit  *)
(* expires what the session had read.  The content of a packet is the      *)
(* number of times its export was altered: 0 as it was generated, and      *)
(* never again what it was.  Its hash is the content hashed and its        *)
(* signature is the payload signed (no collisions, no forgery).  Time      *)
(* passes by packets expiring; the lifetime is a setting read at each      *)
(* signing, so packets may expire in any order.                            *)
(***************************************************************************)
EXTENDS TrustScore, FiniteSetsExt

CONSTANTS Packets,      \* primary keys of evidence_packets
          Verifs,       \* primary keys of trust_verifications
          Calls,        \* threads that serve requests
          MinScores,    \* values asked for as min_score_required
          None,
          MaxAlterations, \* bound on the alterations of a packet
          Serial,       \* TRUE: one auditor stores packets, one reviewer works on verifications
          Deaths        \* TRUE: a call may die, or its audit event fail, between commits

ASSUME NoneAssumption == None \notin Packets \cup Verifs
ASSUME MinScoresAssumption == MinScores \subseteq Int
ASSUME MaxAlterationsAssumption == MaxAlterations \in Nat
ASSUME VerificationFlagsAssumption == Serial \in BOOLEAN /\ Deaths \in BOOLEAN

VARIABLES subject,      \* what the reviewers did with the subject
          packets,      \* table evidence_packets
          verifs,       \* table trust_verifications
          rq            \* the calls

vars == <<subject, packets, verifs, rq>>

Scopes == {"tenant", "operator"}
Contents == 0..MaxAlterations

NoPacket == [version |-> 0]
NoVerif == [status |-> "none"]
Idle == [pc |-> "idle", desk |-> "none"]

PresentPackets == {p \in Packets : packets[p] # NoPacket}
PresentVerifs == {v \in Verifs : verifs[v] # NoVerif}

\* _scoped: the operator sees every tenant's rows.
Visible(scope, row) == scope = "operator" \/ row.tenant = scope

Init ==
  /\ subject = [approval |-> "pending", overridden |-> FALSE]
  /\ packets = [p \in Packets |-> NoPacket]
  /\ verifs = [v \in Verifs |-> NoVerif]
  /\ rq = [c \in Calls |-> Idle]

-----------------------------------------------------------------------------
(***************************************************************************)
(* Pure rules: the packet the score is computed from, and verify_packet.   *)
(***************************************************************************)

\* build_action_packet of the subject, a review that was submitted in full in
\* demo mode: audited, bound to a policy version, with no control mapped.
build_action_packet(scope) ==
  [chain |-> "verified", approvals |-> 1,
   approved |-> If(subject.approval = "approved", 1),
   controls |-> FALSE, gaps |-> 1, regulations |-> FALSE, hardened |-> FALSE,
   tenant |-> scope = "tenant", overrides |-> subject.overridden,
   decisions |-> 1, bound |-> 1, submitted |-> TRUE, decided |-> TRUE]

signing_payload(p) == <<p, packets[p].version, packets[p].hash>>

_signature_ok(p) == packets[p].sig = signing_payload(p)

\* Variant: the recorded hash is believed.
MutContentIntact(p) == TRUE

\* The hash of the stored export is the recorded one.
_content_intact(p) == packets[p].content = packets[p].hash

verify_packet(p) ==
  IF packets[p].sig = None THEN "unsigned"
  ELSE IF ~ (_content_intact(p) /\ _signature_ok(p)) THEN "tampered"
  ELSE IF packets[p].revoked THEN "revoked"
  ELSE IF packets[p].expired THEN "expired" ELSE "valid"

\* get_packet in the scope of the verification's row, then verify_packet.
_evidence_status(v) ==
  IF Visible(verifs[v].tenant, packets[verifs[v].packet])
  THEN verify_packet(verifs[v].packet) ELSE "missing"

-----------------------------------------------------------------------------
\* A call may arrive on thread c; desk says whose work it is.
MayCall(c, desk) ==
  /\ rq[c].pc = "idle"
  /\ Serial => \A d \in Calls : rq[d].desk # desk

Ends(c) == rq' = [rq EXCEPT ![c] = Idle]

(***************************************************************************)
(* POST /evidence/packets/action/{id}/persist: persist_packet.             *)
(***************************************************************************)

\* The packets of the scope, of which the active ones will be superseded.
PersistRead(c) ==
  \E s \in Scopes :
    LET existing == {p \in PresentPackets : Visible(s, packets[p])} IN
    /\ MayCall(c, "auditor")
    /\ rq' = [rq EXCEPT ![c] =
                [pc |-> "persist", desk |-> "auditor", scope |-> s,
                 version |-> Max({packets[p].version : p \in existing} \cup {0}) + 1,
                 prior |-> {p \in existing : packets[p].active}]]
    /\ UNCHANGED <<subject, packets, verifs>>

\* Variant: the prior versions are not superseded.
MutPersistCommit(c) ==
  \E p \in Packets \ PresentPackets :
    /\ rq[c].pc = "persist"
    /\ packets' = [packets EXCEPT ![p] =
         [version |-> rq[c].version, tenant |-> rq[c].scope, active |-> TRUE,
          content |-> 0, hash |-> 0, sig |-> None,
          expired |-> FALSE, revoked |-> FALSE]]
    /\ rq' = [rq EXCEPT ![c] = [pc |-> "sign", desk |-> "auditor", packet |-> p]]
    /\ UNCHANGED <<subject, verifs>>

PersistCommit(c) ==
  \E p \in Packets \ PresentPackets :
    /\ rq[c].pc = "persist"
    /\ packets' = [q \in Packets |->
         IF q = p
         THEN [version |-> rq[c].version, tenant |-> rq[c].scope, active |-> TRUE,
               content |-> 0, hash |-> 0, sig |-> None,
               expired |-> FALSE, revoked |-> FALSE]
         ELSE IF q \in rq[c].prior THEN [packets[q] EXCEPT !.active = FALSE]
         ELSE packets[q]]
    /\ rq' = [rq EXCEPT ![c] = [pc |-> "sign", desk |-> "auditor", packet |-> p]]
    /\ UNCHANGED <<subject, verifs>>

\* Variant: signing resets the revocation with the other dates.
MutSign(c) ==
  LET p == rq[c].packet IN
  /\ rq[c].pc = "sign"
  /\ packets' = [packets EXCEPT ![p].sig = signing_payload(p), ![p].revoked = FALSE]
  /\ Ends(c)
  /\ UNCHANGED <<subject, verifs>>

\* sign_packet: it reads the row again and writes the signature columns only.
Sign(c) ==
  LET p == rq[c].packet IN
  /\ rq[c].pc = "sign"
  /\ packets' = [packets EXCEPT ![p].sig = signing_payload(p)]
  /\ Ends(c)
  /\ UNCHANGED <<subject, verifs>>

(***************************************************************************)
(* POST /evidence/packets/{id}/revoke: revoke_packet, one commit that      *)
(* depends on nothing it read.                                             *)
(***************************************************************************)
RevokePacket(p) ==
  /\ p \in PresentPackets
  /\ packets' = [packets EXCEPT ![p].revoked = TRUE]
  /\ UNCHANGED <<subject, verifs, rq>>

\* A signed packet reaches expires_at.
Expire(p) ==
  /\ p \in PresentPackets
  /\ packets[p].sig # None
  /\ ~ packets[p].expired
  /\ packets' = [packets EXCEPT ![p].expired = TRUE]
  /\ UNCHANGED <<subject, verifs, rq>>

\* A stored export, or the export and the recorded hash, are changed behind the
\* service's back, be it while the packet waits for its signature.
Alter(p) ==
  /\ p \in PresentPackets
  /\ packets[p].content < MaxAlterations
  /\ \E hash \in {packets[p].hash, packets[p].content + 1} :
       packets' = [packets EXCEPT ![p].content = @ + 1, ![p].hash = hash]
  /\ UNCHANGED <<subject, verifs, rq>>

-----------------------------------------------------------------------------
(***************************************************************************)
(* POST /verification/request: request_verification.                       *)
(***************************************************************************)

\* The signed packets of the scope with the highest version.
_latest_signed_packet(s) ==
  LET signed == {p \in PresentPackets : packets[p].sig # None /\ Visible(s, packets[p])}
  IN  {p \in signed : \A q \in signed : packets[q].version <= packets[p].version}

RequestRead(c) ==
  \E s \in Scopes, m \in MinScores :
    /\ MayCall(c, "reviewer")
    /\ \E p \in _latest_signed_packet(s) :
         rq' = [rq EXCEPT ![c] = [pc |-> "request", desk |-> "reviewer", scope |-> s,
                                  packet |-> p, min |-> m]]
    /\ UNCHANGED <<subject, packets, verifs>>

RequestCommit(c) ==
  \E v \in Verifs \ PresentVerifs :
    /\ rq[c].pc = "request"
    /\ verifs' = [verifs EXCEPT ![v] =
         [status |-> "requested", tenant |-> rq[c].scope, packet |-> rq[c].packet,
          min |-> rq[c].min, score |-> 0, reviewed |-> FALSE]]
    /\ Ends(c)
    /\ UNCHANGED <<subject, packets>>

\* get_verification and the check of its status, with which review, approve
\* and revoke begin.
LoadVerification(c, op, v, status) ==
  \E s \in Scopes :
    /\ MayCall(c, "reviewer")
    /\ Visible(s, verifs[v])
    /\ verifs[v].status = status
    /\ rq' = [rq EXCEPT ![c] =
                [pc |-> op, desk |-> "reviewer", scope |-> s, verif |-> v, evidence |-> _evidence_status(v)]]
    /\ UNCHANGED <<subject, packets, verifs>>

\* Variant: any verification that was not revoked may be reviewed again.
MutReviewRead(c) ==
  \E v \in PresentVerifs :
    LoadVerification(c, "review", v, verifs[v].status) /\ verifs[v].status # "revoked"

\* POST /verification/review: review_verification.
ReviewRead(c) == \E v \in PresentVerifs : LoadVerification(c, "review", v, "requested")

ReviewCommit(c) ==
  /\ rq[c].pc = "review"
  /\ verifs' = [verifs EXCEPT
       ![rq[c].verif].status = IF rq[c].evidence = "valid" THEN "under_review" ELSE "rejected",
       ![rq[c].verif].reviewed = TRUE]
  /\ Ends(c)
  /\ UNCHANGED <<subject, packets>>

\* POST /verification/approve: approve_verification; valid evidence only,
ApproveRead(c) ==
  \E v \in PresentVerifs :
    /\ _evidence_status(v) = "valid"
    /\ LoadVerification(c, "approve", v, "under_review")

\* Variant: the default minimum is compared, not the one asked for.
MutScoreAction(c) ==
  LET score == score_packet(build_action_packet(rq[c].scope)) IN
  /\ rq[c].pc = "approve"
  /\ IF score < 60 THEN Ends(c)
     ELSE rq' = [rq EXCEPT ![c] =
                   [pc |-> "decide", desk |-> "reviewer", verif |-> @.verif, score |-> score,
                    loaded |-> verifs[@.verif].status]]
  /\ UNCHANGED <<subject, packets, verifs>>

\* then score_action, which computes and stores a score of the subject as it is
\* now; its commit makes the session load the verification again.
ScoreAction(c) ==
  LET score == score_packet(build_action_packet(rq[c].scope)) IN
  /\ rq[c].pc = "approve"
  /\ IF score < verifs[rq[c].verif].min THEN Ends(c)
     ELSE rq' = [rq EXCEPT ![c] =
                   [pc |-> "decide", desk |-> "reviewer", verif |-> @.verif, score |-> score,
                    loaded |-> verifs[@.verif].status]]
  /\ UNCHANGED <<subject, packets, verifs>>

\* and the decision; a status loaded as approved already is not written.
ApproveCommit(c) ==
  /\ rq[c].pc = "decide"
  /\ verifs' = [verifs EXCEPT
       ![rq[c].verif].status = IF rq[c].loaded = "approved" THEN @ ELSE "approved",
       ![rq[c].verif].score = rq[c].score]
  /\ Ends(c)
  /\ UNCHANGED <<subject, packets>>

\* POST /verification/revoke: revoke_verification.
RevokeRead(c) == \E v \in PresentVerifs : LoadVerification(c, "revoke", v, "approved")

RevokeCommit(c) ==
  /\ rq[c].pc = "revoke"
  /\ verifs' = [verifs EXCEPT ![rq[c].verif].status = "revoked"]
  /\ Ends(c)
  /\ UNCHANGED <<subject, packets>>

-----------------------------------------------------------------------------
\* The call dies, or its audit event is given up: what was committed stays.
CallDies(c) ==
  /\ Deaths
  /\ rq[c].pc # "idle"
  /\ Ends(c)
  /\ UNCHANGED <<subject, packets, verifs>>

\* What GovernanceReview describes in detail: the subject's gate is decided, or
\* a human override is recorded.
DecideSubject ==
  /\ subject.approval = "pending"
  /\ \E d \in {"approved", "rejected"} : subject' = [subject EXCEPT !.approval = d]
  /\ UNCHANGED <<packets, verifs, rq>>

OverrideSubject ==
  /\ ~ subject.overridden
  /\ subject' = [subject EXCEPT !.overridden = TRUE]
  /\ UNCHANGED <<packets, verifs, rq>>

Serve(c) ==
  \/ PersistRead(c) \/ PersistCommit(c) \/ Sign(c)
  \/ RequestRead(c) \/ RequestCommit(c) \/ ReviewRead(c) \/ ReviewCommit(c)
  \/ ApproveRead(c) \/ ScoreAction(c) \/ ApproveCommit(c)
  \/ RevokeRead(c) \/ RevokeCommit(c) \/ CallDies(c)

Next ==
  \/ \E c \in Calls : Serve(c)
  \/ \E p \in Packets : RevokePacket(p) \/ Expire(p) \/ Alter(p)
  \/ DecideSubject
  \/ OverrideSubject

Spec == Init /\ [][Next]_vars

-----------------------------------------------------------------------------
EvidencePacket ==
  [version : 1..Cardinality(Packets), tenant : Scopes, active : BOOLEAN, content : Contents,
   hash : Contents, sig : {None} \cup (Packets \X (1..Cardinality(Packets)) \X Contents),
   expired : BOOLEAN, revoked : BOOLEAN]

TrustVerification ==
  [status : {"requested", "under_review", "rejected", "approved", "revoked"}, tenant : Scopes,
   packet : Packets, min : MinScores, score : 0..100, reviewed : BOOLEAN]

(***************************************************************************)
(* The rows stay in their domains; a score stays within 0..100.            *)
(***************************************************************************)
TypeOK ==
  /\ subject \in [approval : {"pending", "approved", "rejected"}, overridden : BOOLEAN]
  /\ packets \in [Packets -> EvidencePacket \cup {NoPacket}]
  /\ verifs \in [Verifs -> TrustVerification \cup {NoVerif}]
  /\ \A c \in Calls : rq[c].pc \in {"idle", "persist", "sign", "request", "review", "approve",
                                   "decide", "revoke"}

(***************************************************************************)
(* "Store a built packet as a new version for its scope; supersede the     *)
(* prior active version": a tenant's packets, and the operator's, have     *)
(* distinct versions and at most one is active, although the operator      *)
(* counts and supersedes the tenant's packets too and a call may die       *)
(* before it signs.                                                        *)
(***************************************************************************)
VersionedOnce ==
  \A p, q \in PresentPackets :
    p # q /\ packets[p].tenant = packets[q].tenant =>
      /\ packets[p].version # packets[q].version
      /\ ~ (packets[p].active /\ packets[q].active)

(***************************************************************************)
(* "signature verified and content intact": once a packet is signed, an    *)
(* alteration of its export makes it "tampered" or keeps it so, whether    *)
(* the hash was brought in line or not and whatever was altered before the *)
(* signature; no signing, revocation or later alteration makes it valid    *)
(* again.  (What was altered before it was signed is signed as it is.)     *)
(***************************************************************************)
TamperingSticks ==
  [][\A p \in PresentPackets :
       /\ packets[p].sig # None
       /\ verify_packet(p) = "tampered" \/ packets'[p].content # packets[p].content
       => (verify_packet(p) = "tampered")']_vars

(***************************************************************************)
(* "verification will report revoked": a packet that was revoked, be it    *)
(* before its signature is written, is never reported as valid again.      *)
(***************************************************************************)
RevocationSticks ==
  [][\A p \in PresentPackets : packets[p].revoked => (verify_packet(p) # "valid")']_vars

(***************************************************************************)
(* "requested -> under_review -> approved -> revoked, with rejected        *)
(* reachable from review": with one reviewer, no step leaves this order,   *)
(* the evidence and the minimum a verification was requested with stay,    *)
(* and rejected and revoked are final, although evidence is stored,        *)
(* revoked and altered at any point of the calls.                          *)
(***************************************************************************)
Lifecycle ==
  [][\A v \in PresentVerifs :
       /\ <<verifs[v].status, verifs'[v].status>> \in
            {<<"requested", "under_review">>, <<"requested", "rejected">>,
             <<"under_review", "approved">>, <<"approved", "revoked">>}
              \cup {<<s, s>> : s \in {"requested", "under_review", "rejected", "approved", "revoked"}}
       /\ verifs'[v].packet = verifs[v].packet
       /\ verifs'[v].min = verifs[v].min]_vars

(***************************************************************************)
(* An approval is earned: the verification was reviewed, its score meets   *)
(* the minimum it was requested with, and its evidence is a signed packet  *)
(* of its own scope, whatever scores and packets came in between.          *)
(***************************************************************************)
ApprovalIsEarned ==
  \A v \in PresentVerifs :
    /\ Visible(verifs[v].tenant, packets[verifs[v].packet])
    /\ packets[verifs[v].packet].sig # None
    /\ verifs[v].status \in {"approved", "revoked"} =>
         verifs[v].reviewed /\ verifs[v].score >= verifs[v].min

=============================================================================
