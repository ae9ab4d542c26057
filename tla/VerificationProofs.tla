------------------------- MODULE VerificationProofs -------------------------
(***************************************************************************)
(* What holds of stored packets and of verifications for any number of     *)
(* packets, verifications and requests.                                    *)
(***************************************************************************)
EXTENDS Verification, FiniteSetTheorems, TLAPS

-----------------------------------------------------------------------------
(***************************************************************************)
(* The largest of a bounded set of numbers, with which a version is        *)
(* counted.                                                                *)
(***************************************************************************)
LEMMA Least ==
  ASSUME NEW T, T \subseteq Nat, T # {}
  PROVE  \E k \in T : \A x \in T : k <= x
<1>1. PICK k \in T : \A x \in T : ~ (<<x, k>> \in OpToRel(<, Nat))
  BY NatLessThanWellFounded, WFMin
<1>2. \A x \in T : ~ (x < k)
  BY <1>1 DEF OpToRel
<1> QED
  BY <1>2

LEMMA MaxOfBounded ==
  ASSUME NEW S, S \subseteq Nat, S # {}, NEW N \in Nat, \A x \in S : x <= N
  PROVE  /\ Max(S) \in S
         /\ \A x \in S : x <= Max(S)
<1> DEFINE T == {k \in Nat : \A x \in S : x <= k}
<1>1. PICK k \in T : \A x \in T : k <= x
  <2>1. N \in T /\ T \subseteq Nat /\ T # {}
    OBVIOUS
  <2> QED
    BY <2>1, Least
<1>2. k \in S
  <2>1. SUFFICES ASSUME k \notin S
                 PROVE  FALSE
    OBVIOUS
  <2>2. PICK x \in S : TRUE
    OBVIOUS
  <2>3. \A y \in S : y <= k - 1
    BY <1>1, <2>1
  <2>4. k - 1 \in Nat
    BY <1>1, <2>2, <2>3
  <2>5. k - 1 \in T
    BY <2>3, <2>4
  <2> QED
    BY <1>1, <2>5
<1>3. \E m \in S : \A y \in S : m >= y
  BY <1>1, <1>2
<1> QED
  BY <1>3 DEF Max

-----------------------------------------------------------------------------
(***************************************************************************)
(* The rows of the tables and the locals of the calls.                     *)
(***************************************************************************)
PacketRow ==
  [version : Nat \ {0}, tenant : Scopes, active : BOOLEAN, content : Contents,
   hash : Contents, sig : {None} \cup (Packets \X Nat \X Contents),
   expired : BOOLEAN, revoked : BOOLEAN]

PersistCall ==
  [pc : {"persist"}, desk : {"auditor"}, scope : Scopes, version : Nat \ {0},
   prior : SUBSET Packets]

SignCall == [pc : {"sign"}, desk : {"auditor"}, packet : Packets]

RequestCall ==
  [pc : {"request"}, desk : {"reviewer"}, scope : Scopes, packet : Packets, min : MinScores]

LoadCall ==
  [pc : {"review", "approve", "revoke"}, desk : {"reviewer"}, scope : Scopes, verif : Verifs,
   evidence : {"missing", "unsigned", "tampered", "revoked", "expired", "valid"}]

DecideCall ==
  [pc : {"decide"}, desk : {"reviewer"}, verif : Verifs, score : 0..100,
   loaded : {"requested", "under_review", "rejected", "approved", "revoked"}]

CallRecord == {Idle} \cup PersistCall \cup SignCall \cup RequestCall \cup LoadCall \cup DecideCall

TablesOK ==
  /\ subject \in [approval : {"pending", "approved", "rejected"}, overridden : BOOLEAN]
  /\ packets \in [Packets -> PacketRow \cup {NoPacket}]
  /\ verifs \in [Verifs -> TrustVerification \cup {NoVerif}]
  /\ rq \in [Calls -> CallRecord]

\* What a call or a verification refers to is there, and the versions do not
\* outgrow the number of packets.
RefersOK ==
  /\ IsFiniteSet(PresentPackets)
  /\ \A p \in PresentPackets : packets[p].version <= Cardinality(PresentPackets)
  /\ \A v \in PresentVerifs : verifs[v].packet \in PresentPackets
  /\ \A c \in Calls :
       /\ rq[c].pc = "persist" =>
            rq[c].version <= Cardinality(PresentPackets) + 1 /\ rq[c].prior \subseteq PresentPackets
       /\ rq[c].pc \in {"sign", "request"} => rq[c].packet \in PresentPackets
       /\ rq[c].pc \in {"review", "approve", "revoke", "decide"} => rq[c].verif \in PresentVerifs

RowsInv == TablesOK /\ RefersOK

LEMMA CallCases ==
  ASSUME TablesOK, NEW c \in Calls
  PROVE  /\ rq[c].pc = "persist" => rq[c] \in PersistCall
         /\ rq[c].pc = "sign" => rq[c] \in SignCall
         /\ rq[c].pc = "request" => rq[c] \in RequestCall
         /\ rq[c].pc \in {"review", "approve", "revoke"} => rq[c] \in LoadCall
         /\ rq[c].pc = "decide" => rq[c] \in DecideCall
         /\ rq[c].pc = "idle" => rq[c] = Idle
<1>1. rq[c] \in CallRecord
  BY DEF TablesOK
<1> QED
  BY <1>1 DEF CallRecord, Idle, PersistCall, SignCall, RequestCall, LoadCall, DecideCall

LEMMA PresentCases ==
  ASSUME TablesOK
  PROVE  /\ \A p \in PresentPackets : p \in Packets /\ packets[p] \in PacketRow
         /\ \A p \in Packets \ PresentPackets : packets[p] = NoPacket
         /\ \A v \in PresentVerifs : v \in Verifs /\ verifs[v] \in TrustVerification
         /\ \A v \in Verifs \ PresentVerifs : verifs[v] = NoVerif
BY DEF TablesOK, PresentPackets, PresentVerifs

LEMMA RowIsThere ==
  /\ NoPacket \notin PacketRow
  /\ \A x \in PacketRow : x # NoPacket
  /\ \A x \in TrustVerification : x # NoVerif
<1>1. \A x \in PacketRow : x.version # 0
  BY DEF PacketRow
<1>2. \A x \in TrustVerification : x.status # "none"
  BY DEF TrustVerification
<1> QED
  BY <1>1, <1>2 DEF NoPacket, NoVerif

\* A thread is moved by its own call only.
LEMMA CallMoves ==
  ASSUME TablesOK, [Next]_vars, NEW c \in Calls
  PROVE  \/ rq'[c] = rq[c]
         \/ rq'[c] = Idle
         \/ PersistRead(c) \/ PersistCommit(c) \/ RequestRead(c) \/ ReviewRead(c)
         \/ ApproveRead(c) \/ ScoreAction(c) \/ RevokeRead(c)
<1>1. ASSUME NEW d \in Calls, d # c, Serve(d)
      PROVE  rq'[c] = rq[c]
  BY <1>1 DEF Serve, PersistRead, PersistCommit, Sign, RequestRead, RequestCommit, ReviewRead,
              ReviewCommit, ApproveRead, ScoreAction, ApproveCommit, RevokeRead, RevokeCommit,
              CallDies, LoadVerification, Ends, TablesOK
<1>2. ASSUME Sign(c) \/ RequestCommit(c) \/ ReviewCommit(c) \/ ApproveCommit(c)
               \/ RevokeCommit(c) \/ CallDies(c)
      PROVE  rq'[c] = Idle
  BY <1>2 DEF Sign, RequestCommit, ReviewCommit, ApproveCommit, RevokeCommit, CallDies, Ends,
              TablesOK
<1>3. CASE Serve(c)
  BY <1>2, <1>3 DEF Serve
<1>4. CASE UNCHANGED rq
  BY <1>4
<1> QED
  BY <1>1, <1>3, <1>4
     DEF Next, vars, RevokePacket, Expire, Alter, DecideSubject, OverrideSubject

\* The row that persist_packet inserts.
StoredRow(c) ==
  [version |-> rq[c].version, tenant |-> rq[c].scope, active |-> TRUE,
   content |-> 0, hash |-> 0, sig |-> None,
   expired |-> FALSE, revoked |-> FALSE]

\* The commit of persist_packet.
LEMMA PersistEffect ==
  ASSUME RowsInv, NEW c \in Calls, PersistCommit(c)
  PROVE  /\ rq[c] \in PersistCall
         /\ StoredRow(c) \in PacketRow
         /\ \E p \in Packets \ PresentPackets :
              /\ packets'[p] = StoredRow(c)
              /\ rq'[c] = [pc |-> "sign", desk |-> "auditor", packet |-> p]
              /\ PresentPackets' = PresentPackets \cup {p}
              /\ \A q \in Packets \ {p} :
                   packets'[q] = IF q \in rq[c].prior THEN [packets[q] EXCEPT !.active = FALSE]
                                 ELSE packets[q]
         /\ UNCHANGED <<subject, verifs>>
<1>1. PICK p \in Packets \ PresentPackets :
        /\ packets' = [q \in Packets |->
             IF q = p THEN StoredRow(c)
             ELSE IF q \in rq[c].prior THEN [packets[q] EXCEPT !.active = FALSE]
             ELSE packets[q]]
        /\ rq' = [rq EXCEPT ![c] = [pc |-> "sign", desk |-> "auditor", packet |-> p]]
        /\ UNCHANGED <<subject, verifs>>
  BY DEF PersistCommit, StoredRow
<1>2. rq[c] \in PersistCall /\ rq[c].prior \subseteq PresentPackets
  BY CallCases DEF PersistCommit, RowsInv, RefersOK
<1>3. StoredRow(c) \in PacketRow
  BY <1>2, MaxAlterationsAssumption DEF StoredRow, PersistCall, PacketRow, Contents
<1>4. \A q \in PresentPackets : [packets[q] EXCEPT !.active = FALSE] # NoPacket
  <2>1. \A q \in PresentPackets : [packets[q] EXCEPT !.active = FALSE] \in PacketRow
    BY PresentCases DEF PacketRow, RowsInv
  <2> QED
    BY <2>1, RowIsThere
<1>5. PresentPackets' = PresentPackets \cup {p}
  BY <1>1, <1>2, <1>3, <1>4, RowIsThere DEF PresentPackets
<1>6. rq'[c] = [pc |-> "sign", desk |-> "auditor", packet |-> p]
  BY <1>1 DEF RowsInv, TablesOK
<1>7. packets'[p] = StoredRow(c)
  BY <1>1
<1> QED
  BY <1>1, <1>2, <1>3, <1>5, <1>6, <1>7

\* What an alteration does to the export and the recorded hash.
Altered(p) ==
  /\ packets'[p].content = packets[p].content + 1
  /\ packets'[p].hash \in {packets[p].hash, packets[p].content + 1}

\* What a step may do to a stored packet.
KeepsRow(p) ==
  /\ packets'[p] \in PacketRow
  /\ packets'[p].version = packets[p].version
  /\ packets'[p].tenant = packets[p].tenant
  /\ packets[p].revoked => packets'[p].revoked
  /\ packets'[p].active => packets[p].active

LEMMA RowStep ==
  ASSUME RowsInv, [Next]_vars, NEW p \in PresentPackets
  PROVE  /\ KeepsRow(p)
         /\ \/ /\ packets'[p].sig = packets[p].sig
               /\ \/ packets'[p].content = packets[p].content /\ packets'[p].hash = packets[p].hash
                  \/ Altered(p)
            \/ \E c \in Calls :
                 /\ Sign(c)
                 /\ rq[c].packet = p
                 /\ packets'[p].sig = signing_payload(p)
                 /\ packets'[p].content = packets[p].content
                 /\ packets'[p].hash = packets[p].hash
         /\ (\A c \in Calls : ~ PersistCommit(c)) => packets'[p].active = packets[p].active
<1>1. p \in Packets /\ packets[p] \in PacketRow
  BY PresentCases DEF RowsInv
<1>2. CASE packets'[p] = packets[p]
  BY <1>1, <1>2 DEF KeepsRow
<1>3. ASSUME NEW c \in Calls, PersistCommit(c)
      PROVE  /\ KeepsRow(p)
             /\ packets'[p].sig = packets[p].sig
             /\ packets'[p].content = packets[p].content
             /\ packets'[p].hash = packets[p].hash
  <2>1. packets'[p] = packets[p] \/ packets'[p] = [packets[p] EXCEPT !.active = FALSE]
    BY <1>1, <1>3, PersistEffect
  <2> QED
    BY <1>1, <2>1 DEF KeepsRow, PacketRow
<1>4. ASSUME NEW c \in Calls, Sign(c), packets'[p] # packets[p]
      PROVE  /\ KeepsRow(p)
             /\ rq[c].packet = p
             /\ packets'[p].sig = signing_payload(p)
             /\ packets'[p].content = packets[p].content
             /\ packets'[p].hash = packets[p].hash
             /\ packets'[p].active = packets[p].active
  <2>1. packets' = [packets EXCEPT ![rq[c].packet].sig = signing_payload(rq[c].packet)]
    BY <1>4 DEF Sign
  <2>2. rq[c].packet = p
    BY <1>1, <1>4, <2>1 DEF RowsInv, TablesOK
  <2>3. packets'[p] = [packets[p] EXCEPT !.sig = signing_payload(p)]
    BY <1>1, <2>1, <2>2 DEF RowsInv, TablesOK
  <2>4. signing_payload(p) \in Packets \X Nat \X Contents
    BY <1>1 DEF signing_payload, PacketRow
  <2> QED
    BY <1>1, <2>2, <2>3, <2>4 DEF KeepsRow, PacketRow
<1>5. ASSUME NEW q \in Packets, RevokePacket(q) \/ Expire(q) \/ Alter(q),
             packets'[p] # packets[p]
      PROVE  /\ KeepsRow(p)
             /\ packets'[p].sig = packets[p].sig
             /\ \/ packets'[p].content = packets[p].content /\ packets'[p].hash = packets[p].hash
                \/ Altered(p)
             /\ packets'[p].active = packets[p].active
  <2>1. q = p
    BY <1>1, <1>5 DEF RevokePacket, Expire, Alter, RowsInv, TablesOK
  <2>2. CASE RevokePacket(q)
    <3>1. packets'[p] = [packets[p] EXCEPT !.revoked = TRUE]
      BY <1>1, <2>1, <2>2 DEF RevokePacket, RowsInv, TablesOK
    <3> QED
      BY <1>1, <3>1 DEF KeepsRow, PacketRow
  <2>3. CASE Expire(q)
    <3>1. packets'[p] = [packets[p] EXCEPT !.expired = TRUE]
      BY <1>1, <2>1, <2>3 DEF Expire, RowsInv, TablesOK
    <3> QED
      BY <1>1, <3>1 DEF KeepsRow, PacketRow
  <2>4. CASE Alter(q)
    <3>1. PICK h \in {packets[p].hash, packets[p].content + 1} :
            packets' = [packets EXCEPT ![p].content = @ + 1, ![p].hash = h]
      BY <2>1, <2>4 DEF Alter
    <3>2. packets'[p] = [packets[p] EXCEPT !.content = @ + 1, !.hash = h]
      BY <1>1, <3>1 DEF RowsInv, TablesOK
    <3>3. packets[p].content + 1 \in Contents /\ h \in Contents
      BY <1>1, <2>1, <2>4, <3>1, MaxAlterationsAssumption DEF Alter, PacketRow, Contents
    <3>4. PICK k : k = packets[p].content + 1
      OBVIOUS
    <3>5. packets'[p] = [packets[p] EXCEPT !.content = k, !.hash = h]
      BY <3>2, <3>4
    <3>6. packets'[p].content = k /\ packets'[p].hash = h /\ KeepsRow(p)
      BY <1>1, <3>3, <3>4, <3>5 DEF KeepsRow, PacketRow
    <3>7. packets'[p].sig = packets[p].sig /\ packets'[p].active = packets[p].active
      BY <1>1, <3>5 DEF PacketRow
    <3> QED
      BY <3>1, <3>4, <3>6, <3>7 DEF Altered
  <2> QED
    BY <1>5, <2>2, <2>3, <2>4
<1>6. packets'[p] = packets[p]
        \/ (\E c \in Calls : PersistCommit(c) \/ Sign(c))
        \/ (\E q \in Packets : RevokePacket(q) \/ Expire(q) \/ Alter(q))
  BY DEF Next, Serve, vars, PersistRead, RequestRead, RequestCommit, ReviewRead, ReviewCommit,
         ApproveRead, ScoreAction, ApproveCommit, RevokeRead, RevokeCommit, CallDies,
         LoadVerification, DecideSubject, OverrideSubject
<1> QED
  BY <1>2, <1>3, <1>4, <1>5, <1>6

\* What a step may do to a verification: its reviewer moves it.
LEMMA VerifStep ==
  ASSUME RowsInv, [Next]_vars, NEW v \in PresentVerifs
  PROVE  /\ verifs'[v].packet = verifs[v].packet
         /\ verifs'[v].tenant = verifs[v].tenant
         /\ verifs'[v].min = verifs[v].min
         /\ verifs'[v] \in TrustVerification
         /\ \/ verifs'[v] = verifs[v]
            \/ \E c \in Calls :
                 /\ ReviewCommit(c) /\ rq[c].verif = v
                 /\ verifs'[v].status \in {"under_review", "rejected"}
                 /\ verifs'[v].reviewed
                 /\ verifs'[v].score = verifs[v].score
            \/ \E c \in Calls :
                 /\ ApproveCommit(c) /\ rq[c].verif = v
                 /\ verifs'[v].status =
                      IF rq[c].loaded = "approved" THEN verifs[v].status ELSE "approved"
                 /\ verifs'[v].score = rq[c].score
                 /\ verifs'[v].reviewed = verifs[v].reviewed
            \/ \E c \in Calls :
                 /\ RevokeCommit(c) /\ rq[c].verif = v
                 /\ verifs'[v].status = "revoked"
                 /\ verifs'[v].score = verifs[v].score
                 /\ verifs'[v].reviewed = verifs[v].reviewed
<1>1. v \in Verifs /\ verifs[v] \in TrustVerification
  BY PresentCases DEF RowsInv
<1>2. CASE verifs'[v] = verifs[v]
  BY <1>1, <1>2
<1>3. ASSUME NEW c \in Calls, ReviewCommit(c), verifs'[v] # verifs[v]
      PROVE  /\ rq[c].verif = v
             /\ verifs'[v] \in TrustVerification
             /\ verifs'[v].packet = verifs[v].packet
             /\ verifs'[v].tenant = verifs[v].tenant
             /\ verifs'[v].min = verifs[v].min
             /\ verifs'[v].status \in {"under_review", "rejected"}
             /\ verifs'[v].reviewed
             /\ verifs'[v].score = verifs[v].score
  <2>1. PICK t \in {"under_review", "rejected"} :
          verifs' = [verifs EXCEPT ![rq[c].verif].status = t, ![rq[c].verif].reviewed = TRUE]
    BY <1>3 DEF ReviewCommit
  <2>2. rq[c].verif = v
    BY <1>1, <1>3, <2>1 DEF RowsInv, TablesOK
  <2>3. verifs'[v] = [verifs[v] EXCEPT !.status = t, !.reviewed = TRUE]
    BY <1>1, <2>1, <2>2 DEF RowsInv, TablesOK
  <2> QED
    BY <1>1, <2>2, <2>3 DEF TrustVerification
<1>4. ASSUME NEW c \in Calls, ApproveCommit(c), verifs'[v] # verifs[v]
      PROVE  /\ rq[c].verif = v
             /\ verifs'[v] \in TrustVerification
             /\ verifs'[v].packet = verifs[v].packet
             /\ verifs'[v].tenant = verifs[v].tenant
             /\ verifs'[v].min = verifs[v].min
             /\ verifs'[v].status =
                  IF rq[c].loaded = "approved" THEN verifs[v].status ELSE "approved"
             /\ verifs'[v].score = rq[c].score
             /\ verifs'[v].reviewed = verifs[v].reviewed
  <2>1. rq[c].score \in 0..100
    BY <1>4, CallCases DEF ApproveCommit, DecideCall, RowsInv
  <2>2. rq[c].verif = v
    BY <1>1, <1>4 DEF ApproveCommit, RowsInv, TablesOK
  <2>3. verifs'[v] =
          [verifs[v] EXCEPT
             !.status = IF rq[c].loaded = "approved" THEN verifs[v].status ELSE "approved",
             !.score = rq[c].score]
    BY <1>1, <1>4, <2>2 DEF ApproveCommit, RowsInv, TablesOK, TrustVerification
  <2> QED
    BY <1>1, <2>1, <2>2, <2>3 DEF TrustVerification
<1>5. ASSUME NEW c \in Calls, RevokeCommit(c), verifs'[v] # verifs[v]
      PROVE  /\ rq[c].verif = v
             /\ verifs'[v] \in TrustVerification
             /\ verifs'[v].packet = verifs[v].packet
             /\ verifs'[v].tenant = verifs[v].tenant
             /\ verifs'[v].min = verifs[v].min
             /\ verifs'[v].status = "revoked"
             /\ verifs'[v].score = verifs[v].score
             /\ verifs'[v].reviewed = verifs[v].reviewed
  <2>1. rq[c].verif = v
    BY <1>1, <1>5 DEF RevokeCommit, RowsInv, TablesOK
  <2>2. verifs'[v] = [verifs[v] EXCEPT !.status = "revoked"]
    BY <1>1, <1>5, <2>1 DEF RevokeCommit, RowsInv, TablesOK
  <2> QED
    BY <1>1, <2>1, <2>2 DEF TrustVerification
<1>6. ASSUME NEW c \in Calls, RequestCommit(c)
      PROVE  verifs'[v] = verifs[v]
  BY <1>1, <1>6 DEF RequestCommit, RowsInv, TablesOK
<1>7. \/ verifs'[v] = verifs[v]
      \/ \E c \in Calls : ReviewCommit(c) \/ ApproveCommit(c) \/ RevokeCommit(c) \/ RequestCommit(c)
  BY DEF Next, Serve, vars, PersistRead, PersistCommit, Sign, RequestRead, ReviewRead,
         ApproveRead, ScoreAction, RevokeRead, CallDies, LoadVerification, DecideSubject,
         OverrideSubject, RevokePacket, Expire, Alter
<1> QED
  BY <1>2, <1>3, <1>4, <1>5, <1>6, <1>7

\* The commit of request_verification.
LEMMA RequestEffect ==
  ASSUME RowsInv, NEW c \in Calls, RequestCommit(c)
  PROVE  /\ rq[c] \in RequestCall
         /\ \E v \in Verifs \ PresentVerifs :
              /\ verifs'[v] \in TrustVerification
              /\ verifs'[v].status = "requested"
              /\ verifs'[v].tenant = rq[c].scope
              /\ verifs'[v].packet = rq[c].packet
              /\ verifs'[v].min = rq[c].min
              /\ PresentVerifs' = PresentVerifs \cup {v}
              /\ \A w \in Verifs \ {v} : verifs'[w] = verifs[w]
         /\ UNCHANGED <<subject, packets>>
<1>1. rq[c] \in RequestCall
  BY CallCases DEF RequestCommit, RowsInv
<1>2. PICK v \in Verifs \ PresentVerifs :
        /\ verifs' = [verifs EXCEPT ![v] =
             [status |-> "requested", tenant |-> rq[c].scope, packet |-> rq[c].packet,
              min |-> rq[c].min, score |-> 0, reviewed |-> FALSE]]
        /\ UNCHANGED <<subject, packets>>
  BY DEF RequestCommit
<1>3. verifs'[v] = [status |-> "requested", tenant |-> rq[c].scope, packet |-> rq[c].packet,
                    min |-> rq[c].min, score |-> 0, reviewed |-> FALSE]
  BY <1>2 DEF RowsInv, TablesOK
<1>4. verifs'[v] \in TrustVerification
  BY <1>1, <1>3 DEF RequestCall, TrustVerification
<1>5. PresentVerifs' = PresentVerifs \cup {v}
  BY <1>2, <1>4, RowIsThere DEF PresentVerifs, RowsInv, TablesOK
<1> QED
  BY <1>1, <1>2, <1>3, <1>4, <1>5 DEF RowsInv, TablesOK

\* Rows are never deleted.
LEMMA RowsStay ==
  ASSUME RowsInv, [Next]_vars
  PROVE  /\ PresentPackets \subseteq PresentPackets'
         /\ PresentVerifs \subseteq PresentVerifs'
         /\ (\A c \in Calls : ~ PersistCommit(c)) => PresentPackets' = PresentPackets
         /\ (\A c \in Calls : ~ RequestCommit(c)) => PresentVerifs' = PresentVerifs
<1>1. ASSUME NEW p \in PresentPackets
      PROVE  p \in PresentPackets'
  <2>1. packets'[p] \in PacketRow
    BY RowStep DEF KeepsRow
  <2> QED
    BY <2>1, RowIsThere DEF PresentPackets
<1>2. ASSUME NEW v \in PresentVerifs
      PROVE  v \in PresentVerifs'
  <2>1. verifs'[v] \in TrustVerification
    BY VerifStep
  <2> QED
    BY <2>1, RowIsThere DEF PresentVerifs
<1>3. ASSUME \A c \in Calls : ~ PersistCommit(c), NEW p \in Packets \ PresentPackets
      PROVE  packets'[p] = packets[p]
  <2>1. ASSUME NEW c \in Calls, Sign(c)
        PROVE  packets'[p] = packets[p]
    <3>1. rq[c].packet # p
      BY <2>1 DEF Sign, RowsInv, RefersOK
    <3> QED
      BY <2>1, <3>1 DEF Sign, RowsInv, TablesOK
  <2>2. ASSUME NEW q \in Packets, RevokePacket(q) \/ Expire(q) \/ Alter(q)
        PROVE  packets'[p] = packets[p]
    BY <2>2 DEF RevokePacket, Expire, Alter, RowsInv, TablesOK
  <2> QED
    BY <1>3, <2>1, <2>2
       DEF Next, Serve, vars, PersistRead, RequestRead, RequestCommit, ReviewRead, ReviewCommit,
           ApproveRead, ScoreAction, ApproveCommit, RevokeRead, RevokeCommit, CallDies,
           LoadVerification, DecideSubject, OverrideSubject
<1>4. ASSUME \A c \in Calls : ~ RequestCommit(c), NEW v \in Verifs \ PresentVerifs
      PROVE  verifs'[v] = verifs[v]
  <2>1. ASSUME NEW c \in Calls, ReviewCommit(c) \/ ApproveCommit(c) \/ RevokeCommit(c)
        PROVE  verifs'[v] = verifs[v]
    <3>1. rq[c].verif # v
      BY <2>1 DEF ReviewCommit, ApproveCommit, RevokeCommit, RowsInv, RefersOK
    <3> QED
      BY <2>1, <3>1 DEF ReviewCommit, ApproveCommit, RevokeCommit, RowsInv, TablesOK
  <2> QED
    BY <1>4, <2>1
       DEF Next, Serve, vars, PersistRead, PersistCommit, Sign, RequestRead, ReviewRead,
           ApproveRead, ScoreAction, RevokeRead, CallDies, LoadVerification, DecideSubject,
           OverrideSubject, RevokePacket, Expire, Alter
<1> QED
  BY <1>1, <1>2, <1>3, <1>4 DEF PresentPackets, PresentVerifs

\* What persist_packet reads: a version above all that its scope sees.
LEMMA PersistReadEffect ==
  ASSUME RowsInv, NEW c \in Calls, PersistRead(c)
  PROVE  /\ rq'[c] \in PersistCall
         /\ rq'[c].version <= Cardinality(PresentPackets) + 1
         /\ rq'[c].prior =
              {p \in PresentPackets : Visible(rq'[c].scope, packets[p]) /\ packets[p].active}
         /\ \A p \in PresentPackets :
              Visible(rq'[c].scope, packets[p]) => packets[p].version < rq'[c].version
         /\ MayCall(c, "auditor")
         /\ UNCHANGED <<subject, packets, verifs>>
<1>0. PICK s \in Scopes :
      /\ MayCall(c, "auditor")
      /\ rq' = [rq EXCEPT ![c] =
           [pc |-> "persist", desk |-> "auditor", scope |-> s,
            version |-> Max({packets[p].version :
                               p \in {q \in PresentPackets : Visible(s, packets[q])}} \cup {0}) + 1,
            prior |-> {p \in {q \in PresentPackets : Visible(s, packets[q])} : packets[p].active}]]
      /\ UNCHANGED <<subject, packets, verifs>>
  BY DEF PersistRead
<1> DEFINE existing == {p \in PresentPackets : Visible(s, packets[p])}
           versions == {packets[p].version : p \in existing} \cup {0}
           n == Cardinality(PresentPackets)
<1>1. n \in Nat
  BY FS_CardinalityType DEF RowsInv, RefersOK
<1>2. versions \subseteq Nat /\ versions # {} /\ \A x \in versions : x <= n
  <2>1. \A p \in existing : packets[p].version \in Nat /\ packets[p].version <= n
    BY PresentCases DEF PacketRow, RowsInv, RefersOK
  <2> QED
    BY <1>1, <2>1
<1> HIDE DEF n
<1>3. Max(versions) \in versions /\ \A x \in versions : x <= Max(versions)
  <2> HIDE DEF versions
  <2> QED
    BY <1>1, <1>2, MaxOfBounded
<1>4. Max(versions) \in Nat /\ Max(versions) <= n
  BY <1>2, <1>3
<1> DEFINE prior == {p \in PresentPackets : Visible(s, packets[p]) /\ packets[p].active}
           version == Max(versions) + 1
<1>5. rq'[c] = [pc |-> "persist", desk |-> "auditor", scope |-> s, version |-> version,
                prior |-> prior]
  <2>1. {p \in existing : packets[p].active} = prior
    OBVIOUS
  <2> QED
    BY <1>0, <2>1 DEF RowsInv, TablesOK
<1>6. prior \subseteq Packets
  BY DEF PresentPackets
<1>7. \A p \in PresentPackets : Visible(s, packets[p]) => packets[p].version < version
  <2>1. \A p \in existing : packets[p].version \in Nat /\ packets[p].version <= Max(versions)
    BY <1>3, PresentCases DEF PacketRow, RowsInv
  <2> QED
    BY <1>4, <2>1
<1>8. version \in Nat \ {0} /\ version <= n + 1
  <2> HIDE DEF versions
  <2> QED
    BY <1>1, <1>4
<1>9. rq'[c].scope = s /\ rq'[c].version = version /\ rq'[c].prior = prior
  <2> HIDE DEF version, prior
  <2> QED
    BY <1>5
<1>10. rq'[c] \in PersistCall
  <2> HIDE DEF version, prior
  <2> QED
    BY <1>5, <1>6, <1>8 DEF PersistCall
<1>11. rq'[c].prior =
         {p \in PresentPackets : Visible(rq'[c].scope, packets[p]) /\ packets[p].active}
  <2> HIDE DEF version
  <2> QED
    BY <1>9
<1> HIDE DEF version, prior
<1> QED
  BY <1>0, <1>7, <1>8, <1>9, <1>10, <1>11 DEF n

\* What request_verification reads: a signed packet that its scope sees.
LEMMA RequestReadEffect ==
  ASSUME RowsInv, NEW c \in Calls, RequestRead(c)
  PROVE  /\ rq'[c] \in RequestCall
         /\ rq'[c].packet \in PresentPackets
         /\ packets[rq'[c].packet].sig # None
         /\ Visible(rq'[c].scope, packets[rq'[c].packet])
         /\ MayCall(c, "reviewer")
         /\ UNCHANGED <<subject, packets, verifs>>
<1> PICK s \in Scopes, m \in MinScores, p \in PresentPackets :
      /\ p \in _latest_signed_packet(s)
      /\ MayCall(c, "reviewer")
      /\ rq' = [rq EXCEPT ![c] = [pc |-> "request", desk |-> "reviewer", scope |-> s,
                                  packet |-> p, min |-> m]]
      /\ UNCHANGED <<subject, packets, verifs>>
  BY DEF RequestRead, _latest_signed_packet
<1>1. rq'[c] = [pc |-> "request", desk |-> "reviewer", scope |-> s, packet |-> p, min |-> m]
  BY DEF RowsInv, TablesOK
<1>2. p \in PresentPackets /\ packets[p].sig # None /\ Visible(s, packets[p])
  BY DEF _latest_signed_packet
<1>3. p \in Packets
  BY <1>2 DEF PresentPackets
<1> QED
  BY <1>1, <1>2, <1>3 DEF RequestCall

\* What review, approve and revoke begin with.
LEMMA LoadEffect ==
  ASSUME RowsInv, NEW c \in Calls, NEW op \in {"review", "approve", "revoke"},
         NEW v \in PresentVerifs, NEW status, LoadVerification(c, op, v, status)
  PROVE  /\ rq'[c] \in LoadCall
         /\ rq'[c].pc = op
         /\ rq'[c].verif = v
         /\ verifs[v].status = status
         /\ MayCall(c, "reviewer")
         /\ UNCHANGED <<subject, packets, verifs>>
<1> PICK s \in Scopes :
      /\ MayCall(c, "reviewer")
      /\ verifs[v].status = status
      /\ rq' = [rq EXCEPT ![c] = [pc |-> op, desk |-> "reviewer", scope |-> s, verif |-> v,
                                  evidence |-> _evidence_status(v)]]
      /\ UNCHANGED <<subject, packets, verifs>>
  BY DEF LoadVerification
<1>1. rq'[c] = [pc |-> op, desk |-> "reviewer", scope |-> s, verif |-> v,
                evidence |-> _evidence_status(v)]
  BY DEF RowsInv, TablesOK
<1>2. _evidence_status(v) \in {"missing", "unsigned", "tampered", "revoked", "expired", "valid"}
  BY DEF _evidence_status, verify_packet
<1>3. v \in Verifs
  BY DEF PresentVerifs
<1> QED
  BY <1>1, <1>2, <1>3 DEF LoadCall

\* The score that approve_verification computes.
LEMMA ScoreRange ==
  ASSUME subject \in [approval : {"pending", "approved", "rejected"}, overridden : BOOLEAN],
         NEW scope \in Scopes
  PROVE  score_packet(build_action_packet(scope)) \in 0..100
<1> DEFINE x == build_action_packet(scope)
<1>1. _score_audit_integrity(x) = 15
  BY DEF build_action_packet, _score_audit_integrity, If
<1>2. _score_approval_coverage(x) \in {0, 12}
  BY DEF build_action_packet, _score_approval_coverage, Share, Round, If
<1>3. /\ _score_control_coverage(x) = 0
      /\ _score_evidence_completeness(x) = 8
      /\ _score_regulatory_mapping(x) = 0
  BY DEF build_action_packet, _score_control_coverage, _score_evidence_completeness,
         _score_regulatory_mapping, If
<1>4. _score_rbac_enforcement(x) \in 0..10
  BY DEF build_action_packet, _score_rbac_enforcement, Round
<1>5. _score_tenant_isolation(x) \in {0, 8} /\ _score_incident_history(x) \in 0..7
  BY DEF build_action_packet, _score_tenant_isolation, _score_incident_history, If, Round
<1>6. _score_policy_enforcement(x) = 7
  BY DEF build_action_packet, _score_policy_enforcement, Share, Round
<1>7. _score_execution_traceability(x) = 7
  BY DEF build_action_packet, _score_execution_traceability, If
<1> HIDE DEF x
<1>8. score_packet(x) \in 0..100
  BY <1>1, <1>2, <1>3, <1>4, <1>5, <1>6, <1>7 DEF score_packet
<1> QED
  BY <1>8 DEF x

LEMMA ScoreActionEffect ==
  ASSUME RowsInv, NEW c \in Calls, ScoreAction(c)
  PROVE  /\ rq[c] \in LoadCall /\ rq[c].pc = "approve"
         /\ rq[c].verif \in PresentVerifs
         /\ \/ rq'[c] = Idle
            \/ /\ rq'[c] \in DecideCall
               /\ rq'[c].verif = rq[c].verif
               /\ rq'[c].loaded = verifs[rq[c].verif].status
               /\ ~ (rq'[c].score < verifs[rq[c].verif].min)
         /\ UNCHANGED <<subject, packets, verifs>>
<1>1. rq[c] \in LoadCall /\ rq[c].pc = "approve" /\ rq[c].verif \in PresentVerifs
  BY CallCases DEF ScoreAction, RowsInv, RefersOK
<1> DEFINE score == score_packet(build_action_packet(rq[c].scope))
<1>2. score \in 0..100
  BY <1>1, ScoreRange DEF LoadCall, RowsInv, TablesOK
<1>3. verifs[rq[c].verif].status \in {"requested", "under_review", "rejected", "approved", "revoked"}
  BY <1>1, PresentCases DEF RowsInv, TrustVerification
<1>4. /\ UNCHANGED <<subject, packets, verifs>>
      /\ \/ rq' = [rq EXCEPT ![c] = Idle]
         \/ /\ ~ (score < verifs[rq[c].verif].min)
            /\ rq' = [rq EXCEPT ![c] =
                        [pc |-> "decide", desk |-> "reviewer", verif |-> rq[c].verif,
                         score |-> score, loaded |-> verifs[rq[c].verif].status]]
  BY DEF ScoreAction, Ends
<1> HIDE DEF score
<1>5. \/ rq'[c] = Idle
      \/ /\ ~ (score < verifs[rq[c].verif].min)
         /\ rq'[c] = [pc |-> "decide", desk |-> "reviewer", verif |-> rq[c].verif,
                      score |-> score, loaded |-> verifs[rq[c].verif].status]
  BY <1>4 DEF RowsInv, TablesOK
<1>6. rq[c].verif \in Verifs
  BY <1>1 DEF PresentVerifs
<1> QED
  BY <1>1, <1>2, <1>3, <1>4, <1>5, <1>6 DEF DecideCall

\* The actions that move a thread to a new record, by what the record is.
LEMMA CallEffect ==
  ASSUME RowsInv, [Next]_vars, NEW c \in Calls
  PROVE  \/ rq'[c] = rq[c]
         \/ rq'[c] = Idle
         \/ PersistRead(c) /\ rq'[c] \in PersistCall
         \/ PersistCommit(c) /\ rq'[c] \in SignCall
         \/ RequestRead(c) /\ rq'[c] \in RequestCall
         \/ /\ ReviewRead(c) \/ ApproveRead(c) \/ RevokeRead(c)
            /\ rq'[c] \in LoadCall
            /\ rq'[c].verif \in PresentVerifs
            /\ verifs[rq'[c].verif].status =
                 CASE rq'[c].pc = "review" -> "requested"
                   [] rq'[c].pc = "approve" -> "under_review"
                   [] rq'[c].pc = "revoke" -> "approved"
            /\ MayCall(c, "reviewer")
            /\ UNCHANGED <<subject, packets, verifs>>
         \/ ScoreAction(c) /\ rq'[c] \in DecideCall
<1>1. ASSUME PersistCommit(c)
      PROVE  rq'[c] \in SignCall
  <2> PICK p \in Packets : rq'[c] = [pc |-> "sign", desk |-> "auditor", packet |-> p]
    BY <1>1, PersistEffect
  <2> QED
    BY DEF SignCall
<1>2. ASSUME NEW op \in {"review", "approve", "revoke"}, NEW v \in PresentVerifs,
             LoadVerification(c, op, v, CASE op = "review" -> "requested"
                                          [] op = "approve" -> "under_review"
                                          [] op = "revoke" -> "approved")
      PROVE  /\ rq'[c] \in LoadCall
             /\ rq'[c].verif \in PresentVerifs
             /\ verifs[rq'[c].verif].status =
                  CASE rq'[c].pc = "review" -> "requested"
                    [] rq'[c].pc = "approve" -> "under_review"
                    [] rq'[c].pc = "revoke" -> "approved"
             /\ MayCall(c, "reviewer")
             /\ UNCHANGED <<subject, packets, verifs>>
  <2> DEFINE t == CASE op = "review" -> "requested"
                    [] op = "approve" -> "under_review"
                    [] op = "revoke" -> "approved"
  <2>1. /\ rq'[c] \in LoadCall
        /\ rq'[c].pc = op
        /\ rq'[c].verif = v
        /\ verifs[v].status = t
        /\ MayCall(c, "reviewer")
        /\ UNCHANGED <<subject, packets, verifs>>
    <3> HIDE DEF t
    <3>1. LoadVerification(c, op, v, t)
      BY <1>2 DEF t
    <3> QED
      BY <3>1, LoadEffect
  <2> QED
    BY <2>1
<1>3. ASSUME ReviewRead(c) \/ ApproveRead(c) \/ RevokeRead(c)
      PROVE  \E op \in {"review", "approve", "revoke"}, v \in PresentVerifs :
               LoadVerification(c, op, v, CASE op = "review" -> "requested"
                                            [] op = "approve" -> "under_review"
                                            [] op = "revoke" -> "approved")
  BY <1>3 DEF ReviewRead, ApproveRead, RevokeRead
<1>4. ASSUME ScoreAction(c)
      PROVE  rq'[c] = Idle \/ rq'[c] \in DecideCall
  BY <1>4, ScoreActionEffect
<1>5. ASSUME ReviewRead(c) \/ ApproveRead(c) \/ RevokeRead(c)
      PROVE  /\ rq'[c] \in LoadCall
             /\ rq'[c].verif \in PresentVerifs
             /\ verifs[rq'[c].verif].status =
                  CASE rq'[c].pc = "review" -> "requested"
                    [] rq'[c].pc = "approve" -> "under_review"
                    [] rq'[c].pc = "revoke" -> "approved"
             /\ MayCall(c, "reviewer")
             /\ UNCHANGED <<subject, packets, verifs>>
  BY <1>2, <1>3, <1>5
<1> QED
  BY <1>1, <1>4, <1>5, CallMoves, PersistReadEffect, RequestReadEffect DEF RowsInv

LEMMA NextTables == RowsInv /\ [Next]_vars => TablesOK'
<1> SUFFICES ASSUME RowsInv, [Next]_vars
             PROVE  TablesOK'
  OBVIOUS
<1>1. subject' \in [approval : {"pending", "approved", "rejected"}, overridden : BOOLEAN]
  <2>1. CASE DecideSubject \/ OverrideSubject
    BY <2>1 DEF DecideSubject, OverrideSubject, RowsInv, TablesOK
  <2>2. CASE subject' = subject
    BY <2>2 DEF RowsInv, TablesOK
  <2> QED
    BY <2>1, <2>2
       DEF Next, Serve, vars, PersistRead, PersistCommit, Sign, RequestRead, RequestCommit,
           ReviewRead, ReviewCommit, ApproveRead, ScoreAction, ApproveCommit, RevokeRead,
           RevokeCommit, CallDies, LoadVerification, RevokePacket, Expire, Alter
<1>2. packets' \in [Packets -> PacketRow \cup {NoPacket}]
  <2>1. packets' = [p \in Packets |-> packets'[p]]
    BY DEF Next, Serve, vars, PersistRead, PersistCommit, Sign, RequestRead, RequestCommit,
           ReviewRead, ReviewCommit, ApproveRead, ScoreAction, ApproveCommit, RevokeRead,
           RevokeCommit, CallDies, LoadVerification, RevokePacket, Expire, Alter,
           DecideSubject, OverrideSubject, RowsInv, TablesOK
  <2>2. ASSUME NEW p \in Packets
        PROVE  packets'[p] \in PacketRow \cup {NoPacket}
    <3>1. CASE p \in PresentPackets
      BY <3>1, RowStep DEF KeepsRow
    <3>2. CASE p \notin PresentPackets /\ \A c \in Calls : ~ PersistCommit(c)
      BY <3>2, RowsStay DEF PresentPackets
    <3>3. ASSUME NEW c \in Calls, PersistCommit(c), p \notin PresentPackets
          PROVE  packets'[p] \in PacketRow \cup {NoPacket}
      <4>1. rq[c].prior \subseteq PresentPackets
        BY <3>3 DEF PersistCommit, RowsInv, RefersOK
      <4>2. packets[p] = NoPacket
        BY <3>3 DEF PresentPackets
      <4> QED
        BY <3>3, <4>1, <4>2, PersistEffect
    <3> QED
      BY <3>1, <3>2, <3>3
  <2> QED
    BY <2>1, <2>2
<1>3. verifs' \in [Verifs -> TrustVerification \cup {NoVerif}]
  <2>1. verifs' = [v \in Verifs |-> verifs'[v]]
    BY DEF Next, Serve, vars, PersistRead, PersistCommit, Sign, RequestRead, RequestCommit,
           ReviewRead, ReviewCommit, ApproveRead, ScoreAction, ApproveCommit, RevokeRead,
           RevokeCommit, CallDies, LoadVerification, RevokePacket, Expire, Alter,
           DecideSubject, OverrideSubject, RowsInv, TablesOK
  <2>2. ASSUME NEW v \in Verifs
        PROVE  verifs'[v] \in TrustVerification \cup {NoVerif}
    <3>1. CASE v \in PresentVerifs
      BY <3>1, VerifStep
    <3>2. CASE v \notin PresentVerifs /\ \A c \in Calls : ~ RequestCommit(c)
      BY <3>2, RowsStay DEF PresentVerifs
    <3>3. ASSUME NEW c \in Calls, RequestCommit(c), v \notin PresentVerifs
          PROVE  verifs'[v] \in TrustVerification \cup {NoVerif}
      <4>1. verifs[v] = NoVerif
        BY <3>3 DEF PresentVerifs
      <4> QED
        BY <3>3, <4>1, RequestEffect
    <3> QED
      BY <3>1, <3>2, <3>3
  <2> QED
    BY <2>1, <2>2
<1>4. rq' \in [Calls -> CallRecord]
  <2>1. rq' = [c \in Calls |-> rq'[c]]
    BY DEF Next, Serve, vars, PersistRead, PersistCommit, Sign, RequestRead, RequestCommit,
           ReviewRead, ReviewCommit, ApproveRead, ScoreAction, ApproveCommit, RevokeRead,
           RevokeCommit, CallDies, LoadVerification, RevokePacket, Expire, Alter,
           DecideSubject, OverrideSubject, Ends, RowsInv, TablesOK
  <2>2. \A c \in Calls : rq'[c] \in CallRecord
    BY CallEffect DEF CallRecord, RowsInv, TablesOK
  <2> QED
    BY <2>1, <2>2
<1> QED
  BY <1>1, <1>2, <1>3, <1>4 DEF TablesOK

LEMMA NextRefers == RowsInv /\ [Next]_vars => RefersOK'
<1> SUFFICES ASSUME RowsInv, [Next]_vars
             PROVE  RefersOK'
  OBVIOUS
<1> DEFINE n == Cardinality(PresentPackets)
<1>1. n \in Nat
  BY FS_CardinalityType DEF RowsInv, RefersOK
<1>2. /\ IsFiniteSet(PresentPackets')
      /\ Cardinality(PresentPackets') \in {n, n + 1}
      /\ (\A c \in Calls : ~ PersistCommit(c)) => Cardinality(PresentPackets') = n
      /\ (\E c \in Calls : PersistCommit(c)) => Cardinality(PresentPackets') = n + 1
  <2>1. CASE \A c \in Calls : ~ PersistCommit(c)
    BY <2>1, RowsStay DEF RowsInv, RefersOK
  <2>2. ASSUME NEW c \in Calls, PersistCommit(c)
        PROVE  IsFiniteSet(PresentPackets') /\ Cardinality(PresentPackets') = n + 1
    <3>1. PICK p \in Packets \ PresentPackets : PresentPackets' = PresentPackets \cup {p}
      BY <2>2, PersistEffect
    <3> QED
      BY <3>1, FS_AddElement DEF RowsInv, RefersOK
  <2> QED
    BY <2>1, <2>2
<1> DEFINE m == Cardinality(PresentPackets')
<1>3. m \in Nat /\ n <= m /\ m <= n + 1
  BY <1>1, <1>2
<1> HIDE DEF n, m
<1>4. ASSUME NEW p \in PresentPackets'
      PROVE  packets'[p].version <= m
  <2>1. CASE p \in PresentPackets
    <3>1. packets[p].version \in Nat /\ packets[p].version <= n
      BY <2>1, PresentCases DEF n, PacketRow, RowsInv, RefersOK
    <3>2. packets'[p].version = packets[p].version
      BY <2>1, RowStep DEF KeepsRow
    <3> QED
      BY <1>1, <1>3, <3>1, <3>2
  <2>2. CASE p \notin PresentPackets
    <3>1. PICK c \in Calls : PersistCommit(c)
      BY <2>2, RowsStay
    <3>2. packets'[p] = StoredRow(c)
      BY <2>2, <3>1, PersistEffect
    <3>3. rq[c].version <= n + 1
      BY <3>1 DEF PersistCommit, n, RowsInv, RefersOK
    <3>4. m = n + 1
      BY <1>2, <3>1 DEF n, m
    <3> QED
      BY <3>2, <3>3, <3>4 DEF StoredRow
  <2> QED
    BY <2>1, <2>2
<1>5. ASSUME NEW v \in PresentVerifs'
      PROVE  verifs'[v].packet \in PresentPackets'
  <2>1. CASE v \in PresentVerifs
    BY <2>1, VerifStep, RowsStay DEF RowsInv, RefersOK
  <2>2. CASE v \notin PresentVerifs
    <3>1. PICK c \in Calls : RequestCommit(c)
      BY <2>2, RowsStay
    <3>2. verifs'[v].packet = rq[c].packet
      BY <2>2, <3>1, RequestEffect
    <3> QED
      BY <3>1, <3>2, RowsStay DEF RequestCommit, RowsInv, RefersOK
  <2> QED
    BY <2>1, <2>2
<1>6. ASSUME NEW c \in Calls
      PROVE  /\ rq'[c].pc = "persist" =>
                  rq'[c].version <= m + 1 /\ rq'[c].prior \subseteq PresentPackets'
             /\ rq'[c].pc \in {"sign", "request"} => rq'[c].packet \in PresentPackets'
             /\ rq'[c].pc \in {"review", "approve", "revoke", "decide"} =>
                  rq'[c].verif \in PresentVerifs'
  <2>1. CASE rq'[c] = rq[c]
    <3>1. rq[c].pc = "persist" => rq[c].version \in Nat /\ rq[c].version <= n + 1
      BY CallCases DEF PersistCall, n, RowsInv, RefersOK
    <3>2. rq[c].pc = "persist" => rq[c].version <= m + 1
      BY <1>1, <1>3, <3>1
    <3> QED
      BY <2>1, <3>2, RowsStay DEF RowsInv, RefersOK
  <2>2. CASE rq'[c] = Idle
    BY <2>2 DEF Idle
  <2>3. CASE PersistRead(c)
    <3>1. /\ rq'[c] \in PersistCall
          /\ rq'[c].version <= n + 1
          /\ rq'[c].prior \subseteq PresentPackets
      BY <2>3, PersistReadEffect DEF n
    <3> QED
      BY <1>1, <1>3, <3>1, RowsStay DEF PersistCall
  <2>4. CASE PersistCommit(c)
    <3> PICK p \in Packets : /\ rq'[c] = [pc |-> "sign", desk |-> "auditor", packet |-> p]
                             /\ PresentPackets' = PresentPackets \cup {p}
      BY <2>4, PersistEffect
    <3> QED
      OBVIOUS
  <2>5. CASE RequestRead(c)
    <3>1. rq'[c] \in RequestCall /\ rq'[c].packet \in PresentPackets
      BY <2>5, RequestReadEffect
    <3> QED
      BY <3>1, RowsStay DEF RequestCall
  <2>6. CASE rq'[c] \in LoadCall /\ rq'[c].verif \in PresentVerifs
    BY <2>6, RowsStay DEF LoadCall
  <2>7. CASE ScoreAction(c) /\ rq'[c] \in DecideCall
    <3>1. rq'[c] # Idle /\ rq'[c].pc = "decide"
      BY <2>7 DEF DecideCall, Idle
    <3>2. rq'[c].verif = rq[c].verif /\ rq[c].verif \in PresentVerifs
      BY <2>7, <3>1, ScoreActionEffect
    <3> QED
      BY <3>1, <3>2, RowsStay
  <2> QED
    BY <2>1, <2>2, <2>3, <2>4, <2>5, <2>6, <2>7, CallEffect
<1> QED
  BY <1>2, <1>4, <1>5, <1>6 DEF RefersOK, m

LEMMA InitRows == Init => RowsInv
<1> SUFFICES ASSUME Init
             PROVE  RowsInv
  OBVIOUS
<1>1. PresentPackets = {} /\ PresentVerifs = {}
  BY DEF Init, PresentPackets, PresentVerifs
<1>2. TablesOK
  BY DEF Init, TablesOK, CallRecord
<1>3. RefersOK
  BY <1>1, FS_EmptySet DEF Init, RefersOK, Idle
<1> QED
  BY <1>2, <1>3 DEF RowsInv

LEMMA NextRows == RowsInv /\ [Next]_vars => RowsInv'
BY NextTables, NextRefers DEF RowsInv

\* Nothing refers to a row that is not there, whatever dies between two commits.
THEOREM RowsInvariant == Spec => []RowsInv
BY InitRows, NextRows, PTL DEF Spec

-----------------------------------------------------------------------------
(***************************************************************************)
(* Signatures.                                                             *)
(***************************************************************************)

\* A packet is signed once, by the call that stored it, over a hash of an export
\* that it had until then.
SignedOnce ==
  /\ \A p \in PresentPackets :
       /\ packets[p].hash <= packets[p].content
       /\ packets[p].sig # None =>
            \E hash \in 0..packets[p].content : packets[p].sig = <<p, packets[p].version, hash>>
  /\ \A c \in Calls : rq[c].pc = "sign" => packets[rq[c].packet].sig = None
  /\ \A c, d \in Calls :
       rq[c].pc = "sign" /\ rq[d].pc = "sign" /\ rq[c].packet = rq[d].packet => c = d

\* Once written, a signature stays.
LEMMA SignatureStays ==
  ASSUME RowsInv, SignedOnce, [Next]_vars, NEW p \in PresentPackets, packets[p].sig # None
  PROVE  packets'[p].sig = packets[p].sig
<1>1. ASSUME NEW c \in Calls, Sign(c)
      PROVE  rq[c].packet # p
  BY <1>1 DEF Sign, SignedOnce
<1> QED
  BY <1>1, RowStep

LEMMA NextSigned == RowsInv /\ RowsInv' /\ SignedOnce /\ [Next]_vars => SignedOnce'
<1> SUFFICES ASSUME RowsInv, RowsInv', SignedOnce, [Next]_vars
             PROVE  SignedOnce'
  OBVIOUS
<1>1. ASSUME NEW p \in PresentPackets'
      PROVE  /\ packets'[p].hash <= packets'[p].content
             /\ packets'[p].sig # None =>
                  \E h \in 0..packets'[p].content : packets'[p].sig = <<p, packets'[p].version, h>>
  <2>1. CASE p \in PresentPackets
    <3>1. packets'[p].version = packets[p].version
      BY <2>1, RowStep DEF KeepsRow
    <3>2. /\ packets[p].content \in Nat /\ packets[p].hash \in Nat
          /\ packets[p].hash <= packets[p].content
      BY <2>1, PresentCases, MaxAlterationsAssumption
         DEF RowsInv, PacketRow, Contents, SignedOnce
    <3>3. CASE /\ packets'[p].sig = packets[p].sig
               /\ \/ packets'[p].content = packets[p].content /\ packets'[p].hash = packets[p].hash
                  \/ Altered(p)
      <4>1. /\ packets'[p].content \in Nat /\ packets[p].content <= packets'[p].content
            /\ packets'[p].hash <= packets'[p].content
        BY <3>2, <3>3 DEF Altered
      <4>2. \A h \in 0..packets[p].content : h \in 0..packets'[p].content
        BY <3>2, <4>1
      <4>3. packets[p].sig # None =>
              \E h \in 0..packets[p].content : packets[p].sig = <<p, packets[p].version, h>>
        BY <2>1 DEF SignedOnce
      <4> QED
        BY <3>1, <3>3, <4>1, <4>2, <4>3
    <3>4. CASE /\ packets'[p].sig = signing_payload(p)
               /\ packets'[p].content = packets[p].content
               /\ packets'[p].hash = packets[p].hash
      <4>1. packets[p].hash \in 0..packets[p].content
        BY <3>2
      <4> QED
        BY <3>1, <3>2, <3>4, <4>1 DEF signing_payload
    <3> QED
      BY <2>1, <3>3, <3>4, RowStep
  <2>2. CASE p \notin PresentPackets
    <3>1. PICK c \in Calls : PersistCommit(c)
      BY <2>2, RowsStay
    <3>2. packets'[p] = StoredRow(c)
      BY <2>2, <3>1, PersistEffect
    <3> QED
      BY <3>2 DEF StoredRow
  <2> QED
    BY <2>1, <2>2
<1>2. ASSUME NEW c \in Calls, rq'[c].pc = "sign"
      PROVE  /\ packets'[rq'[c].packet].sig = None
             /\ \/ rq'[c] = rq[c]
                \/ PersistCommit(c) /\ rq'[c].packet \notin PresentPackets
  <2>1. CASE rq'[c] = rq[c]
    <3> DEFINE p == rq[c].packet
    <3>1. p \in PresentPackets /\ packets[p].sig = None
      BY <1>2, <2>1 DEF RowsInv, RefersOK, SignedOnce
    <3>2. ASSUME NEW d \in Calls, Sign(d)
          PROVE  rq[d].packet # p
      <4>1. rq'[d] = Idle
        BY <3>2 DEF Sign, Ends, RowsInv, TablesOK
      <4>2. d # c
        BY <1>2, <4>1 DEF Idle
      <4> QED
        BY <1>2, <2>1, <3>2, <4>2 DEF Sign, SignedOnce
    <3>3. packets'[p].sig = None
      BY <3>1, <3>2, RowStep
    <3> QED
      BY <2>1, <3>3
  <2>2. CASE PersistCommit(c)
    <3> PICK p \in Packets \ PresentPackets :
          /\ packets'[p] = StoredRow(c)
          /\ rq'[c] = [pc |-> "sign", desk |-> "auditor", packet |-> p]
      BY <2>2, PersistEffect
    <3> QED
      BY <2>2 DEF StoredRow
  <2>3. rq'[c] = rq[c] \/ PersistCommit(c)
    BY <1>2, CallEffect DEF Idle, PersistCall, RequestCall, LoadCall, DecideCall
  <2> QED
    BY <2>1, <2>2, <2>3
<1>3. ASSUME NEW c \in Calls, NEW d \in Calls, rq'[c].pc = "sign", rq'[d].pc = "sign",
             rq'[c].packet = rq'[d].packet
      PROVE  c = d
  <2>1. CASE rq'[c] = rq[c] /\ rq'[d] = rq[d]
    BY <1>3, <2>1 DEF SignedOnce
  <2>2. ASSUME NEW e \in Calls, NEW f \in Calls, rq'[e].pc = "sign", rq'[f].pc = "sign",
               rq'[e].packet = rq'[f].packet,
               PersistCommit(e), rq'[e].packet \notin PresentPackets
        PROVE  e = f
    <3>1. CASE rq'[f] = rq[f]
      BY <2>2, <3>1 DEF RowsInv, RefersOK
    <3>2. CASE PersistCommit(f)
      <4>1. SUFFICES ASSUME e # f
                     PROVE  FALSE
        OBVIOUS
      <4>2. rq'[f] = rq[f]
        BY <2>2, <4>1 DEF PersistCommit, RowsInv, TablesOK
      <4> QED
        BY <2>2, <3>1, <4>1, <4>2
    <3> QED
      BY <1>2, <2>2, <3>1, <3>2
  <2> QED
    BY <1>2, <1>3, <2>1, <2>2
<1> QED
  BY <1>1, <1>2, <1>3 DEF SignedOnce

LEMMA InitSigned == Init => SignedOnce
BY DEF Init, SignedOnce, PresentPackets, Idle

\* A packet is signed once, over a hash it had; no call and no alteration, which
\* may come before the signature too, replaces the signature.
THEOREM SignedInvariant == Spec => []SignedOnce
BY InitSigned, NextSigned, RowsInvariant, PTL DEF Spec

\* What verify_packet finds tampered.
LEMMA Tampered ==
  ASSUME NEW p \in PresentPackets
  PROVE  verify_packet(p) = "tampered" <=>
           /\ packets[p].sig # None
           /\ \/ packets[p].content # packets[p].hash
              \/ packets[p].sig # <<p, packets[p].version, packets[p].hash>>
BY DEF verify_packet, _content_intact, _signature_ok, signing_payload

\* An alteration after the signature is reported and stays reported: what follows
\* can bring the hash in line with the export, but not with the signature, which
\* covers an earlier export and is never written again.
THEOREM TamperingIsReported == Spec => TamperingSticks
<1> DEFINE Sticks ==
      \A p \in PresentPackets :
        /\ packets[p].sig # None
        /\ verify_packet(p) = "tampered" \/ packets'[p].content # packets[p].content
        => (verify_packet(p) = "tampered")'
<1>1. RowsInv /\ SignedOnce /\ [Next]_vars => [Sticks]_vars
  <2> SUFFICES ASSUME RowsInv, SignedOnce, [Next]_vars, NEW p \in PresentPackets,
                      packets[p].sig # None,
                      verify_packet(p) = "tampered" \/ packets'[p].content # packets[p].content
               PROVE  (verify_packet(p) = "tampered")'
    OBVIOUS
  <2>1. packets'[p].sig = packets[p].sig /\ packets'[p].version = packets[p].version
    BY SignatureStays, RowStep DEF KeepsRow
  <2>2. PICK h \in 0..packets[p].content : packets[p].sig = <<p, packets[p].version, h>>
    BY DEF SignedOnce
  <2>3. /\ packets[p].content \in Nat /\ packets[p].hash \in Nat
        /\ packets[p].hash <= packets[p].content
    BY PresentCases, MaxAlterationsAssumption DEF RowsInv, PacketRow, Contents, SignedOnce
  <2>4. ~ \E c \in Calls : Sign(c) /\ rq[c].packet = p
    BY DEF Sign, SignedOnce
  <2>5. CASE packets'[p].content = packets[p].content /\ packets'[p].hash = packets[p].hash
    <3>1. verify_packet(p) = "tampered"
      BY <2>5
    <3>2. \/ packets[p].content # packets[p].hash
          \/ packets[p].sig # <<p, packets[p].version, packets[p].hash>>
      BY <3>1, Tampered
    <3> QED
      BY <2>1, <2>5, <3>2 DEF verify_packet, _content_intact, _signature_ok, signing_payload
  <2>6. CASE Altered(p)
    <3>1. \/ packets'[p].content # packets'[p].hash
          \/ packets'[p].hash # h
      BY <2>2, <2>3, <2>6 DEF Altered
    <3>2. \/ packets'[p].content # packets'[p].hash
          \/ packets'[p].sig # <<p, packets'[p].version, packets'[p].hash>>
      BY <2>1, <2>2, <3>1
    <3> QED
      BY <2>1, <3>2 DEF verify_packet, _content_intact, _signature_ok, signing_payload
  <2> QED
    BY <2>4, <2>5, <2>6, RowStep
<1> QED
  BY <1>1, RowsInvariant, SignedInvariant, PTL DEF Spec, TamperingSticks

\* A packet that was revoked never verifies again: neither signing, which may
\* follow the revocation, nor anything else resets the column.
THEOREM RevokedStaysRevoked == Spec => RevocationSticks
<1> DEFINE Sticks ==
      \A p \in PresentPackets : packets[p].revoked => (verify_packet(p) # "valid")'
<1>1. RowsInv /\ [Next]_vars => [Sticks]_vars
  <2> SUFFICES ASSUME RowsInv, [Next]_vars, NEW p \in PresentPackets, packets[p].revoked
               PROVE  (verify_packet(p) # "valid")'
    OBVIOUS
  <2>1. packets'[p].revoked
    BY RowStep DEF KeepsRow
  <2> QED
    BY <2>1 DEF verify_packet
<1> QED
  BY <1>1, RowsInvariant, PTL DEF Spec, RevocationSticks

\* The tables keep their types: with finitely many packets the versions stay
\* within their number, and a score within 0..100.
THEOREM TypeCorrect == IsFiniteSet(Packets) => (Spec => []TypeOK)
<1> SUFFICES ASSUME IsFiniteSet(Packets)
             PROVE  Spec => []TypeOK
  OBVIOUS
<1>1. RowsInv /\ SignedOnce => TypeOK
  <2> SUFFICES ASSUME RowsInv, SignedOnce
               PROVE  TypeOK
    OBVIOUS
  <2> DEFINE n == Cardinality(Packets)
  <2>1. n \in Nat
    BY FS_CardinalityType
  <2>2. Cardinality(PresentPackets) \in Nat /\ Cardinality(PresentPackets) <= n
    <3>1. PresentPackets \in SUBSET Packets
      BY DEF PresentPackets
    <3>2. IsFiniteSet(PresentPackets) /\ Cardinality(PresentPackets) <= n
      BY <3>1, FS_Subset
    <3> QED
      BY <3>2, FS_CardinalityType
  <2>3. ASSUME NEW p \in Packets
        PROVE  packets[p] \in EvidencePacket \cup {NoPacket}
    <3>1. CASE p \in PresentPackets
      <4>1. packets[p] \in PacketRow /\ packets[p].version <= Cardinality(PresentPackets)
        BY <3>1, PresentCases DEF RowsInv, RefersOK
      <4>2. packets[p].version \in 1..n
        BY <2>1, <2>2, <4>1 DEF PacketRow
      <4>3. packets[p].sig = None \/
              \E h \in 0..packets[p].content : packets[p].sig = <<p, packets[p].version, h>>
        BY <3>1 DEF SignedOnce
      <4>4. 0..packets[p].content \subseteq Contents
        BY <4>1, MaxAlterationsAssumption DEF PacketRow, Contents
      <4>5. packets[p].sig \in {None} \cup (Packets \X (1..n) \X Contents)
        BY <3>1, <4>2, <4>3, <4>4 DEF PresentPackets
      <4> QED
        BY <4>1, <4>2, <4>5 DEF PacketRow, EvidencePacket
    <3>2. CASE p \notin PresentPackets
      BY <3>2 DEF PresentPackets
    <3> QED
      BY <3>1, <3>2
  <2>4. packets \in [Packets -> EvidencePacket \cup {NoPacket}]
    BY <2>3 DEF RowsInv, TablesOK
  <2>5. \A c \in Calls : rq[c].pc \in {"idle", "persist", "sign", "request", "review", "approve",
                                       "decide", "revoke"}
    BY DEF RowsInv, TablesOK, CallRecord, Idle, PersistCall, SignCall, RequestCall, LoadCall,
           DecideCall
  <2> QED
    BY <2>4, <2>5 DEF TypeOK, RowsInv, TablesOK
<1> QED
  BY <1>1, RowsInvariant, SignedInvariant, PTL

-----------------------------------------------------------------------------
(***************************************************************************)
(* Approvals.                                                              *)
(***************************************************************************)
Reviewed == {"under_review", "rejected", "approved", "revoked"}

\* What the calls carry towards an approval.
EarnedInv ==
  /\ \A v \in PresentVerifs :
       /\ Visible(verifs[v].tenant, packets[verifs[v].packet])
       /\ packets[verifs[v].packet].sig # None
       /\ verifs[v].status \in Reviewed => verifs[v].reviewed
       /\ verifs[v].status \in {"approved", "revoked"} => verifs[v].score >= verifs[v].min
  /\ \A c \in Calls :
       /\ rq[c].pc = "request" =>
            /\ Visible(rq[c].scope, packets[rq[c].packet])
            /\ packets[rq[c].packet].sig # None
       /\ rq[c].pc \in {"approve", "decide", "revoke"} => verifs[rq[c].verif].reviewed
       /\ rq[c].pc = "decide" => rq[c].score >= verifs[rq[c].verif].min
       /\ rq[c].pc = "revoke" => verifs[rq[c].verif].score >= verifs[rq[c].verif].min

\* A score and a minimum are compared as integers.
LEMMA VerifInts ==
  ASSUME RowsInv, NEW v \in PresentVerifs
  PROVE  verifs[v].score \in Int /\ verifs[v].min \in Int
<1>1. verifs[v] \in TrustVerification
  BY PresentCases DEF RowsInv
<1>2. verifs[v].min \in MinScores
  BY <1>1 DEF TrustVerification
<1>3. verifs[v].min \in Int
  BY <1>2, MinScoresAssumption
<1>4. verifs[v].score \in 0..100
  BY <1>1 DEF TrustVerification
<1>5. verifs[v].score \in Int
  BY <1>4
<1> QED
  BY <1>3, <1>5

LEMMA NextEarned ==
  RowsInv /\ RowsInv' /\ SignedOnce /\ EarnedInv /\ [Next]_vars => EarnedInv'
<1> SUFFICES ASSUME RowsInv, RowsInv', SignedOnce, EarnedInv, [Next]_vars
             PROVE  EarnedInv'
  OBVIOUS
<1>1. ASSUME NEW v \in PresentVerifs
      PROVE  /\ Visible(verifs[v].tenant, packets[verifs[v].packet])'
             /\ packets'[verifs'[v].packet].sig # None
             /\ verifs'[v].status \in Reviewed => verifs'[v].reviewed
             /\ verifs'[v].status \in {"approved", "revoked"} => verifs'[v].score >= verifs'[v].min
             /\ verifs[v].reviewed => verifs'[v].reviewed
             /\ verifs[v].score >= verifs[v].min => verifs'[v].score >= verifs'[v].min
  <2>1. /\ verifs'[v].packet = verifs[v].packet
        /\ verifs'[v].tenant = verifs[v].tenant
        /\ verifs'[v].min = verifs[v].min
    BY VerifStep
  <2>2. verifs[v].packet \in PresentPackets /\ verifs[v].tenant \in Scopes
    BY PresentCases DEF RowsInv, RefersOK, TrustVerification
  <2>3. /\ Visible(verifs[v].tenant, packets[verifs[v].packet])
        /\ packets[verifs[v].packet].sig # None
    BY DEF EarnedInv
  <2>4. /\ Visible(verifs[v].tenant, packets[verifs[v].packet])'
        /\ packets'[verifs[v].packet].sig # None
    <3>1. packets'[verifs[v].packet].tenant = packets[verifs[v].packet].tenant
      BY <2>2, RowStep DEF KeepsRow
    <3>2. packets'[verifs[v].packet].sig # None
      BY <2>2, <2>3, SignatureStays
    <3> QED
      BY <2>1, <2>3, <3>1, <3>2 DEF Visible
  <2>5. CASE verifs'[v] = verifs[v]
    BY <2>1, <2>4, <2>5 DEF EarnedInv
  <2>6. ASSUME NEW c \in Calls, ReviewCommit(c), rq[c].verif = v,
               verifs'[v].status \in {"under_review", "rejected"}, verifs'[v].reviewed,
               verifs'[v].score = verifs[v].score
        PROVE  /\ verifs'[v].status \in Reviewed => verifs'[v].reviewed
               /\ verifs'[v].status \in {"approved", "revoked"} => verifs'[v].score >= verifs'[v].min
               /\ verifs[v].reviewed => verifs'[v].reviewed
               /\ verifs[v].score >= verifs[v].min => verifs'[v].score >= verifs'[v].min
    BY <2>1, <2>6
  <2>7. ASSUME NEW c \in Calls, ApproveCommit(c), rq[c].verif = v,
               verifs'[v].score = rq[c].score, verifs'[v].reviewed = verifs[v].reviewed
        PROVE  verifs'[v].reviewed /\ verifs'[v].score >= verifs'[v].min
    BY <2>1, <2>7 DEF ApproveCommit, EarnedInv
  <2>8. ASSUME NEW c \in Calls, RevokeCommit(c), rq[c].verif = v,
               verifs'[v].score = verifs[v].score, verifs'[v].reviewed = verifs[v].reviewed
        PROVE  verifs'[v].reviewed /\ verifs'[v].score >= verifs'[v].min
    BY <2>1, <2>8 DEF RevokeCommit, EarnedInv
  <2> QED
    BY <2>1, <2>4, <2>5, <2>6, <2>7, <2>8, VerifStep
<1>2. ASSUME NEW v \in PresentVerifs', v \notin PresentVerifs
      PROVE  /\ Visible(verifs[v].tenant, packets[verifs[v].packet])'
             /\ packets'[verifs'[v].packet].sig # None
             /\ verifs'[v].status = "requested"
  <2>1. PICK c \in Calls : RequestCommit(c)
    BY <1>2, RowsStay
  <2>2. /\ verifs'[v].status = "requested"
        /\ verifs'[v].tenant = rq[c].scope
        /\ verifs'[v].packet = rq[c].packet
        /\ UNCHANGED packets
    BY <1>2, <2>1, RequestEffect
  <2>3. Visible(rq[c].scope, packets[rq[c].packet]) /\ packets[rq[c].packet].sig # None
    BY <2>1 DEF RequestCommit, EarnedInv
  <2> QED
    BY <2>2, <2>3 DEF Visible
<1>3. ASSUME NEW c \in Calls
      PROVE  /\ rq'[c].pc = "request" =>
                  /\ Visible(rq[c].scope, packets[rq[c].packet])'
                  /\ packets'[rq'[c].packet].sig # None
             /\ rq'[c].pc \in {"approve", "decide", "revoke"} => verifs'[rq'[c].verif].reviewed
             /\ rq'[c].pc = "decide" => rq'[c].score >= verifs'[rq'[c].verif].min
             /\ rq'[c].pc = "revoke" => verifs'[rq'[c].verif].score >= verifs'[rq'[c].verif].min
  <2>1. CASE rq'[c] = rq[c]
    <3>1. ASSUME rq[c].pc = "request"
          PROVE  /\ Visible(rq[c].scope, packets[rq[c].packet])'
                 /\ packets'[rq[c].packet].sig # None
      <4>1. rq[c].packet \in PresentPackets
        BY <3>1 DEF RowsInv, RefersOK
      <4>2. /\ packets'[rq[c].packet].tenant = packets[rq[c].packet].tenant
            /\ packets'[rq[c].packet].sig # None
        BY <3>1, <4>1, RowStep, SignatureStays DEF KeepsRow, EarnedInv
      <4> QED
        BY <2>1, <3>1, <4>2 DEF Visible, EarnedInv
    <3>2. rq[c].pc \in {"approve", "decide", "revoke"} =>
            /\ rq[c].verif \in PresentVerifs
            /\ verifs'[rq[c].verif].min = verifs[rq[c].verif].min
      BY VerifStep DEF RowsInv, RefersOK
    <3> QED
      BY <1>1, <2>1, <3>1, <3>2 DEF EarnedInv
  <2>2. CASE rq'[c] = Idle \/ rq'[c] \in PersistCall \/ rq'[c] \in SignCall
    BY <2>2 DEF Idle, PersistCall, SignCall
  <2>3. CASE RequestRead(c) /\ rq'[c] \in RequestCall
    <3>1. /\ packets[rq'[c].packet].sig # None
          /\ Visible(rq'[c].scope, packets[rq'[c].packet])
          /\ UNCHANGED packets
      BY <2>3, RequestReadEffect
    <3> QED
      BY <2>3, <3>1 DEF RequestCall, Visible
  <2>4. CASE /\ rq'[c] \in LoadCall
             /\ rq'[c].verif \in PresentVerifs
             /\ verifs[rq'[c].verif].status =
                  CASE rq'[c].pc = "review" -> "requested"
                    [] rq'[c].pc = "approve" -> "under_review"
                    [] rq'[c].pc = "revoke" -> "approved"
             /\ UNCHANGED verifs
    <3>1. rq'[c].pc \in {"review", "approve", "revoke"}
      BY <2>4 DEF LoadCall
    <3> QED
      BY <2>4, <3>1 DEF EarnedInv, Reviewed
  <2>5. CASE ScoreAction(c) /\ rq'[c] \in DecideCall
    <3>1. rq'[c] # Idle /\ rq'[c].pc = "decide" /\ rq'[c].score \in 0..100
      BY <2>5 DEF DecideCall, Idle
    <3>2. /\ rq[c].pc = "approve"
          /\ rq[c].verif \in PresentVerifs
          /\ rq'[c].verif = rq[c].verif
          /\ ~ (rq'[c].score < verifs[rq[c].verif].min)
          /\ UNCHANGED verifs
      BY <2>5, <3>1, ScoreActionEffect
    <3>3. rq'[c].score >= verifs[rq[c].verif].min
      BY <3>1, <3>2, VerifInts
    <3> QED
      BY <3>1, <3>2, <3>3 DEF EarnedInv
  <2> QED
    BY <2>1, <2>2, <2>3, <2>4, <2>5, CallEffect
<1> QED
  BY <1>1, <1>2, <1>3 DEF EarnedInv, Reviewed

\* An approval is earned, whoever else stores, revokes, scores or reviews in
\* between, and however many reviewers there are.
THEOREM ApprovalsAreEarned == Spec => []ApprovalIsEarned
<1>1. Init => EarnedInv
  BY DEF Init, EarnedInv, PresentVerifs, Idle
<1>2. EarnedInv => ApprovalIsEarned
  BY DEF EarnedInv, ApprovalIsEarned, Reviewed
<1> QED
  BY <1>1, <1>2, NextEarned, RowsInvariant, SignedInvariant, PTL DEF Spec

-----------------------------------------------------------------------------
(***************************************************************************)
(* One reviewer.                                                           *)
(***************************************************************************)

\* One call at a time works on verifications, on what it has loaded.
ReviewerInv ==
  /\ \A c, d \in Calls : rq[c].desk = "reviewer" /\ rq[d].desk = "reviewer" => c = d
  /\ \A c \in Calls :
       /\ rq[c].pc = "review" => verifs[rq[c].verif].status = "requested"
       /\ rq[c].pc = "approve" => verifs[rq[c].verif].status = "under_review"
       /\ rq[c].pc = "decide" =>
            verifs[rq[c].verif].status = "under_review" /\ rq[c].loaded = "under_review"
       /\ rq[c].pc = "revoke" => verifs[rq[c].verif].status = "approved"

\* Whose work a call is.
LEMMA Desks ==
  ASSUME TablesOK, NEW c \in Calls
  PROVE  /\ rq[c].desk = "auditor" <=> rq[c].pc \in {"persist", "sign"}
         /\ rq[c].desk = "reviewer" <=>
              rq[c].pc \in {"request", "review", "approve", "revoke", "decide"}
         /\ rq[c].pc \in {"idle", "persist", "sign", "request", "review", "approve", "revoke",
                          "decide"}
<1>1. rq[c] \in CallRecord
  BY DEF TablesOK
<1> QED
  BY <1>1 DEF CallRecord, Idle, PersistCall, SignCall, RequestCall, LoadCall, DecideCall

\* A call takes a desk when nobody is at it, and keeps it until it ends.
LEMMA DeskMoves ==
  ASSUME Serial, RowsInv, [Next]_vars, NEW c \in Calls, rq'[c].desk \in {"auditor", "reviewer"}
  PROVE  \/ rq[c].desk = rq'[c].desk /\ rq[c].pc # "idle"
         \/ /\ \A d \in Calls : rq[d].desk # rq'[c].desk
            /\ \A d \in Calls \ {c} : rq'[d] = rq[d]
<1>1. CASE rq'[c] = rq[c]
  <2>1. rq[c].pc # "idle"
    BY <1>1, Desks DEF RowsInv
  <2> QED
    BY <1>1, <2>1
<1>2. CASE PersistRead(c) /\ rq'[c] \in PersistCall
  BY <1>2 DEF PersistRead, MayCall, PersistCall, RowsInv, TablesOK
<1>3. CASE PersistCommit(c) /\ rq'[c] \in SignCall
  BY <1>3, Desks DEF PersistCommit, SignCall, RowsInv
<1>4. CASE RequestRead(c) /\ rq'[c] \in RequestCall
  BY <1>4 DEF RequestRead, MayCall, RequestCall, RowsInv, TablesOK
<1>5. CASE (ReviewRead(c) \/ ApproveRead(c) \/ RevokeRead(c)) /\ rq'[c] \in LoadCall
  BY <1>5 DEF ReviewRead, ApproveRead, RevokeRead, LoadVerification, MayCall, LoadCall, RowsInv,
              TablesOK
<1>6. CASE ScoreAction(c) /\ rq'[c] \in DecideCall
  BY <1>6, Desks DEF ScoreAction, DecideCall, RowsInv
<1>7. rq'[c] # Idle
  BY DEF Idle
<1> QED
  BY <1>1, <1>2, <1>3, <1>4, <1>5, <1>6, <1>7, CallEffect

LEMMA NextReviewer ==
  Serial /\ RowsInv /\ RowsInv' /\ ReviewerInv /\ [Next]_vars => ReviewerInv'
<1> SUFFICES ASSUME Serial, RowsInv, RowsInv', ReviewerInv, [Next]_vars
             PROVE  ReviewerInv'
  OBVIOUS
<1>1. ASSUME NEW c \in Calls, NEW d \in Calls,
             rq'[c].desk = "reviewer", rq'[d].desk = "reviewer"
      PROVE  c = d
  BY <1>1, DeskMoves DEF ReviewerInv
<1>2. ASSUME NEW c \in Calls, rq'[c] = rq[c], rq[c].desk = "reviewer", rq[c].pc # "request"
      PROVE  verifs'[rq[c].verif].status = verifs[rq[c].verif].status
  <2> DEFINE v == rq[c].verif
  <2>1. v \in PresentVerifs
    BY <1>2, Desks DEF RowsInv, RefersOK
  <2>2. ASSUME NEW d \in Calls, ReviewCommit(d) \/ ApproveCommit(d) \/ RevokeCommit(d)
        PROVE  FALSE
    <3>1. rq'[d] = Idle
      BY <2>2 DEF ReviewCommit, ApproveCommit, RevokeCommit, Ends, RowsInv, TablesOK
    <3>2. rq[d].desk = "reviewer"
      BY <2>2, Desks DEF ReviewCommit, ApproveCommit, RevokeCommit, RowsInv
    <3>3. d = c
      BY <1>2, <3>2 DEF ReviewerInv
    <3> QED
      BY <1>2, <3>1, <3>3 DEF Idle
  <2>3. verifs'[v] = verifs[v]
    BY <2>1, <2>2, VerifStep
  <2> QED
    BY <2>3
<1>3. ASSUME NEW c \in Calls
      PROVE  /\ rq'[c].pc = "review" => verifs'[rq'[c].verif].status = "requested"
             /\ rq'[c].pc = "approve" => verifs'[rq'[c].verif].status = "under_review"
             /\ rq'[c].pc = "decide" =>
                  verifs'[rq'[c].verif].status = "under_review" /\ rq'[c].loaded = "under_review"
             /\ rq'[c].pc = "revoke" => verifs'[rq'[c].verif].status = "approved"
  <2>1. CASE rq'[c] = rq[c]
    <3>1. CASE rq[c].pc \in {"review", "approve", "decide", "revoke"}
      <4>1. rq[c].desk = "reviewer"
        BY <3>1, Desks DEF RowsInv
      <4> QED
        BY <1>2, <2>1, <3>1, <4>1 DEF ReviewerInv
    <3> QED
      BY <2>1, <3>1
  <2>2. CASE rq'[c] = Idle \/ rq'[c] \in PersistCall \/ rq'[c] \in SignCall
               \/ rq'[c] \in RequestCall
    BY <2>2 DEF Idle, PersistCall, SignCall, RequestCall
  <2>3. CASE /\ rq'[c] \in LoadCall
             /\ verifs[rq'[c].verif].status =
                  CASE rq'[c].pc = "review" -> "requested"
                    [] rq'[c].pc = "approve" -> "under_review"
                    [] rq'[c].pc = "revoke" -> "approved"
             /\ UNCHANGED verifs
    BY <2>3 DEF LoadCall
  <2>4. CASE ScoreAction(c) /\ rq'[c] \in DecideCall
    <3>1. rq'[c] # Idle /\ rq'[c].pc = "decide"
      BY <2>4 DEF DecideCall, Idle
    <3>2. /\ rq[c].pc = "approve"
          /\ rq'[c].verif = rq[c].verif
          /\ rq'[c].loaded = verifs[rq[c].verif].status
          /\ UNCHANGED verifs
      BY <2>4, <3>1, ScoreActionEffect
    <3> QED
      BY <3>1, <3>2 DEF ReviewerInv
  <2> QED
    BY <2>1, <2>2, <2>3, <2>4, CallEffect
<1> QED
  BY <1>1, <1>3 DEF ReviewerInv

\* With one reviewer a verification follows its lifecycle, on the evidence and the
\* minimum it was requested with.
THEOREM LifecycleFollowed == Serial => (Spec => Lifecycle)
<1> SUFFICES ASSUME Serial
             PROVE  Spec => Lifecycle
  OBVIOUS
<1> DEFINE Follows ==
      \A v \in PresentVerifs :
        /\ <<verifs[v].status, verifs'[v].status>> \in
             {<<"requested", "under_review">>, <<"requested", "rejected">>,
              <<"under_review", "approved">>, <<"approved", "revoked">>}
               \cup {<<s, s>> : s \in {"requested", "under_review", "rejected", "approved",
                                       "revoked"}}
        /\ verifs'[v].packet = verifs[v].packet
        /\ verifs'[v].min = verifs[v].min
<1>1. Init => ReviewerInv
  BY DEF Init, ReviewerInv, Idle
<1>2. RowsInv /\ ReviewerInv /\ [Next]_vars => [Follows]_vars
  <2> SUFFICES ASSUME RowsInv, ReviewerInv, [Next]_vars, NEW v \in PresentVerifs
               PROVE  /\ <<verifs[v].status, verifs'[v].status>> \in
                           {<<"requested", "under_review">>, <<"requested", "rejected">>,
                            <<"under_review", "approved">>, <<"approved", "revoked">>}
                             \cup {<<s, s>> : s \in {"requested", "under_review", "rejected",
                                                     "approved", "revoked"}}
                      /\ verifs'[v].packet = verifs[v].packet
                      /\ verifs'[v].min = verifs[v].min
    OBVIOUS
  <2>1. verifs[v].status \in {"requested", "under_review", "rejected", "approved", "revoked"}
    BY PresentCases DEF TrustVerification, RowsInv
  <2>2. \/ verifs'[v].status = verifs[v].status
        \/ /\ verifs[v].status = "requested"
           /\ verifs'[v].status \in {"under_review", "rejected"}
        \/ verifs[v].status = "under_review" /\ verifs'[v].status = "approved"
        \/ verifs[v].status = "approved" /\ verifs'[v].status = "revoked"
    <3>1. ASSUME NEW c \in Calls, ReviewCommit(c), rq[c].verif = v
          PROVE  verifs[v].status = "requested"
      BY <3>1 DEF ReviewCommit, ReviewerInv
    <3>2. ASSUME NEW c \in Calls, ApproveCommit(c), rq[c].verif = v
          PROVE  verifs[v].status = "under_review" /\ rq[c].loaded = "under_review"
      BY <3>2 DEF ApproveCommit, ReviewerInv
    <3>3. ASSUME NEW c \in Calls, RevokeCommit(c), rq[c].verif = v
          PROVE  verifs[v].status = "approved"
      BY <3>3 DEF RevokeCommit, ReviewerInv
    <3> QED
      BY <3>1, <3>2, <3>3, VerifStep
  <2> QED
    BY <2>1, <2>2, VerifStep
<1>3. RowsInv /\ RowsInv' /\ ReviewerInv /\ [Next]_vars => ReviewerInv'
  BY NextReviewer
<1> QED
  BY <1>1, <1>2, <1>3, RowsInvariant, PTL DEF Spec, Lifecycle

-----------------------------------------------------------------------------
(***************************************************************************)
(* Versions.                                                               *)
(***************************************************************************)

\* The version that the call c will store is above, and what it will supersede is
\* all that is active of, the packets its scope sees.
ReadIsCurrent(c) ==
  /\ rq[c].prior = {p \in PresentPackets : Visible(rq[c].scope, packets[p]) /\ packets[p].active}
  /\ \A p \in PresentPackets : Visible(rq[c].scope, packets[p]) => packets[p].version < rq[c].version

\* One auditor works, and what it read of the versions still holds.
VersionInv ==
  /\ VersionedOnce
  /\ \A c, d \in Calls : rq[c].desk = "auditor" /\ rq[d].desk = "auditor" => c = d
  /\ \A c \in Calls : rq[c].pc = "persist" => ReadIsCurrent(c)

\* Without a commit of persist_packet the versions, the owners and what is active
\* stay as they are.
LEMMA VersionsStay ==
  ASSUME RowsInv, [Next]_vars, \A c \in Calls : ~ PersistCommit(c)
  PROVE  /\ PresentPackets' = PresentPackets
         /\ \A p \in PresentPackets :
              /\ packets'[p].version = packets[p].version
              /\ packets'[p].tenant = packets[p].tenant
              /\ packets'[p].active = packets[p].active
BY RowStep, RowsStay DEF KeepsRow

\* A commit of persist_packet on current reads keeps the versions apart.
LEMMA CommitKeepsVersions ==
  ASSUME RowsInv, VersionInv, [Next]_vars, NEW c \in Calls, PersistCommit(c)
  PROVE  VersionedOnce'
<1>1. PICK n \in Packets \ PresentPackets :
        /\ packets'[n] = StoredRow(c)
        /\ PresentPackets' = PresentPackets \cup {n}
        /\ \A q \in Packets \ {n} :
             packets'[q] = IF q \in rq[c].prior THEN [packets[q] EXCEPT !.active = FALSE]
                           ELSE packets[q]
  BY PersistEffect
<1>2. rq[c] \in PersistCall /\ ReadIsCurrent(c)
  BY PersistEffect DEF PersistCommit, VersionInv
<1>3. ASSUME NEW p \in PresentPackets
      PROVE  /\ packets'[p].version = packets[p].version
             /\ packets'[p].tenant = packets[p].tenant
             /\ packets'[p].active => packets[p].active
             /\ packets[p].version \in Nat
  BY RowStep, PresentCases DEF KeepsRow, PacketRow, RowsInv
<1>4. /\ packets'[n].version = rq[c].version
      /\ packets'[n].tenant = rq[c].scope
      /\ rq[c].version \in Nat
  BY <1>1, <1>2 DEF StoredRow, PersistCall
<1>5. ASSUME NEW p \in PresentPackets, packets[p].tenant = rq[c].scope
      PROVE  packets[p].version < rq[c].version /\ ~ packets'[p].active
  <2>1. Visible(rq[c].scope, packets[p])
    BY <1>5 DEF Visible
  <2>2. packets[p].version < rq[c].version
    BY <1>2, <2>1 DEF ReadIsCurrent
  <2>3. CASE packets[p].active
    <3>1. p \in rq[c].prior
      BY <1>2, <2>1, <2>3 DEF ReadIsCurrent
    <3>2. packets'[p] = [packets[p] EXCEPT !.active = FALSE]
      BY <1>1, <3>1 DEF PresentPackets
    <3> QED
      BY <2>2, <3>2, PresentCases DEF PacketRow, RowsInv
  <2> QED
    BY <1>3, <2>2, <2>3
<1>6. ASSUME NEW p \in PresentPackets, NEW q \in PresentPackets,
             p # q, packets'[p].tenant = packets'[q].tenant
      PROVE  /\ packets'[p].version # packets'[q].version
             /\ ~ (packets'[p].active /\ packets'[q].active)
  BY <1>3, <1>6 DEF VersionInv, VersionedOnce
<1>7. ASSUME NEW p \in PresentPackets, packets'[p].tenant = packets'[n].tenant
      PROVE  packets'[p].version # packets'[n].version /\ ~ packets'[p].active
  BY <1>3, <1>4, <1>5, <1>7
<1> QED
  BY <1>1, <1>6, <1>7 DEF VersionedOnce

LEMMA NextVersions ==
  Serial /\ RowsInv /\ RowsInv' /\ VersionInv /\ [Next]_vars => VersionInv'
<1> SUFFICES ASSUME Serial, RowsInv, RowsInv', VersionInv, [Next]_vars
             PROVE  VersionInv'
  OBVIOUS
<1>1. ASSUME NEW c \in Calls, NEW d \in Calls, rq'[c].desk = "auditor", rq'[d].desk = "auditor"
      PROVE  c = d
  BY <1>1, DeskMoves DEF VersionInv
<1>2. VersionedOnce'
  <2>1. CASE \A c \in Calls : ~ PersistCommit(c)
    BY <2>1, VersionsStay DEF VersionInv, VersionedOnce
  <2> QED
    BY <2>1, CommitKeepsVersions
<1>3. ASSUME NEW c \in Calls, rq'[c].pc = "persist"
      PROVE  ReadIsCurrent(c)'
  <2>1. CASE rq'[c] = rq[c]
    <3>1. rq[c].pc = "persist" /\ rq[c].desk = "auditor"
      BY <1>3, <2>1, Desks DEF RowsInv
    <3>2. ASSUME NEW d \in Calls, PersistCommit(d)
          PROVE  FALSE
      <4>1. rq[d].desk = "auditor"
        BY <3>2, Desks DEF PersistCommit, RowsInv
      <4>2. d = c
        BY <3>1, <4>1 DEF VersionInv
      <4>3. PICK n \in Packets : rq'[d] = [pc |-> "sign", desk |-> "auditor", packet |-> n]
        BY <3>2, PersistEffect
      <4> QED
        BY <1>3, <4>2, <4>3
    <3>3. ReadIsCurrent(c)
      BY <3>1 DEF VersionInv
    <3> QED
      BY <2>1, <3>2, <3>3, VersionsStay DEF ReadIsCurrent, Visible
  <2>2. CASE PersistRead(c)
    <3>1. PresentPackets' = PresentPackets /\ packets' = packets
      BY <2>2, PersistReadEffect DEF PresentPackets
    <3> QED
      BY <2>2, <3>1, PersistReadEffect DEF ReadIsCurrent, Visible
  <2>3. CASE rq'[c] = Idle \/ rq'[c] \in SignCall \/ rq'[c] \in RequestCall \/ rq'[c] \in LoadCall
               \/ rq'[c] \in DecideCall
    BY <1>3, <2>3 DEF Idle, SignCall, RequestCall, LoadCall, DecideCall
  <2> QED
    BY <2>1, <2>2, <2>3, CallEffect
<1> QED
  BY <1>1, <1>2, <1>3 DEF VersionInv

\* With one auditor, packets of one owner have distinct versions and at most one of
\* them is active, whatever dies between a read, a commit and a signature.
THEOREM PacketsVersionedOnce == Serial => (Spec => []VersionedOnce)
<1> SUFFICES ASSUME Serial
             PROVE  Spec => []VersionedOnce
  OBVIOUS
<1>1. Init => VersionInv
  BY DEF Init, VersionInv, VersionedOnce, PresentPackets, Idle
<1>2. RowsInv /\ RowsInv' /\ VersionInv /\ [Next]_vars => VersionInv'
  BY NextVersions
<1>3. VersionInv => VersionedOnce
  BY DEF VersionInv
<1> QED
  BY <1>1, <1>2, <1>3, RowsInvariant, PTL DEF Spec

=============================================================================
