-------------------------- MODULE AuditChainProofs --------------------------
(***************************************************************************)
(* Safety of the audit chain for any set of concurrent calls of record()    *)
(* and any bound on the attempts.                                          *)
(***************************************************************************)
EXTENDS AuditChain, Sequences, TLAPS

\* The chain is 1..n for some n, and each row links to the one below it.
IsChain(n) ==
    /\ n \in Nat
    /\ \A r \in events : r.seq \in 1 .. n
    /\ \A i \in 1 .. n : \E r \in events : r.seq = i
    /\ \A r, s \in events : r.seq = s.seq => r = s

Linked ==
    /\ \A r \in events : r.seq = 1 => r.previous_hash = GENESIS_HASH
    /\ \A r, s \in events : s.seq = r.seq + 1 => s.previous_hash = r.event_hash

\* A head that was read is a row of the chain, and the races lost so far by a
\* call are no more than the position of the head it holds.
HeadsInv ==
    \A c \in Calls :
      /\ head[c] = {} \/ \E r \in events : head[c] = {r}
      /\ pc[c] = "commit" => attempt[c] - busy[c] <= HeadSeq(head[c])
      /\ pc[c] \in {"read", "commit"} => attempt[c] < MaxAttempts
      /\ busy[c] <= attempt[c]

Paid(n) == \A c \in Calls : attempt[c] - busy[c] <= n

\* The inductive invariant.
IndInv ==
    /\ TypeOK
    /\ Linked
    /\ HeadsInv
    /\ RecordedOnce
    /\ \E n \in Nat : IsChain(n) /\ Paid(n)

\* What HeadSeq and HeadHash read from a head of one row.
LEMMA SingletonHead ==
    ASSUME NEW r PROVE HeadSeq({r}) = r.seq /\ HeadHash({r}) = r.event_hash
BY Zenon DEF HeadSeq, HeadHash

LEMMA EmptyHead == HeadSeq({}) = 0 /\ HeadHash({}) = GENESIS_HASH
BY DEF HeadSeq, HeadHash

\* _chain_head finds the row with seq n.
LEMMA ChainHeadIs ==
    ASSUME NEW n, IsChain(n)
    PROVE  /\ n = 0 => chain_head(events) = {} /\ events = {}
           /\ n > 0 => \E r \in events : chain_head(events) = {r} /\ r.seq = n
           /\ HeadSeq(chain_head(events)) = n
<1>1. CASE n = 0
  <2>1. events = {} /\ chain_head(events) = {}
    BY <1>1 DEF IsChain, chain_head
  <2> QED BY <1>1, <2>1, EmptyHead
<1>2. CASE n > 0
  <2>1. PICK r \in events : r.seq = n
    BY <1>2 DEF IsChain
  <2>2. \A s \in events : s.seq \in Nat /\ s.seq <= n
    BY DEF IsChain
  <2>3. chain_head(events) = {r}
    BY <2>1, <2>2 DEF IsChain, chain_head
  <2> QED BY <1>2, <2>1, <2>3, SingletonHead
<1> QED BY <1>1, <1>2 DEF IsChain

\* The head held by a call: empty, or one row of the chain.
LEMMA HeldHead ==
    ASSUME IndInv, NEW c \in Calls
    PROVE  \/ head[c] = {} /\ HeadSeq(head[c]) = 0
           \/ \E r \in events : /\ head[c] = {r} /\ r.seq \in Nat \ {0}
                               /\ HeadSeq(head[c]) = r.seq
<1>1. CASE head[c] = {}
  BY <1>1, EmptyHead
<1>2. CASE \E r \in events : head[c] = {r}
  <2>1. PICK r \in events : head[c] = {r}
    BY <1>2
  <2>2. HeadSeq(head[c]) = r.seq
    BY <2>1, SingletonHead
  <2>3. r.seq \in Nat \ {0}
    BY DEF IndInv, TypeOK
  <2> QED BY <2>1, <2>2, <2>3
<1> QED BY <1>1, <1>2 DEF IndInv, HeadsInv

\* A commit that finds its seq free was built on the newest row.
LEMMA FreeSeqIsNext ==
    ASSUME IndInv, NEW n, IsChain(n), NEW c \in Calls, CommitSucceeds(c)
    PROVE  /\ HeadSeq(head[c]) = n
           /\ NewRow(c) = AuditEvent(n + 1, c, HeadHash(head[c]))
           /\ n = 0 => HeadHash(head[c]) = GENESIS_HASH
           /\ \A r \in events : r.seq = n => HeadHash(head[c]) = r.event_hash
<1> DEFINE h == HeadSeq(head[c])
<1>1. h \in 0 .. n /\ (h = 0 => head[c] = {})
         /\ (h > 0 => \E r \in events : head[c] = {r} /\ r.seq = h)
  BY HeldHead DEF IsChain
<1>2. h + 1 \notin 1 .. n
  <2>1. NewRow(c).seq = h + 1
    BY DEF NewRow, AuditEvent
  <2> QED BY <2>1, <1>1 DEF CommitSucceeds, Seqs, IsChain
<1>3. h = n
  BY <1>1, <1>2 DEF IsChain
<1>4. n = 0 => HeadHash(head[c]) = GENESIS_HASH
  BY <1>1, <1>3, EmptyHead
<1>5. ASSUME NEW r \in events, r.seq = n PROVE HeadHash(head[c]) = r.event_hash
  <2>1. h > 0
    BY <1>5, <1>3 DEF IsChain
  <2>2. PICK q \in events : head[c] = {q} /\ q.seq = h
    BY <2>1, <1>1
  <2>3. q = r
    BY <2>2, <1>3, <1>5 DEF IsChain
  <2> QED BY <2>2, <2>3, SingletonHead
<1> QED BY <1>3, <1>4, <1>5 DEF NewRow

LEMMA InitEstablishes == Init => IndInv
<1> SUFFICES ASSUME Init PROVE IndInv
  OBVIOUS
<1>1. TypeOK
  BY MaxAttemptsAssumption DEF Init, TypeOK, Finished
<1>2. Linked /\ RecordedOnce
  BY DEF Init, Linked, RecordedOnce
<1>3. HeadsInv
  BY MaxAttemptsAssumption, EmptyHead DEF Init, HeadsInv
<1>4. IsChain(0) /\ Paid(0)
  BY DEF Init, IsChain, Paid
<1> QED BY <1>1, <1>2, <1>3, <1>4 DEF IndInv

\* A step of a call that leaves the table alone keeps what is said of it.
LEMMA TableUnchanged ==
    ASSUME IndInv, UNCHANGED events
    PROVE  /\ Linked'
           /\ \A n \in Nat : IsChain(n) => IsChain(n)'
BY DEF IndInv, Linked, IsChain, GENESIS_HASH

LEMMA ReadHeadPreserves ==
    ASSUME IndInv, NEW c \in Calls, ReadHead(c) PROVE IndInv'
<1>1. PICK n \in Nat : IsChain(n) /\ Paid(n)
  BY DEF IndInv
<1>2. TypeOK'
  BY DEF IndInv, TypeOK, ReadHead, chain_head, AuditEvent, compute_event_hash
<1>3. HeadsInv'
  <2> SUFFICES ASSUME NEW d \in Calls
               PROVE /\ head'[d] = {} \/ \E r \in events : head'[d] = {r}
                     /\ pc'[d] = "commit" => attempt[d] - busy[d] <= HeadSeq(head'[d])
                     /\ pc'[d] \in {"read", "commit"} => attempt[d] < MaxAttempts
                     /\ busy[d] <= attempt[d]
    BY DEF HeadsInv, ReadHead, HeadSeq
  <2>1. CASE d # c
    BY <2>1 DEF IndInv, TypeOK, HeadsInv, ReadHead
  <2>2. CASE d = c
    <3>1. head'[d] = chain_head(events)
      BY <2>2 DEF ReadHead, IndInv, TypeOK
    <3>2. pc[d] = "read"
      BY <2>2 DEF ReadHead
    <3>3. attempt[d] - busy[d] <= n
      BY <1>1 DEF Paid
    <3> QED BY <3>1, <3>2, <3>3, <1>1, ChainHeadIs DEF IndInv, HeadsInv
  <2> QED BY <2>1, <2>2
<1>4. RecordedOnce'
  BY DEF IndInv, TypeOK, RecordedOnce, ReadHead
<1>5. IsChain(n)' /\ Linked'
  BY <1>1, TableUnchanged DEF ReadHead
<1>6. Paid(n)'
  BY <1>1 DEF Paid, ReadHead
<1> QED BY <1>2, <1>3, <1>4, <1>5, <1>6 DEF IndInv

LEMMA CommitSucceedsPreserves ==
    ASSUME IndInv, NEW c \in Calls, CommitSucceeds(c) PROVE IndInv'
<1>1. PICK n \in Nat : IsChain(n) /\ Paid(n)
  BY DEF IndInv
<1> DEFINE prev == HeadHash(head[c])
           new  == AuditEvent(n + 1, c, prev)
<1>2. /\ NewRow(c) = new
      /\ n = 0 => prev = GENESIS_HASH
      /\ \A r \in events : r.seq = n => prev = r.event_hash
  BY <1>1, FreeSeqIsNext
<1>3. events' = events \cup {new}
  BY <1>2 DEF CommitSucceeds
<1>4. /\ new.seq = n + 1 /\ new.call = c /\ new.previous_hash = prev
      /\ new = AuditEvent(new.seq, new.call, new.previous_hash)
  BY DEF AuditEvent
<1> HIDE DEF new
<1>5. pc' = [pc EXCEPT ![c] = "refresh"] /\ UNCHANGED <<head, attempt, busy>>
  BY DEF CommitSucceeds
<1>6. TypeOK'
  <2>1. \A r \in events' : /\ r.seq \in Nat \ {0} /\ r.call \in Calls
                           /\ r = AuditEvent(r.seq, r.call, r.previous_hash)
    BY <1>3, <1>4 DEF IndInv, TypeOK
  <2>2. /\ \A d \in Calls : head'[d] \subseteq events'
        /\ DOMAIN head' = Calls /\ attempt' \in [Calls -> 0 .. MaxAttempts]
        /\ busy' \in [Calls -> 0 .. MaxAttempts]
    BY <1>3, <1>5 DEF IndInv, TypeOK
  <2>3. pc' \in [Calls -> {"read", "commit", "refresh"} \cup Finished]
    BY <1>5 DEF IndInv, TypeOK
  <2> QED BY <2>1, <2>2, <2>3 DEF TypeOK, AuditEvent, compute_event_hash
<1>7. HeadsInv'
  <2>1. \A d \in Calls : HeadSeq(head[d])' = HeadSeq(head[d])
    BY <1>5 DEF HeadSeq
  <2>2. \A d \in Calls : pc'[d] \in {"read", "commit"} => pc'[d] = pc[d]
    BY <1>5 DEF IndInv, TypeOK
  <2> QED BY <1>3, <1>5, <2>1, <2>2 DEF IndInv, HeadsInv
<1>8. RecordedOnce'
  <2>1. pc[c] = "commit" /\ \A r \in events : r.call # c
    BY DEF IndInv, RecordedOnce, CommitSucceeds
  <2> QED BY <2>1, <1>3, <1>4, <1>5 DEF IndInv, TypeOK, RecordedOnce
<1>9. IsChain(n + 1)'
  <2>1. \A r \in events' : r.seq \in 1 .. n + 1
    BY <1>1, <1>3, <1>4 DEF IsChain
  <2>2. \A i \in 1 .. n + 1 : \E r \in events' : r.seq = i
    BY <1>1, <1>3, <1>4 DEF IsChain
  <2>3. \A r, s \in events' : r.seq = s.seq => r = s
    BY <1>1, <1>3, <1>4 DEF IsChain
  <2> QED BY <2>1, <2>2, <2>3 DEF IsChain
<1>10. Linked'
  <2>1. \A r \in events' : r.seq = 1 => r.previous_hash = GENESIS_HASH
    BY <1>1, <1>2, <1>3, <1>4 DEF IndInv, IsChain, Linked
  <2>2. ASSUME NEW r \in events', NEW s \in events', s.seq = r.seq + 1
        PROVE  s.previous_hash = r.event_hash
    <3>1. CASE s \in events
      <4>1. r \in events
        BY <1>1, <1>3, <1>4, <2>2, <3>1 DEF IsChain
      <4> QED BY <4>1, <3>1, <2>2 DEF IndInv, Linked
    <3>2. CASE s = new
      <4>1. r \in events /\ r.seq = n
        BY <1>1, <1>3, <1>4, <2>2, <3>2 DEF IsChain
      <4> QED BY <4>1, <3>2, <1>2, <1>4
    <3> QED BY <3>1, <3>2, <1>3, <2>2
  <2> QED BY <2>1, <2>2 DEF Linked, GENESIS_HASH
<1>11. Paid(n + 1)'
  BY <1>1, <1>5 DEF Paid, IndInv, TypeOK
<1> QED BY <1>6, <1>7, <1>8, <1>9, <1>10, <1>11 DEF IndInv

\* Rollback and retry after either error of the commit.
LEMMA RetryPreserves ==
    ASSUME IndInv, NEW c \in Calls, CommitLosesRace(c) \/ CommitMeetsLock(c)
    PROVE  IndInv'
<1>1. PICK n \in Nat : IsChain(n) /\ Paid(n)
  BY DEF IndInv
<1>2. /\ UNCHANGED <<events, head>> /\ pc[c] = "commit"
      /\ attempt' = [attempt EXCEPT ![c] = attempt[c] + 1]
      /\ pc' = [pc EXCEPT ![c] = IF attempt[c] + 1 < MaxAttempts
                                   THEN "read" ELSE "exhausted"]
  BY DEF CommitLosesRace, CommitMeetsLock, NextAttempt
<1>3. busy' = busy \/ busy' = [busy EXCEPT ![c] = busy[c] + 1]
  BY DEF CommitLosesRace, CommitMeetsLock
<1>4. attempt[c] < MaxAttempts /\ busy[c] <= attempt[c]
      /\ attempt[c] \in Nat /\ busy[c] \in Nat
  BY <1>2 DEF IndInv, HeadsInv, TypeOK
<1>5. TypeOK'
  <2>1. attempt' \in [Calls -> 0 .. MaxAttempts] /\ busy' \in [Calls -> 0 .. MaxAttempts]
    BY <1>2, <1>3, <1>4, MaxAttemptsAssumption DEF IndInv, TypeOK
  <2>2. pc' \in [Calls -> {"read", "commit", "refresh"} \cup Finished]
    BY <1>2 DEF IndInv, TypeOK, Finished
  <2> QED BY <1>2, <2>1, <2>2 DEF IndInv, TypeOK, AuditEvent, compute_event_hash
<1>6. HeadsInv'
  <2> SUFFICES ASSUME NEW d \in Calls
               PROVE /\ head[d] = {} \/ \E r \in events : head[d] = {r}
                     /\ pc'[d] = "commit" => attempt'[d] - busy'[d] <= HeadSeq(head[d])
                     /\ pc'[d] \in {"read", "commit"} => attempt'[d] < MaxAttempts
                     /\ busy'[d] <= attempt'[d]
    BY <1>2 DEF HeadsInv, HeadSeq
  <2>1. CASE d # c
    BY <1>2, <1>3, <2>1 DEF IndInv, TypeOK, HeadsInv
  <2>2. CASE d = c
    BY <1>2, <1>3, <1>4, <2>2, MaxAttemptsAssumption DEF IndInv, TypeOK, HeadsInv
  <2> QED BY <2>1, <2>2
<1>7. RecordedOnce'
  BY <1>2 DEF IndInv, TypeOK, RecordedOnce
<1>8. IsChain(n)' /\ Linked'
  BY <1>1, <1>2, TableUnchanged
<1>9. Paid(n)'
  <2> SUFFICES ASSUME NEW d \in Calls PROVE attempt'[d] - busy'[d] <= n
    BY DEF Paid
  <2>1. CASE d # c
    BY <1>1, <1>2, <1>3, <2>1 DEF IndInv, TypeOK, Paid
  <2>2. CASE d = c /\ CommitMeetsLock(c)
    BY <1>1, <1>2, <2>2 DEF IndInv, TypeOK, Paid, CommitMeetsLock
  <2>3. CASE d = c /\ CommitLosesRace(c)
    <3>1. HeadSeq(head[c]) + 1 \in 1 .. n
      BY <1>1, <2>3 DEF CommitLosesRace, NewRow, AuditEvent, Seqs, IsChain
    <3>2. attempt[c] - busy[c] <= HeadSeq(head[c])
      BY <1>2 DEF IndInv, HeadsInv
    <3>3. HeadSeq(head[c]) \in Nat
      BY HeldHead
    <3>4. attempt'[c] = attempt[c] + 1 /\ busy'[c] = busy[c]
      BY <1>2, <2>3 DEF CommitLosesRace, IndInv, TypeOK
    <3> QED BY <1>4, <2>3, <3>1, <3>2, <3>3, <3>4
  <2> QED BY <2>1, <2>2, <2>3
<1> QED BY <1>5, <1>6, <1>7, <1>8, <1>9 DEF IndInv

\* Steps that only move a call to its end.
LEMMA EndPreserves ==
    ASSUME IndInv, NEW c \in Calls, Return(c) \/ StatementFails(c) \/ Crash(c)
    PROVE  IndInv'
<1>1. PICK n \in Nat : IsChain(n) /\ Paid(n)
  BY DEF IndInv
<1>2. /\ UNCHANGED <<events, head, attempt, busy>>
      /\ \/ pc[c] = "refresh" /\ pc' = [pc EXCEPT ![c] = "returned"]
         \/ \E e \in {"errored", "crashed"} : pc' = [pc EXCEPT ![c] = e]
  BY DEF Return, StatementFails, Crash
<1>3. TypeOK'
  BY <1>2 DEF IndInv, TypeOK, Finished, AuditEvent, compute_event_hash
<1>4. HeadsInv'
  <2>1. \A d \in Calls : pc'[d] \in {"read", "commit"} => pc'[d] = pc[d]
    BY <1>2 DEF IndInv, TypeOK
  <2>2. \A d \in Calls : HeadSeq(head[d])' = HeadSeq(head[d])
    BY <1>2 DEF HeadSeq
  <2> QED BY <1>2, <2>1, <2>2 DEF IndInv, HeadsInv
<1>5. RecordedOnce'
  BY <1>2 DEF IndInv, TypeOK, RecordedOnce
<1>6. IsChain(n)' /\ Linked' /\ Paid(n)'
  BY <1>1, <1>2, TableUnchanged DEF Paid
<1> QED BY <1>3, <1>4, <1>5, <1>6 DEF IndInv

LEMMA NextPreserves == IndInv /\ [Next]_vars => IndInv'
<1> SUFFICES ASSUME IndInv, [Next]_vars PROVE IndInv'
  OBVIOUS
<1>1. CASE UNCHANGED vars
  <2>1. UNCHANGED <<events, pc, head, attempt, busy>>
    BY <1>1 DEF vars
  <2>2. TypeOK' /\ RecordedOnce'
    BY <2>1 DEF IndInv, TypeOK, RecordedOnce, AuditEvent, compute_event_hash
  <2>3. HeadsInv'
    BY <2>1 DEF IndInv, HeadsInv, HeadSeq
  <2>4. Linked' /\ \E n \in Nat : IsChain(n)' /\ Paid(n)'
    BY <2>1, TableUnchanged DEF IndInv, Paid
  <2> QED BY <2>2, <2>3, <2>4 DEF IndInv
<1>2. CASE \E c \in Calls : Record(c) \/ Crash(c)
  BY <1>2, ReadHeadPreserves, CommitSucceedsPreserves, RetryPreserves, EndPreserves
     DEF Record
<1> QED BY <1>1, <1>2 DEF Next, AllFinished

\* IndInv holds in every reachable state of record()'s concurrent calls.
THEOREM Invariance == Spec => []IndInv
BY InitEstablishes, NextPreserves, PTL DEF Spec

\* Concurrent record() calls never fork the chain and never leave a gap.
THEOREM ChainIsContiguous == Spec => []Contiguous
<1>1. ASSUME IndInv PROVE Contiguous
  <2>1. PICK n \in Nat : IsChain(n)
    BY <1>1 DEF IndInv
  <2>2. ASSUME NEW r \in events, r.seq > 1 PROVE \E s \in events : s.seq + 1 = r.seq
    <3>1. r.seq \in 1 .. n /\ r.seq - 1 \in 1 .. n
      BY <2>1, <2>2 DEF IsChain
    <3>2. PICK s \in events : s.seq = r.seq - 1
      BY <2>1, <3>1 DEF IsChain
    <3> QED BY <3>1, <3>2
  <2> QED BY <2>1, <2>2 DEF IsChain, Contiguous
<1> QED BY <1>1, Invariance, PTL

\* A returned call is in the chain exactly once, one that gave up never is.
THEOREM CallsRecordedOnce == Spec => []RecordedOnce
<1>1. IndInv => RecordedOnce
  BY DEF IndInv
<1> QED BY <1>1, Invariance, PTL

\* An attempt is lost only to an event that others added to the chain.
THEOREM RacesArePaidFor == Spec => []LostRacesArePaidFor
<1>1. IndInv => LostRacesArePaidFor
  BY ChainHeadIs DEF IndInv, Paid, LostRacesArePaidFor
<1> QED BY <1>1, Invariance, PTL

\* The link of a row is compared with the newest row below it.
LEMMA LinkBelow ==
    ASSUME NEW rows, \A x \in rows : x.seq \in Nat, NEW r, NEW q \in rows, q.seq < r.seq,
           \A s \in rows : s.seq < r.seq => s.seq <= q.seq /\ (s.seq = q.seq => s = q)
    PROVE  expected_previous(rows, r) = q.event_hash
<1>1. chain_head({s \in rows : s.seq < r.seq}) = {q}
  BY DEF chain_head
<1> QED BY <1>1, SingletonHead DEF expected_previous

\* What the table of record() alone looks like to the scan.
LEMMA ChainIsSound ==
    ASSUME IndInv
    PROVE  /\ \A r \in events : r.previous_hash = expected_previous(events, r)
           /\ \A r \in events : r.event_hash = compute_event_hash(r.seq, r.call, r.previous_hash)
<1>1. PICK n \in Nat : IsChain(n)
  BY DEF IndInv
<1>2. ASSUME NEW r \in events PROVE r.previous_hash = expected_previous(events, r)
  <2>1. CASE r.seq = 1
    <3>1. chain_head({s \in events : s.seq < r.seq}) = {}
      BY <1>1, <2>1 DEF IsChain, chain_head
    <3> QED BY <2>1, <3>1, EmptyHead DEF IndInv, Linked, expected_previous
  <2>2. CASE r.seq # 1
    <3>1. r.seq - 1 \in 1 .. n /\ r.seq \in 1 .. n
      BY <1>1, <2>2 DEF IsChain
    <3>2. PICK q \in events : q.seq = r.seq - 1
      BY <1>1, <3>1 DEF IsChain
    <3>3. expected_previous(events, r) = q.event_hash
      <4>1. \A s \in events : s.seq < r.seq => s.seq <= q.seq /\ (s.seq = q.seq => s = q)
        BY <1>1, <3>1, <3>2 DEF IsChain
      <4>2. \A x \in events : x.seq \in Nat
        BY <1>1 DEF IsChain
      <4> QED BY <3>1, <3>2, <4>1, <4>2, LinkBelow
    <3> QED BY <3>1, <3>2, <3>3 DEF IndInv, Linked
  <2> QED BY <2>1, <2>2
<1>3. ASSUME NEW r \in events
      PROVE  r.event_hash = compute_event_hash(r.seq, r.call, r.previous_hash)
  BY DEF IndInv, TypeOK, AuditEvent
<1> QED BY <1>2, <1>3

\* verify_chain never reports a break in a chain written by record() alone.
THEOREM ChainAlwaysVerifies == Spec => []NoFalseAlarm
<1>1. ASSUME IndInv PROVE NoFalseAlarm
  <2>1. hash_mismatch(events) = {} /\ broken_link(events) = {}
    BY <1>1, ChainIsSound DEF hash_mismatch, broken_link
  <2> QED BY <2>1 DEF NoFalseAlarm, verify_chain
<1> QED BY <1>1, Invariance, PTL

\* Committed events stay, and a new one goes on top.
THEOREM ChainIsAppendOnly == Spec => AppendOnly
<1> DEFINE Grows == /\ events \subseteq events'
                    /\ \A r \in events' \ events, s \in events : s.seq < r.seq
<1>1. ASSUME IndInv, NEW c \in Calls, CommitSucceeds(c) PROVE Grows
  <2>1. PICK n \in Nat : IsChain(n)
    BY <1>1 DEF IndInv
  <2>2. NewRow(c).seq = n + 1
    BY <1>1, <2>1, FreeSeqIsNext DEF AuditEvent
  <2>3. events' = events \cup {NewRow(c)}
    BY <1>1 DEF CommitSucceeds
  <2> QED BY <2>1, <2>2, <2>3 DEF IsChain
<1>2. IndInv /\ [Next]_vars => [Grows]_vars
  BY <1>1 DEF Next, Record, ReadHead, CommitLosesRace, Return, StatementFails,
              CommitMeetsLock, Crash, AllFinished, vars
<1> QED BY <1>2, Invariance, PTL DEF Spec, AppendOnly

-----------------------------------------------------------------------------
(* A chain that was changed behind record()'s back.                        *)

breaks(rows) == broken_link(rows) \cup hash_mismatch(rows)

\* The scan reports the lowest break.
LEMMA ScanStopsAt ==
    ASSUME NEW rows, \A x \in rows : x.seq \in Nat, NEW b \in breaks(rows),
           \A x \in breaks(rows) : b.seq <= x.seq
    PROVE  verify_chain(rows) = [status |-> "failed", broken_at_seq |-> b.seq]
<1> DEFINE First(n) == n \in Seqs(breaks(rows)) /\ \A m \in Seqs(breaks(rows)) : n <= m
<1>1. breaks(rows) \subseteq rows
  BY DEF breaks, broken_link, hash_mismatch
<1>2. Seqs(breaks(rows)) \subseteq Nat
  BY <1>1 DEF Seqs
<1>3. First(b.seq)
  BY DEF Seqs
<1>4. (CHOOSE n \in Seqs(breaks(rows)) : \A m \in Seqs(breaks(rows)) : n <= m) = b.seq
  BY <1>2, <1>3
<1>5. rows # {} /\ breaks(rows) # {}
  BY <1>1
<1> QED BY <1>4, <1>5 DEF verify_chain, breaks

\* Up to the row that was changed the scan finds what it found before.
LEMMA SoundBelow ==
    ASSUME IndInv, NEW rows, NEW k \in Nat, \A x \in rows : x.seq \in Nat,
           {s \in rows : s.seq < k} = {s \in events : s.seq < k}
    PROVE  /\ \A x \in breaks(rows) : k <= x.seq
           /\ \A x : x.seq = k => expected_previous(rows, x) = expected_previous(events, x)
<1>1. ASSUME NEW x, x.seq \in Nat, x.seq <= k
      PROVE  expected_previous(rows, x) = expected_previous(events, x)
  <2>1. \A s \in events : s.seq \in Nat
    BY DEF IndInv, TypeOK
  <2>2. {s \in rows : s.seq < x.seq} = {s \in events : s.seq < x.seq}
    BY <1>1, <2>1
  <2> QED BY <2>2 DEF expected_previous
<1>2. ASSUME NEW x \in rows, x.seq < k PROVE x \notin breaks(rows)
  <2>1. x \in events
    BY <1>2
  <2> QED BY <1>1, <1>2, <2>1, ChainIsSound DEF breaks, broken_link, hash_mismatch
<1> QED BY <1>1, <1>2 DEF breaks, broken_link, hash_mismatch

\* Contents edited in place: the hash of the row no longer matches.
LEMMA EditIsNoticed ==
    ASSUME IndInv, NEW r \in events, NEW c \in Calls \ {r.call}
    PROVE  LET edited == Replace(r, [r EXCEPT !.call = c])
           IN  /\ verify_chain(edited) = [status |-> "failed", broken_at_seq |-> r.seq]
               /\ verify_tenant_events(edited, TenantOf[c]) = "failed"
<1> DEFINE e == [r EXCEPT !.call = c]
           edited == Replace(r, e)
<1>1. /\ r.seq \in Nat
      /\ r = AuditEvent(r.seq, r.call, r.previous_hash)
      /\ \A s \in events : s.seq \in Nat /\ (s.seq = r.seq => s = r)
  BY DEF IndInv, TypeOK, IsChain
<1>2. /\ e.seq = r.seq /\ e.call = c
      /\ e.previous_hash = r.previous_hash /\ e.event_hash = r.event_hash
  BY <1>1 DEF AuditEvent
<1>3. e.event_hash # compute_event_hash(e.seq, e.call, e.previous_hash)
  BY <1>2, ChainIsSound DEF compute_event_hash
<1> HIDE DEF e
<1>4. e \in edited /\ e \in hash_mismatch(edited)
  BY <1>3 DEF Replace, hash_mismatch
<1>5. \A x \in breaks(edited) : r.seq <= x.seq
  <2>1. \A x \in edited : x.seq \in Nat
    BY <1>1, <1>2 DEF Replace
  <2>2. {s \in edited : s.seq < r.seq} = {s \in events : s.seq < r.seq}
    BY <1>1, <1>2 DEF Replace
  <2> HIDE DEF edited
  <2> QED BY <1>1, <2>1, <2>2, SoundBelow
<1>6. verify_chain(edited) = [status |-> "failed", broken_at_seq |-> r.seq]
  <2>1. \A x \in edited : x.seq \in Nat
    BY <1>1, <1>2 DEF Replace
  <2>2. e \in breaks(edited)
    BY <1>4 DEF breaks
  <2> HIDE DEF edited
  <2> QED BY <1>2, <1>5, <2>1, <2>2, ScanStopsAt
<1>7. verify_tenant_events(edited, TenantOf[c]) = "failed"
  <2> DEFINE mine == {x \in edited : TenantOf[x.call] = TenantOf[c]}
  <2>1. e \in mine /\ e \in hash_mismatch(mine)
    BY <1>2, <1>3, <1>4 DEF hash_mismatch
  <2>2. mine # {} /\ hash_mismatch(mine) # {}
    BY <2>1
  <2> QED BY <2>2 DEF verify_tenant_events
<1> QED BY <1>6, <1>7 DEF e

\* The row above r, which r does not have as the newest.
LEMMA RowAbove ==
    ASSUME IndInv, NEW r \in events, r.seq < HeadSeq(chain_head(events))
    PROVE  \E q \in events : q.seq = r.seq + 1 /\ q.previous_hash = r.event_hash
<1>1. PICK n \in Nat : IsChain(n)
  BY DEF IndInv
<1>2. HeadSeq(chain_head(events)) = n
  BY <1>1, ChainHeadIs
<1>3. r.seq + 1 \in 1 .. n
  BY <1>1, <1>2 DEF IsChain
<1> QED BY <1>1, <1>3 DEF IsChain, IndInv, Linked

\* Contents edited and the hash recomputed: the link of the next row is broken.
LEMMA ForgeryIsNoticed ==
    ASSUME IndInv, NEW r \in events, NEW c \in Calls \ {r.call},
           r.seq < HeadSeq(chain_head(events))
    PROVE  verify_chain(Replace(r, AuditEvent(r.seq, c, r.previous_hash))) =
             [status |-> "failed", broken_at_seq |-> r.seq + 1]
<1> DEFINE f == AuditEvent(r.seq, c, r.previous_hash)
           forged == Replace(r, f)
<1>1. /\ r.seq \in Nat
      /\ \A s \in events : s.seq \in Nat /\ (s.seq = r.seq => s = r)
  BY DEF IndInv, TypeOK, IsChain
<1>2. /\ f.seq = r.seq /\ f.call = c /\ f.previous_hash = r.previous_hash
      /\ f.event_hash = compute_event_hash(f.seq, f.call, f.previous_hash)
  BY DEF AuditEvent
<1>3. f.event_hash # r.event_hash
  BY <1>2, ChainIsSound DEF compute_event_hash
<1> HIDE DEF f
<1>4. PICK q \in events : q.seq = r.seq + 1 /\ q.previous_hash = r.event_hash
  BY RowAbove
<1>5. f \in forged /\ q \in forged /\ \A x \in forged : x.seq \in Nat
  BY <1>1, <1>2, <1>4 DEF Replace
<1>6. \A s \in forged : s.seq = r.seq => s = f
  BY <1>1 DEF Replace
<1>7. {s \in forged : s.seq < r.seq} = {s \in events : s.seq < r.seq}
  BY <1>1, <1>2 DEF Replace
<1> HIDE DEF forged
<1>8. f \notin breaks(forged)
  <2>1. expected_previous(forged, f) = expected_previous(events, f)
    BY <1>1, <1>2, <1>5, <1>7, SoundBelow
  <2>2. expected_previous(events, f) = expected_previous(events, r)
    BY <1>2 DEF expected_previous
  <2> QED BY <1>2, <2>1, <2>2, ChainIsSound DEF breaks, broken_link, hash_mismatch
<1>9. \A x \in breaks(forged) : r.seq + 1 <= x.seq
  <2>1. \A x \in breaks(forged) : r.seq <= x.seq
    BY <1>1, <1>5, <1>7, SoundBelow
  <2>2. breaks(forged) \subseteq forged
    BY DEF breaks, broken_link, hash_mismatch
  <2> QED BY <1>1, <1>5, <1>6, <1>8, <2>1, <2>2
<1>10. expected_previous(forged, q) = f.event_hash
  <2>1. \A s \in forged : s.seq < q.seq => s.seq <= f.seq /\ (s.seq = f.seq => s = f)
    BY <1>1, <1>2, <1>4, <1>5, <1>6
  <2>2. f.seq < q.seq
    BY <1>1, <1>2, <1>4
  <2> QED BY <1>5, <2>1, <2>2, LinkBelow
<1>11. q \in breaks(forged)
  BY <1>3, <1>4, <1>5, <1>10 DEF breaks, broken_link
<1>12. verify_chain(forged) = [status |-> "failed", broken_at_seq |-> r.seq + 1]
  BY <1>4, <1>5, <1>9, <1>11, ScanStopsAt
<1> QED BY <1>12 DEF forged, f

\* The event deleted: the link of the next row is broken.
LEMMA DeletionIsNoticed ==
    ASSUME IndInv, NEW r \in events, r.seq < HeadSeq(chain_head(events))
    PROVE  verify_chain(events \ {r}) = [status |-> "failed", broken_at_seq |-> r.seq + 1]
<1> DEFINE rest == events \ {r}
<1>1. /\ r.seq \in Nat \ {0}
      /\ r.event_hash = <<r.seq, r.call, r.previous_hash>>
      /\ \A s \in events : s.seq \in Nat /\ (s.seq = r.seq => s = r)
  BY ChainIsSound DEF IndInv, TypeOK, IsChain, compute_event_hash
<1>2. PICK q \in events : q.seq = r.seq + 1 /\ q.previous_hash = r.event_hash
  BY RowAbove
<1>3. q \in rest /\ \A x \in rest : x.seq \in Nat /\ x.seq # r.seq
  BY <1>1, <1>2
<1>4. {s \in rest : s.seq < r.seq} = {s \in events : s.seq < r.seq}
  BY <1>1
<1>5. expected_previous(rest, q) = expected_previous(events, r)
  <2>1. {s \in rest : s.seq < q.seq} = {s \in events : s.seq < r.seq}
    BY <1>1, <1>2
  <2> QED BY <2>1 DEF expected_previous
<1>6. r.previous_hash # r.event_hash
  <2>1. PICK n \in Nat : IsChain(n)
    BY DEF IndInv
  <2>2. CASE r.seq = 1
    <3>1. r.previous_hash = <<>>
      BY <2>2 DEF IndInv, Linked, GENESIS_HASH
    <3> QED BY <1>1, <3>1
  <2>3. CASE r.seq # 1
    <3>1. r.seq - 1 \in 1 .. n
      BY <1>1, <2>1, <2>3 DEF IsChain
    <3>2. PICK p \in events : p.seq = r.seq - 1
      BY <2>1, <3>1 DEF IsChain
    <3>3. r.previous_hash = p.event_hash
      BY <1>1, <3>2 DEF IndInv, Linked
    <3>4. p.event_hash = <<p.seq, p.call, p.previous_hash>>
      BY ChainIsSound DEF compute_event_hash
    <3> QED BY <1>1, <3>2, <3>3, <3>4
  <2> QED BY <2>2, <2>3
<1> HIDE DEF rest
<1>7. q \in breaks(rest)
  BY <1>2, <1>3, <1>5, <1>6, ChainIsSound DEF breaks, broken_link
<1>8. \A x \in breaks(rest) : r.seq + 1 <= x.seq
  <2>1. \A x \in breaks(rest) : r.seq <= x.seq
    BY <1>1, <1>3, <1>4, SoundBelow
  <2>2. breaks(rest) \subseteq rest
    BY DEF breaks, broken_link, hash_mismatch
  <2> QED BY <1>1, <1>3, <2>1, <2>2
<1>9. verify_chain(rest) = [status |-> "failed", broken_at_seq |-> r.seq + 1]
  BY <1>2, <1>3, <1>7, <1>8, ScanStopsAt
<1> QED BY <1>9 DEF rest

\* Every edit, forgery or deletion of one event is found at the right place.
THEOREM TamperingIsEvident == Spec => []TamperEvident
<1>1. IndInv => TamperEvident
  BY EditIsNoticed, ForgeryIsNoticed, DeletionIsNoticed DEF TamperEvident
<1> QED BY <1>1, Invariance, PTL

-----------------------------------------------------------------------------
(* The refinement of AuditLog.                                             *)

\* The chain read as a log: position n holds the call of the row with seq n.
LEMMA LogOfChain ==
    ASSUME NEW rows, NEW n \in Nat,
           \A r \in rows : r.seq \in 1 .. n /\ r.call \in Calls,
           \A i \in 1 .. n : \E r \in rows : r.seq = i,
           \A r, s \in rows : r.seq = s.seq => r = s
    PROVE  /\ LogOf(rows) \in [1 .. n -> Calls]
           /\ \A r \in rows : LogOf(rows)[r.seq] = r.call
<1>1. Seqs(rows) = 1 .. n
  BY DEF Seqs
<1>2. ASSUME NEW i \in 1 .. n
      PROVE  (CHOOSE r \in rows : r.seq = i) \in {r \in rows : r.seq = i}
  <2>1. PICK q \in rows : q.seq = i
    OBVIOUS
  <2> QED BY <2>1
<1>3. LogOf(rows) \in [1 .. n -> Calls]
  BY <1>1, <1>2 DEF LogOf
<1>4. ASSUME NEW r \in rows PROVE LogOf(rows)[r.seq] = r.call
  <2>1. r.seq \in 1 .. n
    OBVIOUS
  <2>2. (CHOOSE q \in rows : q.seq = r.seq) = r
    BY <2>1, <1>2
  <2> QED BY <1>1, <2>1, <2>2 DEF LogOf
<1> QED BY <1>3, <1>4

\* A successful commit is an atomic append to the log.
LEMMA CommitAppends ==
    ASSUME IndInv, NEW c \in Calls, CommitSucceeds(c) PROVE Log!AppendEvent(c)
<1>1. PICK n \in Nat : IsChain(n)
  BY DEF IndInv
<1> DEFINE new == NewRow(c)
<1>2. new.seq = n + 1 /\ new.call = c
  <2>1. new = AuditEvent(n + 1, c, HeadHash(head[c]))
    BY <1>1, FreeSeqIsNext
  <2> QED BY <2>1 DEF AuditEvent
<1>3. events' = events \cup {new}
  BY DEF CommitSucceeds
<1> HIDE DEF new
<1>4. \A r \in events : r.seq \in 1 .. n /\ r.call \in Calls
  BY <1>1 DEF IndInv, TypeOK, IsChain
<1>5. logBar \in [1 .. n -> Calls] /\ \A r \in events : logBar[r.seq] = r.call
  BY <1>1, <1>4, LogOfChain DEF IsChain, logBar
<1>6. logBar' \in [1 .. n + 1 -> Calls] /\ \A r \in events' : logBar'[r.seq] = r.call
  <2>1. \A r \in events' : r.seq \in 1 .. n + 1 /\ r.call \in Calls
    BY <1>2, <1>3, <1>4
  <2>2. \A i \in 1 .. n + 1 : \E r \in events' : r.seq = i
    BY <1>1, <1>2, <1>3 DEF IsChain
  <2>3. \A r, s \in events' : r.seq = s.seq => r = s
    BY <1>1, <1>2, <1>3 DEF IsChain
  <2> QED BY <2>1, <2>2, <2>3, LogOfChain DEF logBar
<1>7. logBar' = Append(logBar, c)
  <2>1. Len(logBar) = n /\ logBar \in Seq(Calls)
    BY <1>5
  <2>2. ASSUME NEW i \in 1 .. n PROVE logBar'[i] = logBar[i]
    <3>1. PICK r \in events : r.seq = i
      BY <1>1 DEF IsChain
    <3> QED BY <3>1, <1>3, <1>5, <1>6
  <2>3. logBar'[n + 1] = c
    BY <1>2, <1>3, <1>6
  <2> QED BY <1>6, <2>1, <2>2, <2>3
<1>8. statusBar[c] = "pending" /\ statusBar' = [statusBar EXCEPT ![c] = "appended"]
  <2>1. pc[c] = "commit" /\ pc' = [pc EXCEPT ![c] = "refresh"] /\ DOMAIN pc = Calls
    BY DEF CommitSucceeds, IndInv, TypeOK
  <2>2. \A d \in Calls \ {c} : Logged(d)' = Logged(d)
    BY <1>2, <1>3 DEF Logged
  <2> QED BY <2>1, <2>2 DEF statusBar
<1> QED BY <1>7, <1>8 DEF Log!AppendEvent

\* Every other step resolves a call or changes nothing that callers see.
LEMMA OthersResolve ==
    ASSUME IndInv, NEW c \in Calls,
           Record(c) \/ Crash(c), ~ CommitSucceeds(c)
    PROVE  Log!Resolve(c) \/ UNCHANGED Log!logVars
<1>1. UNCHANGED logBar /\ \A d \in Calls : Logged(d)' = Logged(d)
  <2>1. UNCHANGED events
    BY DEF Record, Crash, ReadHead, CommitLosesRace, Return, StatementFails,
           CommitMeetsLock
  <2> QED BY <2>1 DEF logBar, LogOf, Seqs, Logged
<1>2. PICK e \in {"read", "commit", "returned", "exhausted", "errored", "crashed"} :
        /\ pc' = [pc EXCEPT ![c] = e]
        /\ e \in {"read", "commit"} => pc[c] \in {"read", "commit"}
        /\ e = "exhausted" => pc[c] \in {"read", "commit"}
        /\ e = "returned" => pc[c] = "refresh"
        /\ pc[c] \in {"read", "commit", "refresh"}
  BY DEF Record, Crash, ReadHead, CommitLosesRace, Return, StatementFails,
         CommitMeetsLock, NextAttempt
<1>3. DOMAIN pc = Calls
  BY DEF IndInv, TypeOK
<1>4. /\ pc[c] \in {"read", "commit"} => ~ Logged(c)
      /\ pc[c] = "refresh" => Logged(c)
  BY DEF IndInv, RecordedOnce, Logged
<1>5. CASE e \in {"read", "commit"}
  <2>1. statusBar' = statusBar
    BY <1>1, <1>2, <1>3, <1>5 DEF statusBar
  <2> QED BY <1>1, <2>1 DEF Log!logVars
<1>6. CASE e = "returned"
  <2>1. statusBar[c] = "appended" /\ statusBar' = [statusBar EXCEPT ![c] = "returned"]
    BY <1>1, <1>2, <1>3, <1>6 DEF statusBar
  <2> QED BY <1>1, <2>1 DEF Log!Resolve
<1>7. CASE e \in {"exhausted", "errored", "crashed"}
  <2>1. CASE pc[c] = "refresh"
    <3>1. statusBar[c] = "appended" /\ statusBar' = [statusBar EXCEPT ![c] = "unknown"]
      BY <1>1, <1>2, <1>3, <1>4, <1>7, <2>1 DEF statusBar
    <3> QED BY <1>1, <3>1 DEF Log!Resolve
  <2>2. CASE pc[c] \in {"read", "commit"}
    <3>1. statusBar[c] = "pending" /\ statusBar' = [statusBar EXCEPT ![c] = "failed"]
      BY <1>1, <1>2, <1>3, <1>4, <1>7, <2>2 DEF statusBar
    <3> QED BY <1>1, <3>1 DEF Log!Resolve
  <2> QED BY <1>2, <2>1, <2>2
<1> QED BY <1>2, <1>5, <1>6, <1>7

\* Concurrent record() calls are linearizable appends to one log.
THEOREM RecordImplementsLog == Spec => ImplementsLog
<1>1. Init => Log!Init
  BY DEF Init, Log!Init, logBar, LogOf, Seqs, statusBar
<1>2. ASSUME IndInv, [Next]_vars PROVE [Log!Next]_(Log!logVars)
  <2>1. CASE UNCHANGED vars
    BY <2>1 DEF vars, logBar, LogOf, Seqs, statusBar, Logged, Log!logVars
  <2>2. CASE \E c \in Calls : Record(c) \/ Crash(c)
    BY <1>2, <2>2, CommitAppends, OthersResolve DEF Log!Next
  <2> QED BY <1>2, <2>1, <2>2 DEF Next, AllFinished
<1> QED BY <1>1, <1>2, Invariance, PTL DEF Spec, ImplementsLog, Log!Spec
=============================================================================
