----------------------------- MODULE AuditChain -----------------------------
(***************************************************************************)
(* The tamper-evident audit chain of services/audit_service.py: record(),   *)
(* _chain_head(), verify_chain() and verify_tenant_events() over the table  *)
(* audit_events of db/models.py.                                            *)
(*                                                                         *)
(* Every invocation of record() is a process of its own: API requests run   *)
(* in a thread pool and the worker in another operating-system process.     *)
(* The read of the chain head and the commit of the new row are two steps;  *)
(* in between any other call may commit.  The database is external: a       *)
(* commit is atomic, UNIQUE(seq) makes it fail with IntegrityError, and a   *)
(* locked SQLite file makes any statement fail with OperationalError.       *)
(*                                                                         *)
(* The descriptive fields of an event (action, resource, actor, metadata,   *)
(* created_at, ...) are abstracted to the call that wrote it, of which only *)
(* the tenant is told apart.  SHA-256 over the canonical JSON is the tuple  *)
(* of what goes into it: two payloads hash alike exactly when they agree.   *)
(***************************************************************************)
EXTENDS Naturals, FiniteSets

CONSTANTS Calls,        \* the invocations of record()
          TenantOf,     \* the tenant_id each of them passes
          MaxAttempts   \* _MAX_RECORD_ATTEMPTS

ASSUME MaxAttemptsAssumption == MaxAttempts \in Nat \ {0}

VARIABLES
    events,     \* rows of audit_events with an event_hash
    pc,         \* where each call is in record()
    head,       \* the chain head a call has read: a set with at most one row
    attempt,    \* the loop variable of record()
    busy        \* history: how many of its attempts met OperationalError

vars == <<events, pc, head, attempt, busy>>

GENESIS_HASH == <<>>

\* _canonical_payload + sha256: position, contents and link are all bound.
compute_event_hash(seq, call, previous_hash) == <<seq, call, previous_hash>>

AuditEvent(seq, call, previous_hash) ==
    [seq |-> seq, call |-> call, previous_hash |-> previous_hash,
     event_hash |-> compute_event_hash(seq, call, previous_hash)]

Seqs(rows) == {r.seq : r \in rows}

\* The row with the highest seq, as a set: empty for an empty chain.
chain_head(rows) == {r \in rows : \A s \in rows : s.seq <= r.seq}

HeadHash(h) == IF h = {} THEN GENESIS_HASH ELSE (CHOOSE r \in h : TRUE).event_hash
HeadSeq(h)  == IF h = {} THEN 0 ELSE (CHOOSE r \in h : TRUE).seq

\* The row an attempt of record() adds to its session.
NewRow(c) == AuditEvent(HeadSeq(head[c]) + 1, c, HeadHash(head[c]))

Init ==
    /\ events = {}
    /\ pc = [c \in Calls |-> "read"]
    /\ head = [c \in Calls |-> {}]
    /\ attempt = [c \in Calls |-> 0]
    /\ busy = [c \in Calls |-> 0]

-----------------------------------------------------------------------------
(* The steps of record().                                                  *)

\* A head that was read once, before the loop, and kept across attempts.
MutReadHeadOnce(c) ==
    /\ pc[c] = "read"
    /\ head' = IF attempt[c] = 0
                 THEN [head EXCEPT ![c] = chain_head(events)]
                 ELSE [head EXCEPT ![c] = {[r EXCEPT !.previous_hash = HeadHash(head[c]),
                                                    !.event_hash = HeadHash(head[c])]
                                             : r \in chain_head(events)}]
    /\ pc' = [pc EXCEPT ![c] = "commit"]
    /\ UNCHANGED <<events, attempt, busy>>

\* Top of the loop: read the head, build the row (no statement is sent yet).
ReadHead(c) ==
    /\ pc[c] = "read"
    /\ head' = [head EXCEPT ![c] = chain_head(events)]
    /\ pc' = [pc EXCEPT ![c] = "commit"]
    /\ UNCHANGED <<events, attempt, busy>>

\* The head read and the refresh are outside the try: their OperationalError
\* propagates to the caller of record().
StatementFails(c) ==
    /\ pc[c] \in {"read", "refresh"}
    /\ pc' = [pc EXCEPT ![c] = "errored"]
    /\ UNCHANGED <<events, head, attempt, busy>>

\* An insert that replaces the row holding the seq instead of failing.
MutCommitReplaces(c) ==
    /\ pc[c] = "commit"
    /\ events' = {r \in events : r.seq # NewRow(c).seq} \cup {NewRow(c)}
    /\ pc' = [pc EXCEPT ![c] = "refresh"]
    /\ UNCHANGED <<head, attempt, busy>>

\* A table without the UNIQUE constraint on seq.
MutCommitNoUnique(c) ==
    /\ pc[c] = "commit"
    /\ events' = events \cup {NewRow(c)}
    /\ pc' = [pc EXCEPT ![c] = "refresh"]
    /\ UNCHANGED <<head, attempt, busy>>

\* session.commit() with the seq still free: the row is durable.
CommitSucceeds(c) ==
    /\ pc[c] = "commit"
    /\ NewRow(c).seq \notin Seqs(events)
    /\ events' = events \cup {NewRow(c)}
    /\ pc' = [pc EXCEPT ![c] = "refresh"]
    /\ UNCHANGED <<head, attempt, busy>>

\* Variant: the last failed attempt is taken for a success.
MutNextAttemptSwallowed(c) ==
    /\ attempt' = [attempt EXCEPT ![c] = @ + 1]
    /\ pc' = [pc EXCEPT ![c] = IF attempt[c] + 1 < MaxAttempts
                                 THEN "read" ELSE "refresh"]

\* The end of an attempt that failed: rollback, then the next attempt, or
\* RuntimeError after the last.
NextAttempt(c) ==
    /\ attempt' = [attempt EXCEPT ![c] = @ + 1]
    /\ pc' = [pc EXCEPT ![c] = IF attempt[c] + 1 < MaxAttempts
                                 THEN "read" ELSE "exhausted"]

\* Another constraint of the table that also fails the commit and is retried.
MutLostRaceAnyway(c) ==
    /\ pc[c] = "commit"
    /\ NextAttempt(c)
    /\ UNCHANGED <<events, head, busy>>

\* IntegrityError: another call took the seq since the head was read.
CommitLosesRace(c) ==
    /\ pc[c] = "commit"
    /\ NewRow(c).seq \in Seqs(events)
    /\ NextAttempt(c)
    /\ UNCHANGED <<events, head, busy>>

\* A locked commit retried without counting the attempt.
MutLockNotCounted(c) ==
    /\ pc[c] = "commit"
    /\ pc' = [pc EXCEPT ![c] = "read"]
    /\ UNCHANGED <<events, head, attempt, busy>>

\* OperationalError: the database was locked; nothing was written.
CommitMeetsLock(c) ==
    /\ pc[c] = "commit"
    /\ NextAttempt(c)
    /\ busy' = [busy EXCEPT ![c] = @ + 1]
    /\ UNCHANGED <<events, head>>

\* session.refresh(row); return row.
Return(c) ==
    /\ pc[c] = "refresh"
    /\ pc' = [pc EXCEPT ![c] = "returned"]
    /\ UNCHANGED <<events, head, attempt, busy>>

\* The process running the call dies.
Crash(c) ==
    /\ pc[c] \in {"read", "commit", "refresh"}
    /\ pc' = [pc EXCEPT ![c] = "crashed"]
    /\ UNCHANGED <<events, head, attempt, busy>>

\* What the call does when it is scheduled.
Record(c) ==
    \/ ReadHead(c) \/ CommitSucceeds(c) \/ CommitLosesRace(c) \/ Return(c)
    \/ StatementFails(c) \/ CommitMeetsLock(c)

Finished == {"returned", "exhausted", "errored", "crashed"}

\* Every call has ended: the system is at rest.
AllFinished == (\A c \in Calls : pc[c] \in Finished) /\ UNCHANGED vars

Next == (\E c \in Calls : Record(c) \/ Crash(c)) \/ AllFinished

Spec == Init /\ [][Next]_vars

\* A call that is not killed is scheduled again and again.
FairSpec == Spec /\ \A c \in Calls : WF_vars(Record(c))

-----------------------------------------------------------------------------
(* verify_chain and verify_tenant_events, on any contents of the table.     *)

\* expected_previous when the scan in seq order reaches row r.
expected_previous(rows, r) == HeadHash(chain_head({s \in rows : s.seq < r.seq}))

MutBrokenLinks(rows) == {}

\* Rows at which the scan reports broken_link, and those at which it reports
\* hash_mismatch.
broken_link(rows) ==
    {r \in rows : r.previous_hash # expected_previous(rows, r)}

hash_mismatch(rows) ==
    {r \in rows : r.event_hash # compute_event_hash(r.seq, r.call, r.previous_hash)}

\* The scan stops at the first break: status, and the seq of that break.
verify_chain(rows) ==
    LET broken == broken_link(rows) \cup hash_mismatch(rows)
    IN  IF rows = {} THEN [status |-> "empty", broken_at_seq |-> 0]
        ELSE IF broken = {} THEN [status |-> "verified", broken_at_seq |-> 0]
        ELSE [status |-> "failed",
              broken_at_seq |-> CHOOSE n \in Seqs(broken) : \A m \in Seqs(broken) : n <= m]

\* Self-hashes of one tenant's rows; no links.
verify_tenant_events(rows, tenant) ==
    LET mine == {r \in rows : TenantOf[r.call] = tenant}
    IN  IF mine = {} THEN "empty"
        ELSE IF hash_mismatch(mine) = {} THEN "verified"
        ELSE "failed"

-----------------------------------------------------------------------------
(* Properties.                                                             *)

\* Type invariant.
TypeOK ==
    /\ \A r \in events : /\ r.seq \in Nat \ {0} /\ r.call \in Calls
                         /\ r = AuditEvent(r.seq, r.call, r.previous_hash)
    /\ pc \in [Calls -> {"read", "commit", "refresh"} \cup Finished]
    /\ \A c \in Calls : head[c] \subseteq events
    /\ DOMAIN head = Calls
    /\ attempt \in [Calls -> 0 .. MaxAttempts]
    /\ busy \in [Calls -> 0 .. MaxAttempts]

\* seqs are unique and contiguous from 1: concurrent record() calls, lost
\* races, locked commits and crashes never fork the chain nor leave a gap.
Contiguous ==
    /\ \A r, s \in events : r.seq = s.seq => r = s
    /\ \A r \in events : r.seq > 1 => \E s \in events : s.seq + 1 = r.seq

\* GET /audit/verify never raises a false alarm: whatever honest calls of
\* record() do concurrently, verify_chain never answers "failed".
NoFalseAlarm == verify_chain(events).status # "failed"

\* A call of record() is in the chain exactly once when it returned, never
\* when it raised RuntimeError, at most once when its caller cannot know.
RecordedOnce ==
    \A c \in Calls :
      /\ \A r, s \in events : r.call = c /\ s.call = c => r = s
      /\ pc[c] \in {"refresh", "returned"} => \E r \in events : r.call = c
      /\ pc[c] \in {"read", "commit", "exhausted"} => \A r \in events : r.call # c

\* Each attempt lost to another writer was paid for by a new event in the
\* chain: record() gives up only after MaxAttempts successes of others or
\* locked commits, so the bound of 50 cannot be used up by fewer writers.
LostRacesArePaidFor ==
    \A c \in Calls : attempt[c] - busy[c] <= HeadSeq(chain_head(events))

\* Committed events are never changed or removed, and a new event goes on top.
AppendOnly ==
    [][/\ events \subseteq events'
       /\ \A r \in events' \ events, s \in events : s.seq < r.seq]_vars

\* A row of the chain after a change made behind record()'s back.
Replace(r, new) == (events \ {r}) \cup {new}

\* verify_chain notices, at the right place, every change of one historical
\* event: contents edited in place; contents edited and the hash recomputed,
\* unless it is the newest event; the event deleted, unless it is the newest.
\* verify_tenant_events notices the first kind for the tenant it concerns.
TamperEvident ==
    \A r \in events :
      /\ \A c \in Calls \ {r.call} :
           LET edited == Replace(r, [r EXCEPT !.call = c])
               forged == Replace(r, AuditEvent(r.seq, c, r.previous_hash))
           IN  /\ verify_chain(edited) = [status |-> "failed", broken_at_seq |-> r.seq]
               /\ verify_tenant_events(edited, TenantOf[c]) = "failed"
               /\ r.seq < HeadSeq(chain_head(events)) =>
                    verify_chain(forged) = [status |-> "failed", broken_at_seq |-> r.seq + 1]
      /\ r.seq < HeadSeq(chain_head(events)) =>
           verify_chain(events \ {r}) = [status |-> "failed", broken_at_seq |-> r.seq + 1]

\* Every call of record() that keeps being scheduled comes to an end: it
\* never loops forever, however often it loses the race for a seq.
RecordTerminates == \A c \in Calls : <>(pc[c] \in Finished)

-----------------------------------------------------------------------------
(* record() implements the atomic append of AuditLog.                       *)

LogOf(rows) == [n \in Seqs(rows) |-> (CHOOSE r \in rows : r.seq = n).call]

logBar == LogOf(events)

Logged(c) == \E r \in events : r.call = c

statusBar ==
    [c \in Calls |->
       CASE pc[c] \in {"read", "commit"} -> "pending"
         [] pc[c] = "refresh"            -> "appended"
         [] pc[c] = "returned"           -> "returned"
         [] OTHER -> IF Logged(c) THEN "unknown" ELSE "failed"]

Log == INSTANCE AuditLog WITH log <- logBar, status <- statusBar

\* The interleaved read, commit and retry of concurrent calls look to their
\* callers like single atomic appends to one log.
ImplementsLog == Log!Spec
=============================================================================
