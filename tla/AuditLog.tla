------------------------------ MODULE AuditLog ------------------------------
(***************************************************************************)
(* What services/audit_service.py promises to its callers: record() appends *)
(* the event of the call to one global log, atomically and at most once.    *)
(* A call that returns has its event in the log; a call that gives up with  *)
(* RuntimeError has not; a call whose process dies, or that fails after its *)
(* commit, leaves its caller not knowing.                                   *)
(***************************************************************************)
EXTENDS Sequences

CONSTANT Calls      \* the invocations of record(), each carrying one event

VARIABLES log,      \* the events in the order of the chain
          status    \* what each call has come to

logVars == <<log, status>>

Init == log = <<>> /\ status = [c \in Calls |-> "pending"]

\* The event becomes durable: the one step of a call that changes the log.
AppendEvent(c) ==
    /\ status[c] = "pending"
    /\ log' = Append(log, c)
    /\ status' = [status EXCEPT ![c] = "appended"]

\* The caller learns the outcome, or never does.
Resolve(c) ==
    /\ \/ status[c] = "pending"  /\ status' = [status EXCEPT ![c] = "failed"]
       \/ /\ status[c] = "appended"
          /\ \E s \in {"returned", "unknown"} : status' = [status EXCEPT ![c] = s]
    /\ UNCHANGED log

Next == \E c \in Calls : AppendEvent(c) \/ Resolve(c)

Spec == Init /\ [][Next]_logVars
=============================================================================
