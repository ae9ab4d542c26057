--------------------------- MODULE PolicyVersions ---------------------------
(***************************************************************************)
(* The policy version registry: services/policy_version_service.py, the    *)
(* routes of app/api/policies.py that call it, and the seeding that        *)
(* app/main.py runs each time the API process starts.                      *)
(*                                                                         *)
(* Every route runs in a thread of the API process with a database session *)
(* of its own, so the reads of one activation interleave with the commits  *)
(* of another.  A session writes, at its commit, only the columns whose    *)
(* value differs from the one it loaded.                                   *)
(*                                                                         *)
(* One policy name is modelled (DEFAULT_POLICY_NAME): no operation relates *)
(* versions of two names.  is_active is always written together with       *)
(* status and is folded into it; effective_to is kept as "ended" (the      *)
(* column is not NULL); rules and provenance are left out.  The audit      *)
(* events that follow a commit are read by nothing here, so a request ends *)
(* with its commit, whether they are recorded or given up; a rollback is   *)
(* an activation that records one event more.                              *)
(***************************************************************************)
EXTENDS Integers, FiniteSets

CONSTANTS Rows,        \* primary keys of governance_policies
          Tenants,     \* tenants
          System,      \* tenant_id NULL: the system default, the unscoped operator
          Labels,      \* the "version" column
          V1,          \* the label "v1" of the seeded default
          Calls,       \* threads that serve requests
          Serial,      \* TRUE: requests come one at a time
          Restarts     \* TRUE: the API process may stop and start again

ASSUME SystemAssumption == System \notin Tenants
ASSUME V1Assumption == V1 \in Labels
ASSUME FlagsAssumption == Serial \in BOOLEAN /\ Restarts \in BOOLEAN

VARIABLES server,      \* the API process: "down", "up", or "failed" (startup raised)
          policies,    \* the table governance_policies
          rq           \* the request each thread is serving

vars == <<server, policies, rq>>

Scopes == Tenants \cup {System}

GovernancePolicy == [tenant : Scopes, label : Labels,
                     status : {"draft", "active", "superseded"}, ended : BOOLEAN]

NoRow == [status |-> "none"]

Idle == [pc |-> "idle"]

Requests ==
  {Idle}
    \cup [pc : {"active"}, tenant : Scopes, row : Rows, loaded : GovernancePolicy]
    \cup [pc : {"commit"}, tenant : Scopes, row : Rows, loaded : GovernancePolicy,
          others : SUBSET Rows]

(***************************************************************************)
(* Every column and every request stays in its domain.                     *)
(***************************************************************************)
TypeOK ==
  /\ server \in {"down", "up", "failed"}
  /\ policies \in [Rows -> GovernancePolicy \cup {NoRow}]
  /\ rq \in [Calls -> Requests]

-----------------------------------------------------------------------------
(***************************************************************************)
(* The queries.                                                            *)
(***************************************************************************)
Present == {v \in Rows : policies[v] # NoRow}

_active_versions(t) ==
  {v \in Present : policies[v].tenant = t /\ policies[v].status = "active"}

\* Variant: the tenant scope is not applied.
MutGetVersionUnscoped(t) == Present

\* get_version through _scoped: the operator (System) sees every tenant's rows.
get_version(t) == {v \in Present : t # System => policies[v].tenant = t}

\* The rows get_active may return: it takes the first of a query that has no
\* order, from the tenant's own versions if any is active, else the system's.
get_active(t) ==
  IF _active_versions(t) # {} THEN _active_versions(t) ELSE _active_versions(System)

-----------------------------------------------------------------------------
Init ==
  /\ server = "down"
  /\ policies = [v \in Rows |-> NoRow]
  /\ rq = [c \in Calls |-> Idle]

\* A request may arrive: the server is up and the thread is free.
MayCall(c) ==
  /\ server = "up"
  /\ rq[c].pc = "idle"
  /\ Serial => \A d \in Calls : rq[d].pc = "idle"

\* POST /policies: create_version inserts a draft; the unique constraint on
\* (tenant_id, name, version) does not bind rows whose tenant_id is NULL.
create_version(c) ==
  \E t \in Scopes, l \in Labels, v \in Rows \ Present :
    /\ MayCall(c)
    /\ t # System => \A w \in Present : <<policies[w].tenant, policies[w].label>> # <<t, l>>
    /\ policies' = [policies EXCEPT ![v] =
                      [tenant |-> t, label |-> l, status |-> "draft", ended |-> FALSE]]
    /\ UNCHANGED <<server, rq>>

\* POST /policies/{id}/activate and /rollback: get_version loads the row (a
\* rollback loads it first too, and activate then finds it in the session).
LoadVersion(c) ==
  \E t \in Scopes, v \in Rows :
    /\ MayCall(c)
    /\ v \in get_version(t)
    /\ rq' = [rq EXCEPT ![c] = [pc |-> "active", tenant |-> t, row |-> v,
                                loaded |-> policies[v]]]
    /\ UNCHANGED <<server, policies>>

\* Variant: the versions to supersede are looked up in the caller's scope.
MutReadActiveOfCaller(c) ==
  /\ rq[c].pc = "active"
  /\ rq' = [rq EXCEPT ![c] =
              [pc |-> "commit", tenant |-> @.tenant, row |-> @.row, loaded |-> @.loaded,
               others |-> _active_versions(@.tenant) \ {@.row}]]
  /\ UNCHANGED <<server, policies>>

\* activate reads the versions it will supersede.
ReadActive(c) ==
  /\ rq[c].pc = "active"
  /\ rq' = [rq EXCEPT ![c] =
              [pc |-> "commit", tenant |-> @.tenant, row |-> @.row, loaded |-> @.loaded,
               others |-> _active_versions(@.loaded.tenant) \ {@.row}]]
  /\ UNCHANGED <<server, policies>>

\* A column of the activated row after the commit: rewritten only where the
\* new value differs from the loaded one.
Written(loaded, now, new) == IF loaded = new THEN now ELSE new

\* Variant: effective_to of the activated version is not reset.
MutCommitKeepsEnd(c) ==
  LET r == rq[c] IN
  /\ r.pc = "commit"
  /\ policies' = [v \in Rows |->
       IF v \in r.others
       THEN [policies[v] EXCEPT !.status = "superseded", !.ended = TRUE]
       ELSE IF v = r.row
       THEN [policies[v] EXCEPT !.status = Written(r.loaded.status, @, "active")]
       ELSE policies[v]]
  /\ rq' = [rq EXCEPT ![c] = Idle]
  /\ UNCHANGED server

\* Variant: the versions replaced go back to draft.
MutCommitBackToDraft(c) ==
  LET r == rq[c] IN
  /\ r.pc = "commit"
  /\ policies' = [v \in Rows |->
       IF v \in r.others
       THEN [policies[v] EXCEPT !.status = "draft"]
       ELSE IF v = r.row
       THEN [policies[v] EXCEPT !.status = Written(r.loaded.status, @, "active"),
                                !.ended = Written(r.loaded.ended, @, FALSE)]
       ELSE policies[v]]
  /\ rq' = [rq EXCEPT ![c] = Idle]
  /\ UNCHANGED server

\* activate commits: the others superseded and ended, this one active and open.
CommitActivate(c) ==
  LET r == rq[c] IN
  /\ r.pc = "commit"
  /\ policies' = [v \in Rows |->
       IF v \in r.others
       THEN [policies[v] EXCEPT !.status = "superseded", !.ended = TRUE]
       ELSE IF v = r.row
       THEN [policies[v] EXCEPT !.status = Written(r.loaded.status, @, "active"),
                                !.ended = Written(r.loaded.ended, @, FALSE)]
       ELSE policies[v]]
  /\ rq' = [rq EXCEPT ![c] = Idle]
  /\ UNCHANGED server

-----------------------------------------------------------------------------
\* The rows seed_default_policy looks for.
Defaults == {v \in Present : policies[v].tenant = System /\ policies[v].label = V1}

\* The process stops: requests in flight are lost.
Stop ==
  /\ Restarts
  /\ server = "up"
  /\ server' = "down"
  /\ rq' = [c \in Calls |-> Idle]
  /\ UNCHANGED policies

\* seed_default_policy at startup: insert the default,
SeedInsert ==
  /\ server # "up"
  /\ Defaults = {}
  /\ \E v \in Rows \ Present :
       policies' = [policies EXCEPT ![v] =
         [tenant |-> System, label |-> V1, status |-> "active", ended |-> FALSE]]
  /\ server' = "up"
  /\ UNCHANGED rq

\* or make the one found active again,
SeedReactivate ==
  /\ server # "up"
  /\ \E v \in Rows :
       /\ Defaults = {v}
       /\ policies' = [policies EXCEPT ![v].status = "active"]
  /\ server' = "up"
  /\ UNCHANGED rq

\* or raise when scalar_one_or_none finds several.
SeedRaises ==
  /\ server # "up"
  /\ Cardinality(Defaults) > 1
  /\ server' = "failed"
  /\ UNCHANGED <<policies, rq>>

Serve(c) ==
  \/ create_version(c)
  \/ LoadVersion(c)
  \/ ReadActive(c)
  \/ CommitActivate(c)

Next ==
  \/ \E c \in Calls : Serve(c)
  \/ Stop
  \/ SeedInsert
  \/ SeedReactivate
  \/ SeedRaises

Spec == Init /\ [][Next]_vars

-----------------------------------------------------------------------------
(***************************************************************************)
(* "Make a version active; supersede the prior active version for          *)
(* (tenant, name)": when requests come one at a time, no tenant ever has   *)
(* two active versions, whatever its sequence of creations, activations,   *)
(* rollbacks and restarts.                                                 *)
(***************************************************************************)
TenantOneActive == \A t \in Tenants : Cardinality(_active_versions(t)) <= 1

(***************************************************************************)
(* The same promise of activate for every scope, the system default too.   *)
(***************************************************************************)
OneActivePerScope == \A t \in Scopes : Cardinality(_active_versions(t)) <= 1

(***************************************************************************)
(* A tenant's version has an end date exactly when it is superseded: the   *)
(* status and effective_to columns, written by different branches of       *)
(* activate, tell the same story.                                          *)
(***************************************************************************)
WindowMatchesStatus ==
  \A v \in Present :
    policies[v].tenant \in Tenants => (policies[v].ended <=> policies[v].status = "superseded")

(***************************************************************************)
(* While the API serves, every tenant's governance review finds a version  *)
(* to bind to: seeding ensures that a system default is active "so the     *)
(* workflow always binds to a real version".                               *)
(***************************************************************************)
AlwaysBinds == server = "up" => \A t \in Scopes : get_active(t) # {}

(***************************************************************************)
(* Rollback is forward-only: no step removes a version, gives it to        *)
(* another tenant, relabels it or makes it a draft again.                  *)
(***************************************************************************)
ForwardOnly ==
  [][\A v \in Present :
       /\ policies'[v] # NoRow
       /\ policies'[v].tenant = policies[v].tenant
       /\ policies'[v].label = policies[v].label
       /\ policies'[v].status = "draft" => policies[v].status = "draft"]_vars

(***************************************************************************)
(* Tenant isolation: a version changes only by a request of its own tenant *)
(* or of the operator, or, for a system default, by the startup seeding.   *)
(***************************************************************************)
ScopeKept ==
  [][\A v \in Present :
       policies'[v] # policies[v] =>
         \/ \E c \in Calls : rq[c].pc = "commit" /\ rq[c].tenant \in {System, policies[v].tenant}
         \/ server # "up" /\ policies[v].tenant = System]_vars

=============================================================================
