------------------------ MODULE PolicyVersionsProofs ------------------------
(***************************************************************************)
(* The policy registry for any number of rows, tenants and threads, with   *)
(* restarts.  What a request may do to a row holds however requests        *)
(* interleave; that at most one version of a tenant is active, and that a  *)
(* version is always found, holds when requests come one at a time.        *)
(***************************************************************************)
EXTENDS PolicyVersions, FiniteSetTheorems, TLAPS

\* A request's locals, however stale: the row it activates and those it will
\* supersede exist and belong to one scope, which the caller may write.
RequestsInv ==
  \A c \in Calls :
    /\ rq[c].pc # "idle" =>
         /\ rq[c].row \in Present
         /\ policies[rq[c].row].tenant = rq[c].loaded.tenant
         /\ rq[c].tenant \in {System, rq[c].loaded.tenant}
    /\ rq[c].pc = "commit" =>
         \A v \in rq[c].others : v \in Present /\ policies[v].tenant = rq[c].loaded.tenant

RowsInv == TypeOK /\ RequestsInv

\* The columns of a row that exists, and no row at all.
LEMMA PolicyCases ==
  ASSUME TypeOK, NEW v \in Rows
  PROVE  /\ v \in Present <=> policies[v] \in GovernancePolicy
         /\ v \in Present <=> policies[v].status # "none"
         /\ v \notin Present <=> policies[v] = NoRow
<1>1. policies[v] \in GovernancePolicy \cup {NoRow}
  BY DEF TypeOK
<1>2. \A p \in GovernancePolicy : p.status # "none" /\ p # NoRow
  BY DEF GovernancePolicy, NoRow
<1> QED
  BY <1>1, <1>2 DEF Present, NoRow

\* The phases of a request and the locals it has in each.
LEMMA RequestCases ==
  ASSUME TypeOK, NEW c \in Calls
  PROVE  /\ rq[c].pc \in {"idle", "active", "commit"}
         /\ rq[c].pc = "idle" => rq[c] = Idle
         /\ rq[c].pc # "idle" => /\ rq[c].tenant \in Scopes
                                 /\ rq[c].row \in Rows
                                 /\ rq[c].loaded \in GovernancePolicy
         /\ rq[c].pc = "commit" => rq[c].others \in SUBSET Rows
<1>1. rq[c] \in Requests
  BY DEF TypeOK
<1> QED
  BY <1>1 DEF Requests, Idle

LEMMA InitRows == Init => RowsInv
BY DEF Init, RowsInv, RequestsInv, TypeOK, Requests, Idle

LEMMA CreateRows ==
  ASSUME RowsInv, NEW c \in Calls, create_version(c)
  PROVE  RowsInv'
<1>1. PICK t \in Scopes, l \in Labels, v \in Rows \ Present :
        /\ policies' = [policies EXCEPT ![v] =
                          [tenant |-> t, label |-> l, status |-> "draft", ended |-> FALSE]]
        /\ UNCHANGED <<server, rq>>
  BY DEF create_version
<1>2. TypeOK'
  BY <1>1 DEF RowsInv, TypeOK, GovernancePolicy
<1>3. \A w \in Present : w \in Present' /\ policies'[w] = policies[w]
  BY <1>1 DEF RowsInv, TypeOK, Present
<1>4. RequestsInv'
  BY <1>1, <1>3 DEF RowsInv, RequestsInv
<1> QED
  BY <1>2, <1>4 DEF RowsInv

LEMMA LoadRows ==
  ASSUME RowsInv, NEW c \in Calls, LoadVersion(c)
  PROVE  RowsInv'
<1>1. PICK t \in Scopes, v \in Rows :
        /\ v \in get_version(t)
        /\ rq' = [rq EXCEPT ![c] = [pc |-> "active", tenant |-> t, row |-> v,
                                    loaded |-> policies[v]]]
        /\ UNCHANGED <<server, policies>>
  BY DEF LoadVersion
<1>2. policies[v] \in GovernancePolicy /\ v \in Present
  BY <1>1, PolicyCases DEF RowsInv, get_version
<1>3. rq'[c] \in Requests
  BY <1>1, <1>2 DEF Requests, RowsInv, TypeOK
<1>4. TypeOK'
  BY <1>1, <1>3 DEF RowsInv, TypeOK
<1>5. Present' = Present
  BY <1>1 DEF Present
<1>6. RequestsInv'
  BY <1>1, <1>2, <1>5 DEF RowsInv, TypeOK, RequestsInv, get_version
<1> QED
  BY <1>4, <1>6 DEF RowsInv

LEMMA ReadRows ==
  ASSUME RowsInv, NEW c \in Calls, ReadActive(c)
  PROVE  RowsInv'
<1> DEFINE old == _active_versions(rq[c].loaded.tenant) \ {rq[c].row}
<1>1. /\ rq[c].pc = "active"
      /\ rq' = [rq EXCEPT ![c] = [pc |-> "commit", tenant |-> rq[c].tenant, row |-> rq[c].row,
                                  loaded |-> rq[c].loaded, others |-> old]]
      /\ UNCHANGED <<server, policies>>
  BY DEF ReadActive, RowsInv, TypeOK
<1>2. /\ old \in SUBSET Rows
      /\ \A v \in old : v \in Present /\ policies[v].tenant = rq[c].loaded.tenant
  BY DEF _active_versions, Present
<1> HIDE DEF old
<1>3. /\ rq[c].tenant \in Scopes
      /\ rq[c].row \in Rows
      /\ rq[c].loaded \in GovernancePolicy
  BY <1>1, RequestCases DEF RowsInv
<1>4. rq'[c] \in Requests
  BY <1>1, <1>2, <1>3 DEF Requests, RowsInv, TypeOK
<1>5. TypeOK'
  BY <1>1, <1>4 DEF RowsInv, TypeOK
<1>6. Present' = Present
  BY <1>1 DEF Present
<1>7. RequestsInv'
  BY <1>1, <1>2, <1>6 DEF RowsInv, TypeOK, RequestsInv
<1> QED
  BY <1>5, <1>7 DEF RowsInv

\* What a commit makes of a row: the columns tenant and label stay, and no
\* version becomes a draft.
LEMMA CommitEffect ==
  ASSUME RowsInv, NEW c \in Calls, CommitActivate(c), NEW v \in Rows
  PROVE  /\ v \in rq[c].others => policies'[v] = [policies[v] EXCEPT !.status = "superseded",
                                                                 !.ended = TRUE]
         /\ v \in Present => /\ policies'[v] \in GovernancePolicy
                             /\ policies'[v] # NoRow
                             /\ policies'[v].tenant = policies[v].tenant
                             /\ policies'[v].label = policies[v].label
                             /\ policies'[v].status = "draft" => policies[v].status = "draft"
         /\ v \notin rq[c].others \cup {rq[c].row} => policies'[v] = policies[v]
<1>1. rq[c].pc = "commit" /\ rq[c].others \in SUBSET Rows /\ rq[c].row \in Present
  BY RequestCases DEF CommitActivate, RowsInv, RequestsInv
<1>2. policies'[v] =
        IF v \in rq[c].others
        THEN [policies[v] EXCEPT !.status = "superseded", !.ended = TRUE]
        ELSE IF v = rq[c].row
        THEN [policies[v] EXCEPT !.status = Written(rq[c].loaded.status, @, "active"),
                                 !.ended = Written(rq[c].loaded.ended, @, FALSE)]
        ELSE policies[v]
  BY DEF CommitActivate
<1>3. ASSUME v \in Present
      PROVE  policies[v] \in GovernancePolicy
  BY <1>3, PolicyCases DEF RowsInv
<1>4. v \in Present => /\ policies'[v] \in GovernancePolicy
                       /\ policies'[v].tenant = policies[v].tenant
                       /\ policies'[v].label = policies[v].label
                       /\ policies'[v].status = "draft" => policies[v].status = "draft"
  BY <1>2, <1>3 DEF GovernancePolicy, Written
<1>5. \A p \in GovernancePolicy : p # NoRow
  BY DEF GovernancePolicy, NoRow
<1> QED
  BY <1>2, <1>4, <1>5

LEMMA CommitRows ==
  ASSUME RowsInv, NEW c \in Calls, CommitActivate(c)
  PROVE  RowsInv'
<1>1. /\ rq[c].pc = "commit"
      /\ rq' = [rq EXCEPT ![c] = Idle]
      /\ UNCHANGED server
  BY DEF CommitActivate
<1>2. rq[c].others \subseteq Present /\ rq[c].row \in Present
  BY <1>1 DEF RowsInv, RequestsInv
<1>3. ASSUME NEW v \in Rows
      PROVE  policies'[v] \in GovernancePolicy \cup {NoRow}
  <2>1. CASE v \in Present
    BY <2>1, CommitEffect
  <2>2. CASE v \notin Present
    BY <2>2, <1>2, CommitEffect DEF RowsInv, TypeOK
  <2> QED
    BY <2>1, <2>2
<1>4. policies' \in [Rows -> GovernancePolicy \cup {NoRow}]
  BY <1>3 DEF CommitActivate
<1>5. TypeOK'
  BY <1>1, <1>4 DEF RowsInv, TypeOK, Requests
<1>6. \A v \in Present : v \in Present' /\ policies'[v].tenant = policies[v].tenant
  BY CommitEffect DEF Present
<1>7. ASSUME NEW d \in Calls
      PROVE  rq'[d] = rq[d] \/ rq'[d].pc = "idle"
  BY <1>1, <1>7 DEF RowsInv, TypeOK, Idle
<1>8. RequestsInv'
  BY <1>6, <1>7 DEF RowsInv, RequestsInv
<1> QED
  BY <1>5, <1>8 DEF RowsInv

\* A process that serves nobody: no request is in flight.
LEMMA StopRows ==
  ASSUME RowsInv, Stop
  PROVE  RowsInv'
BY DEF Stop, RowsInv, TypeOK, RequestsInv, Requests, Idle

\* Seeding inserts a row or makes one active, and leaves tenant and label.
LEMMA SeedEffect ==
  ASSUME RowsInv, SeedInsert \/ SeedReactivate \/ SeedRaises
  PROVE  /\ TypeOK'
         /\ rq' = rq
         /\ \A v \in Present : /\ v \in Present'
                               /\ policies'[v].tenant = policies[v].tenant
                               /\ policies'[v].label = policies[v].label
                               /\ policies'[v].status = "draft" => policies[v].status = "draft"
                               /\ policies'[v] # policies[v] => policies[v].tenant = System
<1>1. CASE SeedInsert
  <2>1. PICK v \in Rows \ Present :
          policies' = [policies EXCEPT ![v] =
            [tenant |-> System, label |-> V1, status |-> "active", ended |-> FALSE]]
    BY <1>1 DEF SeedInsert
  <2>2. TypeOK'
    BY <1>1, <2>1, V1Assumption DEF SeedInsert, RowsInv, TypeOK, GovernancePolicy, Scopes
  <2>3. \A w \in Present : w \in Present' /\ policies'[w] = policies[w]
    BY <2>1 DEF RowsInv, TypeOK, Present
  <2> QED
    BY <1>1, <2>2, <2>3 DEF SeedInsert
<1>2. CASE SeedReactivate
  <2>1. PICK v \in Rows : Defaults = {v} /\ policies' = [policies EXCEPT ![v].status = "active"]
    BY <1>2 DEF SeedReactivate
  <2>2. v \in Present /\ policies[v].tenant = System
    BY <2>1 DEF Defaults
  <2>3. policies[v] \in GovernancePolicy
    BY <2>2, PolicyCases DEF RowsInv
  <2>4. /\ policies'[v] = [policies[v] EXCEPT !.status = "active"]
        /\ \A w \in Rows \ {v} : policies'[w] = policies[w]
    BY <2>1 DEF RowsInv, TypeOK
  <2>5. /\ policies'[v] \in GovernancePolicy
        /\ policies'[v].tenant = policies[v].tenant
        /\ policies'[v].label = policies[v].label
        /\ policies'[v].status = "active"
    BY <2>3, <2>4 DEF GovernancePolicy
  <2>6. TypeOK'
    BY <1>2, <2>1, <2>4, <2>5 DEF SeedReactivate, RowsInv, TypeOK
  <2>7. v \in Present'
    BY <2>5 DEF Present, NoRow
  <2> QED
    BY <1>2, <2>2, <2>4, <2>5, <2>6, <2>7 DEF SeedReactivate, Present
<1>3. CASE SeedRaises
  BY <1>3 DEF SeedRaises, RowsInv, TypeOK, Present
<1> QED
  BY <1>1, <1>2, <1>3

LEMMA SeedRows ==
  ASSUME RowsInv, SeedInsert \/ SeedReactivate \/ SeedRaises
  PROVE  RowsInv'
BY SeedEffect DEF RowsInv, RequestsInv

LEMMA NextRows == RowsInv /\ [Next]_vars => RowsInv'
<1> SUFFICES ASSUME RowsInv, [Next]_vars
             PROVE  RowsInv'
  OBVIOUS
<1>1. ASSUME NEW c \in Calls, Serve(c)
      PROVE  RowsInv'
  BY <1>1, CreateRows, LoadRows, ReadRows, CommitRows DEF Serve
<1>2. CASE UNCHANGED vars
  BY <1>2 DEF vars, RowsInv, TypeOK, RequestsInv, Present
<1> QED
  BY <1>1, <1>2, StopRows, SeedRows DEF Next

(***************************************************************************)
(* Every column of governance_policies and every local of a request stays  *)
(* in its domain, and a request in flight writes rows that exist, all of   *)
(* one scope that its caller may write.                                    *)
(***************************************************************************)
THEOREM RowsInvariant == Spec => []RowsInv
BY InitRows, NextRows, PTL DEF Spec

\* What a step leaves of the versions there are.
KeepsHistory ==
  \A v \in Present :
    /\ policies'[v] # NoRow
    /\ policies'[v].tenant = policies[v].tenant
    /\ policies'[v].label = policies[v].label
    /\ policies'[v].status = "draft" => policies[v].status = "draft"

LEMMA StepKeepsHistory == RowsInv /\ [Next]_vars => KeepsHistory
<1> SUFFICES ASSUME RowsInv, [Next]_vars
             PROVE  KeepsHistory
  OBVIOUS
<1>1. ASSUME NEW c \in Calls, Serve(c)
      PROVE  KeepsHistory
  <2>1. CASE create_version(c)
    BY <2>1 DEF create_version, RowsInv, TypeOK, Present, KeepsHistory
  <2>2. CASE LoadVersion(c)
    BY <2>2 DEF LoadVersion, Present, KeepsHistory
  <2>3. CASE ReadActive(c)
    BY <2>3 DEF ReadActive, Present, KeepsHistory
  <2>4. CASE CommitActivate(c)
    BY <2>4, CommitEffect DEF Present, KeepsHistory
  <2> QED
    BY <1>1, <2>1, <2>2, <2>3, <2>4 DEF Serve
<1>2. CASE Stop
  BY <1>2 DEF Stop, Present, KeepsHistory
<1>3. CASE SeedInsert \/ SeedReactivate \/ SeedRaises
  BY <1>3, SeedEffect DEF Present, KeepsHistory
<1>4. CASE UNCHANGED vars
  BY <1>4 DEF vars, Present, KeepsHistory
<1> QED
  BY <1>1, <1>2, <1>3, <1>4 DEF Next

(***************************************************************************)
(* Forward-only history for any instance: no step removes a version,       *)
(* moves it to another tenant, relabels it or makes it a draft again,      *)
(* however many activations and restarts race.                             *)
(***************************************************************************)
THEOREM HistoryForwardOnly == Spec => ForwardOnly
BY StepKeepsHistory, RowsInvariant, PTL DEF Spec, ForwardOnly, KeepsHistory

(***************************************************************************)
(* Tenant isolation for any instance: a version changes only by a request  *)
(* of its own tenant or of the operator, or, for a system default, while   *)
(* the process starts.                                                     *)
(***************************************************************************)
THEOREM TenantIsolation == Spec => ScopeKept
<1> DEFINE Allowed ==
      \A v \in Present :
        policies'[v] # policies[v] =>
          \/ \E c \in Calls : rq[c].pc = "commit" /\ rq[c].tenant \in {System, policies[v].tenant}
          \/ server # "up" /\ policies[v].tenant = System
<1>1. RowsInv /\ [Next]_vars => [Allowed]_vars
  <2> SUFFICES ASSUME RowsInv, Next
               PROVE  Allowed
    OBVIOUS
  <2>1. ASSUME NEW c \in Calls, Serve(c)
        PROVE  Allowed
    <3>1. CASE create_version(c)
      BY <3>1 DEF create_version, RowsInv, TypeOK, Present
    <3>2. CASE LoadVersion(c)
      BY <3>2 DEF LoadVersion, Present
    <3>3. CASE ReadActive(c)
      BY <3>3 DEF ReadActive, Present
    <3>4. CASE CommitActivate(c)
      <4> SUFFICES ASSUME NEW v \in Present, policies'[v] # policies[v]
                   PROVE  rq[c].pc = "commit" /\ rq[c].tenant \in {System, policies[v].tenant}
        OBVIOUS
      <4>1. v \in rq[c].others \cup {rq[c].row}
        BY <3>4, CommitEffect DEF Present
      <4> QED
        BY <3>4, <4>1 DEF CommitActivate, RowsInv, RequestsInv
    <3> QED
      BY <2>1, <3>1, <3>2, <3>3, <3>4 DEF Serve
  <2>2. CASE Stop
    BY <2>2 DEF Stop
  <2>3. CASE SeedInsert \/ SeedReactivate \/ SeedRaises
    <3>1. server # "up"
      BY <2>3 DEF SeedInsert, SeedReactivate, SeedRaises
    <3> QED
      BY <2>3, <3>1, SeedEffect
  <2> QED
    BY <2>1, <2>2, <2>3 DEF Next
<1>2. QED
  BY <1>1, RowsInvariant, PTL DEF Spec, ScopeKept

-----------------------------------------------------------------------------
(***************************************************************************)
(* Requests that come one at a time.                                       *)
(***************************************************************************)

\* At most one request is in flight, none while the process is not up, and
\* what it has read is still what the table says.
SerialInv ==
  /\ \A c, d \in Calls : rq[c].pc # "idle" /\ rq[d].pc # "idle" => c = d
  /\ \A c \in Calls :
       rq[c].pc # "idle" => server = "up" /\ rq[c].loaded = policies[rq[c].row]
  /\ \A c \in Calls :
       rq[c].pc = "commit" =>
         rq[c].others = _active_versions(rq[c].loaded.tenant) \ {rq[c].row}

\* TenantOneActive without counting.
OneEach ==
  \A v, w \in Present :
    /\ policies[v].tenant \in Tenants
    /\ policies[v].tenant = policies[w].tenant
    /\ policies[v].status = "active"
    /\ policies[w].status = "active"
    => v = w

\* Some system default is active while the process serves.
DefaultActive == server = "up" => _active_versions(System) # {}

OneActiveInv == SerialInv /\ OneEach /\ WindowMatchesStatus /\ DefaultActive

LEMMA InitOneActive == Init => OneActiveInv
BY DEF Init, OneActiveInv, SerialInv, OneEach, WindowMatchesStatus, DefaultActive, Present, Idle

\* A new draft is the active version of nobody.
LEMMA CreateOneActive ==
  ASSUME RowsInv, OneActiveInv, NEW c \in Calls, create_version(c), Serial
  PROVE  OneActiveInv'
<1>1. PICK t \in Scopes, l \in Labels, v \in Rows \ Present :
        /\ MayCall(c)
        /\ policies' = [policies EXCEPT ![v] =
                          [tenant |-> t, label |-> l, status |-> "draft", ended |-> FALSE]]
        /\ UNCHANGED <<server, rq>>
  BY DEF create_version
<1>2. /\ policies'[v].status = "draft"
      /\ policies'[v].ended = FALSE
      /\ \A w \in Rows \ {v} : policies'[w] = policies[w]
      /\ v \in Present'
      /\ \A w \in Rows \ {v} : w \in Present' <=> w \in Present
  BY <1>1 DEF RowsInv, TypeOK, Present, NoRow
<1>3. \A d \in Calls : rq'[d].pc = "idle"
  BY <1>1 DEF MayCall
<1>4. SerialInv'
  BY <1>3 DEF SerialInv
<1>5. OneEach'
  BY <1>2 DEF OneActiveInv, OneEach, Present
<1>6. WindowMatchesStatus'
  BY <1>2 DEF OneActiveInv, WindowMatchesStatus, Present
<1>7. DefaultActive'
  BY <1>1, <1>2 DEF OneActiveInv, DefaultActive, _active_versions, Present
<1> QED
  BY <1>4, <1>5, <1>6, <1>7 DEF OneActiveInv

\* The steps of a request that only read.
LEMMA ReadOneActive ==
  ASSUME RowsInv, OneActiveInv, NEW c \in Calls, LoadVersion(c) \/ ReadActive(c), Serial
  PROVE  OneActiveInv'
<1>1. UNCHANGED <<server, policies>>
  BY DEF LoadVersion, ReadActive
<1>2. Present' = Present
  BY <1>1 DEF Present
<1>3. \A t : _active_versions(t)' = _active_versions(t)
  BY <1>1, <1>2 DEF _active_versions
<1>4. CASE LoadVersion(c)
  <2>1. /\ server = "up"
        /\ \A d \in Calls \ {c} : rq'[d].pc = "idle"
        /\ rq'[c].pc = "active"
        /\ rq'[c].loaded = policies[rq'[c].row]
    BY <1>4 DEF LoadVersion, MayCall, RowsInv, TypeOK
  <2>2. SerialInv'
    BY <1>1, <2>1 DEF SerialInv
  <2> QED
    BY <1>1, <1>2, <1>3, <2>2 DEF OneActiveInv, OneEach, WindowMatchesStatus, DefaultActive
<1>5. CASE ReadActive(c)
  <2>1. /\ rq[c].pc = "active"
        /\ rq'[c].pc = "commit"
        /\ rq'[c].row = rq[c].row
        /\ rq'[c].loaded = rq[c].loaded
        /\ rq'[c].others = _active_versions(rq[c].loaded.tenant) \ {rq[c].row}
        /\ \A d \in Calls \ {c} : rq'[d] = rq[d]
    BY <1>5 DEF ReadActive, RowsInv, TypeOK
  <2>2. SerialInv'
    BY <1>1, <1>3, <2>1 DEF OneActiveInv, SerialInv
  <2> QED
    BY <1>1, <1>2, <1>3, <2>2 DEF OneActiveInv, OneEach, WindowMatchesStatus, DefaultActive
<1> QED
  BY <1>4, <1>5

\* The commit of an activation: its version is the active one, and every other
\* active version of the scope ends.
LEMMA CommitOneActive ==
  ASSUME RowsInv, OneActiveInv, NEW c \in Calls, CommitActivate(c), Serial
  PROVE  OneActiveInv'
<1> DEFINE r == rq[c].row
           t == rq[c].loaded.tenant
<1>1. /\ rq[c].pc = "commit"
      /\ rq' = [rq EXCEPT ![c] = Idle]
      /\ server' = server
  BY DEF CommitActivate
<1>2. /\ r \in Present
      /\ r \in Rows
      /\ policies[r] \in GovernancePolicy
      /\ rq[c].loaded = policies[r]
      /\ rq[c].others = _active_versions(t) \ {r}
      /\ policies[r].tenant = t
  BY <1>1, PolicyCases DEF RowsInv, RequestsInv, OneActiveInv, SerialInv, Present
<1>3. /\ policies'[r].status = "active"
      /\ policies'[r].ended = FALSE
      /\ policies'[r].tenant = t
      /\ r \in Present'
  <2>1. policies'[r] = [policies[r] EXCEPT
          !.status = Written(rq[c].loaded.status, policies[r].status, "active"),
          !.ended = Written(rq[c].loaded.ended, policies[r].ended, FALSE)]
    BY <1>2 DEF CommitActivate
  <2>2. /\ policies'[r].status = "active"
        /\ policies'[r].ended = FALSE
        /\ policies'[r].tenant = t
    BY <2>1, <1>2 DEF Written, GovernancePolicy
  <2> QED
    BY <2>2, <1>2, CommitEffect DEF Present
<1>4. ASSUME NEW v \in Rows \ {r}
      PROVE  /\ v \in Present' <=> v \in Present
             /\ v \in _active_versions(t) =>
                  /\ policies'[v].tenant = t
                  /\ policies'[v].status = "superseded"
                  /\ policies'[v].ended = TRUE
             /\ v \notin _active_versions(t) => policies'[v] = policies[v]
  <2>1. CASE v \in _active_versions(t)
    <3>1. v \in Present /\ v \in rq[c].others /\ policies[v].tenant = t
      BY <2>1, <1>2 DEF _active_versions
    <3>2. policies[v] \in GovernancePolicy
      BY <3>1, PolicyCases DEF RowsInv
    <3>3. policies'[v] = [policies[v] EXCEPT !.status = "superseded", !.ended = TRUE]
      BY <3>1, CommitEffect
    <3>4. policies'[v].status = "superseded" /\ policies'[v].ended = TRUE
      BY <3>2, <3>3 DEF GovernancePolicy
    <3> QED
      BY <3>1, <3>4, <2>1, CommitEffect DEF Present
  <2>2. CASE v \notin _active_versions(t)
    <3>1. policies'[v] = policies[v]
      BY <2>2, <1>2, CommitEffect
    <3> QED
      BY <3>1, <2>2 DEF Present
  <2> QED
    BY <2>1, <2>2
<1> HIDE DEF r, t
<1>5. \A d \in Calls : rq'[d].pc = "idle"
  BY <1>1 DEF OneActiveInv, SerialInv, RowsInv, TypeOK, Idle
<1>6. SerialInv'
  BY <1>5 DEF SerialInv
<1>7. OneEach'
  <2> SUFFICES ASSUME NEW v \in Present', NEW w \in Present',
                      policies'[v].tenant \in Tenants,
                      policies'[v].tenant = policies'[w].tenant,
                      policies'[v].status = "active",
                      policies'[w].status = "active"
               PROVE  v = w
    BY DEF OneEach
  <2>1. ASSUME NEW u \in Present', u # r, policies'[u].status = "active"
        PROVE  /\ u \in Present
               /\ policies'[u] = policies[u]
               /\ policies'[u].tenant # t
    BY <2>1, <1>4 DEF Present, _active_versions
  <2>2. CASE v # r /\ w # r
    BY <2>1, <2>2 DEF OneActiveInv, OneEach
  <2>3. CASE v = r \/ w = r
    BY <2>1, <2>3, <1>3
  <2> QED
    BY <2>2, <2>3
<1>8. WindowMatchesStatus'
  BY <1>3, <1>4 DEF OneActiveInv, WindowMatchesStatus, Present
<1>9. DefaultActive'
  <2>1. server = "up" /\ _active_versions(System) # {}
    BY <1>1 DEF OneActiveInv, SerialInv, DefaultActive
  <2>2. CASE t = System
    BY <2>2, <1>3 DEF DefaultActive, _active_versions
  <2>3. CASE t # System
    <3>1. PICK v \in _active_versions(System) : TRUE
      BY <2>1
    <3>2. /\ v \in Rows
          /\ v \in Present
          /\ policies[v].tenant = System
          /\ policies[v].status = "active"
          /\ v # r
          /\ v \notin _active_versions(t)
      BY <2>3, <1>2, <3>1 DEF _active_versions, Present, r, t
    <3> QED
      BY <3>2, <1>4 DEF DefaultActive, _active_versions
  <2> QED
    BY <2>2, <2>3
<1> QED
  BY <1>6, <1>7, <1>8, <1>9 DEF OneActiveInv

LEMMA StopOneActive ==
  ASSUME RowsInv, OneActiveInv, Stop
  PROVE  OneActiveInv'
<1>1. /\ server' = "down"
      /\ \A c \in Calls : rq'[c].pc = "idle"
      /\ policies' = policies
      /\ Present' = Present
  BY DEF Stop, Idle, Present
<1> QED
  BY <1>1 DEF OneActiveInv, SerialInv, OneEach, WindowMatchesStatus, DefaultActive

\* Seeding touches versions of the system only, and leaves one active when the
\* process comes up.
LEMMA SeedOneActive ==
  ASSUME RowsInv, OneActiveInv, SeedInsert \/ SeedReactivate \/ SeedRaises
  PROVE  OneActiveInv'
<1>1. \A c \in Calls : rq'[c].pc = "idle"
  BY SeedEffect DEF SeedInsert, SeedReactivate, SeedRaises, OneActiveInv, SerialInv
<1>2. SerialInv'
  BY <1>1 DEF SerialInv
<1>3. ASSUME NEW v \in Present', policies'[v].tenant # System
      PROVE  v \in Present /\ policies'[v] = policies[v]
  <2>1. CASE SeedInsert
    BY <1>3, <2>1 DEF SeedInsert, RowsInv, TypeOK, Present
  <2>2. CASE SeedReactivate
    <3>1. v \in Present
      BY <1>3, <2>2, SeedEffect DEF SeedReactivate, RowsInv, TypeOK, Present, Defaults
    <3> QED
      BY <1>3, <3>1, SeedEffect
  <2>3. CASE SeedRaises
    BY <1>3, <2>3 DEF SeedRaises, Present
  <2> QED
    BY <2>1, <2>2, <2>3
<1>4. OneEach'
  BY <1>3, SystemAssumption DEF OneActiveInv, OneEach
<1>5. WindowMatchesStatus'
  BY <1>3, SystemAssumption DEF OneActiveInv, WindowMatchesStatus
<1>6. DefaultActive'
  <2>1. CASE SeedInsert
    BY <2>1 DEF SeedInsert, RowsInv, TypeOK, DefaultActive, _active_versions, Present, NoRow
  <2>2. CASE SeedReactivate
    <3>1. PICK v \in Rows : Defaults = {v} /\ policies' = [policies EXCEPT ![v].status = "active"]
      BY <2>2 DEF SeedReactivate
    <3>2. v \in Present /\ policies[v].tenant = System
      BY <3>1 DEF Defaults
    <3>3. policies[v] \in GovernancePolicy
      BY <3>2, PolicyCases DEF RowsInv
    <3>4. policies'[v].status = "active"
      BY <3>1, <3>3 DEF RowsInv, TypeOK, GovernancePolicy
    <3> QED
      BY <3>2, <3>4, SeedEffect DEF DefaultActive, _active_versions
  <2>3. CASE SeedRaises
    BY <2>3 DEF SeedRaises, DefaultActive
  <2> QED
    BY <2>1, <2>2, <2>3
<1> QED
  BY <1>2, <1>4, <1>5, <1>6 DEF OneActiveInv

LEMMA NextOneActive == Serial /\ RowsInv /\ OneActiveInv /\ [Next]_vars => OneActiveInv'
<1> SUFFICES ASSUME Serial, RowsInv, OneActiveInv, [Next]_vars
             PROVE  OneActiveInv'
  OBVIOUS
<1>1. ASSUME NEW c \in Calls, Serve(c)
      PROVE  OneActiveInv'
  BY <1>1, CreateOneActive, ReadOneActive, CommitOneActive DEF Serve
<1>2. CASE UNCHANGED vars
  BY <1>2 DEF vars, OneActiveInv, SerialInv, OneEach, WindowMatchesStatus, DefaultActive,
              _active_versions, Present
<1> QED
  BY <1>1, <1>2, StopOneActive, SeedOneActive DEF Next

\* A set whose elements are all equal has at most one.
LEMMA AtMostOne ==
  ASSUME NEW S, \A v, w \in S : v = w
  PROVE  Cardinality(S) <= 1
<1>1. CASE S = {}
  BY <1>1, FS_EmptySet
<1>2. CASE S # {}
  <2>1. PICK x \in S : TRUE
    BY <1>2
  <2>2. S = {x}
    BY <2>1
  <2> QED
    BY <2>2, FS_Singleton
<1> QED
  BY <1>1, <1>2

LEMMA OneActiveInvImplies == OneActiveInv => TenantOneActive /\ WindowMatchesStatus /\ AlwaysBinds
<1> SUFFICES ASSUME OneActiveInv
             PROVE  TenantOneActive /\ WindowMatchesStatus /\ AlwaysBinds
  OBVIOUS
<1>1. \A t \in Tenants : \A v, w \in _active_versions(t) : v = w
  BY DEF OneActiveInv, OneEach, _active_versions
<1>2. TenantOneActive
  BY <1>1, AtMostOne DEF TenantOneActive
<1>3. AlwaysBinds
  BY DEF OneActiveInv, DefaultActive, AlwaysBinds, get_active
<1> QED
  BY <1>2, <1>3 DEF OneActiveInv

(***************************************************************************)
(* When requests come one at a time, through any sequence of creations,    *)
(* activations, rollbacks, stops and starts: no tenant has two active      *)
(* versions, a tenant's version has an end date exactly when superseded,   *)
(* and while the API serves every tenant finds a version to bind to.       *)
(***************************************************************************)
THEOREM OneActiveVersion ==
  Serial => (Spec => [](TenantOneActive /\ WindowMatchesStatus /\ AlwaysBinds))
<1> SUFFICES ASSUME Serial
             PROVE  Spec => [](TenantOneActive /\ WindowMatchesStatus /\ AlwaysBinds)
  OBVIOUS
<1>1. RowsInv /\ OneActiveInv /\ [Next]_vars => OneActiveInv'
  BY NextOneActive
<1>2. Spec => []OneActiveInv
  BY <1>1, InitOneActive, RowsInvariant, PTL DEF Spec
<1> QED
  BY <1>2, OneActiveInvImplies, PTL

=============================================================================
