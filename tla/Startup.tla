------------------------------ MODULE Startup -------------------------------
(***************************************************************************)
(* How processes that start fill an empty or an older database: the        *)
(* lifespan of app/main.py and the script scripts/seed_pilot.py, with      *)
(* seed_rbac (services/rbac_service.py), seed_control_catalog              *)
(* (services/control_catalog.py), seed_default_policy                      *)
(* (services/policy_version_service.py) and the provisioning of users,     *)
(* roles and keys (services/tenant_service.py); what a key then resolves   *)
(* to; and m004 of db/migration_scripts, which an operator runs on a       *)
(* database whose tables lack columns that today's models select.          *)
(*                                                                         *)
(* All of them do the same thing: for one row after the other, select it   *)
(* and insert it when it is missing, and commit at the end of a            *)
(* transaction.  A process is therefore a sequence of transactions, a      *)
(* transaction a sequence of rows.  SELECTs run outside a transaction      *)
(* until the first INSERT takes the database's write lock, which the       *)
(* process keeps until it commits or rolls back; from there on nobody else *)
(* commits.  A unique constraint is checked at the INSERT, and does not    *)
(* compare rows whose tenant_id is NULL.  The frameworks with their        *)
(* controls, the regulations and the requirements stand for one row each.  *)
(* The script ends by listing the runs of its tenant; the sample run that  *)
(* it submits when there is none is the submit of GovernanceReview and is  *)
(* left out here.                                                          *)
(***************************************************************************)
EXTENDS Integers, SequencesExt, FiniteSetsExt

CONSTANTS Apis,         \* API processes
          Pilots,       \* runs of scripts/seed_pilot.py
          Nobody,       \* no process has the write lock
          MaxCrashes    \* bound on the crashes

Procs == Apis \cup Pilots

ASSUME ProcsAssumption == Apis \cap Pilots = {}
ASSUME NobodyAssumption == Nobody \notin Procs
ASSUME MaxCrashesAssumption == MaxCrashes \in Nat

-----------------------------------------------------------------------------
(***************************************************************************)
(* What is seeded.                                                         *)
(***************************************************************************)
PERMISSION_NAMES ==
  <<"create_governed_action", "approve_action", "reject_action", "execute_approved_action",
    "view_audit", "export_evidence", "manage_policies", "manage_controls", "manage_users",
    "override_high_risk_action">>

AllPermissions == Range(PERMISSION_NAMES)

ROLE_PERMISSIONS ==
  [Owner |-> AllPermissions,
   Admin |-> AllPermissions \ {"manage_users"},
   ComplianceOfficer |-> {"approve_action", "reject_action", "view_audit", "export_evidence",
                          "manage_controls", "manage_policies", "override_high_risk_action"},
   Auditor |-> {"view_audit", "export_evidence"},
   Operator |-> {"create_governed_action", "execute_approved_action", "view_audit"},
   Reviewer |-> {"approve_action", "reject_action", "view_audit"},
   Viewer |-> {"view_audit"}]

ROLE_KEYS == {"Admin", "Operator", "Reviewer", "Auditor"}

\* A permission that a release added is a row of its own; the others, which no
\* release ever had without each other, stand for one row together.
Added == {"override_high_risk_action"}
Groups == <<AllPermissions \ Added, Added>>

\* The rows of the tables; a role's grants are rows of role_permissions.
PermissionRow(g) == <<"permission", g>>
RoleRow(r) == <<"role", r>>
GrantRow(r, g) == <<"grant", r, g>>
UserRow(r) == <<"user", r>>
UserRoleRow(r) == <<"user_role", r>>
KeyRow(r) == <<"key", r>>

\* The transactions of each seed, with the rows they look at, in order.
PermissionRows == <<PermissionRow(Groups[1]), PermissionRow(Groups[2])>>

Grant(r, g) == IF g \cap ROLE_PERMISSIONS[r] = {} THEN <<>> ELSE <<GrantRow(r, g)>>

RoleWithGrants(r) == <<RoleRow(r)>> \o Grant(r, Groups[1]) \o Grant(r, Groups[2])

RoleRows ==
  RoleWithGrants("Owner") \o RoleWithGrants("Admin") \o RoleWithGrants("ComplianceOfficer")
    \o RoleWithGrants("Auditor") \o RoleWithGrants("Operator") \o RoleWithGrants("Reviewer")
    \o RoleWithGrants("Viewer")

\* Variant: the roles are looked up before the permissions.
MutSeedRbac == RoleRows \o PermissionRows

seed_rbac == PermissionRows \o RoleRows

CatalogRows == <<<<"framework">>, <<"regulation">>, <<"requirement">>, <<"pack">>>>

seed_control_catalog == CatalogRows

DefaultPolicy == <<"default_policy">>
seed_default_policy == <<DefaultPolicy>>

tenant == <<<<"tenant">>>>

\* The three commits that give a role its user and its key.
provision_user(r) == <<UserRow(r)>>
assign_role(r) == <<UserRoleRow(r)>>
provision_api_key(r) == <<KeyRow(r)>>

\* The SELECT of the tenant's runs.
list_runs == <<>>

\* The loop over ROLE_KEYS is written out.
seed_pilot ==
  <<seed_rbac, seed_control_catalog, tenant,
    provision_user("Admin"), assign_role("Admin"), provision_api_key("Admin"),
    provision_user("Operator"), assign_role("Operator"), provision_api_key("Operator"),
    provision_user("Reviewer"), assign_role("Reviewer"), provision_api_key("Reviewer"),
    provision_user("Auditor"), assign_role("Auditor"), provision_api_key("Auditor"),
    list_runs>>

lifespan == <<seed_rbac, seed_control_catalog, seed_default_policy>>

Program(p) == IF p \in Apis THEN lifespan ELSE seed_pilot

Rows == UNION {Range(t) : t \in Range(lifespan) \cup Range(seed_pilot)}

\* Rows whose constraint compares them: no column of it is NULL.
Unique(i) == i[1] \notin {"role", "requirement", "pack", "default_policy"}

\* Rows that are flushed before the next SELECT.  The others wait for the commit
\* in the API, whose sessions do not flush by themselves; the script's do.
Flushed(p, i) == p \in Pilots \/ i[1] \in {"permission", "role", "framework"}

-----------------------------------------------------------------------------
VARIABLES rows,       \* the rows that are committed
          doubled,    \* those of them that are there more than once
          schema,     \* the tables that m004 adds columns to
          writer,     \* the process that has the write lock
          proc,       \* the processes
          crashes

vars == <<rows, doubled, schema, writer, proc, crashes>>

\* A table is missing, without the columns of m004, or as today's model has it.
Tables == {"governance_policies", "governed_actions"}
Schema(columns) == [t \in Tables |-> columns]

Off == [pc |-> "off"]
Creating == [pc |-> "create"]
Failed == [pc |-> "failed"]
Up == [pc |-> "up"]

\* The rows that releases of the system left behind, each adding to the one
\* before: none, roles and permissions, the catalog, the Reviewer with the pilot,
\* the default policy, and today's (which adds the permission to override).  m004
\* came with the default policy; the releases before it had the tables already.
Old(r) == r # "Reviewer"
RbacRelease ==
  {i \in Rows : \/ i[1] = "permission" /\ i[2] # Added
                \/ i[1] = "role" /\ Old(i[2])
                \/ i[1] = "grant" /\ Old(i[2]) /\ i[3] # Added}
CatalogRelease == RbacRelease \cup Range(seed_control_catalog)
PhaseTwoRelease ==
  CatalogRelease \cup {RoleRow("Reviewer")}
    \cup {i \in Rows : i[1] = "grant" /\ ~ Old(i[2])}
PilotRows == {i \in Rows : i[1] \in {"tenant", "user", "user_role", "key"}}
PolicyRelease == PhaseTwoRelease \cup Range(seed_default_policy)
OldReleases == {{}, RbacRelease, CatalogRelease, PhaseTwoRelease, PhaseTwoRelease \cup PilotRows}
NewReleases == {PolicyRelease, PolicyRelease \cup PilotRows, Rows \ PilotRows, Rows}

Init ==
  /\ \/ rows = {} /\ schema = Schema("missing")
     \/ rows \in OldReleases /\ schema = Schema("old")
     \/ rows \in NewReleases /\ schema = Schema("current")
  /\ doubled = {}
  /\ writer = Nobody
  /\ proc = [p \in Procs |-> Off]
  /\ crashes = 0

-----------------------------------------------------------------------------
Transaction(p) == Program(p)[proc[p].txn]

\* Variant: a role that exists already is taken to have its grants.
MutMissing(i) == i \notin rows /\ (i[1] = "grant" => RoleRow(i[2]) \notin rows)

\* Variant: the script provisions its keys without looking for them.
MutMissingKey(i) == i \notin rows \/ i[1] = "key"

\* scalar_one_or_none() is None.
Missing(i) == i \notin rows

\* It raises MultipleResultsFound; so does the scalar_one() of a user's role.
Ambiguous(i) ==
  i \in doubled \/ (i[1] = "user_role" /\ RoleRow(i[2]) \notin rows \ doubled)

\* The rows that a transaction reads before it takes the lock: up to the first
\* missing one that is flushed, or all of them.
Unlocked(p) ==
  LET t == Transaction(p)
      stops == {k \in DOMAIN t : Missing(t[k]) /\ Flushed(p, t[k])}
  IN  Range(SubSeq(t, 1, IF stops = {} THEN Len(t) ELSE Min(stops)))

\* OperationalError: no such column, in the SELECT of the default policy or of
\* the governed actions; the models map every column.
Unreadable(t) ==
  \/ t = seed_default_policy /\ schema["governance_policies"] # "current"
  \/ t = list_runs /\ schema["governed_actions"] # "current"

\* Transaction n, or after the last one the end of the program: the API serves,
\* the script has printed its credentials.
At(p, n) ==
  IF n > Len(Program(p)) THEN Up ELSE [pc |-> "read", txn |-> n, insert |-> {}]

\* From transaction n on, those that would find all their rows are passed over:
\* rows and columns are never dropped, so they find them whenever they run.
From(p, n) ==
  LET ahead == {k \in n..Len(Program(p)) :
                  \/ Unreadable(Program(p)[k])
                  \/ \E i \in Range(Program(p)[k]) : Missing(i) \/ Ambiguous(i)}
  IN  At(p, IF ahead = {} THEN Len(Program(p)) + 1 ELSE Min(ahead))

\* The process starts, for the first time or again, with init_db: create_all
\* looks which tables are there, whatever their columns, and has no more to do
\* when all of them are.
Start(p) ==
  /\ proc[p] \in {Off, Failed}
  /\ proc' = [proc EXCEPT ![p] = IF schema = Schema("missing") THEN Creating ELSE From(p, 1)]
  /\ UNCHANGED <<rows, doubled, schema, writer, crashes>>

\* It creates the missing ones; OperationalError when another process was faster.
CreateTables(p) ==
  /\ proc[p] = Creating
  /\ schema' = IF schema = Schema("missing") THEN Schema("current") ELSE schema
  /\ proc' = [proc EXCEPT ![p] = IF schema = Schema("missing") THEN At(p, 1) ELSE Failed]
  /\ UNCHANGED <<rows, doubled, writer, crashes>>

\* The SELECTs without the lock.
Select(p) ==
  LET seen == IF proc[p].pc = "read" THEN Unlocked(p) ELSE {}
      new == {i \in seen : Missing(i)}
  IN  /\ proc[p].pc = "read"
      /\ proc' = [proc EXCEPT ![p] =
                    IF Unreadable(Transaction(p)) \/ \E i \in seen : Ambiguous(i) THEN Failed
                    ELSE IF new = {} THEN From(p, @.txn + 1)
                    ELSE [@ EXCEPT !.pc = "insert", !.insert = new]]
      /\ UNCHANGED <<rows, doubled, schema, writer, crashes>>

\* The first INSERT waits for the lock.
Insert(p) ==
  /\ proc[p].pc = "insert"
  /\ writer = Nobody
  /\ \A i \in proc[p].insert : Unique(i) => Missing(i)
  /\ writer' = p
  /\ proc' = [proc EXCEPT ![p].pc = "commit"]
  /\ UNCHANGED <<rows, doubled, schema, crashes>>

\* IntegrityError: the row has been committed since it was selected.
InsertConflicts(p) ==
  /\ proc[p].pc = "insert"
  /\ writer = Nobody
  /\ \E i \in proc[p].insert : Unique(i) /\ i \in rows
  /\ proc' = [proc EXCEPT ![p] = Failed]
  /\ UNCHANGED <<rows, doubled, schema, writer, crashes>>

\* OperationalError: the lock is not released in time.
InsertTimesOut(p) ==
  /\ proc[p].pc = "insert"
  /\ writer # Nobody
  /\ proc' = [proc EXCEPT ![p] = Failed]
  /\ UNCHANGED <<rows, doubled, schema, writer, crashes>>

\* The rest of the transaction, under the lock, and its commit.
Commit(p) ==
  LET all == Range(Transaction(p))
      new == proc[p].insert \cup {i \in all : Missing(i)}
  IN  /\ proc[p].pc = "commit"
      /\ writer' = Nobody
      /\ IF \E i \in all : Ambiguous(i)
         THEN proc' = [proc EXCEPT ![p] = Failed] /\ UNCHANGED <<rows, doubled>>
         ELSE /\ rows' = rows \cup new
              /\ doubled' = doubled \cup (rows \cap new)
              /\ proc' = [proc EXCEPT ![p] = At(p, @.txn + 1)]
      /\ UNCHANGED <<schema, crashes>>

\* The process dies, wherever it is: what it had not committed is rolled back.
Crash(p) ==
  /\ crashes < MaxCrashes
  /\ proc[p] \notin {Off, Failed}
  /\ crashes' = crashes + 1
  /\ writer' = IF writer = p THEN Nobody ELSE writer
  /\ proc' = [proc EXCEPT ![p] = Off]
  /\ UNCHANGED <<rows, doubled, schema>>

\* m004's upgrade: a table at a time, each ALTER TABLE being committed by itself.
\* It fills in the status of versions that are there; the default is not one yet.
Migrate ==
  /\ writer = Nobody
  /\ \E t \in Tables :
       /\ schema[t] = "old"
       /\ t = "governed_actions" => schema["governance_policies"] = "current"
       /\ schema' = [schema EXCEPT ![t] = "current"]
  /\ UNCHANGED <<rows, doubled, writer, proc, crashes>>

Run(p) ==
  \/ Start(p) \/ CreateTables(p)
  \/ Select(p) \/ Insert(p) \/ InsertConflicts(p) \/ InsertTimesOut(p) \/ Commit(p)

Next == (\E p \in Procs : Run(p) \/ Crash(p)) \/ Migrate

Spec == Init /\ [][Next]_vars

FairSpec == Spec /\ \A p \in Procs : WF_vars(Run(p))

-----------------------------------------------------------------------------
(***************************************************************************)
(* What the key of a pilot user resolves to: resolve_principal.            *)
(***************************************************************************)
_permissions_for_user(r) ==
  IF UserRoleRow(r) \notin rows THEN {}
  ELSE UNION {g \cap ROLE_PERMISSIONS[r] : g \in {h \in Range(Groups) : GrantRow(r, h) \in rows}}

resolve_principal(r) ==
  [valid |-> KeyRow(r) \in rows,
   permissions |-> IF KeyRow(r) \in rows THEN _permissions_for_user(r) ELSE {}]

-----------------------------------------------------------------------------
(***************************************************************************)
(* "Idempotently seed ... Safe to call repeatedly (e.g. at startup)": no   *)
(* role, grant, catalog entry, user or key exists twice, although          *)
(* processes start at the same moment, die and start again, and the        *)
(* constraint on roles and packs does not bind system rows.  What keeps    *)
(* them single is that the same transaction first inserts a row that is    *)
(* constrained.                                                            *)
(***************************************************************************)
SeededOnce == doubled \subseteq {DefaultPolicy}

(***************************************************************************)
(* Whatever release filled the database, and wherever earlier starts died: *)
(* while the API serves, or once the script has printed its credentials,   *)
(* a key that exists resolves to exactly the permissions of its role, and  *)
(* every printed key exists.                                               *)
(***************************************************************************)
CredentialsWork ==
  \A p \in Procs : proc[p] = Up =>
    \A r \in ROLE_KEYS :
      LET principal == resolve_principal(r) IN
      /\ principal.valid => principal.permissions = ROLE_PERMISSIONS[r]
      /\ p \in Pilots => principal.valid

\* What the program of p selects is there.
Readable(p) == \A n \in 1..Len(Program(p)) : ~ Unreadable(Program(p)[n])

(***************************************************************************)
(* On tables that have today's columns, because init_db created them or    *)
(* m004 was run before, while or after processes tried to start, starting  *)
(* is all it takes: a process that is started again whenever it died,      *)
(* failed for want of a column or because another one was seeding, comes   *)
(* up and stays up.                                                        *)
(***************************************************************************)
ComesUp == \A p \in Procs : <>Readable(p) => <>[](proc[p] = Up)

=============================================================================
