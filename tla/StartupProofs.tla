---------------------------- MODULE StartupProofs ----------------------------
(***************************************************************************)
(* Seeding is idempotent, and a printed key works, for any number of       *)
(* processes and crashes, from the database of any release.                *)
(***************************************************************************)
EXTENDS Startup, WellFoundedInduction, TLAPS

-----------------------------------------------------------------------------
(* The invariant.                                                          *)

Has(t) == Range(t) \subseteq rows

\* Whoever finds the last permission, or the first framework, finds all that was
\* committed with it; a key has its role.
ReleaseOK(R) ==
  /\ PermissionRow(Added) \in R => Range(seed_rbac) \subseteq R
  /\ <<"framework">> \in R => Range(seed_control_catalog) \subseteq R
  /\ \A r \in ROLE_KEYS : KeyRow(r) \in R => UserRoleRow(r) \in R

RunState == [pc : {"read", "insert", "commit"}, txn : Nat \ {0}, insert : SUBSET Rows]

\* A process has left behind the transactions before its own; what it inserts blindly is
\* constrained, the default policy excepted; and while it writes nobody else does.
Running(p) ==
  LET n == proc[p].txn
      new == proc[p].insert
  IN  /\ n <= Len(Program(p))
      /\ \A k \in 1..(n - 1) : Has(Program(p)[k])
      /\ new \subseteq Range(Program(p)[n])
      /\ \A i \in new : Unique(i) \/ i = DefaultPolicy
      /\ proc[p].pc = "commit" => /\ writer = p
                                  /\ \A i \in new : Missing(i) \/ i = DefaultPolicy

StartInv ==
  /\ proc \in [Procs -> {Off, Failed, Up, Creating} \cup RunState]
  /\ ReleaseOK(rows)
  /\ SeededOnce
  /\ \A p \in Procs :
       /\ proc[p] \in RunState => Running(p)
       /\ proc[p] = Up => \A k \in 1..Len(Program(p)) : Has(Program(p)[k])

-----------------------------------------------------------------------------
(* The programs.                                                           *)

\* The rows of two sequences, one after the other.
LEMMA Concat ==
  ASSUME NEW S, NEW s \in Seq(S), NEW t \in Seq(S)
  PROVE  s \o t \in Seq(S) /\ Range(s \o t) = Range(s) \cup Range(t)
<1>1. s \o t \in Seq(S)
  OBVIOUS
<1>2. \A i \in DOMAIN s : i \in DOMAIN (s \o t) /\ (s \o t)[i] = s[i]
  OBVIOUS
<1>3. \A i \in DOMAIN t : Len(s) + i \in DOMAIN (s \o t) /\ (s \o t)[Len(s) + i] = t[i]
  OBVIOUS
<1>4. ASSUME NEW i \in DOMAIN (s \o t)
      PROVE  \/ i \in DOMAIN s /\ (s \o t)[i] = s[i]
             \/ i - Len(s) \in DOMAIN t /\ (s \o t)[i] = t[i - Len(s)]
  OBVIOUS
<1> DEFINE u == s \o t
<1> HIDE DEF u
<1>5. \A i \in DOMAIN u : u[i] \in Range(s) \cup Range(t)
  BY <1>4 DEF Range, u
<1>6. \A i \in DOMAIN s : s[i] \in Range(u)
  BY <1>2 DEF Range, u
<1>7. \A i \in DOMAIN t : t[i] \in Range(u)
  BY <1>3 DEF Range, u
<1>8. Range(u) = Range(s) \cup Range(t)
  BY <1>5, <1>6, <1>7 DEF Range
<1> QED BY <1>1, <1>8 DEF u

Roles == DOMAIN ROLE_PERMISSIONS
RoleOrGrant == {RoleRow(r) : r \in Roles} \cup {GrantRow(r, g) : r \in Roles, g \in Range(Groups)}

\* The rows of a role: the role and what is granted to it.
LEMMA RoleRange ==
  ASSUME NEW r \in Roles
  PROVE  /\ RoleWithGrants(r) \in Seq(RoleOrGrant)
         /\ RoleRow(r) \in Range(RoleWithGrants(r))
         /\ \A g \in Range(Groups) :
              g \cap ROLE_PERMISSIONS[r] # {} => GrantRow(r, g) \in Range(RoleWithGrants(r))
<1>1. Range(Groups) = {Groups[1], Groups[2]}
  BY DEF Groups, Range
<1>2. \A g \in Range(Groups) :
        /\ Grant(r, g) \in Seq(RoleOrGrant)
        /\ g \cap ROLE_PERMISSIONS[r] # {} => GrantRow(r, g) \in Range(Grant(r, g))
  <2> TAKE g \in Range(Groups)
  <2>1. GrantRow(r, g) \in RoleOrGrant
    BY DEF RoleOrGrant
  <2>2. <<GrantRow(r, g)>> \in Seq(RoleOrGrant) /\ <<>> \in Seq(RoleOrGrant)
    BY <2>1
  <2>3. GrantRow(r, g) \in Range(<<GrantRow(r, g)>>)
    BY DEF Range
  <2> QED BY <2>2, <2>3 DEF Grant
<1> DEFINE role == <<RoleRow(r)>>
           one == Grant(r, Groups[1])
           two == Grant(r, Groups[2])
           rest == role \o one
<1>3. role \in Seq(RoleOrGrant) /\ RoleRow(r) \in Range(role)
  BY DEF RoleOrGrant, Range
<1>4. one \in Seq(RoleOrGrant) /\ two \in Seq(RoleOrGrant)
  BY <1>1, <1>2
<1>5. RoleWithGrants(r) = rest \o two
  BY DEF RoleWithGrants
<1> HIDE DEF role, one, two
<1>6. rest \in Seq(RoleOrGrant) /\ Range(rest) = Range(role) \cup Range(one)
  BY <1>3, <1>4, Concat
<1> HIDE DEF rest
<1>7. rest \o two \in Seq(RoleOrGrant) /\ Range(rest \o two) = Range(rest) \cup Range(two)
  BY <1>4, <1>6, Concat
<1>8. \A g \in Range(Groups) : g \cap ROLE_PERMISSIONS[r] # {}
                              => GrantRow(r, g) \in Range(one) \cup Range(two)
  BY <1>1, <1>2 DEF one, two
<1> QED BY <1>3, <1>5, <1>6, <1>7, <1>8

\* The rows of all roles.
LEMMA AllRoles ==
  /\ RoleRows \in Seq(RoleOrGrant)
  /\ \A r \in Roles : Range(RoleWithGrants(r)) \subseteq Range(RoleRows)
<1> DEFINE R(r) == RoleWithGrants(r)
           two == R("Owner") \o R("Admin")
           three == two \o R("ComplianceOfficer")
           four == three \o R("Auditor")
           five == four \o R("Operator")
           six == five \o R("Reviewer")
<1>1. Roles = {"Owner", "Admin", "ComplianceOfficer", "Auditor", "Operator", "Reviewer", "Viewer"}
  BY DEF Roles, ROLE_PERMISSIONS
<1>2. \A r \in Roles : R(r) \in Seq(RoleOrGrant)
  BY RoleRange
<1> HIDE DEF R
<1>3. two \in Seq(RoleOrGrant) /\ Range(two) = Range(R("Owner")) \cup Range(R("Admin"))
  BY <1>1, <1>2, Concat
<1> HIDE DEF two
<1>4. /\ three \in Seq(RoleOrGrant)
      /\ Range(three) = Range(two) \cup Range(R("ComplianceOfficer"))
  BY <1>1, <1>2, <1>3, Concat
<1> HIDE DEF three
<1>5. four \in Seq(RoleOrGrant) /\ Range(four) = Range(three) \cup Range(R("Auditor"))
  BY <1>1, <1>2, <1>4, Concat
<1> HIDE DEF four
<1>6. five \in Seq(RoleOrGrant) /\ Range(five) = Range(four) \cup Range(R("Operator"))
  BY <1>1, <1>2, <1>5, Concat
<1> HIDE DEF five
<1>7. six \in Seq(RoleOrGrant) /\ Range(six) = Range(five) \cup Range(R("Reviewer"))
  BY <1>1, <1>2, <1>6, Concat
<1> HIDE DEF six
<1>8. RoleRows = six \o R("Viewer")
  BY DEF RoleRows, R, two, three, four, five, six
<1>9. RoleRows \in Seq(RoleOrGrant) /\ Range(RoleRows) = Range(six) \cup Range(R("Viewer"))
  BY <1>1, <1>2, <1>7, <1>8, Concat
<1>10. \A r \in Roles : Range(R(r)) \subseteq Range(RoleRows)
  BY <1>1, <1>3, <1>4, <1>5, <1>6, <1>7, <1>9
<1> QED BY <1>9, <1>10 DEF R

\* The first transaction of every program: the permissions, then roles and grants.
LEMMA RbacTransaction ==
  /\ Len(seed_rbac) >= 2
  /\ DOMAIN seed_rbac = 1..Len(seed_rbac)
  /\ seed_rbac[1][1] = "permission" /\ seed_rbac[2] = PermissionRow(Added)
  /\ \A i \in Range(seed_rbac) : i[1] \in {"permission", "role", "grant"}
  /\ \A r \in Roles, g \in Range(Groups) :
       g \cap ROLE_PERMISSIONS[r] # {} => GrantRow(r, g) \in Range(seed_rbac)
<1> DEFINE S == Range(PermissionRows) \cup RoleOrGrant
<1>1. /\ PermissionRows \in Seq(S) /\ Len(PermissionRows) = 2
      /\ PermissionRows[1] = PermissionRow(Groups[1])
      /\ PermissionRows[2] = PermissionRow(Groups[2])
  BY DEF PermissionRows, Range
<1>2. RoleRows \in Seq(S)
  BY AllRoles
<1>3. \A i \in S : i[1] \in {"permission", "role", "grant"}
  BY DEF PermissionRows, Range, PermissionRow, RoleOrGrant, RoleRow, GrantRow
<1>4. Groups[2] = Added
  BY DEF Groups
<1>5. /\ seed_rbac \in Seq(S) /\ Range(seed_rbac) = Range(PermissionRows) \cup Range(RoleRows)
      /\ Len(seed_rbac) = 2 + Len(RoleRows) /\ Len(RoleRows) \in Nat
      /\ seed_rbac[1] = PermissionRows[1] /\ seed_rbac[2] = PermissionRows[2]
  <2> HIDE DEF S
  <2>1. seed_rbac \in Seq(S) /\ Range(seed_rbac) = Range(PermissionRows) \cup Range(RoleRows)
    BY <1>1, <1>2, Concat DEF seed_rbac
  <2>2. ASSUME NEW s \in Seq(S), NEW t \in Seq(S), Len(s) = 2
        PROVE  /\ Len(s \o t) = 2 + Len(t) /\ Len(t) \in Nat
               /\ (s \o t)[1] = s[1] /\ (s \o t)[2] = s[2]
    <3>1. Len(s \o t) = Len(s) + Len(t) /\ Len(t) \in Nat
      OBVIOUS
    <3>2. \A i \in 1..Len(s) : (s \o t)[i] = s[i]
      OBVIOUS
    <3>3. 1 \in 1..Len(s) /\ 2 \in 1..Len(s)
      BY <2>2
    <3> QED BY <2>2, <3>1, <3>2, <3>3
  <2> QED BY <1>1, <1>2, <2>1, <2>2 DEF seed_rbac
<1>6. PermissionRows[1][1] = "permission"
  BY <1>1 DEF PermissionRow
<1>7. \A i \in Range(seed_rbac) : i \in S
  <2> HIDE DEF S
  <2> QED BY <1>5 DEF Range
<1>8. DOMAIN seed_rbac = 1..Len(seed_rbac)
  BY <1>5
<1>9. \A r \in Roles, g \in Range(Groups) :
       g \cap ROLE_PERMISSIONS[r] # {} => GrantRow(r, g) \in Range(seed_rbac)
  BY <1>5, AllRoles, RoleRange
<1> HIDE DEF S
<1> QED BY <1>1, <1>3, <1>4, <1>5, <1>6, <1>7, <1>8, <1>9

\* The programs, transaction by transaction.
LEMMA Programs ==
  /\ Len(lifespan) = 3
  /\ lifespan[1] = seed_rbac /\ lifespan[2] = seed_control_catalog
  /\ lifespan[3] = <<DefaultPolicy>>
  /\ Len(seed_pilot) = 16
  /\ seed_pilot[1] = seed_rbac /\ seed_pilot[2] = seed_control_catalog
  /\ seed_pilot[3] = <<<<"tenant">>>>
  /\ seed_pilot[4] = <<UserRow("Admin")>> /\ seed_pilot[5] = <<UserRoleRow("Admin")>>
  /\ seed_pilot[6] = <<KeyRow("Admin")>>
  /\ seed_pilot[7] = <<UserRow("Operator")>> /\ seed_pilot[8] = <<UserRoleRow("Operator")>>
  /\ seed_pilot[9] = <<KeyRow("Operator")>>
  /\ seed_pilot[10] = <<UserRow("Reviewer")>> /\ seed_pilot[11] = <<UserRoleRow("Reviewer")>>
  /\ seed_pilot[12] = <<KeyRow("Reviewer")>>
  /\ seed_pilot[13] = <<UserRow("Auditor")>> /\ seed_pilot[14] = <<UserRoleRow("Auditor")>>
  /\ seed_pilot[15] = <<KeyRow("Auditor")>>
  /\ seed_pilot[16] = <<>>
BY DEF lifespan, list_runs, seed_pilot, seed_default_policy, tenant, provision_user, assign_role,
       provision_api_key

\* A transaction of one row; the row is constrained, or it is the default policy.
Single(t) ==
  \E i : t = <<i>> /\ (i = DefaultPolicy \/ i[1] \in {"tenant", "user", "user_role"})

KeyAfterRole(p, n) ==
  \E r \in ROLE_KEYS : Program(p)[n] = <<KeyRow(r)>> /\ Program(p)[n - 1] = <<UserRoleRow(r)>>

\* After the two seeds a transaction has one row, or none; a key comes after its role.
LEMMA ProgramOK ==
  ASSUME NEW p \in Procs
  PROVE  /\ Len(Program(p)) \in Nat /\ Len(Program(p)) > 2
         /\ Program(p)[1] = seed_rbac
         /\ Program(p)[2] = seed_control_catalog
         /\ \A n \in 3..Len(Program(p)) :
              Single(Program(p)[n]) \/ KeyAfterRole(p, n) \/ Program(p)[n] = <<>>
         /\ p \in Pilots => \A r \in ROLE_KEYS :
              \E n \in 1..Len(Program(p)) : Program(p)[n] = <<KeyRow(r)>>
<1>1. CASE p \in Apis
  <2>1. Program(p) = lifespan /\ p \notin Pilots
    BY <1>1, ProcsAssumption DEF Program
  <2>2. Single(Program(p)[3])
    BY <2>1, Programs DEF Single
  <2>3. Len(Program(p)) = 3
    BY <2>1, Programs
  <2>4. \A n \in 3..Len(Program(p)) : Single(Program(p)[n])
    BY <2>2, <2>3
  <2> QED BY <2>1, <2>3, <2>4, Programs
<1>2. CASE p \notin Apis
  <2>1. Program(p) = seed_pilot
    BY <1>2 DEF Program
  <2>2. Single(Program(p)[3])
    BY <2>1, Programs DEF Single
  <2>3. \A n \in {4, 7, 10, 13} : Single(Program(p)[n])
    <3> TAKE n \in {4, 7, 10, 13}
    <3>1. PICK r \in ROLE_KEYS : seed_pilot[n] = <<UserRow(r)>>
      BY Programs DEF ROLE_KEYS
    <3>2. UserRow(r)[1] = "user"
      BY DEF UserRow
    <3> QED BY <2>1, <3>1, <3>2 DEF Single
  <2>4. \A n \in {5, 8, 11, 14} : Single(Program(p)[n])
    <3> TAKE n \in {5, 8, 11, 14}
    <3>1. PICK r \in ROLE_KEYS : seed_pilot[n] = <<UserRoleRow(r)>>
      BY Programs DEF ROLE_KEYS
    <3>2. UserRoleRow(r)[1] = "user_role"
      BY DEF UserRoleRow
    <3> QED BY <2>1, <3>1, <3>2 DEF Single
  <2>5. \A n \in {6, 9, 12, 15} : KeyAfterRole(p, n)
    BY <2>1, Programs DEF KeyAfterRole, ROLE_KEYS
  <2>6. Len(Program(p)) = 16 /\ Program(p)[16] = <<>>
    BY <2>1, Programs
  <2>7. 3..16 = {3} \cup {4, 7, 10, 13} \cup {5, 8, 11, 14} \cup {6, 9, 12, 15} \cup {16}
    OBVIOUS
  <2>8. \A n \in 3..Len(Program(p)) :
          Single(Program(p)[n]) \/ KeyAfterRole(p, n) \/ Program(p)[n] = <<>>
    BY <2>2, <2>3, <2>4, <2>5, <2>6, <2>7
  <2>9. \A r \in ROLE_KEYS : \E n \in {6, 9, 12, 15} : Program(p)[n] = <<KeyRow(r)>>
    BY <2>1, Programs DEF ROLE_KEYS
  <2>10. {6, 9, 12, 15} \subseteq 1..Len(Program(p))
    BY <2>6
  <2> QED BY <2>1, <2>6, <2>8, <2>9, <2>10, Programs
<1> QED BY <1>1, <1>2

\* Transactions are made of rows.
LEMMA RowsOf ==
  ASSUME NEW p \in Procs, NEW n \in 1..Len(Program(p))
  PROVE  Range(Program(p)[n]) \subseteq Rows
<1>1. Program(p) \in {lifespan, seed_pilot}
  BY DEF Program
<1>2. DOMAIN lifespan = 1..3 /\ DOMAIN seed_pilot = 1..16
  BY DEF lifespan, seed_pilot
<1>3. n \in DOMAIN Program(p)
  BY <1>1, <1>2, Programs
<1>4. Program(p)[n] \in Range(lifespan) \cup Range(seed_pilot)
  BY <1>1, <1>3 DEF Range
<1> HIDE DEF Program
<1> QED BY <1>4 DEF Rows

\* The rows of the two seeds that have no roles.
LEMMA SeedRanges ==
  /\ Range(seed_control_catalog) = {<<"framework">>, <<"regulation">>, <<"requirement">>, <<"pack">>}
  /\ Range(seed_default_policy) = {DefaultPolicy}
BY DEF seed_control_catalog, CatalogRows, seed_default_policy, Range

\* The rows have distinct tags.
LEMMA Tags ==
  /\ \A g : PermissionRow(g)[1] = "permission" /\ PermissionRow(g)[2] = g
  /\ \A r : RoleRow(r)[1] = "role" /\ UserRoleRow(r)[1] = "user_role" /\ KeyRow(r)[1] = "key"
  /\ \A r, g : GrantRow(r, g)[1] = "grant"
  /\ DefaultPolicy[1] = "default_policy"
  /\ \A i \in Range(seed_control_catalog) :
       i[1] \in {"framework", "regulation", "requirement", "pack"}
  /\ <<"framework">>[1] = "framework"
BY SeedRanges DEF PermissionRow, RoleRow, UserRoleRow, KeyRow, GrantRow, DefaultPolicy

\* What the initial releases are made of.
LEMMA SeedsAreRows ==
  /\ Range(seed_rbac) \subseteq Rows
  /\ Range(seed_control_catalog) \subseteq Rows
  /\ \A r \in ROLE_KEYS : UserRoleRow(r) \in Rows
<1>1. DOMAIN lifespan = 1..3 /\ DOMAIN seed_pilot = 1..16
  BY DEF lifespan, seed_pilot
<1>2. seed_rbac \in Range(lifespan) /\ seed_control_catalog \in Range(lifespan)
  BY <1>1, Programs DEF Range
<1>3. \A r \in ROLE_KEYS : <<UserRoleRow(r)>> \in Range(seed_pilot)
  BY <1>1, Programs DEF Range, ROLE_KEYS
<1>4. \A i : i \in Range(<<i>>)
  BY DEF Range
<1>5. \A t \in Range(lifespan) \cup Range(seed_pilot) : Range(t) \subseteq Rows
  BY DEF Rows
<1> QED BY <1>2, <1>3, <1>4, <1>5

\* The databases that earlier releases left behind.
LEMMA InitialReleases ==
  ASSUME NEW R \in OldReleases \cup NewReleases
  PROVE  ReleaseOK(R)
<1> DEFINE F == <<"framework">>
           P == PermissionRow(Added)
           NoKey(T) == \A r \in ROLE_KEYS : KeyRow(r) \notin T
<1>1. /\ P[1] = "permission" /\ P[2] = Added /\ F[1] = "framework"
      /\ \A r \in ROLE_KEYS : KeyRow(r)[1] = "key" /\ UserRoleRow(r)[1] = "user_role"
      /\ DefaultPolicy[1] = "default_policy"
      /\ RoleRow("Reviewer")[1] = "role"
  BY Tags
<1>2. \A i \in Range(seed_control_catalog) :
        i[1] \in {"framework", "regulation", "requirement", "pack"}
  BY Tags
<1> HIDE DEF F, P
<1>3. P \notin RbacRelease /\ F \notin RbacRelease /\ NoKey(RbacRelease)
  BY <1>1 DEF RbacRelease
<1>4. P \notin CatalogRelease /\ NoKey(CatalogRelease)
  BY <1>1, <1>2, <1>3 DEF CatalogRelease
<1>5. Range(seed_control_catalog) \subseteq CatalogRelease
  BY DEF CatalogRelease
<1>6. P \notin PhaseTwoRelease /\ NoKey(PhaseTwoRelease)
  BY <1>1, <1>4 DEF PhaseTwoRelease
<1>7. P \notin PolicyRelease /\ NoKey(PolicyRelease)
  BY <1>1, <1>6, SeedRanges DEF PolicyRelease
<1>8. Range(seed_control_catalog) \subseteq PhaseTwoRelease /\ PhaseTwoRelease \subseteq PolicyRelease
  BY <1>5 DEF PhaseTwoRelease, PolicyRelease
<1>9. P \notin PilotRows /\ \A r \in ROLE_KEYS : UserRoleRow(r) \in PilotRows
  BY <1>1, SeedsAreRows DEF PilotRows
<1>10. Range(seed_rbac) \cap PilotRows = {} /\ Range(seed_control_catalog) \cap PilotRows = {}
  BY <1>2, RbacTransaction DEF PilotRows
<1>11. \A r \in ROLE_KEYS : KeyRow(r) \notin Rows \ PilotRows
  BY <1>1 DEF PilotRows
<1>12. ReleaseOK({})
  BY DEF ReleaseOK
<1>13. ReleaseOK(RbacRelease)
  BY <1>3 DEF ReleaseOK, P, F
<1>14. ReleaseOK(CatalogRelease)
  BY <1>4, <1>5 DEF ReleaseOK, P
<1>15. \A r \in {PhaseTwoRelease, PolicyRelease} : ReleaseOK(r) /\ ReleaseOK(r \cup PilotRows)
  BY <1>6, <1>7, <1>8, <1>9 DEF ReleaseOK, P
<1>16. ReleaseOK(Rows)
  BY SeedsAreRows DEF ReleaseOK
<1>17. ReleaseOK(Rows \ PilotRows)
  BY <1>10, <1>11, SeedsAreRows DEF ReleaseOK
<1> QED BY <1>12, <1>13, <1>14, <1>15, <1>16, <1>17 DEF OldReleases, NewReleases

\* Min is the minimum, of any nonempty set of naturals.
LEMMA Least ==
  ASSUME NEW S, S \subseteq Nat, S # {}
  PROVE  Min(S) \in S /\ \A y \in S : Min(S) <= y
<1>1. PICK x \in S : \A y \in S : ~ (<<y, x>> \in OpToRel(<, Nat))
  BY NatLessThanWellFounded, WFMin
<1>2. \A y \in S : ~ (y < x)
  BY <1>1 DEF OpToRel
<1>3. \A y \in S : x <= y
  BY <1>2
<1> QED BY <1>3 DEF Min

-----------------------------------------------------------------------------
(* The steps.                                                              *)

\* A transaction passed over has all its rows.
LEMMA FromOK ==
  ASSUME NEW p \in Procs, NEW n \in Nat \ {0}, n <= Len(Program(p)) + 1,
         \A k \in 1..(n - 1) : Has(Program(p)[k])
  PROVE  \/ From(p, n) = Up /\ \A k \in 1..Len(Program(p)) : Has(Program(p)[k])
         \/ \E m \in 1..Len(Program(p)) :
              /\ From(p, n) = [pc |-> "read", txn |-> m, insert |-> {}]
              /\ \A k \in 1..(m - 1) : Has(Program(p)[k])
<1> DEFINE L == Len(Program(p))
           ahead == {k \in n..L : \/ Unreadable(Program(p)[k])
                           \/ \E i \in Range(Program(p)[k]) : Missing(i) \/ Ambiguous(i)}
           m == IF ahead = {} THEN L + 1 ELSE Min(ahead)
<1>1. L \in Nat
  BY ProgramOK
<1>2. From(p, n) = At(p, m)
  BY DEF From
<1>3. \A k \in n..L : k \notin ahead => Has(Program(p)[k])
  BY DEF Has, Missing
<1>4. ahead \subseteq n..L
  OBVIOUS
<1> HIDE DEF ahead
<1>5. CASE ahead = {}
  <2>1. m = L + 1
    BY <1>5
  <2>2. From(p, n) = Up
    BY <1>1, <1>2, <2>1 DEF At
  <2>3. \A k \in 1..L : k \in 1..(n - 1) \/ k \in n..L
    BY <1>1
  <2>4. \A k \in 1..L : Has(Program(p)[k])
    BY <1>3, <1>5, <2>3
  <2> QED BY <2>2, <2>4
<1>6. CASE ahead # {}
  <2>1. m = Min(ahead)
    BY <1>6
  <2>2. ahead \subseteq Nat
    BY <1>1, <1>4
  <2>3. m \in ahead /\ \A y \in ahead : m <= y
    BY <1>6, <2>1, <2>2, Least
  <2>4. m \in n..L
    BY <1>4, <2>3
  <2>5. m \in 1..L /\ ~ (m > L)
    BY <1>1, <2>4
  <2>6. From(p, n) = [pc |-> "read", txn |-> m, insert |-> {}]
    BY <1>2, <2>5 DEF At
  <2>7. \A k \in 1..(m - 1) : k \in 1..(n - 1) \/ (k \in n..L /\ k < m)
    BY <1>1, <2>4
  <2>8. \A k \in 1..(m - 1) : k \in 1..(n - 1) \/ (k \in n..L /\ k \notin ahead)
    <3> HIDE DEF m, L
    <3>1. \A k \in n..L : k < m => k \notin ahead
      BY <1>1, <2>3, <2>4
    <3> QED BY <2>7, <3>1
  <2>9. \A k \in 1..(m - 1) : Has(Program(p)[k])
    BY <1>3, <2>8
  <2> QED BY <2>5, <2>6, <2>9
<1> QED BY <1>5, <1>6

\* A transaction is a sequence; what is read of it before the lock is a prefix.
Tuple(t) == \E S : t \in Seq(S)

\* Every transaction is a sequence.
LEMMA Transactions ==
  ASSUME NEW p \in Procs, NEW n \in 1..Len(Program(p))
  PROVE  Tuple(Program(p)[n])
<1>1. Tuple(seed_rbac)
  <2>1. \A r \in Roles : RoleWithGrants(r) \in Seq(RoleOrGrant)
    BY RoleRange
  <2> DEFINE S == Range(PermissionRows) \cup RoleOrGrant
  <2>2. PermissionRows \in Seq(S)
    BY DEF PermissionRows, Range
  <2>3. RoleRows \in Seq(S)
    BY AllRoles
  <2> HIDE DEF S
  <2>4. seed_rbac \in Seq(S)
    BY <2>2, <2>3, Concat DEF seed_rbac
  <2> QED BY <2>4 DEF Tuple
<1>2. Tuple(seed_control_catalog)
  <2> DEFINE S == {<<"framework">>, <<"regulation">>, <<"requirement">>, <<"pack">>}
  <2>1. seed_control_catalog \in Seq(S)
    BY DEF seed_control_catalog, CatalogRows
  <2> HIDE DEF S
  <2> QED BY <2>1 DEF Tuple
<1>3. \A i : Tuple(<<i>>)
  <2> TAKE i
  <2>1. <<i>> \in Seq({i})
    OBVIOUS
  <2> QED BY <2>1 DEF Tuple
<1>4. n = 1 \/ n = 2 \/ n \in 3..Len(Program(p))
  BY ProgramOK
<1>5. ASSUME n \in 3..Len(Program(p))
      PROVE  Program(p)[n] = <<>> \/ \E i : Program(p)[n] = <<i>>
  BY <1>5, ProgramOK DEF Single, KeyAfterRole
<1>6. Tuple(<<>>)
  <2>1. <<>> \in Seq({})
    OBVIOUS
  <2> QED BY <2>1 DEF Tuple
<1> QED BY <1>1, <1>2, <1>3, <1>4, <1>5, <1>6, ProgramOK

\* The rows of a prefix.
LEMMA Prefix ==
  ASSUME NEW S, NEW t \in Seq(S), NEW m \in 0..Len(t)
  PROVE  Range(SubSeq(t, 1, m)) = {t[k] : k \in 1..m}
<1>1. Len(t) \in Nat
  OBVIOUS
<1>2. DOMAIN SubSeq(t, 1, m) = 1..m
  BY <1>1
<1>3. \A k \in 1..m : SubSeq(t, 1, m)[k] = t[k]
  BY <1>1
<1> QED BY <1>2, <1>3 DEF Range

\* What a transaction finds before it has the lock.
LEMMA UnlockedReads ==
  ASSUME NEW p \in Procs, NEW n \in 1..Len(Program(p)), proc[p].txn = n
  PROVE  LET t == Program(p)[n] IN
         /\ Unlocked(p) \subseteq Range(t)
         /\ (\A i \in Unlocked(p) : ~ Missing(i)) => Has(t)
         /\ \A i \in Unlocked(p) : \E k \in 1..Len(t) :
              /\ i = t[k]
              /\ \A j \in 1..Len(t) : j < k => ~ (Missing(t[j]) /\ Flushed(p, t[j]))
<1> DEFINE t == Program(p)[n]
           stops == {k \in DOMAIN t : Missing(t[k]) /\ Flushed(p, t[k])}
           m == IF stops = {} THEN Len(t) ELSE Min(stops)
           pre == SubSeq(t, 1, m)
<1>1. PICK S : t \in Seq(S)
  BY Transactions DEF Tuple
<1>2. Unlocked(p) = Range(pre)
  BY DEF Unlocked, Transaction
<1>3. \A k \in DOMAIN t : k \in stops <=> Missing(t[k]) /\ Flushed(p, t[k])
  OBVIOUS
<1>4. stops \subseteq DOMAIN t
  OBVIOUS
<1> HIDE DEF stops
<1>5. /\ DOMAIN t = 1..Len(t) /\ Len(t) \in Nat
  <2> HIDE DEF t
  <2> QED BY <1>1
<1>6. stops # {} => m \in stops /\ \A y \in stops : m <= y
  <2>1. stops \subseteq Nat
    BY <1>4, <1>5
  <2> HIDE DEF t
  <2> QED BY <2>1, Least
<1>7. m \in 0..Len(t)
  BY <1>4, <1>5, <1>6
<1>8. \A k \in stops : m <= k
  BY <1>6
<1>9. stops = {} => m = Len(t)
  OBVIOUS
<1> HIDE DEF t, m
<1>10. Unlocked(p) = {t[k] : k \in 1..m}
  BY <1>1, <1>2, <1>7, Prefix
<1>11. Unlocked(p) \subseteq Range(t)
  BY <1>5, <1>7, <1>10 DEF Range
<1>12. ASSUME \A i \in Unlocked(p) : ~ Missing(i)
       PROVE  Has(t)
  <2>1. stops = {}
    <3> SUFFICES ASSUME stops # {}
                 PROVE  FALSE
      OBVIOUS
    <3>1. m \in 1..m
      BY <1>4, <1>5, <1>6
    <3>2. t[m] \in Unlocked(p)
      BY <1>10, <3>1
    <3> QED BY <1>3, <1>4, <1>6, <1>12, <3>2
  <2>2. Range(t) \subseteq Unlocked(p)
    BY <1>5, <1>9, <1>10, <2>1 DEF Range
  <2> QED BY <1>12, <2>2 DEF Has, Missing
<1>13. ASSUME NEW k \in 1..m
       PROVE  /\ k \in 1..Len(t)
              /\ \A j \in 1..Len(t) : j < k => ~ (Missing(t[j]) /\ Flushed(p, t[j]))
  <2>1. k \in 1..Len(t)
    BY <1>5, <1>7
  <2>2. ASSUME NEW j \in 1..Len(t), j < k, j \in stops
        PROVE  FALSE
    BY <1>5, <1>7, <1>8, <2>2
  <2> QED BY <1>3, <1>5, <2>1, <2>2
<1>14. \A i \in Unlocked(p) : \E k \in 1..Len(t) :
         /\ i = t[k]
         /\ \A j \in 1..Len(t) : j < k => ~ (Missing(t[j]) /\ Flushed(p, t[j]))
  BY <1>10, <1>13
<1> QED BY <1>11, <1>12, <1>14 DEF t

\* What a process is about to insert without having the lock is constrained, because the
\* first row of a transaction that is not constrained comes after one that is.
LEMMA BlindRows ==
  ASSUME NEW p \in Procs, NEW n \in 1..Len(Program(p)), proc[p].txn = n, ReleaseOK(rows),
         NEW i \in Unlocked(p), Missing(i)
  PROVE  Unique(i) \/ i = DefaultPolicy
<1> DEFINE t == Program(p)[n]
<1>1. PICK k \in 1..Len(t) :
        /\ i = t[k]
        /\ \A j \in 1..Len(t) : j < k => ~ (Missing(t[j]) /\ Flushed(p, t[j]))
  BY UnlockedReads
<1>2. i \in Range(t) /\ i \notin rows
  BY UnlockedReads DEF Missing
<1>3. ~ (Range(t) \subseteq rows)
  BY <1>2
<1>4. n = 1 \/ n = 2 \/ n \in 3..Len(Program(p))
  BY ProgramOK
<1>5. CASE n = 1
  <2>1. t = seed_rbac
    BY <1>5, ProgramOK
  <2> HIDE DEF t
  <2>2. PermissionRow(Added) \notin rows
    BY <1>3, <2>1 DEF ReleaseOK
  <2>3. Missing(t[2]) /\ Flushed(p, t[2])
    BY <2>1, <2>2, RbacTransaction, Tags DEF Missing, Flushed
  <2>4. 2 \in 1..Len(t) /\ Len(t) \in Nat
    <3>1. Tuple(t)
      BY Transactions DEF t
    <3>2. Len(t) \in Nat
      <4>1. PICK S : t \in Seq(S)
        BY <3>1 DEF Tuple
      <4> QED BY <4>1
    <3> QED BY <2>1, <3>2, RbacTransaction
  <2>5. k = 1 \/ k = 2
    BY <1>1, <2>3, <2>4
  <2>6. i[1] = "permission"
    BY <1>1, <2>1, <2>5, RbacTransaction, Tags
  <2> QED BY <2>6 DEF Unique
<1>6. CASE n = 2
  <2>1. t = seed_control_catalog
    BY <1>6, ProgramOK
  <2>2. t[1] = <<"framework">> /\ Len(t) = 4
    BY <2>1 DEF seed_control_catalog, CatalogRows
  <2> HIDE DEF t
  <2>3. <<"framework">> \notin rows
    BY <1>3, <2>1 DEF ReleaseOK
  <2>4. Missing(t[1]) /\ Flushed(p, t[1])
    BY <2>2, <2>3, Tags DEF Missing, Flushed
  <2>5. k = 1
    BY <1>1, <2>2, <2>4
  <2>6. i[1] = "framework"
    BY <1>1, <2>2, <2>5, Tags
  <2> QED BY <2>6 DEF Unique
<1>7. CASE n \in 3..Len(Program(p))
  <2>1. \/ t = <<>>
        \/ \E h : t = <<h>> /\ (h = DefaultPolicy \/ h[1] \in {"tenant", "user", "user_role", "key"})
    BY <1>7, ProgramOK, Tags DEF Single, KeyAfterRole
  <2>2. Range(<<>>) = {} /\ \A h : Range(<<h>>) = {h}
    BY DEF Range
  <2> HIDE DEF t
  <2>3. i = DefaultPolicy \/ i[1] \in {"tenant", "user", "user_role", "key"}
    BY <1>2, <2>1, <2>2
  <2> QED BY <2>3 DEF Unique
<1> QED BY <1>4, <1>5, <1>6, <1>7

\* A transaction that commits keeps what finding a row tells.
LEMMA CommitKeepsRelease ==
  ASSUME NEW p \in Procs, NEW n \in 1..Len(Program(p)), ReleaseOK(rows),
         \A k \in 1..(n - 1) : Has(Program(p)[k]),
         NEW new \in SUBSET Range(Program(p)[n]), NEW R,
         R = rows \cup new, Range(Program(p)[n]) \subseteq R
  PROVE  ReleaseOK(R)
<1> DEFINE t == Program(p)[n]
<1>1. n = 1 \/ n = 2 \/ n \in 3..Len(Program(p))
  BY ProgramOK
<1>2. ASSUME NEW i \in R, i \notin rows
      PROVE  i \in Range(t)
  BY <1>2
<1>3. \A h : Range(<<h>>) = {h}
  BY DEF Range
<1>4. n = 1 => t = seed_rbac /\ \A i \in Range(t) : i[1] \in {"permission", "role", "grant"}
  BY ProgramOK, RbacTransaction
<1>5. n = 2 => /\ t = seed_control_catalog
               /\ \A i \in Range(t) : i[1] \in {"framework", "regulation", "requirement", "pack"}
  BY ProgramOK, Tags
<1>6. n \in 3..Len(Program(p)) =>
        \A i \in Range(t) : \/ i[1] \in {"default_policy", "tenant", "user", "user_role"}
                            \/ KeyAfterRole(p, n) /\ i[1] = "key"
  <2> HAVE n \in 3..Len(Program(p))
  <2>1. ASSUME Single(t)
        PROVE  \A i \in Range(t) : i[1] \in {"default_policy", "tenant", "user", "user_role"}
    BY <1>3, <2>1, Tags DEF Single
  <2>2. ASSUME KeyAfterRole(p, n)
        PROVE  \A i \in Range(t) : i[1] = "key"
    BY <1>3, <2>2, Tags DEF KeyAfterRole
  <2>3. Single(t) \/ KeyAfterRole(p, n) \/ t = <<>>
    BY ProgramOK
  <2>4. Range(<<>>) = {}
    BY DEF Range
  <2> QED BY <2>1, <2>2, <2>3, <2>4
<1>7. PermissionRow(Added) \in R => Range(seed_rbac) \subseteq R
  BY <1>1, <1>2, <1>4, <1>5, <1>6, Tags DEF ReleaseOK
<1>8. <<"framework">> \in R => Range(seed_control_catalog) \subseteq R
  BY <1>1, <1>2, <1>4, <1>5, <1>6, Tags DEF ReleaseOK
<1>9. ASSUME NEW r \in ROLE_KEYS, KeyRow(r) \in R
      PROVE  UserRoleRow(r) \in R
  <2>1. CASE KeyRow(r) \in rows
    BY <2>1 DEF ReleaseOK
  <2>2. CASE KeyRow(r) \notin rows
    <3>1. KeyRow(r) \in Range(t)
      BY <1>2, <1>9, <2>2
    <3>2. n \in 3..Len(Program(p)) /\ KeyAfterRole(p, n)
      BY <1>1, <1>4, <1>5, <1>6, <3>1, Tags
    <3>3. PICK s \in ROLE_KEYS : t = <<KeyRow(s)>> /\ Program(p)[n - 1] = <<UserRoleRow(s)>>
      BY <3>2 DEF KeyAfterRole
    <3>4. KeyRow(r) = KeyRow(s)
      BY <1>3, <3>1, <3>3
    <3>5. r = s
      BY <3>4 DEF KeyRow
    <3>6. n - 1 \in 1..(n - 1)
      BY <3>2, ProgramOK
    <3>7. Range(<<UserRoleRow(s)>>) \subseteq rows
      BY <3>3, <3>6 DEF Has
    <3> QED BY <1>3, <3>5, <3>7
  <2> QED BY <2>1, <2>2
<1> QED BY <1>7, <1>8, <1>9 DEF ReleaseOK

\* A process that runs is not one of the others.
LEMMA Kinds ==
  /\ Off \notin RunState /\ Failed \notin RunState /\ Up \notin RunState
  /\ Creating \notin RunState
  /\ Off # Up /\ Failed # Up /\ Off # Failed /\ Creating # Up
<1>1. Off.pc = "off" /\ Failed.pc = "failed" /\ Up.pc = "up" /\ Creating.pc = "create"
  BY DEF Off, Failed, Up, Creating
<1>2. \A x \in RunState : x.pc \in {"read", "insert", "commit"}
  BY DEF RunState
<1> QED BY <1>1, <1>2

AllSeeded(p) == \A k \in 1..Len(Program(p)) : Has(Program(p)[k])

\* A step moves one process, and the rest keeps what it has.
LEMMA Moved ==
  ASSUME StartInv, NEW p \in Procs, NEW x \in {Off, Failed, Up, Creating} \cup RunState,
         proc' = [proc EXCEPT ![p] = x],
         rows \subseteq rows', ReleaseOK(rows'), SeededOnce',
         \A q \in Procs \ {p} :
           proc[q] \in RunState /\ proc[q].pc = "commit" => writer' = q /\ rows' = rows,
         x \in RunState => Running(p)',
         x = Up => AllSeeded(p)'
  PROVE  StartInv'
<1>1. proc' \in [Procs -> {Off, Failed, Up, Creating} \cup RunState]
  BY DEF StartInv
<1>2. proc'[p] = x /\ \A q \in Procs \ {p} : proc'[q] = proc[q]
  BY DEF StartInv
<1>3. ASSUME NEW q \in Procs \ {p}
      PROVE  /\ proc'[q] \in RunState => Running(q)'
             /\ proc'[q] = Up => AllSeeded(q)'
  <2>1. proc'[q] = proc[q]
    BY <1>2
  <2>2. \A t : Has(t) => Has(t)'
    BY DEF Has
  <2>3. proc[q] = Up => AllSeeded(q)
    BY DEF StartInv, AllSeeded
  <2>4. AllSeeded(q) => AllSeeded(q)'
    BY DEF AllSeeded, Has
  <2>5. proc[q] \in RunState => Running(q)
    BY DEF StartInv
  <2>6. ASSUME proc[q] \in RunState, Running(q)
        PROVE  Running(q)'
    <3>1. proc[q].pc = "commit" => writer' = q /\ rows' = rows
      BY <2>6
    <3> QED BY <2>1, <2>6, <3>1 DEF Running, Has, Missing
  <2> QED BY <2>1, <2>3, <2>4, <2>5, <2>6
<1>4. \A q \in Procs : /\ proc'[q] \in RunState => Running(q)'
                       /\ proc'[q] = Up => AllSeeded(q)'
  BY <1>2, <1>3
<1> QED BY <1>1, <1>4 DEF StartInv, AllSeeded

\* Where From puts a process, what StartInv says of it holds.
LEMMA FromMoves ==
  ASSUME StartInv, NEW p \in Procs, NEW n \in Nat \ {0}, n <= Len(Program(p)) + 1,
         \A k \in 1..(n - 1) : Has(Program(p)[k]),
         proc' = [proc EXCEPT ![p] = From(p, n)], UNCHANGED <<rows, doubled, writer>>
  PROVE  StartInv'
<1> DEFINE x == From(p, n)
<1>1. \/ x = Up /\ AllSeeded(p)
      \/ \E m \in 1..Len(Program(p)) : /\ x = [pc |-> "read", txn |-> m, insert |-> {}]
                                       /\ \A k \in 1..(m - 1) : Has(Program(p)[k])
  BY FromOK DEF AllSeeded
<1> HIDE DEF x
<1>2. ReleaseOK(rows') /\ SeededOnce' /\ rows \subseteq rows'
  BY DEF StartInv, SeededOnce
<1>3. \A q \in Procs \ {p} :
        proc[q] \in RunState /\ proc[q].pc = "commit" => writer' = q /\ rows' = rows
  BY DEF StartInv, Running
<1>4. proc' = [proc EXCEPT ![p] = x] /\ proc'[p] = x
  BY DEF x, StartInv
<1>5. CASE x = Up /\ AllSeeded(p)
  <2>1. AllSeeded(p)'
    BY <1>5 DEF AllSeeded, Has
  <2>2. x \notin RunState
    BY <1>5, Kinds
  <2> QED BY <1>2, <1>3, <1>4, <1>5, <2>1, <2>2, Moved
<1>6. CASE \E m \in 1..Len(Program(p)) : /\ x = [pc |-> "read", txn |-> m, insert |-> {}]
                                         /\ \A k \in 1..(m - 1) : Has(Program(p)[k])
  <2>1. PICK m \in 1..Len(Program(p)) : /\ x = [pc |-> "read", txn |-> m, insert |-> {}]
                                         /\ \A k \in 1..(m - 1) : Has(Program(p)[k])
    BY <1>6
  <2>2. m \in Nat \ {0} /\ m <= Len(Program(p))
    BY ProgramOK
  <2>3. x \in RunState
    BY <2>1, <2>2 DEF RunState
  <2>4. x.txn = m /\ x.insert = {} /\ x.pc = "read"
    BY <2>1
  <2>5. \A k \in 1..(m - 1) : Has(Program(p)[k])'
    BY <2>1 DEF Has
  <2>6. Running(p)'
    BY <1>4, <2>2, <2>4, <2>5 DEF Running
  <2>7. x # Up
    BY <2>3, Kinds
  <2> QED BY <1>2, <1>3, <1>4, <2>3, <2>6, <2>7, Moved
<1> QED BY <1>1, <1>5, <1>6

\* Every database an earlier release left behind is a start.
LEMMA InitStart == Init => StartInv
<1> SUFFICES ASSUME Init
             PROVE  StartInv
  OBVIOUS
<1>1. proc \in [Procs -> {Off}]
  BY DEF Init
<1>2. \A p \in Procs : proc[p] = Off
  BY <1>1
<1>3. rows \in OldReleases \cup NewReleases
  BY DEF Init, OldReleases
<1>4. ReleaseOK(rows)
  BY <1>3, InitialReleases
<1> QED BY <1>1, <1>2, <1>4, Kinds DEF Init, StartInv, SeededOnce

\* What StartInv says of a process that runs.
LEMMA Runs ==
  ASSUME StartInv, NEW p \in Procs, proc[p].pc \in {"read", "insert", "commit"}
  PROVE  proc[p] \in RunState /\ Running(p) /\ proc[p].txn \in 1..Len(Program(p))
<1>1. Off.pc = "off" /\ Failed.pc = "failed" /\ Up.pc = "up" /\ Creating.pc = "create"
  BY DEF Off, Failed, Up, Creating
<1>2. proc[p] \in RunState /\ Running(p)
  BY <1>1 DEF StartInv
<1> QED BY <1>2, ProgramOK DEF RunState, Running

\* A process that does nothing but stop, fail or find the tables missing.
LEMMA Stops ==
  ASSUME StartInv, NEW p \in Procs, NEW x \in {Off, Failed, Creating},
         proc' = [proc EXCEPT ![p] = x], UNCHANGED <<rows, doubled>>,
         writer' = writer \/ (writer = p /\ writer' = Nobody)
  PROVE  StartInv'
<1>1. ReleaseOK(rows') /\ SeededOnce' /\ rows \subseteq rows'
  BY DEF StartInv, SeededOnce
<1>2. \A q \in Procs \ {p} :
        proc[q] \in RunState /\ proc[q].pc = "commit" => writer' = q /\ rows' = rows
  BY DEF StartInv, Running
<1>3. x \notin RunState /\ x # Up /\ x \in {Off, Failed, Up, Creating} \cup RunState
  BY Kinds
<1> QED BY <1>1, <1>2, <1>3, Moved

LEMMA StartStep ==
  ASSUME StartInv, NEW p \in Procs, Start(p)
  PROVE  StartInv'
<1>1. PICK n : n = 1
  OBVIOUS
<1>2. n \in Nat \ {0} /\ n <= Len(Program(p)) + 1 /\ \A k \in 1..(n - 1) : Has(Program(p)[k])
  BY <1>1, ProgramOK
<1>3. /\ UNCHANGED <<rows, doubled, writer>>
      /\ \/ proc' = [proc EXCEPT ![p] = From(p, n)]
         \/ proc' = [proc EXCEPT ![p] = Creating]
  BY <1>1 DEF Start
<1> QED BY <1>2, <1>3, FromMoves, Stops

\* Its tables created, a process runs its first transaction.
LEMMA CreateStep ==
  ASSUME StartInv, NEW p \in Procs, CreateTables(p)
  PROVE  StartInv'
<1>1. UNCHANGED <<rows, doubled, writer>>
  BY DEF CreateTables
<1>2. CASE proc' = [proc EXCEPT ![p] = Failed]
  BY <1>1, <1>2, Stops
<1>3. CASE proc' = [proc EXCEPT ![p] = At(p, 1)]
  <2>1. PICK x : x = At(p, 1)
    OBVIOUS
  <2>2. x = [pc |-> "read", txn |-> 1, insert |-> {}]
    BY <2>1, ProgramOK DEF At
  <2>3. x \in RunState /\ x.pc = "read" /\ x.txn = 1 /\ x.insert = {}
    BY <2>2 DEF RunState
  <2>4. proc' = [proc EXCEPT ![p] = x] /\ proc'[p] = x
    BY <1>3, <2>1 DEF StartInv
  <2>5. Running(p)'
    BY <2>3, <2>4, ProgramOK DEF Running
  <2>6. ReleaseOK(rows') /\ SeededOnce' /\ rows \subseteq rows'
    BY <1>1 DEF StartInv, SeededOnce
  <2>7. \A q \in Procs \ {p} :
          proc[q] \in RunState /\ proc[q].pc = "commit" => writer' = q /\ rows' = rows
    BY <1>1 DEF StartInv, Running
  <2>8. x # Up
    BY <2>3, Kinds
  <2> QED BY <2>3, <2>4, <2>5, <2>6, <2>7, <2>8, Moved
<1> QED BY <1>2, <1>3 DEF CreateTables

\* The SELECTs: failed, passed over, or about to insert what is constrained.
LEMMA SelectStep ==
  ASSUME StartInv, NEW p \in Procs, Select(p)
  PROVE  StartInv'
<1> DEFINE n == proc[p].txn
           t == Program(p)[n]
           seen == Unlocked(p)
           fails == Unreadable(Transaction(p)) \/ \E i \in seen : Ambiguous(i)
           new == {i \in seen : Missing(i)}
           x == [proc[p] EXCEPT !.pc = "insert", !.insert = new]
<1>1. proc[p].pc = "read" /\ UNCHANGED <<rows, doubled, writer>>
  BY DEF Select
<1>2. proc' = [proc EXCEPT ![p] = IF fails THEN Failed
                                  ELSE IF new = {} THEN From(p, n + 1) ELSE x]
  BY <1>1 DEF Select
<1>3. proc[p] \in RunState /\ Running(p) /\ n \in 1..Len(Program(p))
  BY <1>1, Runs
<1>4. /\ seen \subseteq Range(t)
      /\ (\A i \in seen : ~ Missing(i)) => Has(t)
  BY <1>3, UnlockedReads
<1>5. \A i \in new : Unique(i) \/ i = DefaultPolicy
  BY <1>3, BlindRows DEF StartInv
<1>6. ReleaseOK(rows') /\ SeededOnce' /\ rows \subseteq rows'
  BY <1>1 DEF StartInv, SeededOnce
<1>7. \A q \in Procs \ {p} :
        proc[q] \in RunState /\ proc[q].pc = "commit" => writer' = q /\ rows' = rows
  BY <1>1 DEF StartInv, Running
<1>8. Len(Program(p)) \in Nat
  BY ProgramOK
<1> HIDE DEF seen, fails
<1>9. CASE fails
  <2>1. proc' = [proc EXCEPT ![p] = Failed]
    BY <1>2, <1>9
  <2> QED BY <1>6, <1>7, <2>1, Kinds, Moved
<1>10. CASE ~ fails /\ new = {}
  <2>1. proc' = [proc EXCEPT ![p] = From(p, n + 1)]
    BY <1>2, <1>10
  <2>2. Has(t)
    BY <1>4, <1>10
  <2>3. \A k \in 1..(n - 1) : Has(Program(p)[k])
    BY <1>3 DEF Running
  <2>4. \A k \in 1..((n + 1) - 1) : k \in 1..(n - 1) \/ k = n
    BY <1>3, <1>8
  <2>5. \A k \in 1..((n + 1) - 1) : Has(Program(p)[k])
    BY <2>2, <2>3, <2>4
  <2>6. n + 1 \in Nat \ {0} /\ n + 1 <= Len(Program(p)) + 1
    BY <1>3, <1>8
  <2> HIDE DEF n
  <2> QED BY <1>1, <2>1, <2>5, <2>6, FromMoves
<1>11. CASE ~ fails /\ new # {}
  <2>1. proc' = [proc EXCEPT ![p] = x]
    BY <1>2, <1>11
  <2>2. new \subseteq Rows /\ new \subseteq Range(t)
    BY <1>3, <1>4, RowsOf
  <2>3. x \in RunState /\ x.pc = "insert" /\ x.insert = new /\ x.txn = n
    <3> HIDE DEF new
    <3> QED BY <1>3, <2>2 DEF RunState
  <2>4. proc'[p] = x
    BY <2>1 DEF StartInv
  <2> HIDE DEF x, new
  <2>5. \A k \in 1..(n - 1) : Has(Program(p)[k])'
    BY <1>1, <1>3 DEF Running, Has
  <2>6. Running(p)'
    BY <1>3, <1>5, <2>2, <2>3, <2>4, <2>5 DEF Running
  <2>7. x # Up
    BY <2>3, Kinds
  <2>8. x \in RunState
    BY <2>3
  <2> HIDE DEF n, t
  <2>9. \A q \in Procs \ {p} :
          proc[q] \in RunState /\ proc[q].pc = "commit" => writer' = q /\ rows' = rows
    BY <1>7
  <2>10. ReleaseOK(rows') /\ SeededOnce' /\ rows \subseteq rows'
    BY <1>6
  <2>11. PICK y : y = x
    OBVIOUS
  <2>12. /\ proc' = [proc EXCEPT ![p] = y] /\ y \in {Off, Failed, Up, Creating} \cup RunState
         /\ y = Up => AllSeeded(p)'
    BY <2>1, <2>7, <2>8, <2>11
  <2> QED BY <2>6, <2>9, <2>10, <2>12, Moved
<1> QED BY <1>9, <1>10, <1>11

\* Whoever gets the lock inserts constrained rows that are still missing.
LEMMA InsertStep ==
  ASSUME StartInv, NEW p \in Procs, Insert(p)
  PROVE  StartInv'
<1> DEFINE x == [proc[p] EXCEPT !.pc = "commit"]
<1>1. /\ proc[p].pc = "insert" /\ writer = Nobody /\ writer' = p
      /\ \A i \in proc[p].insert : Unique(i) => Missing(i)
      /\ proc' = [proc EXCEPT ![p] = x] /\ UNCHANGED <<rows, doubled>>
  BY DEF Insert
<1>2. proc[p] \in RunState /\ Running(p)
  BY <1>1, Runs
<1>3. /\ x \in RunState /\ x.pc = "commit" /\ x.insert = proc[p].insert
      /\ x.txn = proc[p].txn
  BY <1>2 DEF RunState
<1>4. proc'[p] = x
  BY <1>1 DEF StartInv
<1> HIDE DEF x
<1>5. \A k \in 1..(proc[p].txn - 1) : Has(Program(p)[k])'
  BY <1>1, <1>2 DEF Running, Has
<1>6. \A i \in proc[p].insert : Missing(i)' \/ i = DefaultPolicy
  BY <1>1, <1>2 DEF Running, Missing
<1>7. Running(p)'
  BY <1>1, <1>2, <1>3, <1>4, <1>5, <1>6 DEF Running
<1>8. ReleaseOK(rows') /\ SeededOnce' /\ rows \subseteq rows'
  BY <1>1 DEF StartInv, SeededOnce
<1>9. \A q \in Procs \ {p} : ~ (proc[q] \in RunState /\ proc[q].pc = "commit")
  BY <1>1, NobodyAssumption DEF StartInv, Running
<1>10. x # Up
  BY <1>3, Kinds
<1> QED BY <1>1, <1>3, <1>7, <1>8, <1>9, <1>10, Moved

LEMMA FailStep ==
  ASSUME StartInv, NEW p \in Procs, InsertConflicts(p) \/ InsertTimesOut(p)
  PROVE  StartInv'
<1>1. proc' = [proc EXCEPT ![p] = Failed] /\ UNCHANGED <<rows, doubled, writer>>
  BY DEF InsertConflicts, InsertTimesOut
<1> QED BY <1>1, Stops

LEMMA CrashStep ==
  ASSUME StartInv, NEW p \in Procs, Crash(p)
  PROVE  StartInv'
<1>1. /\ proc' = [proc EXCEPT ![p] = Off] /\ UNCHANGED <<rows, doubled>>
      /\ writer' = IF writer = p THEN Nobody ELSE writer
  BY DEF Crash
<1> QED BY <1>1, Stops

\* Under the lock the rest is inserted when it is missing, and only then.
LEMMA CommitStep ==
  ASSUME StartInv, NEW p \in Procs, Commit(p)
  PROVE  StartInv'
<1> DEFINE n == proc[p].txn
           all == Range(Program(p)[n])
           new == proc[p].insert \cup {i \in all : Missing(i)}
<1>1. proc[p].pc = "commit" /\ writer' = Nobody
  BY DEF Commit
<1>2. \/ proc' = [proc EXCEPT ![p] = Failed] /\ UNCHANGED <<rows, doubled>>
      \/ /\ rows' = rows \cup new /\ doubled' = doubled \cup (rows \cap new)
         /\ proc' = [proc EXCEPT ![p] = At(p, n + 1)]
  BY DEF Commit, Transaction
<1>3. proc[p] \in RunState /\ Running(p) /\ n \in 1..Len(Program(p)) /\ Len(Program(p)) \in Nat
  BY <1>1, Runs, ProgramOK
<1>4. \A q \in Procs \ {p} : ~ (proc[q] \in RunState /\ proc[q].pc = "commit")
  BY <1>1, <1>3 DEF StartInv, Running
<1>5. CASE proc' = [proc EXCEPT ![p] = Failed] /\ UNCHANGED <<rows, doubled>>
  <2>1. ReleaseOK(rows') /\ SeededOnce' /\ rows \subseteq rows'
    BY <1>5 DEF StartInv, SeededOnce
  <2> QED BY <1>4, <1>5, <2>1, Kinds, Moved
<1>6. CASE /\ rows' = rows \cup new /\ doubled' = doubled \cup (rows \cap new)
           /\ proc' = [proc EXCEPT ![p] = At(p, n + 1)]
  <2>1. proc[p].insert \subseteq all /\ \A i \in proc[p].insert : i \notin rows \/ i = DefaultPolicy
    BY <1>1, <1>3 DEF Running, Missing
  <2>2. new \subseteq all /\ all \subseteq rows' /\ rows \subseteq rows'
    BY <1>6, <2>1 DEF Missing
  <2>3. rows \cap new \subseteq {DefaultPolicy}
    BY <2>1 DEF Missing
  <2>4. SeededOnce'
    BY <1>6, <2>3 DEF StartInv, SeededOnce
  <2>5. \A k \in 1..(n - 1) : Has(Program(p)[k])
    BY <1>3 DEF Running
  <2>6. ReleaseOK(rows')
    <3> HIDE DEF n, new
    <3> QED BY <1>3, <1>6, <2>2, <2>5, CommitKeepsRelease DEF StartInv
  <2>7. \A k \in 1..n : Has(Program(p)[k])'
    <3>1. \A k \in 1..n : k \in 1..(n - 1) \/ k = n
      BY <1>3
    <3>2. ASSUME NEW k \in 1..n, k = n
          PROVE  Has(Program(p)[k])'
      BY <2>2, <3>2 DEF Has
    <3>3. \A k \in 1..(n - 1) : Has(Program(p)[k])'
      BY <2>2, <2>5 DEF Has
    <3> HIDE DEF n
    <3> QED BY <3>1, <3>2, <3>3
  <2>8. PICK y : y = At(p, n + 1)
    OBVIOUS
  <2>9. proc' = [proc EXCEPT ![p] = y] /\ proc'[p] = y
    BY <1>6, <2>8 DEF StartInv
  <2>10. CASE n = Len(Program(p))
    <3>1. y = Up
      BY <1>3, <2>8, <2>10 DEF At
    <3>2. AllSeeded(p)'
      BY <2>7, <2>10 DEF AllSeeded
    <3> QED BY <1>4, <2>2, <2>4, <2>6, <2>9, <3>1, <3>2, Kinds, Moved
  <2>11. CASE n # Len(Program(p))
    <3>1. y = [pc |-> "read", txn |-> n + 1, insert |-> {}]
      BY <1>3, <2>8, <2>11 DEF At
    <3>2. n + 1 \in Nat \ {0} /\ n + 1 <= Len(Program(p)) /\ (n + 1) - 1 = n
      BY <1>3, <2>11
    <3>3. y \in RunState /\ y.txn = n + 1 /\ y.insert = {} /\ y.pc = "read"
      BY <3>1, <3>2 DEF RunState
    <3> HIDE DEF n
    <3>4. Running(p)'
      BY <2>7, <2>9, <3>2, <3>3 DEF Running
    <3>5. y # Up
      BY <3>3, Kinds
    <3> QED BY <1>4, <2>2, <2>4, <2>6, <2>9, <3>3, <3>4, <3>5, Moved
  <2> QED BY <2>10, <2>11
<1> QED BY <1>2, <1>5, <1>6

LEMMA StartSteps == StartInv /\ [Next]_vars => StartInv'
<1> SUFFICES ASSUME StartInv, [Next]_vars
             PROVE  StartInv'
  OBVIOUS
<1>1. ASSUME NEW p \in Procs, Run(p)
      PROVE  StartInv'
  BY <1>1, StartStep, CreateStep, SelectStep, InsertStep, FailStep, CommitStep DEF Run
<1>2. ASSUME NEW p \in Procs, Crash(p)
      PROVE  StartInv'
  BY <1>2, CrashStep
<1>3. CASE Migrate \/ UNCHANGED vars
  <2>1. UNCHANGED <<rows, doubled, writer, proc>>
    BY <1>3 DEF Migrate, vars
  <2> QED BY <2>1 DEF StartInv, Running, Has, Missing, SeededOnce
<1> QED BY <1>1, <1>2, <1>3 DEF Next

-----------------------------------------------------------------------------
(***************************************************************************)
(* What the proofs rest on: what is found of a release says what else is   *)
(* there, a process has what it passed, and only the one with the lock     *)
(* commits.                                                                *)
(***************************************************************************)
THEOREM SeedInvariant == Spec => []StartInv
<1>1. Init => StartInv
  BY InitStart
<1>2. StartInv /\ [Next]_vars => StartInv'
  BY StartSteps
<1> QED BY <1>1, <1>2, PTL DEF Spec

(***************************************************************************)
(* Seeding is idempotent, for any number of processes that start at once,  *)
(* die and start again: nothing that a constraint leaves free is inserted  *)
(* before a row of the same transaction that a constraint binds.           *)
(***************************************************************************)
THEOREM SeedingIsIdempotent == Spec => []SeededOnce
<1>1. StartInv => SeededOnce
  BY DEF StartInv
<1> QED BY <1>1, SeedInvariant, PTL

\* Every permission is in one of the groups.
LEMMA GrantsAreComplete ==
  ASSUME NEW r \in ROLE_KEYS,
         \A g \in Range(Groups) : g \cap ROLE_PERMISSIONS[r] # {} => GrantRow(r, g) \in rows
  PROVE  UNION {g \cap ROLE_PERMISSIONS[r] : g \in {h \in Range(Groups) : GrantRow(r, h) \in rows}}
           = ROLE_PERMISSIONS[r]
<1>1. Range(Groups) = {AllPermissions \ Added, Added}
  BY DEF Groups, Range
<1>2. ROLE_PERMISSIONS[r] \subseteq AllPermissions \cup Added
  <2>1. DOMAIN PERMISSION_NAMES = 1..10
    BY DEF PERMISSION_NAMES
  <2>2. \A k \in 1..10 : PERMISSION_NAMES[k] \in AllPermissions
    BY <2>1 DEF AllPermissions, Range
  <2>3. /\ PERMISSION_NAMES[1] = "create_governed_action"
        /\ PERMISSION_NAMES[2] = "approve_action" /\ PERMISSION_NAMES[3] = "reject_action"
        /\ PERMISSION_NAMES[4] = "execute_approved_action"
        /\ PERMISSION_NAMES[5] = "view_audit" /\ PERMISSION_NAMES[6] = "export_evidence"
    BY DEF PERMISSION_NAMES
  <2>4. {"create_governed_action", "approve_action", "reject_action", "execute_approved_action",
         "view_audit", "export_evidence"} \subseteq AllPermissions
    <3> HIDE DEF PERMISSION_NAMES
    <3> QED BY <2>2, <2>3
  <2>5. ROLE_PERMISSIONS["Admin"] \subseteq AllPermissions
    BY DEF ROLE_PERMISSIONS
  <2>6. /\ ROLE_PERMISSIONS["Operator"] \subseteq AllPermissions
        /\ ROLE_PERMISSIONS["Reviewer"] \subseteq AllPermissions
        /\ ROLE_PERMISSIONS["Auditor"] \subseteq AllPermissions
    <3> HIDE DEF AllPermissions
    <3> QED BY <2>4 DEF ROLE_PERMISSIONS
  <2> QED BY <2>5, <2>6 DEF ROLE_KEYS
<1>3. \A x \in ROLE_PERMISSIONS[r] : \E g \in Range(Groups) : x \in g \cap ROLE_PERMISSIONS[r]
  BY <1>1, <1>2
<1> QED BY <1>3

(***************************************************************************)
(* A key works: while a process is up, every key of the pilot that exists  *)
(* resolves to exactly its role's permissions, and the keys that a script  *)
(* printed exist.                                                          *)
(***************************************************************************)
THEOREM KeysWork == Spec => []CredentialsWork
<1>1. StartInv => CredentialsWork
  <2> SUFFICES ASSUME StartInv, NEW p \in Procs, proc[p] = Up, NEW r \in ROLE_KEYS
               PROVE  /\ resolve_principal(r).valid =>
                           resolve_principal(r).permissions = ROLE_PERMISSIONS[r]
                      /\ p \in Pilots => resolve_principal(r).valid
    BY DEF CredentialsWork
  <2>1. \A k \in 1..Len(Program(p)) : Has(Program(p)[k])
    BY DEF StartInv
  <2>2. r \in Roles
    BY DEF ROLE_KEYS, Roles, ROLE_PERMISSIONS
  <2>3. Range(seed_rbac) \subseteq rows
    <3>1. 1 \in 1..Len(Program(p))
      BY ProgramOK
    <3> QED BY <2>1, <3>1, ProgramOK DEF Has
  <2>4. \A g \in Range(Groups) : g \cap ROLE_PERMISSIONS[r] # {} => GrantRow(r, g) \in rows
    BY <2>2, <2>3, RbacTransaction
  <2>5. KeyRow(r) \in rows => UserRoleRow(r) \in rows
    BY DEF StartInv, ReleaseOK
  <2>6. KeyRow(r) \in rows => _permissions_for_user(r) = ROLE_PERMISSIONS[r]
    BY <2>4, <2>5, GrantsAreComplete DEF _permissions_for_user
  <2>7. p \in Pilots => KeyRow(r) \in rows
    <3>1. \A h : Range(<<h>>) = {h}
      BY DEF Range
    <3> QED BY <2>1, <3>1, ProgramOK DEF Has
  <2> QED BY <2>6, <2>7 DEF resolve_principal
<1> QED BY <1>1, SeedInvariant, PTL

=============================================================================
