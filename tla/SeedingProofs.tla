----------------------------- MODULE SeedingProofs -----------------------------
(***************************************************************************)
(* The safety properties of Seeding, for any nodes, manifests and bound on *)
(* failures.  What a node has behind it (Past, UserPast) says what it can  *)
(* rely on, whatever the other nodes execute in between.                   *)
(***************************************************************************)
EXTENDS Seeding, SequenceTheorems, TLAPS

\* The statements after the loop over the databases, and after both loops.
AfterDatabases == SeedUserAt \cup {"FlushPrivileges", "RunPostStartSQL", "ready"}
AfterUsers == {"RunPostStartSQL", "ready"}

\* Node n has done with entry j of the databases, or is at one of the
\* statements S of it.
Past(n, j, S) ==
  \/ at[n] \in AfterDatabases
  \/ at[n] \in SeedAt /\ k[n] > j
  \/ at[n] \in S /\ k[n] = j

\* The same for entry j of the users.
UserPast(n, j, S) ==
  \/ at[n] \in AfterUsers
  \/ at[n] \in SeedUserAt /\ k[n] > j
  \/ at[n] \in S /\ k[n] = j

SamePair(i, j) ==
  /\ manifest.databases[i].db = manifest.databases[j].db
  /\ manifest.databases[i].user = manifest.databases[j].user

\* LOCK TABLES is left only while some node still has to revoke it: it holds
\* an entry for the same database and user that it is not past.
LockInv ==
  \A j \in DOMAIN manifest.databases :
    <<manifest.databases[j].db, "LOCK TABLES">> \in dbPrivs[AnyHost(manifest.databases[j].user)]
      => \E n \in Nodes, i \in DOMAIN manifest.databases : SamePair(i, j) /\ ~ Past(n, i, {})

Created == SeedAt \ {"CreateDBIfNeeded"}
Existing == {"GrantAll", "RevokeLockTables"}

\* What a node has executed for an entry of the databases is in force.
DbInv ==
  \A n \in Nodes, j \in DOMAIN manifest.databases :
    LET d == manifest.databases[j] IN
    /\ Past(n, j, Created) => d.db \in dbs
    /\ Past(n, j, {"RevokeLockTables"}) => <<d.db, "ALL">> \in dbPrivs[AnyHost(d.user)]
    /\ Consistent /\ Past(n, j, Existing) => password[AnyHost(d.user)] = d.password

Checked == SeedUserAt \ {"getRoleQuery"}

Known(u) == u.role \in {"admin", "minimal"} /\ u.host \in DOMAIN HostString
AccountOf(u) == <<u.user, HostString[u.host]>>

\* The statement of the user's role is in force: an admin has all privileges
\* on *.* with GRANT OPTION, and nobody else has all privileges.
RoleInForce(u) ==
  /\ AccountOf(u) \in globalPrivs <=> u.role = "admin"
  /\ u.role = "admin" => AccountOf(u) \in grantOption

\* What a node has executed for an entry of the users is in force.
UserInv ==
  \A n \in Nodes, j \in DOMAIN manifest.users :
    LET u == manifest.users[j] IN
    /\ UserPast(n, j, Checked) => Known(u)
    /\ Consistent /\ UserPast(n, j, {"roleQuery"}) => password[AccountOf(u)] = u.password
    /\ Consistent /\ UserPast(n, j, {}) => RoleInForce(u)

Inv == TypeOK /\ LockInv /\ DbInv /\ UserInv

\* A step of node n.
NodeStep(n) == Start(n) \/ Statement(n) \/ StatementFails(n) \/ Restart(n)

-----------------------------------------------------------------------------
(* Operators                                                                 *)

\* A sequence as a function.
LEMMA SeqFacts ==
  ASSUME NEW S, NEW s \in Seq(S)
  PROVE  /\ Len(s) \in Nat /\ DOMAIN s = 1 .. Len(s)
         /\ s = << >> <=> Len(s) = 0
         /\ \A j \in DOMAIN s : s[j] \in S
BY EmptySeq

\* A manifest's lists are sequences of entries.
LEMMA ManifestFacts ==
  ASSUME NEW m \in Manifests
  PROVE  /\ Len(m.databases) \in Nat /\ DOMAIN m.databases = 1 .. Len(m.databases)
         /\ Len(m.users) \in Nat /\ DOMAIN m.users = 1 .. Len(m.users)
         /\ m.databases = << >> <=> Len(m.databases) = 0
         /\ \A j \in DOMAIN m.databases :
              /\ m.databases[j].db \in Dbs
              /\ m.databases[j].user \in Users
              /\ m.databases[j].password \in Passwords
         /\ \A j \in DOMAIN m.users :
              /\ m.users[j].user \in Users
              /\ m.users[j].password \in Passwords
<1> DEFINE D == [db : Dbs, user : Users, password : Passwords]
           U == [user : Users, password : Passwords, host : STRING, role : STRING]
<1>1. m \in [databases : Seq(D), users : Seq(U)]
  BY ManifestAssumption DEF ManifestType
<1>2. m.databases \in Seq(D) /\ m.users \in Seq(U)
  BY <1>1
<1> HIDE DEF D, U
<1>3. /\ Len(m.databases) \in Nat /\ DOMAIN m.databases = 1 .. Len(m.databases)
      /\ Len(m.users) \in Nat /\ DOMAIN m.users = 1 .. Len(m.users)
      /\ m.databases = << >> <=> Len(m.databases) = 0
  BY <1>2, SeqFacts
<1>4. (\A j \in DOMAIN m.databases : m.databases[j] \in D)
      /\ (\A j \in DOMAIN m.users : m.users[j] \in U)
  BY <1>2, SeqFacts
<1> USE DEF D, U
<1>5. QED
  BY <1>3, <1>4

\* Hosts of the configuration are told apart in the accounts.
LEMMA HostStringFacts ==
  /\ DOMAIN HostString = {"localhost", "loopback", "any"}
  /\ \A g, h \in DOMAIN HostString : HostString[g] = HostString[h] => g = h
  /\ \A u \in Users : AnyHost(u) \in Accounts
  /\ \A u \in Users, h \in DOMAIN HostString : <<u, HostString[h]>> \in Accounts
BY DEF HostString, Accounts, AnyHost

\* The manifest asks for the account a to have the password p.
Asked(a, p) ==
  \/ \E j \in DOMAIN manifest.databases :
       a = AnyHost(manifest.databases[j].user) /\ p = manifest.databases[j].password
  \/ \E j \in DOMAIN manifest.users :
       /\ manifest.users[j].host \in DOMAIN HostString
       /\ a = AccountOf(manifest.users[j]) /\ p = manifest.users[j].password

\* In a consistent manifest an account has one password and one role.
LEMMA ConsistentFacts ==
  ASSUME Consistent
  PROVE  /\ \A a, p, q : Asked(a, p) /\ Asked(a, q) => p = q
         /\ \A i, j \in DOMAIN manifest.users :
              /\ manifest.users[i].host \in DOMAIN HostString
              /\ manifest.users[j].host \in DOMAIN HostString
              /\ AccountOf(manifest.users[i]) = AccountOf(manifest.users[j])
              => manifest.users[i].role = manifest.users[j].role
<1> DEFINE DS == {manifest.databases[j] : j \in DOMAIN manifest.databases}
           FD == {<<AnyHost(d.user), d.password>> : d \in DS}
           KN == {manifest.users[j] : j \in {j \in DOMAIN manifest.users :
                                               manifest.users[j].host \in DOMAIN HostString}}
           FU == {<<(<<u.user, HostString[u.host]>>), u.password>> : u \in KN}
<1>1. \A x, y \in FD \cup FU : x[1] = y[1] => x[2] = y[2]
  BY DEF Consistent
<1>2. \A u, v \in KN : u.user = v.user /\ u.host = v.host => u.role = v.role
  BY DEF Consistent
<1>3. \A a, p : Asked(a, p) => <<a, p>> \in FD \cup FU
  BY DEF Asked, AccountOf
<1>4. ASSUME NEW a, NEW p, NEW q, Asked(a, p), Asked(a, q) PROVE p = q
  <2>1. <<a, p>> \in FD \cup FU /\ <<a, q>> \in FD \cup FU
    BY <1>3, <1>4
  <2>2. <<a, p>>[1] = <<a, q>>[1] => <<a, p>>[2] = <<a, q>>[2]
    BY <1>1, <2>1
  <2>3. QED
    BY <2>2
<1>5. ASSUME NEW i \in DOMAIN manifest.users, NEW j \in DOMAIN manifest.users,
             manifest.users[i].host \in DOMAIN HostString,
             manifest.users[j].host \in DOMAIN HostString,
             AccountOf(manifest.users[i]) = AccountOf(manifest.users[j])
      PROVE  manifest.users[i].role = manifest.users[j].role
  <2>1. manifest.users[i] \in KN /\ manifest.users[j] \in KN
    BY <1>5
  <2>2. /\ manifest.users[i].user = manifest.users[j].user
        /\ manifest.users[i].host = manifest.users[j].host
    BY <1>5, HostStringFacts DEF AccountOf
  <2>3. QED
    BY <1>2, <2>1, <2>2
<1>6. QED
  BY <1>4, <1>5
-----------------------------------------------------------------------------
(* Type correctness                                                          *)

\* Where a node is, and at which entry.
Place == Seeding \cup {"off", "ready"}
Within(to, entry) ==
  /\ to \in Place /\ entry \in Nat
  /\ to \in SeedAt \ {"FlushPrivileges"} => entry \in DOMAIN manifest.databases
  /\ to \in SeedUserAt => entry \in DOMAIN manifest.users

\* What Goto does to the node, and to the others.
LEMMA GotoFacts ==
  ASSUME TypeOK, NEW n \in Nodes, NEW to, NEW entry, Goto(n, to, entry)
  PROVE  /\ at'[n] = to /\ k'[n] = entry
         /\ \A m \in Nodes \ {n} : at'[m] = at[m] /\ k'[m] = k[m]
         /\ Within(to, entry) => at' \in [Nodes -> Place] /\ k' \in [Nodes -> Nat]
BY DEF TypeOK, Goto, Within, Place

\* The entries of SeedUsers and what follows it.
LEMMA SeedUsersFromFacts ==
  ASSUME TypeOK, NEW n \in Nodes, NEW entry \in Nat \ {0}, SeedUsersFrom(n, entry)
  PROVE  \E to \in {"getRoleQuery", "RunPostStartSQL"}, e \in Nat :
           /\ Goto(n, to, e) /\ Within(to, e)
           /\ to = "getRoleQuery" => e = entry
           /\ to = "RunPostStartSQL" => Len(manifest.users) < entry
<1>1. /\ Len(manifest.users) \in Nat /\ DOMAIN manifest.users = 1 .. Len(manifest.users)
  BY ManifestFacts DEF TypeOK
<1>2. CASE entry <= Len(manifest.users)
  <2>1. Goto(n, "getRoleQuery", entry) /\ Within("getRoleQuery", entry)
    BY <1>1, <1>2 DEF SeedUsersFrom, Within, Place, Seeding, SeedAt, SeedUserAt
  <2>2. QED
    BY <2>1
<1>3. CASE ~(entry <= Len(manifest.users))
  <2>1. Goto(n, "RunPostStartSQL", 1) /\ Within("RunPostStartSQL", 1)
    BY <1>3 DEF SeedUsersFrom, Within, Place, Seeding, SeedAt, SeedUserAt
  <2>2. Len(manifest.users) < entry
    BY <1>1, <1>3
  <2>3. QED
    BY <2>1, <2>2
<1>4. QED
  BY <1>2, <1>3

\* What a step of node n puts behind it, for entry j of the databases and
\* for entry j of the users.
DbProgress(n, j) ==
  /\ Past(n, j, Created)' => Past(n, j, Created) \/ (CreateDBIfNeeded(n) /\ k[n] = j)
  /\ Past(n, j, {"RevokeLockTables"})' =>
       Past(n, j, {"RevokeLockTables"}) \/ (GrantAll(n) /\ k[n] = j)
  /\ Past(n, j, Existing)' =>
       \/ Past(n, j, Existing)
       \/ (CreateUser(n) \/ UpdateUser(n)) /\ at'[n] = "GrantAll" /\ k[n] = j
  /\ Past(n, j, {})' => Past(n, j, {}) \/ (RevokeLockTables(n) /\ k[n] = j)

UserProgress(n, j) ==
  /\ UserPast(n, j, Checked)' =>
       \/ UserPast(n, j, Checked)
       \/ CheckRoleAndHost(n) /\ at'[n] = "CreateUserIfNotExists" /\ k[n] = j
  /\ UserPast(n, j, {"roleQuery"})' =>
       UserPast(n, j, {"roleQuery"}) \/ (AlterUser(n) /\ k[n] = j)
  /\ UserPast(n, j, {})' => UserPast(n, j, {}) \/ (RoleQuery(n) /\ k[n] = j)

Progress(n) ==
  /\ manifest' = manifest
  /\ \E to \in Place, e \in Nat : Goto(n, to, e) /\ Within(to, e)
  /\ \A j \in DOMAIN manifest.databases : DbProgress(n, j)
  /\ \A j \in DOMAIN manifest.users : UserProgress(n, j)

\* A step of a node stays within the lists, moves no other node, leaves the
\* manifest alone, and has a statement behind it only by executing it.
LEMMA NodeStepProgress ==
  ASSUME TypeOK, NEW n \in Nodes, NodeStep(n)
  PROVE  Progress(n)
<1> USE DEF Seeding, SeedAt, SeedUserAt
<1> DEFINE LD == Len(manifest.databases)
           LU == Len(manifest.users)
<1>0. /\ manifest \in Manifests /\ at[n] \in Place /\ k[n] \in Nat
      /\ LD \in Nat /\ DOMAIN manifest.databases = 1 .. LD
      /\ LU \in Nat /\ DOMAIN manifest.users = 1 .. LU
      /\ manifest.databases = << >> <=> LD = 0
      /\ at[n] \in SeedAt \ {"FlushPrivileges"} => k[n] \in 1 .. LD
      /\ at[n] \in SeedUserAt => k[n] \in 1 .. LU
  BY ManifestFacts DEF TypeOK, Place
<1> HIDE DEF LD, LU
<1>1. CASE Start(n)
  <2>1. manifest' = manifest
    BY <1>1 DEF Start
  <2>2. CASE LD = 0
    <3>1. PICK to \in {"getRoleQuery", "RunPostStartSQL"}, e \in Nat :
             /\ Goto(n, to, e) /\ Within(to, e)
             /\ to = "getRoleQuery" => e = 1
             /\ to = "RunPostStartSQL" => LU < 1
      BY <1>0, <1>1, <2>2, SeedUsersFromFacts DEF Start, LU
    <3>2. at'[n] = to /\ k'[n] = e
      BY <3>1, GotoFacts
    <3>3. QED
      BY <1>0, <1>1, <2>1, <2>2, <3>1, <3>2
         DEF Start, Place, Progress, DbProgress, UserProgress, Past, UserPast,
             AfterDatabases, AfterUsers, Created, Existing, Checked
  <2>3. CASE LD # 0
    <3>1. Goto(n, "CreateDBIfNeeded", 1) /\ Within("CreateDBIfNeeded", 1)
      BY <1>0, <1>1, <2>3 DEF Start, Within, Place
    <3>2. at'[n] = "CreateDBIfNeeded" /\ k'[n] = 1
      BY <3>1, GotoFacts
    <3>3. QED
      BY <1>0, <1>1, <2>1, <2>3, <3>1, <3>2
         DEF Start, Place, Progress, DbProgress, UserProgress, Past, UserPast,
             AfterDatabases, AfterUsers, Created, Existing, Checked
  <2>4. QED
    BY <2>2, <2>3
<1>2. CASE CreateDBIfNeeded(n)
  <2>1. Goto(n, "IsExistingUser", k[n]) /\ Within("IsExistingUser", k[n])
    BY <1>0, <1>2 DEF CreateDBIfNeeded, Within, Place
  <2>2. at'[n] = "IsExistingUser" /\ k'[n] = k[n] /\ manifest' = manifest
    BY <1>2, <2>1, GotoFacts DEF CreateDBIfNeeded
  <2>3. QED
    BY <1>0, <1>2, <2>1, <2>2
       DEF CreateDBIfNeeded, Place, Progress, DbProgress, UserProgress, Past, UserPast,
           AfterDatabases, AfterUsers, Created, Existing, Checked
<1>3. CASE IsExistingUser(n)
  <2>1. manifest' = manifest
    BY <1>3 DEF IsExistingUser
  <2>2. CASE Goto(n, "UpdateUser", k[n])
    <3>1. Goto(n, "UpdateUser", k[n]) /\ Within("UpdateUser", k[n])
      BY <1>0, <1>3, <2>2 DEF IsExistingUser, Within, Place, LD
    <3>2. at'[n] = "UpdateUser" /\ k'[n] = k[n]
      BY <3>1, GotoFacts
    <3>3. QED
      BY <1>0, <1>3, <2>1, <2>2, <3>1, <3>2
         DEF IsExistingUser, Place, Progress, DbProgress, UserProgress, Past, UserPast,
             AfterDatabases, AfterUsers, Created, Existing, Checked
  <2>3. CASE Goto(n, "CreateUser", k[n])
    <3>1. Goto(n, "CreateUser", k[n]) /\ Within("CreateUser", k[n])
      BY <1>0, <1>3, <2>3 DEF IsExistingUser, Within, Place, LD
    <3>2. at'[n] = "CreateUser" /\ k'[n] = k[n]
      BY <3>1, GotoFacts
    <3>3. QED
      BY <1>0, <1>3, <2>1, <2>3, <3>1, <3>2
         DEF IsExistingUser, Place, Progress, DbProgress, UserProgress, Past, UserPast,
             AfterDatabases, AfterUsers, Created, Existing, Checked
  <2>4. QED
    BY <1>3, <2>2, <2>3 DEF IsExistingUser
<1>4. CASE CreateUser(n)
  <2>1. manifest' = manifest
    BY <1>4 DEF CreateUser, Return
  <2>2. CASE Goto(n, "GrantAll", k[n])
    <3>1. Goto(n, "GrantAll", k[n]) /\ Within("GrantAll", k[n])
      BY <1>0, <1>4, <2>2 DEF CreateUser, Within, Place, LD, Return
    <3>2. at'[n] = "GrantAll" /\ k'[n] = k[n]
      BY <3>1, GotoFacts
    <3>3. QED
      BY <1>0, <1>4, <2>1, <2>2, <3>1, <3>2
         DEF CreateUser, Place, Progress, DbProgress, UserProgress, Past, UserPast,
             AfterDatabases, AfterUsers, Created, Existing, Checked
  <2>3. CASE Return(n)
    <3>1. Goto(n, "off", 1) /\ Within("off", 1)
      BY <1>0, <1>4, <2>3 DEF CreateUser, Within, Place, LD, Return
    <3>2. at'[n] = "off" /\ k'[n] = 1
      BY <3>1, GotoFacts
    <3>3. QED
      BY <1>0, <1>4, <2>1, <2>3, <3>1, <3>2
         DEF CreateUser, Place, Progress, DbProgress, UserProgress, Past, UserPast,
             AfterDatabases, AfterUsers, Created, Existing, Checked
  <2>4. QED
    BY <1>4, <2>2, <2>3 DEF CreateUser, Return
<1>5. CASE UpdateUser(n)
  <2>1. manifest' = manifest
    BY <1>5 DEF UpdateUser, Return
  <2>2. CASE Goto(n, "GrantAll", k[n])
    <3>1. Goto(n, "GrantAll", k[n]) /\ Within("GrantAll", k[n])
      BY <1>0, <1>5, <2>2 DEF UpdateUser, Within, Place, LD, Return
    <3>2. at'[n] = "GrantAll" /\ k'[n] = k[n]
      BY <3>1, GotoFacts
    <3>3. QED
      BY <1>0, <1>5, <2>1, <2>2, <3>1, <3>2
         DEF UpdateUser, Place, Progress, DbProgress, UserProgress, Past, UserPast,
             AfterDatabases, AfterUsers, Created, Existing, Checked
  <2>3. CASE Return(n)
    <3>1. Goto(n, "off", 1) /\ Within("off", 1)
      BY <1>0, <1>5, <2>3 DEF UpdateUser, Within, Place, LD, Return
    <3>2. at'[n] = "off" /\ k'[n] = 1
      BY <3>1, GotoFacts
    <3>3. QED
      BY <1>0, <1>5, <2>1, <2>3, <3>1, <3>2
         DEF UpdateUser, Place, Progress, DbProgress, UserProgress, Past, UserPast,
             AfterDatabases, AfterUsers, Created, Existing, Checked
  <2>4. QED
    BY <1>5, <2>2, <2>3 DEF UpdateUser, Return
<1>6. CASE GrantAll(n)
  <2>1. Goto(n, "RevokeLockTables", k[n]) /\ Within("RevokeLockTables", k[n])
    BY <1>0, <1>6 DEF GrantAll, Within, Place
  <2>2. at'[n] = "RevokeLockTables" /\ k'[n] = k[n] /\ manifest' = manifest
    BY <1>6, <2>1, GotoFacts DEF GrantAll
  <2>3. QED
    BY <1>0, <1>6, <2>1, <2>2
       DEF GrantAll, Place, Progress, DbProgress, UserProgress, Past, UserPast,
           AfterDatabases, AfterUsers, Created, Existing, Checked
<1>7. CASE RevokeLockTables(n)
  <2>1. manifest' = manifest /\ at[n] = "RevokeLockTables" /\ k[n] \in 1 .. LD
    BY <1>0, <1>7 DEF RevokeLockTables
  <2>2. CASE k[n] < LD
    <3>1. Goto(n, "CreateDBIfNeeded", k[n] + 1) /\ Within("CreateDBIfNeeded", k[n] + 1)
      <4>1. Goto(n, "CreateDBIfNeeded", k[n] + 1)
        BY <1>7, <2>2 DEF RevokeLockTables, LD
      <4>2. Within("CreateDBIfNeeded", k[n] + 1)
        BY <1>0, <2>1, <2>2 DEF Within, Place
      <4>3. QED
        BY <4>1, <4>2
    <3>2. at'[n] = "CreateDBIfNeeded" /\ k'[n] = k[n] + 1
      BY <3>1, GotoFacts
    <3>3. QED
      BY <1>0, <1>7, <2>1, <2>2, <3>1, <3>2
         DEF Place, Progress, DbProgress, UserProgress, Past, UserPast,
             AfterDatabases, AfterUsers, Created, Existing, Checked
  <2>3. CASE ~(k[n] < LD)
    <3>1. Goto(n, "FlushPrivileges", 1) /\ Within("FlushPrivileges", 1)
      BY <1>0, <1>7, <2>3 DEF RevokeLockTables, Within, Place, LD
    <3>2. at'[n] = "FlushPrivileges" /\ k'[n] = 1
      BY <3>1, GotoFacts
    <3>3. QED
      BY <1>0, <1>7, <2>1, <2>3, <3>1, <3>2
         DEF Place, Progress, DbProgress, UserProgress, Past, UserPast,
             AfterDatabases, AfterUsers, Created, Existing, Checked
  <2>4. QED
    BY <1>7, <2>2, <2>3 DEF RevokeLockTables
<1>8. CASE FlushPrivileges(n)
  <2>1. manifest' = manifest
    BY <1>8 DEF FlushPrivileges
  <2>2. QED
    <3>1. PICK to \in {"getRoleQuery", "RunPostStartSQL"}, e \in Nat :
             /\ Goto(n, to, e) /\ Within(to, e)
             /\ to = "getRoleQuery" => e = 1
             /\ to = "RunPostStartSQL" => LU < 1
      BY <1>0, <1>8, SeedUsersFromFacts DEF FlushPrivileges, LU
    <3>2. at'[n] = to /\ k'[n] = e
      BY <3>1, GotoFacts
    <3>3. QED
      BY <1>0, <1>8, <2>1, <3>1, <3>2
         DEF FlushPrivileges, Place, Progress, DbProgress, UserProgress, Past, UserPast,
             AfterDatabases, AfterUsers, Created, Existing, Checked
<1>9. CASE CheckRoleAndHost(n)
  <2>1. manifest' = manifest
    BY <1>9 DEF CheckRoleAndHost, Return
  <2>2. CASE Goto(n, "CreateUserIfNotExists", k[n])
    <3>1. Goto(n, "CreateUserIfNotExists", k[n]) /\ Within("CreateUserIfNotExists", k[n])
      BY <1>0, <1>9, <2>2 DEF CheckRoleAndHost, Within, Place, LD, Return
    <3>2. at'[n] = "CreateUserIfNotExists" /\ k'[n] = k[n]
      BY <3>1, GotoFacts
    <3>3. QED
      BY <1>0, <1>9, <2>1, <2>2, <3>1, <3>2
         DEF CheckRoleAndHost, Place, Progress, DbProgress, UserProgress, Past, UserPast,
             AfterDatabases, AfterUsers, Created, Existing, Checked
  <2>3. CASE Return(n)
    <3>1. Goto(n, "off", 1) /\ Within("off", 1)
      BY <1>0, <1>9, <2>3 DEF CheckRoleAndHost, Within, Place, LD, Return
    <3>2. at'[n] = "off" /\ k'[n] = 1
      BY <3>1, GotoFacts
    <3>3. QED
      BY <1>0, <1>9, <2>1, <2>3, <3>1, <3>2
         DEF CheckRoleAndHost, Place, Progress, DbProgress, UserProgress, Past, UserPast,
             AfterDatabases, AfterUsers, Created, Existing, Checked
  <2>4. QED
    BY <1>9, <2>2, <2>3 DEF CheckRoleAndHost, Return
<1>10. CASE CreateUserIfNotExists(n)
  <2>1. Goto(n, "AlterUser", k[n]) /\ Within("AlterUser", k[n])
    BY <1>0, <1>10 DEF CreateUserIfNotExists, Within, Place
  <2>2. at'[n] = "AlterUser" /\ k'[n] = k[n] /\ manifest' = manifest
    BY <1>10, <2>1, GotoFacts DEF CreateUserIfNotExists
  <2>3. QED
    BY <1>0, <1>10, <2>1, <2>2
       DEF CreateUserIfNotExists, Place, Progress, DbProgress, UserProgress, Past, UserPast,
           AfterDatabases, AfterUsers, Created, Existing, Checked
<1>11. CASE AlterUser(n)
  <2>1. Goto(n, "roleQuery", k[n]) /\ Within("roleQuery", k[n])
    BY <1>0, <1>11 DEF AlterUser, Within, Place
  <2>2. at'[n] = "roleQuery" /\ k'[n] = k[n] /\ manifest' = manifest
    BY <1>11, <2>1, GotoFacts DEF AlterUser
  <2>3. QED
    BY <1>0, <1>11, <2>1, <2>2
       DEF AlterUser, Place, Progress, DbProgress, UserProgress, Past, UserPast,
           AfterDatabases, AfterUsers, Created, Existing, Checked
<1>12. CASE RoleQuery(n)
  <2>1. manifest' = manifest
    BY <1>12 DEF RoleQuery
  <2>2. QED
    <3>1. PICK to \in {"getRoleQuery", "RunPostStartSQL"}, e \in Nat :
             /\ Goto(n, to, e) /\ Within(to, e)
             /\ to = "getRoleQuery" => e = k[n] + 1
             /\ to = "RunPostStartSQL" => LU < k[n] + 1
      BY <1>0, <1>12, SeedUsersFromFacts DEF RoleQuery, LU
    <3>2. at'[n] = to /\ k'[n] = e
      BY <3>1, GotoFacts
    <3>3. QED
      BY <1>0, <1>12, <2>1, <3>1, <3>2
         DEF RoleQuery, Place, Progress, DbProgress, UserProgress, Past, UserPast,
             AfterDatabases, AfterUsers, Created, Existing, Checked
<1>13. CASE RunPostStartSQL(n)
  <2>1. Goto(n, "ready", 1) /\ Within("ready", 1)
    BY <1>0, <1>13 DEF RunPostStartSQL, Within, Place
  <2>2. at'[n] = "ready" /\ k'[n] = 1 /\ manifest' = manifest
    BY <1>13, <2>1, GotoFacts DEF RunPostStartSQL
  <2>3. QED
    BY <1>0, <1>13, <2>1, <2>2
       DEF RunPostStartSQL, Place, Progress, DbProgress, UserProgress, Past, UserPast,
           AfterDatabases, AfterUsers, Created, Existing, Checked
<1>14. CASE StatementFails(n)
  <2>1. Goto(n, "off", 1) /\ Within("off", 1)
    BY <1>0, <1>14 DEF StatementFails, Within, Place
  <2>2. at'[n] = "off" /\ k'[n] = 1 /\ manifest' = manifest
    BY <1>14, <2>1, GotoFacts DEF StatementFails
  <2>3. QED
    BY <1>0, <1>14, <2>1, <2>2
       DEF StatementFails, Place, Progress, DbProgress, UserProgress, Past, UserPast,
           AfterDatabases, AfterUsers, Created, Existing, Checked
<1>15. CASE Restart(n)
  <2>1. Goto(n, "off", 1) /\ Within("off", 1)
    BY <1>0, <1>15 DEF Restart, Within, Place, Return
  <2>2. at'[n] = "off" /\ k'[n] = 1 /\ manifest' = manifest
    BY <1>15, <2>1, GotoFacts DEF Restart, Return
  <2>3. QED
    BY <1>0, <1>15, <2>1, <2>2
       DEF Restart, Place, Progress, DbProgress, UserProgress, Past, UserPast,
           AfterDatabases, AfterUsers, Created, Existing, Checked
<1>16. QED
  BY <1>1, <1>2, <1>3, <1>4, <1>5, <1>6, <1>7, <1>8, <1>9, <1>10, <1>11, <1>12, <1>13,
     <1>14, <1>15 DEF NodeStep, Statement

-----------------------------------------------------------------------------
(* The tables                                                                *)

\* Which statements change which table.
LEMMA Writers ==
  ASSUME TypeOK, NEW n \in Nodes, NodeStep(n)
  PROVE  /\ dbs' = dbs \/ CreateDBIfNeeded(n)
         /\ \/ password' = password
            \/ CreateUser(n) \/ UpdateUser(n) \/ CreateUserIfNotExists(n) \/ AlterUser(n)
         /\ dbPrivs' = dbPrivs \/ GrantAll(n) \/ RevokeLockTables(n)
         /\ (globalPrivs' = globalPrivs /\ grantOption' = grantOption) \/ RoleQuery(n)
         /\ failures' \in 0 .. MaxFailures
<1>1. failures' = failures \/ (failures < MaxFailures /\ failures' = failures + 1)
  BY
     DEF NodeStep, Statement, Start, CreateDBIfNeeded, IsExistingUser, CreateUser,
         UpdateUser,
         GrantAll, RevokeLockTables, FlushPrivileges, CheckRoleAndHost, CreateUserIfNotExists,
         AlterUser, RoleQuery, RunPostStartSQL, StatementFails, Restart, Return
<1>2. failures' \in 0 .. MaxFailures
  <2>1. failures \in 0 .. MaxFailures
    BY DEF TypeOK
  <2>2. QED
    BY <1>1, <2>1, BoundAssumption
<1>3. QED
  BY <1>2
     DEF NodeStep, Statement, Start, CreateDBIfNeeded, IsExistingUser, CreateUser,
         UpdateUser,
         GrantAll, RevokeLockTables, FlushPrivileges, CheckRoleAndHost, CreateUserIfNotExists,
         AlterUser, RoleQuery, RunPostStartSQL, StatementFails, Restart, Return, tables, globals

\* The entry a node is at, while it seeds a database.
LEMMA DatabaseFacts ==
  ASSUME TypeOK, NEW n \in Nodes, at[n] \in SeedAt \ {"FlushPrivileges"}
  PROVE  /\ k[n] \in DOMAIN manifest.databases
         /\ Database(n).db \in Dbs /\ Database(n).user \in Users
         /\ Database(n).password \in Passwords
         /\ AnyHost(Database(n).user) \in Accounts
         /\ Asked(AnyHost(Database(n).user), Database(n).password)
<1>1. k[n] \in DOMAIN manifest.databases /\ manifest \in Manifests
  BY DEF TypeOK
<1>2. /\ Database(n).db \in Dbs /\ Database(n).user \in Users
      /\ Database(n).password \in Passwords
  BY <1>1, ManifestFacts DEF Database
<1>3. QED
  BY <1>1, <1>2, HostStringFacts DEF Asked, Database

\* The entry a node is at, while it seeds a user whose role and host it has
\* checked.
LEMMA UserFacts ==
  ASSUME TypeOK, UserInv, NEW n \in Nodes, at[n] \in Checked
  PROVE  /\ k[n] \in DOMAIN manifest.users
         /\ Known(User(n)) /\ User(n).password \in Passwords
         /\ Account(n) = AccountOf(User(n)) /\ Account(n) \in Accounts
         /\ Asked(Account(n), User(n).password)
<1>1. k[n] \in DOMAIN manifest.users /\ manifest \in Manifests
  BY DEF TypeOK, Checked
<1>2. UserPast(n, k[n], Checked)
  BY DEF UserPast
<1>3. Known(User(n))
  BY <1>1, <1>2 DEF UserInv, User
<1>4. User(n).user \in Users /\ User(n).password \in Passwords
  BY <1>1, ManifestFacts DEF User
<1>5. Account(n) = AccountOf(User(n)) /\ Account(n) \in Accounts
  BY <1>3, <1>4, HostStringFacts DEF Account, AccountOf, Known
<1>6. Asked(Account(n), User(n).password)
  BY <1>1, <1>3, <1>5 DEF Asked, User, Known
<1>7. QED
  BY <1>1, <1>3, <1>4, <1>5, <1>6

\* Databases are never dropped.
LEMMA DbsStep ==
  ASSUME TypeOK, NEW n \in Nodes, NodeStep(n)
  PROVE  /\ dbs \subseteq dbs' /\ dbs' \subseteq Dbs
         /\ CreateDBIfNeeded(n) => Database(n).db \in dbs'
<1>1. CASE dbs' = dbs /\ ~ CreateDBIfNeeded(n)
  BY <1>1 DEF TypeOK
<1>2. CASE CreateDBIfNeeded(n)
  <2>1. Database(n).db \in Dbs
    BY <1>2, DatabaseFacts DEF CreateDBIfNeeded, SeedAt
  <2>2. QED
    BY <1>2, <2>1 DEF CreateDBIfNeeded, TypeOK
<1>3. QED
  BY <1>1, <1>2, Writers

\* A password is only ever changed to one the manifest asks for.
LEMMA PasswordStep ==
  ASSUME TypeOK, UserInv, NEW n \in Nodes, NodeStep(n)
  PROVE  /\ password' \in [Accounts -> Passwords \cup {NoAccount}]
         /\ \A a \in Accounts : password'[a] = password[a] \/ Asked(a, password'[a])
         /\ (CreateUser(n) \/ UpdateUser(n)) /\ at'[n] = "GrantAll" =>
              password'[AnyHost(Database(n).user)] = Database(n).password
         /\ AlterUser(n) => password'[Account(n)] = User(n).password
<1>0. password \in [Accounts -> Passwords \cup {NoAccount}]
  BY DEF TypeOK
<1>1. CASE CreateUser(n) \/ UpdateUser(n)
  <2> DEFINE a0 == AnyHost(Database(n).user)
             p0 == Database(n).password
  <2>1. a0 \in Accounts /\ p0 \in Passwords /\ Asked(a0, p0)
    BY <1>1, DatabaseFacts DEF CreateUser, UpdateUser, SeedAt
  <2>2. \/ password' = [password EXCEPT ![a0] = p0]
        \/ password' = password /\ Return(n)
    BY <1>1 DEF CreateUser, UpdateUser, Return, tables
  <2>3. Return(n) => at'[n] = "off"
    BY DEF Return, Goto, TypeOK
  <2>4. ~ AlterUser(n)
    BY <1>1 DEF CreateUser, UpdateUser, AlterUser
  <2> HIDE DEF a0, p0
  <2>5. CASE password' = [password EXCEPT ![a0] = p0]
    BY <1>0, <2>1, <2>4, <2>5 DEF a0, p0
  <2>6. CASE password' = password /\ Return(n)
    BY <1>0, <2>3, <2>4, <2>6
  <2>7. QED
    BY <2>2, <2>5, <2>6
<1>2. CASE CreateUserIfNotExists(n) \/ AlterUser(n)
  <2> DEFINE a0 == Account(n)
             p0 == User(n).password
  <2>1. a0 \in Accounts /\ p0 \in Passwords /\ Asked(a0, p0)
    BY <1>2, UserFacts DEF CreateUserIfNotExists, AlterUser, Checked, SeedUserAt
  <2>2. \/ password' = [password EXCEPT ![a0] = p0]
        \/ password' = [password EXCEPT ![a0] = IF @ = NoAccount THEN p0 ELSE @]
           /\ ~ AlterUser(n)
    BY <1>2 DEF CreateUserIfNotExists, AlterUser
  <2>3. ~ CreateUser(n) /\ ~ UpdateUser(n)
    BY <1>2 DEF CreateUser, UpdateUser, CreateUserIfNotExists, AlterUser
  <2> HIDE DEF a0, p0
  <2>4. CASE password' = [password EXCEPT ![a0] = p0]
    BY <1>0, <2>1, <2>3, <2>4 DEF a0, p0
  <2>5. CASE password' = [password EXCEPT ![a0] = IF @ = NoAccount THEN p0 ELSE @]
             /\ ~ AlterUser(n)
    <3>1. password' \in [Accounts -> Passwords \cup {NoAccount}]
      BY <1>0, <2>1, <2>5
    <3>2. \A a \in Accounts : password'[a] = password[a] \/ (a = a0 /\ password'[a] = p0)
      BY <1>0, <2>1, <2>5
    <3>3. QED
      BY <2>1, <2>3, <2>5, <3>1, <3>2
  <2>6. QED
    BY <2>2, <2>4, <2>5
<1>3. CASE /\ password' = password
           /\ ~ CreateUser(n) /\ ~ UpdateUser(n) /\ ~ CreateUserIfNotExists(n) /\ ~ AlterUser(n)
  BY <1>0, <1>3
<1>4. QED
  BY <1>1, <1>2, <1>3, Writers

\* What GRANT ALL adds.
AllOf(d) == {d} \X {"ALL", "LOCK TABLES"}

\* It is all privileges on the database, and none on another one.
LEMMA AllOfFacts ==
  ASSUME NEW d \in Dbs
  PROVE  /\ <<d, "ALL">> \in AllOf(d)
         /\ \A e : <<e, "LOCK TABLES">> \in AllOf(d) => e = d
         /\ AllOf(d) \subseteq Dbs \X {"ALL", "LOCK TABLES"}
BY DEF AllOf

\* Privileges on a database are never taken away but for LOCK TABLES, which
\* only GRANT ALL gives and REVOKE takes for the entry it is executed for.
LEMMA DbPrivsStep ==
  ASSUME TypeOK, NEW n \in Nodes, NodeStep(n)
  PROVE  /\ dbPrivs' \in [Accounts -> SUBSET (Dbs \X {"ALL", "LOCK TABLES"})]
         /\ \A a \in Accounts, d \in Dbs :
              /\ <<d, "ALL">> \in dbPrivs[a] => <<d, "ALL">> \in dbPrivs'[a]
              /\ <<d, "LOCK TABLES">> \in dbPrivs'[a] =>
                   /\ \/ <<d, "LOCK TABLES">> \in dbPrivs[a]
                      \/ GrantAll(n) /\ d = Database(n).db /\ a = AnyHost(Database(n).user)
                   /\ ~(/\ RevokeLockTables(n)
                        /\ d = Database(n).db /\ a = AnyHost(Database(n).user))
         /\ GrantAll(n) => <<Database(n).db, "ALL">> \in dbPrivs'[AnyHost(Database(n).user)]
<1> DEFINE a0 == AnyHost(Database(n).user)
           d0 == Database(n).db
<1>0. dbPrivs \in [Accounts -> SUBSET (Dbs \X {"ALL", "LOCK TABLES"})]
  BY DEF TypeOK
<1>1. CASE GrantAll(n)
  <2>1. a0 \in Accounts /\ d0 \in Dbs
    BY <1>1, DatabaseFacts DEF GrantAll, SeedAt
  <2>2. dbPrivs' = [dbPrivs EXCEPT ![a0] = @ \cup AllOf(d0)]
    BY <1>1 DEF GrantAll, AllOf
  <2>3. ~ RevokeLockTables(n)
    BY <1>1 DEF GrantAll, RevokeLockTables
  <2> HIDE DEF a0, d0
  <2>4. \A a \in Accounts :
          dbPrivs'[a] = IF a = a0 THEN dbPrivs[a] \cup AllOf(d0) ELSE dbPrivs[a]
    BY <1>0, <2>1, <2>2
  <2>5. dbPrivs' \in [Accounts -> SUBSET (Dbs \X {"ALL", "LOCK TABLES"})]
    <3> DEFINE T == Dbs \X {"ALL", "LOCK TABLES"}
    <3>1. AllOf(d0) \subseteq T
      BY <2>1, AllOfFacts
    <3>2. dbPrivs \in [Accounts -> SUBSET T]
      BY <1>0
    <3> HIDE DEF T
    <3>3. dbPrivs[a0] \cup AllOf(d0) \in SUBSET T
      BY <2>1, <3>1, <3>2
    <3>4. dbPrivs' \in [Accounts -> SUBSET T]
      BY <2>2, <3>2, <3>3
    <3>5. QED
      BY <3>4 DEF T
  <2>6. \A a \in Accounts, d \in Dbs :
          /\ <<d, "ALL">> \in dbPrivs[a] => <<d, "ALL">> \in dbPrivs'[a]
          /\ <<d, "LOCK TABLES">> \in dbPrivs'[a] =>
               <<d, "LOCK TABLES">> \in dbPrivs[a] \/ (d = d0 /\ a = a0)
    <3>1. \A a \in Accounts :
            /\ dbPrivs[a] \subseteq dbPrivs'[a]
            /\ \A x \in dbPrivs'[a] : x \in dbPrivs[a] \/ (a = a0 /\ x \in AllOf(d0))
      BY <2>4
    <3>2. QED
      BY <2>1, <3>1, AllOfFacts
  <2>7. <<d0, "ALL">> \in dbPrivs'[a0]
    BY <2>1, <2>4, AllOfFacts
  <2>8. QED
    BY <1>1, <2>3, <2>5, <2>6, <2>7 DEF a0, d0
<1>2. CASE RevokeLockTables(n)
  <2>1. a0 \in Accounts /\ d0 \in Dbs
    BY <1>2, DatabaseFacts DEF RevokeLockTables, SeedAt
  <2>2. dbPrivs' = [dbPrivs EXCEPT ![a0] = @ \ {<<d0, "LOCK TABLES">>}]
    BY <1>2 DEF RevokeLockTables
  <2>3. ~ GrantAll(n)
    BY <1>2 DEF GrantAll, RevokeLockTables
  <2> HIDE DEF a0, d0
  <2>4. \A a \in Accounts : dbPrivs'[a] = IF a = a0
                              THEN dbPrivs[a] \ {<<d0, "LOCK TABLES">>} ELSE dbPrivs[a]
    BY <1>0, <2>1, <2>2
  <2>5. dbPrivs' \in [Accounts -> SUBSET (Dbs \X {"ALL", "LOCK TABLES"})]
    BY <1>0, <2>1, <2>2
  <2>6. QED
    BY <1>2, <2>1, <2>3, <2>4, <2>5 DEF a0, d0
<1>3. CASE dbPrivs' = dbPrivs /\ ~ GrantAll(n) /\ ~ RevokeLockTables(n)
  BY <1>0, <1>3
<1>4. QED
  BY <1>1, <1>2, <1>3, Writers

\* The role is set for the account it is executed for, and for no other; the
\* GRANT OPTION is never taken back.
LEMMA GlobalPrivsStep ==
  ASSUME TypeOK, UserInv, NEW n \in Nodes, NodeStep(n)
  PROVE  /\ globalPrivs' \subseteq Accounts /\ grantOption' \subseteq Accounts
         /\ \A a \in Accounts :
              \/ a \in globalPrivs' <=> a \in globalPrivs
              \/ RoleQuery(n) /\ a = Account(n)
         /\ grantOption \subseteq grantOption'
         /\ RoleQuery(n) =>
              /\ Account(n) \in globalPrivs' <=> User(n).role = "admin"
              /\ User(n).role = "admin" => Account(n) \in grantOption'
<1>1. CASE RoleQuery(n)
  <2>1. Account(n) \in Accounts
    BY <1>1, UserFacts DEF RoleQuery, Checked, SeedUserAt
  <2>2. /\ globalPrivs' = IF User(n).role = "admin" THEN globalPrivs \cup {Account(n)}
                          ELSE globalPrivs \ {Account(n)}
        /\ grantOption' = IF User(n).role = "admin" THEN grantOption \cup {Account(n)}
                          ELSE grantOption
    BY <1>1 DEF RoleQuery
  <2>3. QED
    BY <1>1, <2>1, <2>2 DEF TypeOK
<1>2. CASE globalPrivs' = globalPrivs /\ grantOption' = grantOption /\ ~ RoleQuery(n)
  BY <1>2 DEF TypeOK
<1>3. QED
  BY <1>1, <1>2, Writers

-----------------------------------------------------------------------------
(* Each conjunct of the invariant, by a step of a node                       *)

\* Types: the role is checked before the account is given its privileges.
LEMMA TypeStep ==
  ASSUME Inv, NEW n \in Nodes, NodeStep(n)
  PROVE  TypeOK'
<1> USE DEF Inv
<1>1. manifest' = manifest /\ manifest \in Manifests
  BY NodeStepProgress DEF Progress, TypeOK
<1>2. PICK to \in Place, e \in Nat : Goto(n, to, e) /\ Within(to, e)
  BY NodeStepProgress DEF Progress
<1>3. /\ at'[n] = to /\ k'[n] = e
      /\ \A m \in Nodes \ {n} : at'[m] = at[m] /\ k'[m] = k[m]
      /\ at' \in [Nodes -> Seeding \cup {"off", "ready"}] /\ k' \in [Nodes -> Nat]
  BY <1>2, GotoFacts DEF Place
<1>4. ASSUME NEW m \in Nodes
      PROVE  /\ at'[m] \in SeedAt \ {"FlushPrivileges"} => k'[m] \in DOMAIN manifest.databases
             /\ at'[m] \in SeedUserAt => k'[m] \in DOMAIN manifest.users
  <2>1. CASE m = n
    BY <1>2, <1>3, <2>1 DEF Within
  <2>2. CASE m # n
    <3>1. /\ at[m] \in SeedAt \ {"FlushPrivileges"} => k[m] \in DOMAIN manifest.databases
          /\ at[m] \in SeedUserAt => k[m] \in DOMAIN manifest.users
      BY DEF TypeOK
    <3>2. QED
      BY <1>3, <2>2, <3>1
  <2>3. QED
    BY <2>1, <2>2
<1>5. dbs' \subseteq Dbs
  BY DbsStep
<1>6. password' \in [Accounts -> Passwords \cup {NoAccount}]
  BY PasswordStep
<1>7. dbPrivs' \in [Accounts -> SUBSET (Dbs \X {"ALL", "LOCK TABLES"})]
  BY DbPrivsStep
<1>8. globalPrivs' \subseteq Accounts /\ grantOption' \subseteq Accounts
  BY GlobalPrivsStep
<1>9. failures' \in 0 .. MaxFailures
  BY Writers
<1>10. QED
  BY <1>1, <1>3, <1>4, <1>5, <1>6, <1>7, <1>8, <1>9 DEF TypeOK

\* What the others have behind them does not change.
LEMMA OthersStay ==
  ASSUME TypeOK, NEW n \in Nodes, NodeStep(n), NEW m \in Nodes \ {n}, NEW j, NEW S
  PROVE  /\ Past(m, j, S)' <=> Past(m, j, S)
         /\ UserPast(m, j, S)' <=> UserPast(m, j, S)
<1>1. PICK to \in Place, e \in Nat : Goto(n, to, e)
  BY NodeStepProgress DEF Progress
<1>2. at'[m] = at[m] /\ k'[m] = k[m]
  BY <1>1, GotoFacts
<1>3. QED
  BY <1>2 DEF Past, UserPast

\* GRANT ALL is executed by a node that has the REVOKE ahead of it.
LEMMA LockStep ==
  ASSUME Inv, NEW n \in Nodes, NodeStep(n)
  PROVE  LockInv'
<1> USE DEF Inv
<1> DEFINE D == manifest.databases
<1>1. manifest' = manifest /\ manifest \in Manifests
  BY NodeStepProgress DEF Progress, TypeOK
<1>2. SUFFICES ASSUME NEW j \in DOMAIN D,
                      <<D[j].db, "LOCK TABLES">> \in dbPrivs'[AnyHost(D[j].user)]
               PROVE  \E m \in Nodes, i \in DOMAIN D : SamePair(i, j) /\ ~ Past(m, i, {})'
  BY <1>1 DEF LockInv, SamePair
<1>3. D[j].db \in Dbs /\ AnyHost(D[j].user) \in Accounts
  BY <1>1, ManifestFacts, HostStringFacts
<1>4. CASE /\ GrantAll(n)
           /\ D[j].db = Database(n).db /\ AnyHost(D[j].user) = AnyHost(Database(n).user)
  <2>1. PICK i \in DOMAIN D : k[n] = i
    BY <1>4, DatabaseFacts DEF GrantAll, SeedAt
  <2>2. SamePair(i, j)
    BY <1>4, <2>1 DEF SamePair, Database, AnyHost
  <2>3. at'[n] = "RevokeLockTables" /\ k'[n] = i /\ i \in Nat
    BY <1>4, <2>1, GotoFacts DEF GrantAll, TypeOK
  <2>4. ~ Past(n, i, {})'
    BY <2>3 DEF Past, AfterDatabases, SeedUserAt
  <2>5. QED
    BY <2>2, <2>4
<1>5. CASE ~(/\ GrantAll(n)
             /\ D[j].db = Database(n).db /\ AnyHost(D[j].user) = AnyHost(Database(n).user))
  <2>1. <<D[j].db, "LOCK TABLES">> \in dbPrivs[AnyHost(D[j].user)]
    BY <1>2, <1>3, <1>5, DbPrivsStep
  <2>2. PICK m \in Nodes, i \in DOMAIN D : SamePair(i, j) /\ ~ Past(m, i, {})
    BY <2>1 DEF LockInv
  <2>3. ~ Past(m, i, {})'
    <3>1. CASE m # n
      BY <2>2, <3>1, OthersStay
    <3>2. CASE m = n
      <4>1. SUFFICES ASSUME Past(n, i, {})'
                     PROVE  FALSE
        BY <3>2
      <4>2. RevokeLockTables(n) /\ k[n] = i
        BY <2>2, <3>2, <4>1, NodeStepProgress DEF Progress, DbProgress
      <4>3. D[j].db = Database(n).db /\ AnyHost(D[j].user) = AnyHost(Database(n).user)
        BY <2>2, <4>2 DEF SamePair, Database
      <4>4. QED
        BY <1>2, <1>3, <4>2, <4>3, DbPrivsStep
    <3>3. QED
      BY <3>1, <3>2
  <2>4. QED
    BY <2>2, <2>3
<1>6. QED
  BY <1>4, <1>5

\* In a consistent manifest every password that is written is the one that
\* the entries of the same account want.
LEMMA PasswordStays ==
  ASSUME Inv, NEW n \in Nodes, NodeStep(n), Consistent,
         NEW a \in Accounts, NEW p, Asked(a, p), password[a] = p
  PROVE  password'[a] = p
<1>1. password'[a] = password[a] \/ Asked(a, password'[a])
  BY PasswordStep DEF Inv
<1>2. QED
  BY <1>1, ConsistentFacts

\* The statements of a database's entry are in force, and stay so.
LEMMA DbStep ==
  ASSUME Inv, NEW n \in Nodes, NodeStep(n)
  PROVE  DbInv'
<1> USE DEF Inv
<1>1. manifest' = manifest /\ manifest \in Manifests
  BY NodeStepProgress DEF Progress, TypeOK
<1>2. Consistent' <=> Consistent
  BY <1>1 DEF Consistent
<1> DEFINE D == manifest.databases
<1>3. SUFFICES ASSUME NEW m \in Nodes, NEW j \in DOMAIN D
               PROVE  /\ Past(m, j, Created)' => D[j].db \in dbs'
                      /\ Past(m, j, {"RevokeLockTables"})' =>
                           <<D[j].db, "ALL">> \in dbPrivs'[AnyHost(D[j].user)]
                      /\ Consistent /\ Past(m, j, Existing)' =>
                           password'[AnyHost(D[j].user)] = D[j].password
  BY <1>1, <1>2 DEF DbInv
<1>4. /\ D[j].db \in Dbs /\ AnyHost(D[j].user) \in Accounts
      /\ Asked(AnyHost(D[j].user), D[j].password)
  BY <1>1, ManifestFacts, HostStringFacts DEF Asked
<1>5. /\ Past(m, j, Created) => D[j].db \in dbs
      /\ Past(m, j, {"RevokeLockTables"}) => <<D[j].db, "ALL">> \in dbPrivs[AnyHost(D[j].user)]
      /\ Consistent /\ Past(m, j, Existing) => password[AnyHost(D[j].user)] = D[j].password
  BY DEF DbInv
<1>6. /\ Past(m, j, Created)' =>
           Past(m, j, Created) \/ (m = n /\ CreateDBIfNeeded(n) /\ k[n] = j)
      /\ Past(m, j, {"RevokeLockTables"})' =>
           Past(m, j, {"RevokeLockTables"}) \/ (m = n /\ GrantAll(n) /\ k[n] = j)
      /\ Past(m, j, Existing)' =>
           \/ Past(m, j, Existing)
           \/ (CreateUser(n) \/ UpdateUser(n)) /\ at'[n] = "GrantAll" /\ k[n] = j
  <2>1. CASE m = n
    BY <2>1, NodeStepProgress DEF Progress, DbProgress
  <2>2. CASE m # n
    BY <2>2, OthersStay
  <2>3. QED
    BY <2>1, <2>2
<1>7. k[n] = j => Database(n) = D[j]
  BY DEF Database
<1>8. Past(m, j, Created)' => D[j].db \in dbs'
  BY <1>5, <1>6, <1>7, DbsStep
<1>9. Past(m, j, {"RevokeLockTables"})' => <<D[j].db, "ALL">> \in dbPrivs'[AnyHost(D[j].user)]
  BY <1>4, <1>5, <1>6, <1>7, DbPrivsStep
<1>10. ASSUME Consistent, Past(m, j, Existing)'
       PROVE  password'[AnyHost(D[j].user)] = D[j].password
  <2>1. CASE Past(m, j, Existing)
    BY <1>4, <1>5, <1>10, <2>1, PasswordStays
  <2>2. CASE (CreateUser(n) \/ UpdateUser(n)) /\ at'[n] = "GrantAll" /\ k[n] = j
    BY <1>7, <2>2, PasswordStep
  <2>3. QED
    BY <1>6, <1>10, <2>1, <2>2
<1>11. QED
  BY <1>8, <1>9, <1>10

\* The statements of a user's entry are in force, and stay so.
LEMMA UserStep ==
  ASSUME Inv, NEW n \in Nodes, NodeStep(n)
  PROVE  UserInv'
<1> USE DEF Inv
<1>1. manifest' = manifest /\ manifest \in Manifests
  BY NodeStepProgress DEF Progress, TypeOK
<1>2. Consistent' <=> Consistent
  BY <1>1 DEF Consistent
<1> DEFINE U == manifest.users
<1>3. SUFFICES ASSUME NEW m \in Nodes, NEW j \in DOMAIN U
               PROVE  /\ UserPast(m, j, Checked)' => Known(U[j])
                      /\ Consistent /\ UserPast(m, j, {"roleQuery"})' =>
                           password'[AccountOf(U[j])] = U[j].password
                      /\ Consistent /\ UserPast(m, j, {})' => RoleInForce(U[j])'
  BY <1>1, <1>2 DEF UserInv, Known, AccountOf
<1>4. /\ UserPast(m, j, Checked) => Known(U[j])
      /\ Consistent /\ UserPast(m, j, {"roleQuery"}) =>
           password[AccountOf(U[j])] = U[j].password
      /\ Consistent /\ UserPast(m, j, {}) => RoleInForce(U[j])
  BY DEF UserInv
<1>5. /\ UserPast(m, j, Checked)' =>
           \/ UserPast(m, j, Checked)
           \/ CheckRoleAndHost(n) /\ at'[n] = "CreateUserIfNotExists" /\ k[n] = j
      /\ UserPast(m, j, {"roleQuery"})' =>
           UserPast(m, j, {"roleQuery"}) \/ (AlterUser(n) /\ k[n] = j)
      /\ UserPast(m, j, {})' => UserPast(m, j, {}) \/ (RoleQuery(n) /\ k[n] = j)
  <2>1. CASE m = n
    BY <2>1, NodeStepProgress DEF Progress, UserProgress
  <2>2. CASE m # n
    BY <2>2, OthersStay
  <2>3. QED
    BY <2>1, <2>2
<1>6. k[n] = j => User(n) = U[j]
  BY DEF User
<1>7. UserPast(m, j, Checked)' => Known(U[j])
  <2>1. CASE CheckRoleAndHost(n) /\ at'[n] = "CreateUserIfNotExists" /\ k[n] = j
    <3>1. ~ Return(n)
      BY <2>1 DEF Return, Goto, TypeOK
    <3>2. Known(User(n))
      BY <2>1, <3>1 DEF CheckRoleAndHost, Known
    <3>3. QED
      BY <1>6, <2>1, <3>2
  <2>2. QED
    BY <1>4, <1>5, <2>1
<1>8. ASSUME Known(U[j])
      PROVE  AccountOf(U[j]) \in Accounts /\ Asked(AccountOf(U[j]), U[j].password)
  BY <1>1, <1>8, ManifestFacts, HostStringFacts DEF Asked, Known, AccountOf
<1>9. UserPast(m, j, {"roleQuery"})' \/ UserPast(m, j, {})' => UserPast(m, j, Checked)'
  BY DEF UserPast, Checked, SeedUserAt
<1>10. UserPast(m, j, {"roleQuery"}) \/ UserPast(m, j, {}) => UserPast(m, j, Checked)
  BY DEF UserPast, Checked, SeedUserAt
<1>11. ASSUME Consistent, UserPast(m, j, {"roleQuery"})'
       PROVE  password'[AccountOf(U[j])] = U[j].password
  <2>1. CASE UserPast(m, j, {"roleQuery"})
    BY <1>4, <1>8, <1>10, <1>11, <2>1, PasswordStays
  <2>2. CASE AlterUser(n) /\ k[n] = j
    <3>1. Account(n) = AccountOf(U[j])
      BY <1>6, <2>2, UserFacts DEF AlterUser, Checked, SeedUserAt
    <3>2. QED
      BY <1>6, <2>2, <3>1, PasswordStep
  <2>3. QED
    BY <1>5, <1>11, <2>1, <2>2
<1>12. ASSUME Consistent, UserPast(m, j, {})'
       PROVE  /\ AccountOf(U[j]) \in globalPrivs' <=> U[j].role = "admin"
              /\ U[j].role = "admin" => AccountOf(U[j]) \in grantOption'
  <2>1. Known(U[j]) /\ AccountOf(U[j]) \in Accounts
    BY <1>7, <1>8, <1>9, <1>12
  <2>2. CASE RoleQuery(n) /\ AccountOf(U[j]) = Account(n)
    <3>1. /\ k[n] \in DOMAIN U /\ Known(U[k[n]]) /\ Account(n) = AccountOf(U[k[n]])
          /\ User(n) = U[k[n]]
      BY <2>2, UserFacts DEF RoleQuery, Checked, SeedUserAt, User
    <3>2. U[k[n]].role = U[j].role
      BY <1>12, <2>1, <2>2, <3>1, ConsistentFacts DEF Known
    <3>3. QED
      BY <2>2, <3>1, <3>2, GlobalPrivsStep
  <2>3. CASE ~(RoleQuery(n) /\ AccountOf(U[j]) = Account(n))
    <3>1. ~(RoleQuery(n) /\ k[n] = j)
      BY <1>6, <2>3, UserFacts DEF RoleQuery, Checked, SeedUserAt
    <3>2. UserPast(m, j, {})
      BY <1>5, <1>12, <3>1
    <3>3. /\ AccountOf(U[j]) \in globalPrivs' <=> AccountOf(U[j]) \in globalPrivs
          /\ AccountOf(U[j]) \in grantOption => AccountOf(U[j]) \in grantOption'
      BY <2>1, <2>3, GlobalPrivsStep
    <3>4. QED
      BY <1>4, <1>12, <3>2, <3>3 DEF RoleInForce
  <2>4. QED
    BY <2>2, <2>3
<1>13. RoleInForce(U[j])' <=>
         /\ AccountOf(U[j]) \in globalPrivs' <=> U[j].role = "admin"
         /\ U[j].role = "admin" => AccountOf(U[j]) \in grantOption'
  BY <1>1 DEF RoleInForce, AccountOf
<1>14. QED
  BY <1>7, <1>11, <1>12, <1>13

-----------------------------------------------------------------------------
(* The theorems                                                              *)

\* Nobody has anything behind it while all nodes are down.
LEMMA NobodyPast ==
  ASSUME NEW n \in Nodes, at[n] = "off", NEW j
  PROVE  /\ ~ Past(n, j, {}) /\ ~ Past(n, j, Created) /\ ~ Past(n, j, {"RevokeLockTables"})
         /\ ~ Past(n, j, Existing)
         /\ ~ UserPast(n, j, Checked) /\ ~ UserPast(n, j, {"roleQuery"}) /\ ~ UserPast(n, j, {})
BY
   DEF Past, UserPast, AfterDatabases, AfterUsers, SeedAt, SeedUserAt, Created, Existing,
       Checked

\* Before any seeding the invariant holds.
LEMMA InitInv == Init => Inv
<1> SUFFICES ASSUME Init
             PROVE  Inv
  OBVIOUS
<1>1. \A n \in Nodes : at[n] = "off"
  BY DEF Init
<1>2. TypeOK
  BY BoundAssumption DEF Init, TypeOK, Seeding, SeedAt, SeedUserAt
<1>3. LockInv
  <2>1. \A a \in Accounts : dbPrivs[a] = {}
    BY DEF Init
  <2>2. \A j \in DOMAIN manifest.databases : AnyHost(manifest.databases[j].user) \in Accounts
    BY <1>2, ManifestFacts, HostStringFacts DEF TypeOK
  <2>3. QED
    BY <2>1, <2>2 DEF LockInv
<1>4. DbInv
  BY <1>1, NobodyPast DEF DbInv
<1>5. UserInv
  BY <1>1, NobodyPast DEF UserInv
<1>6. QED
  BY <1>2, <1>3, <1>4, <1>5 DEF Inv

\* A redeployment finds all nodes down, and each of them will seed anew.
LEMMA RedeployStep == Inv /\ Redeploy => Inv'
<1> SUFFICES ASSUME Inv, Redeploy
             PROVE  Inv'
  OBVIOUS
<1>1. /\ \A n \in Nodes : at[n] = "off" /\ at'[n] = "off"
      /\ at' = at /\ k' = k /\ dbs' = dbs /\ password' = password /\ dbPrivs' = dbPrivs
      /\ globalPrivs' = globalPrivs /\ grantOption' = grantOption
      /\ failures' = failures /\ manifest' \in Manifests
  BY DEF Redeploy, nodeVars, tables, globals
<1>2. TypeOK'
  BY <1>1 DEF Inv, TypeOK, SeedAt, SeedUserAt
<1>3. \A n \in Nodes : \A j :
        /\ ~ Past(n, j, {})' /\ ~ Past(n, j, Created)'
        /\ ~ Past(n, j, {"RevokeLockTables"})' /\ ~ Past(n, j, Existing)'
  BY <1>1 DEF Past, AfterDatabases, SeedAt, SeedUserAt, Created, Existing
<1>4. \A n \in Nodes : \A j :
        /\ ~ UserPast(n, j, Checked)' /\ ~ UserPast(n, j, {"roleQuery"})'
        /\ ~ UserPast(n, j, {})'
  BY <1>1 DEF UserPast, AfterUsers, SeedUserAt, Checked
<1>5. LockInv'
  <2>1. PICK n : n \in Nodes
    BY NodesAssumption
  <2>2. \A j \in DOMAIN manifest'.databases : SamePair(j, j)'
    BY DEF SamePair
  <2>3. QED
    BY <1>3, <2>1, <2>2 DEF LockInv
<1>6. DbInv'
  BY <1>3 DEF DbInv
<1>7. UserInv'
  BY <1>4 DEF UserInv
<1>8. QED
  BY <1>2, <1>5, <1>6, <1>7 DEF Inv

\* A step that changes nothing keeps the invariant.
LEMMA StutterStep == Inv /\ UNCHANGED vars => Inv'
<1> SUFFICES ASSUME Inv, UNCHANGED vars
             PROVE  Inv'
  OBVIOUS
<1> USE DEF Inv, vars, nodeVars, tables, globals
<1>1. TypeOK'
  BY DEF TypeOK
<1>2. LockInv'
  BY DEF LockInv, SamePair, Past
<1>3. Consistent' <=> Consistent
  BY DEF Consistent
<1>4. DbInv'
  BY <1>3 DEF DbInv, Past
<1>5. UserInv'
  BY <1>3 DEF UserInv, UserPast, Known, RoleInForce, AccountOf
<1>6. QED
  BY <1>1, <1>2, <1>4, <1>5

\* Whatever the nodes execute, in whichever order and failing wherever they
\* do, what a node has behind it is in force, and LOCK TABLES is left only
\* where a node has the REVOKE ahead of it.
THEOREM Invariance == Spec => []Inv
<1>1. Inv /\ [Next]_vars => Inv'
  <2> SUFFICES ASSUME Inv, [Next]_vars
               PROVE  Inv'
    OBVIOUS
  <2>1. ASSUME NEW n \in Nodes, NodeStep(n)
        PROVE  Inv'
    BY <2>1, TypeStep, LockStep, DbStep, UserStep DEF Inv
  <2>2. CASE Redeploy
    BY <2>2, RedeployStep
  <2>3. CASE UNCHANGED vars
    BY <2>3, StutterStep
  <2>4. QED
    BY <2>1, <2>2, <2>3 DEF Next, NodeStep
<1>2. QED
  BY InitInv, <1>1, PTL DEF Spec

\* The loops of Seed and SeedUsers stay within their slices, and privileges
\* are given only to accounts with a host that getHostString knows.
THEOREM TypeCorrect == Spec => []TypeOK
<1>1. Inv => TypeOK
  BY DEF Inv
<1>2. QED
  BY Invariance, <1>1, PTL

\* When all nodes have finished, every GRANT ALL of every attempt of every
\* node was followed by its REVOKE of LOCK TABLES.
THEOREM LockTablesRevoked == Spec => []NoLockTables
<1>1. Inv => NoLockTables
  <2> SUFFICES ASSUME Inv, \A n \in Nodes : Ready(n), NEW j \in DOMAIN manifest.databases,
                      <<manifest.databases[j].db, "LOCK TABLES">> \in
                        dbPrivs[AnyHost(manifest.databases[j].user)]
               PROVE  FALSE
    BY DEF NoLockTables
  <2>1. PICK n \in Nodes, i \in DOMAIN manifest.databases : ~ Past(n, i, {})
    BY DEF Inv, LockInv
  <2>2. QED
    BY <2>1 DEF Ready, Past, AfterDatabases
<1>2. QED
  BY Invariance, <1>1, PTL

\* A node that has finished finds every database, with its user's password
\* and privileges, whatever earlier attempts left behind and whatever the
\* other nodes are executing.
THEOREM DatabasesAreSeeded == Spec => []DatabasesSeeded
<1>1. Inv => DatabasesSeeded
  <2> SUFFICES ASSUME Inv, NEW n \in Nodes, Ready(n), Consistent,
                      NEW j \in DOMAIN manifest.databases
               PROVE  LET d == manifest.databases[j] IN
                      /\ d.db \in dbs
                      /\ password[AnyHost(d.user)] = d.password
                      /\ <<d.db, "ALL">> \in dbPrivs[AnyHost(d.user)]
    BY DEF DatabasesSeeded
  <2>1. /\ Past(n, j, Created) /\ Past(n, j, {"RevokeLockTables"}) /\ Past(n, j, Existing)
    BY DEF Ready, Past, AfterDatabases
  <2>2. QED
    BY <2>1 DEF Inv, DbInv
<1>2. QED
  BY Invariance, <1>1, PTL

\* A node that has finished finds every seeded user with the password of the
\* manifest, an admin with all privileges and the right to grant them, and a
\* minimal user without privileges on *.*, also when a redeployment changed
\* password or role.  A demoted user's GRANT OPTION is not excluded: the code
\* leaves it.
THEOREM UsersAreSeeded == Spec => []UsersSeeded
<1>1. Inv => UsersSeeded
  <2> SUFFICES ASSUME Inv, NEW n \in Nodes, Ready(n), Consistent,
                      NEW j \in DOMAIN manifest.users
               PROVE  LET u == manifest.users[j]
                          account == <<u.user, HostString[u.host]>>
                      IN /\ password[account] = u.password
                         /\ u.role = "admin" =>
                              account \in globalPrivs /\ account \in grantOption
                         /\ u.role = "minimal" => account \notin globalPrivs
    BY DEF UsersSeeded
  <2>1. UserPast(n, j, {"roleQuery"}) /\ UserPast(n, j, {})
    BY DEF Ready, UserPast, AfterUsers
  <2>2. QED
    BY <2>1 DEF Inv, UserInv, RoleInForce, AccountOf
<1>2. QED
  BY Invariance, <1>1, PTL

=============================================================================
