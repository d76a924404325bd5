-------------------------------- MODULE Seeding --------------------------------
(***************************************************************************)
(* Seed, SeedUsers and RunPostStartSQL of package db_helper, statement by  *)
(* statement.  Every node of a cluster runs them after it has synced, on   *)
(* accounts that Galera replicates, so several nodes may be seeding the    *)
(* same accounts; a node whose seeding fails exits and is started again.   *)
(***************************************************************************)
EXTENDS Naturals, Sequences

CONSTANTS
  Nodes,        \* nodes that seed the same cluster
  Users, Dbs, Passwords,
  Manifests,    \* possible configurations, see ManifestType
  MaxFailures   \* bound on failures that are not the statements' own doing

\* getHostString: the hosts of the configuration and of the account.
HostString == [localhost |-> "localhost", loopback |-> "127.0.0.1", any |-> "%"]
Accounts == Users \X {HostString[h] : h \in DOMAIN HostString}
AnyHost(user) == <<user, "%">>

NoAccount == "no account"

\* Db.PreseededDatabases and Db.SeededUsers; role and host are free text.
ManifestType ==
  [databases : Seq([db : Dbs, user : Users, password : Passwords]),
   users : Seq([user : Users, password : Passwords, host : STRING, role : STRING])]

ASSUME NodesAssumption == Nodes # {}
ASSUME ManifestAssumption == Manifests \subseteq ManifestType
ASSUME PasswordAssumption == NoAccount \notin Passwords
ASSUME BoundAssumption == MaxFailures \in Nat

VARIABLES
  at,           \* the statement a node executes next
  k,            \* the entry of the loop it is in
  manifest,     \* the deployed configuration
  dbs,          \* the databases that exist
  password,     \* the accounts, with their passwords
  dbPrivs,      \* privileges on databases: LOCK TABLES, and ALL the others
  globalPrivs,  \* accounts with all privileges on *.*
  grantOption,  \* accounts with GRANT OPTION on *.*, which ALL does not include
  failures

nodeVars == <<at, k>>
globals == <<globalPrivs, grantOption>>
tables == <<dbs, password, dbPrivs, globals>>
vars == <<nodeVars, manifest, tables, failures>>

SeedAt == {"CreateDBIfNeeded", "IsExistingUser", "CreateUser", "UpdateUser",
           "GrantAll", "RevokeLockTables", "FlushPrivileges"}
SeedUserAt == {"getRoleQuery", "CreateUserIfNotExists", "AlterUser", "roleQuery"}
Seeding == SeedAt \cup SeedUserAt \cup {"RunPostStartSQL"}

\* Types, and the loops' indices within their slices.
TypeOK ==
  /\ at \in [Nodes -> Seeding \cup {"off", "ready"}]
  /\ k \in [Nodes -> Nat]
  /\ manifest \in Manifests
  /\ dbs \subseteq Dbs
  /\ password \in [Accounts -> Passwords \cup {NoAccount}]
  /\ dbPrivs \in [Accounts -> SUBSET (Dbs \X {"ALL", "LOCK TABLES"})]
  /\ globalPrivs \subseteq Accounts /\ grantOption \subseteq Accounts
  /\ failures \in 0 .. MaxFailures
  /\ \A n \in Nodes :
       /\ at[n] \in SeedAt \ {"FlushPrivileges"} => k[n] \in DOMAIN manifest.databases
       /\ at[n] \in SeedUserAt => k[n] \in DOMAIN manifest.users

Init ==
  /\ at = [n \in Nodes |-> "off"]
  /\ k = [n \in Nodes |-> 1]
  /\ manifest \in Manifests
  /\ dbs = {}
  /\ password = [a \in Accounts |-> NoAccount]
  /\ dbPrivs = [a \in Accounts |-> {}]
  /\ globalPrivs = {} /\ grantOption = {}
  /\ failures = 0

-----------------------------------------------------------------------------
Goto(n, to, entry) ==
  /\ at' = [at EXCEPT ![n] = to]
  /\ k' = [k EXCEPT ![n] = entry]

\* The entry the loop is in.
Database(n) == manifest.databases[k[n]]
User(n) == manifest.users[k[n]]

\* Where SeedUsers begins, and where its loop goes on after an entry.
SeedUsersFrom(n, entry) ==
  IF entry <= Len(manifest.users) THEN Goto(n, "getRoleQuery", entry)
  ELSE Goto(n, "RunPostStartSQL", 1)

\* A statement fails: the error is returned up to main, which exits.
Return(n) == Goto(n, "off", 1) /\ UNCHANGED <<manifest, tables, failures>>

\* galera-init has found its database reachable.
Start(n) ==
  /\ at[n] = "off"
  /\ IF manifest.databases = << >> THEN SeedUsersFrom(n, 1)
     ELSE Goto(n, "CreateDBIfNeeded", 1)
  /\ UNCHANGED <<manifest, tables, failures>>

CreateDBIfNeeded(n) ==
  /\ at[n] = "CreateDBIfNeeded"
  /\ dbs' = dbs \cup {Database(n).db}
  /\ Goto(n, "IsExistingUser", k[n])
  /\ UNCHANGED <<manifest, password, dbPrivs, globals, failures>>

\* Mutant: the table of users is not looked at.
NeverExisting(n) ==
  /\ at[n] = "IsExistingUser"
  /\ Goto(n, "CreateUser", k[n])
  /\ UNCHANGED <<manifest, tables, failures>>

\* The query looks for the user's name, under any host.
IsExistingUser(n) ==
  /\ at[n] = "IsExistingUser"
  /\ IF \E a \in Accounts : a[1] = Database(n).user /\ password[a] # NoAccount
     THEN Goto(n, "UpdateUser", k[n]) ELSE Goto(n, "CreateUser", k[n])
  /\ UNCHANGED <<manifest, tables, failures>>

\* CREATE USER names no host, which is %; it fails on an existing account.
CreateUser(n) ==
  LET account == AnyHost(Database(n).user) IN
  /\ at[n] = "CreateUser"
  /\ \/ /\ password[account] = NoAccount
        /\ password' = [password EXCEPT ![account] = Database(n).password]
        /\ Goto(n, "GrantAll", k[n])
        /\ UNCHANGED <<manifest, dbs, dbPrivs, globals, failures>>
     \/ password[account] # NoAccount /\ Return(n)

\* Mutant: the password of an existing user is kept.
PasswordKept(n) ==
  /\ at[n] = "UpdateUser"
  /\ Goto(n, "GrantAll", k[n])
  /\ UNCHANGED <<manifest, tables, failures>>

\* SET PASSWORD FOR names no host either; it fails on a missing account.
UpdateUser(n) ==
  LET account == AnyHost(Database(n).user) IN
  /\ at[n] = "UpdateUser"
  /\ \/ /\ password[account] # NoAccount
        /\ password' = [password EXCEPT ![account] = Database(n).password]
        /\ Goto(n, "GrantAll", k[n])
        /\ UNCHANGED <<manifest, dbs, dbPrivs, globals, failures>>
     \/ password[account] = NoAccount /\ Return(n)

\* The two statements of GrantUserPrivileges.
GrantAll(n) ==
  LET account == AnyHost(Database(n).user) IN
  /\ at[n] = "GrantAll"
  /\ dbPrivs' = [dbPrivs EXCEPT ![account] =
                   @ \cup {Database(n).db} \X {"ALL", "LOCK TABLES"}]
  /\ Goto(n, "RevokeLockTables", k[n])
  /\ UNCHANGED <<manifest, dbs, password, globals, failures>>

\* Mutant: the loop runs past its last entry.
RevokeOnceMore(n) ==
  LET account == AnyHost(Database(n).user) IN
  /\ at[n] = "RevokeLockTables"
  /\ dbPrivs' = [dbPrivs EXCEPT ![account] =
                   @ \ {<<Database(n).db, "LOCK TABLES">>}]
  /\ IF k[n] <= Len(manifest.databases) THEN Goto(n, "CreateDBIfNeeded", k[n] + 1)
     ELSE Goto(n, "FlushPrivileges", 1)
  /\ UNCHANGED <<manifest, dbs, password, globals, failures>>

\* Mutant: the loop ends before the last entry's REVOKE.
RevokeAllButLast(n) ==
  LET account == AnyHost(Database(n).user) IN
  /\ at[n] = "RevokeLockTables"
  /\ IF k[n] < Len(manifest.databases)
     THEN /\ dbPrivs' = [dbPrivs EXCEPT ![account] =
                           @ \ {<<Database(n).db, "LOCK TABLES">>}]
          /\ Goto(n, "CreateDBIfNeeded", k[n] + 1)
     ELSE dbPrivs' = dbPrivs /\ Goto(n, "FlushPrivileges", 1)
  /\ UNCHANGED <<manifest, dbs, password, globals, failures>>

RevokeLockTables(n) ==
  LET account == AnyHost(Database(n).user) IN
  /\ at[n] = "RevokeLockTables"
  /\ dbPrivs' = [dbPrivs EXCEPT ![account] =
                   @ \ {<<Database(n).db, "LOCK TABLES">>}]
  /\ IF k[n] < Len(manifest.databases) THEN Goto(n, "CreateDBIfNeeded", k[n] + 1)
     ELSE Goto(n, "FlushPrivileges", 1)
  /\ UNCHANGED <<manifest, dbs, password, globals, failures>>

FlushPrivileges(n) ==
  /\ at[n] = "FlushPrivileges"
  /\ SeedUsersFrom(n, 1)
  /\ UNCHANGED <<manifest, tables, failures>>

\* getRoleQuery and getHostString reject what they do not know.
CheckRoleAndHost(n) ==
  /\ at[n] = "getRoleQuery"
  /\ IF User(n).role \in {"admin", "minimal"} /\ User(n).host \in DOMAIN HostString
     THEN /\ Goto(n, "CreateUserIfNotExists", k[n])
          /\ UNCHANGED <<manifest, tables, failures>>
     ELSE Return(n)

Account(n) == <<User(n).user, HostString[User(n).host]>>

CreateUserIfNotExists(n) ==
  /\ at[n] = "CreateUserIfNotExists"
  /\ password' = [password EXCEPT ![Account(n)] =
                    IF @ = NoAccount THEN User(n).password ELSE @]
  /\ Goto(n, "AlterUser", k[n])
  /\ UNCHANGED <<manifest, dbs, dbPrivs, globals, failures>>

\* Mutant: the password is set only when the account is created.
AlterUserSkipped(n) ==
  /\ at[n] = "AlterUser"
  /\ Goto(n, "roleQuery", k[n])
  /\ UNCHANGED <<manifest, tables, failures>>

AlterUser(n) ==
  /\ at[n] = "AlterUser"
  /\ password' = [password EXCEPT ![Account(n)] = User(n).password]
  /\ Goto(n, "roleQuery", k[n])
  /\ UNCHANGED <<manifest, dbs, dbPrivs, globals, failures>>

\* Mutant: the role minimal has no statement of its own.
RoleKept(n) ==
  /\ at[n] = "roleQuery"
  /\ globalPrivs' = IF User(n).role = "admin" THEN globalPrivs \cup {Account(n)}
                    ELSE globalPrivs
  /\ grantOption' = IF User(n).role = "admin" THEN grantOption \cup {Account(n)}
                    ELSE grantOption
  /\ SeedUsersFrom(n, k[n] + 1)
  /\ UNCHANGED <<manifest, dbs, password, dbPrivs, failures>>

\* admin: GRANT ALL PRIVILEGES ON *.* WITH GRANT OPTION; minimal: REVOKE ALL
\* PRIVILEGES ON *.*, which takes back neither the GRANT OPTION nor privileges
\* on single databases.
RoleQuery(n) ==
  /\ at[n] = "roleQuery"
  /\ globalPrivs' = IF User(n).role = "admin" THEN globalPrivs \cup {Account(n)}
                    ELSE globalPrivs \ {Account(n)}
  /\ grantOption' = IF User(n).role = "admin" THEN grantOption \cup {Account(n)}
                    ELSE grantOption
  /\ SeedUsersFrom(n, k[n] + 1)
  /\ UNCHANGED <<manifest, dbs, password, dbPrivs, failures>>

\* The files' statements do not touch accounts; unreadable files are skipped.
RunPostStartSQL(n) ==
  /\ at[n] = "RunPostStartSQL"
  /\ Goto(n, "ready", 1)
  /\ UNCHANGED <<manifest, tables, failures>>

Statement(n) ==
  \/ CreateDBIfNeeded(n) \/ IsExistingUser(n) \/ CreateUser(n) \/ UpdateUser(n)
  \/ GrantAll(n) \/ RevokeLockTables(n) \/ FlushPrivileges(n)
  \/ CheckRoleAndHost(n) \/ CreateUserIfNotExists(n) \/ AlterUser(n) \/ RoleQuery(n)
  \/ RunPostStartSQL(n)

\* A statement is not executed: SQL error, lost connection, mysqld or
\* galera-init ended.
StatementFails(n) ==
  /\ at[n] \in Seeding
  /\ failures < MaxFailures
  /\ failures' = failures + 1
  /\ Goto(n, "off", 1)
  /\ UNCHANGED <<manifest, tables>>

Restart(n) == at[n] = "ready" /\ Return(n)

\* A new manifest, deployed while no node is up.
Redeploy ==
  /\ \A n \in Nodes : at[n] = "off"
  /\ manifest' \in Manifests
  /\ UNCHANGED <<nodeVars, tables, failures>>

Next ==
  \/ \E n \in Nodes : Start(n) \/ Statement(n) \/ StatementFails(n) \/ Restart(n)
  \/ Redeploy

Spec == Init /\ [][Next]_vars

\* monit starts a node that is off, and the node's code runs.
FairSpec == Spec /\ \A n \in Nodes : WF_vars(Start(n)) /\ WF_vars(Statement(n))

-----------------------------------------------------------------------------
Ready(n) == at[n] = "ready"

\* A manifest in which each account has one password and one role.
Consistent ==
  LET fromDatabases == {<<AnyHost(d.user), d.password>> :
                          d \in {manifest.databases[j] : j \in DOMAIN manifest.databases}}
      known == {manifest.users[j] : j \in {j \in DOMAIN manifest.users :
                                            manifest.users[j].host \in DOMAIN HostString}}
      fromUsers == {<<(<<u.user, HostString[u.host]>>), u.password>> : u \in known}
  IN /\ \A x, y \in fromDatabases \cup fromUsers : x[1] = y[1] => x[2] = y[2]
     /\ \A u, v \in known : u.user = v.user /\ u.host = v.host => u.role = v.role

\* A node that has finished seeding finds every configured database, and its
\* user with the configured password and the database's privileges, whatever
\* earlier attempts left behind and whatever other nodes are seeding.
DatabasesSeeded ==
  \A n \in Nodes : Ready(n) /\ Consistent =>
    \A j \in DOMAIN manifest.databases :
      LET d == manifest.databases[j] IN
      /\ d.db \in dbs
      /\ password[AnyHost(d.user)] = d.password
      /\ <<d.db, "ALL">> \in dbPrivs[AnyHost(d.user)]

\* Likewise for the seeded users, also after a redeployment that changed a
\* password or a role: the password is the configured one, an admin has all
\* privileges and may grant them, and a minimal user, demoted or not, has none
\* of the privileges on *.*.  What the REVOKE of getRoleQuery leaves to a
\* demoted user, GRANT OPTION and privileges on databases, is not excluded:
\* see MinimalHasNoAccess.
UsersSeeded ==
  \A n \in Nodes : Ready(n) /\ Consistent =>
    \A j \in DOMAIN manifest.users :
      LET u == manifest.users[j]
          account == <<u.user, HostString[u.host]>>
      IN /\ password[account] = u.password
         /\ u.role = "admin" => account \in globalPrivs /\ account \in grantOption
         /\ u.role = "minimal" => account \notin globalPrivs

\* Once all nodes have finished, no preseeded user may LOCK TABLES: every
\* GRANT ALL, of every attempt of every node, was followed by the REVOKE.
NoLockTables ==
  (\A n \in Nodes : Ready(n)) =>
    \A j \in DOMAIN manifest.databases :
      LET d == manifest.databases[j] IN
      <<d.db, "LOCK TABLES">> \notin dbPrivs[AnyHost(d.user)]

\* A manifest SeedUser can carry out: hosts and roles are ones it knows.
Supported ==
  \A j \in DOMAIN manifest.users :
    manifest.users[j].host \in DOMAIN HostString /\ manifest.users[j].role \in {"admin", "minimal"}

\* A user of a database has accounts, but none for every host: IsExistingUser
\* finds it and SET PASSWORD does not.
KnownElsewhere ==
  \E j \in DOMAIN manifest.databases :
    LET user == manifest.databases[j].user IN
    /\ password[AnyHost(user)] = NoAccount
    /\ \E a \in Accounts : a[1] = user /\ password[a] # NoAccount

\* Seeding that was begun succeeds in the end, if the manifest is one that can
\* be carried out: failed attempts and lost races between nodes are nothing
\* that a retry cannot cope with.  Of what earlier manifests left behind only
\* a database's user known under other hosts stands in the way.
SeedingConverges ==
  \A n \in Nodes : at[n] \in Seeding ~> (Ready(n) \/ ~ Supported \/ KnownElsewhere)

\* Retries cope with whatever earlier manifests left behind: existing users are
\* updated.
ExistingUsersAreUpdated == \A n \in Nodes : at[n] \in Seeding ~> (Ready(n) \/ ~ Supported)

\* An account with the role minimal has no access.
MinimalHasNoAccess ==
  \A n \in Nodes : Ready(n) /\ Consistent =>
    \A j \in DOMAIN manifest.users :
      LET u == manifest.users[j]
          account == <<u.user, HostString[u.host]>>
      IN u.role = "minimal" =>
           account \notin globalPrivs \cup grantOption /\ dbPrivs[account] = {}

=============================================================================
