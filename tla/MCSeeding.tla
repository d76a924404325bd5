------------------------------- MODULE MCSeeding -------------------------------
(* Seeding for two nodes and a handful of manifests.                          *)
EXTENDS Seeding, TLC

CONSTANTS n1, n2

Symmetry == Permutations({n1, n2})

Db(d, u, pw) == [db |-> d, user |-> u, password |-> pw]
SeededUser(u, pw, h, r) == [user |-> u, password |-> pw, host |-> h, role |-> r]
Manifest(databases, users) == [databases |-> databases, users |-> users]

\* Two databases of one user, then with a new password.
TwoDbs == Manifest(<<Db("d1", "app", "old"), Db("d2", "app", "old")>>, << >>)
TwoDbsNewPassword == Manifest(<<Db("d1", "app", "new"), Db("d2", "app", "new")>>, << >>)
\* A seeded user next to a database, admin and then demoted with a new password.
Admin == Manifest(<<Db("d1", "app", "old")>>, <<SeededUser("root", "old", "loopback", "admin")>>)
Demoted == Manifest(<<Db("d1", "app", "new")>>, <<SeededUser("root", "new", "loopback", "minimal")>>)
\* The second user's role is unknown, or its host.
BadRole == Manifest(<< >>, <<SeededUser("root", "old", "localhost", "admin"),
                             SeededUser("root", "old", "any", "dba")>>)
BadHost == Manifest(<< >>, <<SeededUser("root", "old", "10.0.0.1", "admin")>>)
\* A user first seeded for localhost, then given a database.
LocalUser == Manifest(<< >>, <<SeededUser("app", "old", "localhost", "minimal")>>)
OneDb == Manifest(<<Db("d1", "app", "old")>>, << >>)
\* The user of a database is demoted to an account without access.
AppMinimal == Manifest(<< >>, <<SeededUser("app", "old", "any", "minimal")>>)

SomeManifests == {TwoDbs, TwoDbsNewPassword, Admin, Demoted, BadRole, BadHost, LocalUser}
LocalUserManifests == {LocalUser, OneDb}
DemotionManifests == {OneDb, AppMinimal}
FormerAdminManifests == {Admin, Demoted}

=============================================================================
