-------------------------------- MODULE MCConfig --------------------------------
(* Config for short lists of databases and users.                            *)
EXTENDS Config

Database(name, user) == [DBName |-> name, User |-> user, Password |-> ""]
User(name, password, host, role) ==
  [User |-> name, Password |-> password, Host |-> host, Role |-> role]

\* None, a good one, and bad ones in either place of a list of two.
SomeDatabases ==
  {<<>>, <<Database("text", "text")>>,
   <<Database("text", ""), Database("text", "text")>>,
   <<Database("", "text"), Database("", "")>>}

SomeUsers ==
  {<<>>, <<User("text", "text", "text", "text")>>,
   <<User("text", "text", "text", ""), User("", "", "", "text")>>}

SomeIps == {<<>>, <<"text">>, <<"text", "">>}

SomeTimeouts == {-1, 0, 10}

=============================================================================
