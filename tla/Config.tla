-------------------------------- MODULE Config --------------------------------
(***************************************************************************)
(* Package config, and the first lines of cmd/start/main.go that use it:   *)
(* what the manifest says becomes a configuration, which is validated      *)
(* before anything else happens.  A text is blank or not; a field of the   *)
(* configuration is named by its path.                                     *)
(***************************************************************************)
EXTENDS Integers, Sequences

CONSTANTS
  IpLists,        \* values of Manager.ClusterIps to look at
  Timeouts,       \* values of Manager.ClusterProbeTimeout
  DatabaseLists,  \* values of Db.PreseededDatabases
  UserLists       \* values of Db.SeededUsers

Text == {"", "text"}

PreseededDatabase == [DBName : Text, User : Text, Password : Text]
SeededUser == [User : Text, Password : Text, Host : Text, Role : Text]

ASSUME IpsAssumption == IpLists \subseteq Seq(Text)
ASSUME TimeoutsAssumption == Timeouts \subseteq Int
ASSUME DatabasesAssumption == DatabaseLists \subseteq Seq(PreseededDatabase)
ASSUME UsersAssumption == UserLists \subseteq Seq(SeededUser)

\* The structs of the package.  BootstrapNode, SkipBinlog, Socket and
\* PostStartSQLFiles have no tag and no effect here.
DBHelper == [Password : Text, UpgradePath : Text, User : Text,
             PreseededDatabases : DatabaseLists, SeededUsers : UserLists]
StartManager == [StateFileLocation : Text, GrastateFileLocation : Text,
                 ClusterIps : IpLists, ClusterProbeTimeout : Timeouts,
                 GaleraInitStatusServerAddress : Text]
Upgrader == [PackageVersionFile : Text, LastUpgradedVersionFile : Text]
Configs == [LogFileLocation : Text, Db : DBHelper, Manager : StartManager,
            Upgrader : Upgrader]

\* Fields with the tag validate:"nonzero".
Nonzero == [Config |-> {"LogFileLocation"},
            DBHelper |-> {"UpgradePath", "User"},
            StartManager |-> {"StateFileLocation", "ClusterIps", "ClusterProbeTimeout",
                              "GaleraInitStatusServerAddress"},
            Upgrader |-> {"PackageVersionFile", "LastUpgradedVersionFile"},
            PreseededDatabase |-> {"DBName", "User"},
            SeededUser |-> {"User", "Password", "Host", "Role"}]

VARIABLES
  at,        \* where main is
  manifest,  \* what the text says
  cfg,       \* the configuration
  errString  \* the fields that Validate complains about

vars == <<at, manifest, cfg, errString>>

Init ==
  /\ at = "NewConfig"
  /\ manifest \in Configs
  /\ cfg = manifest
  /\ errString = {}

-----------------------------------------------------------------------------
(* Package validator, as vendored                                            *)

Zero(field, value) ==
  CASE field = "ClusterIps" -> Len(value) = 0
    [] field = "ClusterProbeTimeout" -> value = 0
    [] OTHER -> value = ""

Under(prefix, keys) == {prefix \o key : key \in keys}

ZeroFields(type, v) == {<<f>> : f \in {g \in Nonzero[type] : Zero(g, v[g])}}

ZeroElements(name, type, list) ==
  UNION {Under(<<name, j - 1>>, ZeroFields(type, list[j])) : j \in DOMAIN list}

\* validator.Validate descends into structs and into lists of them.
Validator(c) ==
  ZeroFields("Config", c)
    \cup Under(<<"Db">>,
           ZeroFields("DBHelper", c.Db)
             \cup ZeroElements("PreseededDatabases", "PreseededDatabase",
                               c.Db.PreseededDatabases)
             \cup ZeroElements("SeededUsers", "SeededUser", c.Db.SeededUsers))
    \cup Under(<<"Manager">>, ZeroFields("StartManager", c.Manager))
    \cup Under(<<"Upgrader">>, ZeroFields("Upgrader", c.Upgrader))

-----------------------------------------------------------------------------
(* The package's operations                                                  *)

\* Mutant: the defaults are not merged.
WithoutDefaults(c) == c

\* AddDefaults: what is blank gets the default, if it has one.
WithDefaults(c) ==
  LET Default(value) == IF value = "" THEN "text" ELSE value
  IN [c EXCEPT !.Db.User = Default(@), !.Manager.GrastateFileLocation = Default(@)]

\* NewConfig, and main's Fatal for a text that is missing or no YAML.
NewConfig ==
  /\ at = "NewConfig"
  /\ \/ at' = "Validate" /\ cfg' = WithDefaults(manifest)
     \/ at' = "Fatal" /\ UNCHANGED cfg
  /\ UNCHANGED <<manifest, errString>>

DatabaseErrors(c) ==
  Under(<<"Db">>, ZeroElements("PreseededDatabases", "PreseededDatabase",
                               c.Db.PreseededDatabases))

\* Mutant: errString is assigned to where it should be appended to.
LastErrors(c) == IF DatabaseErrors(c) # {} THEN DatabaseErrors(c) ELSE Validator(c)

\* The fields in the error of Validate: those the validator names, and once
\* more the ones of the databases.  The order of a map's keys is random.
ValidationErrors(c) == Validator(c) \cup DatabaseErrors(c)

Validate ==
  /\ at = "Validate"
  /\ errString' = ValidationErrors(cfg)
  /\ at' = IF errString' = {} THEN "managerSetup" ELSE "Fatal"
  /\ UNCHANGED <<manifest, cfg>>

Next == NewConfig \/ Validate

Spec == Init /\ [][Next]_vars

-----------------------------------------------------------------------------
(* Properties                                                                *)

\* What managerSetup gets from NewConfig and Validate is what the other
\* modules assume: somebody to log in as, a node list that is not empty, a
\* probe timeout other than 0, a grastate file to patch, and seeds with the
\* names their statements are built from.
AcceptedIsUsable ==
  at = "managerSetup" =>
    /\ cfg.Db.User # "" /\ cfg.Manager.GrastateFileLocation # ""
    /\ cfg.Manager.ClusterIps # <<>> /\ cfg.Manager.ClusterProbeTimeout # 0
    /\ \A j \in DOMAIN cfg.Db.PreseededDatabases :
         LET database == cfg.Db.PreseededDatabases[j]
         IN database.DBName # "" /\ database.User # ""
    /\ \A j \in DOMAIN cfg.Db.SeededUsers :
         "" \notin {cfg.Db.SeededUsers[j][f] : f \in {"User", "Password", "Host", "Role"}}

\* c with the given fields filled in.
Repaired(c, keys) ==
  LET Filler(f) == CASE f = "ClusterIps" -> <<"text">>
                     [] f = "ClusterProbeTimeout" -> 1
                     [] OTHER -> "text"
      Fill(prefix, v) == [f \in DOMAIN v |->
                            IF Append(prefix, f) \in keys THEN Filler(f) ELSE v[f]]
      FillList(name, list) == [j \in DOMAIN list |-> Fill(<<"Db", name, j - 1>>, list[j])]
      db == [Fill(<<"Db">>, c.Db) EXCEPT
               !.PreseededDatabases = FillList("PreseededDatabases", c.Db.PreseededDatabases),
               !.SeededUsers = FillList("SeededUsers", c.Db.SeededUsers)]
  IN [Fill(<<>>, c) EXCEPT !.Db = db, !.Manager = Fill(<<"Manager">>, c.Manager),
                           !.Upgrader = Fill(<<"Upgrader">>, c.Upgrader)]

\* One error of Validate is enough to repair a manifest: with the fields it
\* names filled in the configuration is accepted, and with any of them left
\* blank it is not.
ErrorsAreComplete ==
  errString # {} =>
    /\ ValidationErrors(Repaired(cfg, errString)) = {}
    /\ \A key \in errString : ValidationErrors(Repaired(cfg, errString \ {key})) # {}

=============================================================================
