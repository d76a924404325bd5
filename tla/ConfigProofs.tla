------------------------------ MODULE ConfigProofs ------------------------------
(***************************************************************************)
(* What Validate accepts and what it complains about, for lists of nodes,  *)
(* databases and users of any length.                                      *)
(***************************************************************************)
EXTENDS Config, SequenceTheorems, TLAPS

\* The fields of a struct that the validator complains about.
Missing(type, v) == {f \in Nonzero[type] : Zero(f, v[f])}

-----------------------------------------------------------------------------
(* Paths                                                                     *)

\* An element in front of a sequence.
LEMMA InFront ==
  ASSUME NEW S, NEW a \in S, NEW t \in Seq(S)
  PROVE  /\ <<a>> \o t \in Seq(S) /\ Len(<<a>> \o t) = Len(t) + 1
         /\ \A i \in 1 .. Len(t) + 1 : (<<a>> \o t)[i] = IF i <= 1 THEN a ELSE t[i - 1]
OBVIOUS

\* What a sequence with an element in front of it is equal to.
LEMMA InFrontEqual ==
  ASSUME NEW S, NEW a \in S, NEW t \in Seq(S), NEW u \in Seq(S),
         Len(u) = Len(t) + 1, u[1] = a, \A i \in 1 .. Len(t) : u[i + 1] = t[i]
  PROVE  <<a>> \o t = u
<1> DEFINE w == <<a>> \o t
<1>1. /\ w \in Seq(S) /\ Len(w) = Len(t) + 1
      /\ \A i \in 1 .. Len(t) + 1 : w[i] = IF i <= 1 THEN a ELSE t[i - 1]
  BY InFront
<1> HIDE DEF w
<1>2. \A i \in 1 .. Len(t) + 1 : i # 1 => i - 1 \in 1 .. Len(t) /\ (i - 1) + 1 = i
  OBVIOUS
<1>3. \A i \in 1 .. Len(t) + 1 : w[i] = u[i]
  BY <1>1, <1>2
<1>4. w = u
  BY <1>1, <1>3, SeqEqual
<1>5. QED
  BY <1>4 DEF w

\* A sequence of one and a sequence of two.
LEMMA OneAndTwo ==
  ASSUME NEW S, NEW a \in S, NEW b \in S, NEW c \in S
  PROVE  <<a>> \o <<b, c>> = <<a, b, c>>
<1> DEFINE t == <<b, c>>
           u == <<a, b, c>>
<1>1. /\ t \in Seq(S) /\ u \in Seq(S) /\ Len(t) = 2 /\ Len(u) = 3
      /\ u[1] = a /\ u[2] = b /\ u[3] = c /\ t[1] = b /\ t[2] = c
  OBVIOUS
<1> HIDE DEF t, u
<1>2. Len(u) = Len(t) + 1
  BY <1>1
<1>3. ASSUME NEW i \in 1 .. Len(t) PROVE u[i + 1] = t[i]
  <2>1. i = 1 \/ i = 2
    BY <1>1
  <2>2. CASE i = 1
    BY <1>1, <2>2
  <2>3. CASE i = 2
    BY <1>1, <2>3
  <2>4. QED
    BY <2>1, <2>2, <2>3
<1>4. <<a>> \o t = u
  BY <1>1, <1>2, <1>3, InFrontEqual
<1>5. QED
  BY <1>4 DEF t, u

\* The path of a field of a list's element, put together from the outside in
\* and from the inside out.
LEMMA ElementPath ==
  ASSUME NEW a, NEW b, NEW c, NEW d
  PROVE  <<a>> \o (<<b, c>> \o <<d>>) = Append(<<a, b, c>>, d)
<1> DEFINE S == {a, b, c, d}
<1>1. <<a>> \in Seq(S) /\ <<b, c>> \in Seq(S) /\ <<d>> \in Seq(S) /\ <<a, b, c>> \in Seq(S)
  OBVIOUS
<1>2. a \in S /\ b \in S /\ c \in S /\ d \in S
  OBVIOUS
<1> HIDE DEF S
<1>3. <<a>> \o (<<b, c>> \o <<d>>) = (<<a>> \o <<b, c>>) \o <<d>>
  BY <1>1, ConcatAssociative
<1>4. (<<a>> \o <<b, c>>) \o <<d>> = <<a, b, c>> \o <<d>>
  BY <1>2, OneAndTwo
<1>5. \A s \in Seq(S) : s \o <<d>> = Append(s, d)
  BY <1>2
<1>6. QED
  BY <1>1, <1>3, <1>4, <1>5

-----------------------------------------------------------------------------
(* What the validator finds                                                  *)

\* A field under a prefix.
LEMMA UnderFields ==
  ASSUME NEW a, NEW type, NEW v, NEW key
  PROVE  key \in Under(<<a>>, ZeroFields(type, v))
           <=> \E f \in Missing(type, v) : key = Append(<<a>>, f)
<1>1. \A f : <<a>> \o <<f>> = Append(<<a>>, f)
  OBVIOUS
<1>2. QED
  BY <1>1 DEF Under, ZeroFields, Missing

\* A field of an element of a list, under a prefix.
LEMMA UnderElements ==
  ASSUME NEW a, NEW name, NEW type, NEW list, NEW key
  PROVE  key \in Under(<<a>>, ZeroElements(name, type, list))
           <=> \E i \in DOMAIN list : \E f \in Missing(type, list[i]) :
                 key = Append(<<a, name, i - 1>>, f)
<1>1. \A x : x \in ZeroElements(name, type, list)
               <=> \E i \in DOMAIN list : \E f \in Missing(type, list[i]) :
                     x = <<name, i - 1>> \o <<f>>
  <2>1. \A x : x \in ZeroElements(name, type, list)
                 <=> \E i \in DOMAIN list :
                       x \in Under(<<name, i - 1>>, ZeroFields(type, list[i]))
    BY DEF ZeroElements
  <2>2. ASSUME NEW x, NEW i \in DOMAIN list
        PROVE  x \in Under(<<name, i - 1>>, ZeroFields(type, list[i]))
                 <=> \E f \in Missing(type, list[i]) : x = <<name, i - 1>> \o <<f>>
    BY DEF Under, ZeroFields, Missing
  <2>3. QED
    BY <2>1, <2>2, Zenon
<1>2. key \in Under(<<a>>, ZeroElements(name, type, list))
        <=> \E x \in ZeroElements(name, type, list) : key = <<a>> \o x
  BY DEF Under
<1>3. \A i \in DOMAIN list : \A f :
        <<a>> \o (<<name, i - 1>> \o <<f>>) = Append(<<a, name, i - 1>>, f)
  <2>1. \A n, f : <<a>> \o (<<name, n>> \o <<f>>) = Append(<<a, name, n>>, f)
    BY ElementPath
  <2>2. QED
    BY <2>1, Zenon
<1>4. ASSUME key \in Under(<<a>>, ZeroElements(name, type, list))
      PROVE  \E i \in DOMAIN list : \E f \in Missing(type, list[i]) :
               key = Append(<<a, name, i - 1>>, f)
  <2>1. PICK x \in ZeroElements(name, type, list) : key = <<a>> \o x
    BY <1>2, <1>4
  <2>2. PICK i \in DOMAIN list : \E f \in Missing(type, list[i]) : x = <<name, i - 1>> \o <<f>>
    BY <1>1, <2>1
  <2>3. PICK f \in Missing(type, list[i]) : x = <<name, i - 1>> \o <<f>>
    BY <2>2
  <2>4. key = Append(<<a, name, i - 1>>, f)
    BY <1>3, <2>1, <2>3, Zenon
  <2>5. QED
    BY <2>4
<1>5. ASSUME NEW i \in DOMAIN list, NEW f \in Missing(type, list[i]),
             key = Append(<<a, name, i - 1>>, f)
      PROVE  key \in Under(<<a>>, ZeroElements(name, type, list))
  <2>1. <<name, i - 1>> \o <<f>> \in ZeroElements(name, type, list)
    BY <1>1
  <2>2. key = <<a>> \o (<<name, i - 1>> \o <<f>>)
    BY <1>3, <1>5, Zenon
  <2>3. QED
    BY <1>2, <2>1, <2>2, Zenon
<1>6. QED
  BY <1>4, <1>5

\* Key is the path of a field that is blank in c.
Complaint(c, key) ==
  \/ \E f \in Missing("Config", c) : key = Append(<< >>, f)
  \/ \E f \in Missing("DBHelper", c.Db) : key = Append(<<"Db">>, f)
  \/ \E i \in DOMAIN c.Db.PreseededDatabases :
       \E f \in Missing("PreseededDatabase", c.Db.PreseededDatabases[i]) :
         key = Append(<<"Db", "PreseededDatabases", i - 1>>, f)
  \/ \E i \in DOMAIN c.Db.SeededUsers :
       \E f \in Missing("SeededUser", c.Db.SeededUsers[i]) :
         key = Append(<<"Db", "SeededUsers", i - 1>>, f)
  \/ \E f \in Missing("StartManager", c.Manager) : key = Append(<<"Manager">>, f)
  \/ \E f \in Missing("Upgrader", c.Upgrader) : key = Append(<<"Upgrader">>, f)

\* Validate complains about all fields that must not be blank and are, and
\* about nothing else.
LEMMA ComplaintsAreErrors ==
  ASSUME NEW c, NEW key
  PROVE  key \in ValidationErrors(c) <=> Complaint(c, key)
<1> DEFINE D == ZeroElements("PreseededDatabases", "PreseededDatabase", c.Db.PreseededDatabases)
           U == ZeroElements("SeededUsers", "SeededUser", c.Db.SeededUsers)
           F == ZeroFields("DBHelper", c.Db)
<1>1. key \in ZeroFields("Config", c) <=> \E f \in Missing("Config", c) : key = Append(<< >>, f)
  <2>1. \A f : Append(<< >>, f) = <<f>>
    OBVIOUS
  <2>2. QED
    BY <2>1 DEF ZeroFields, Missing
<1>2. key \in Under(<<"Db">>, F \cup D \cup U)
        <=> \/ key \in Under(<<"Db">>, F) \/ key \in Under(<<"Db">>, D)
            \/ key \in Under(<<"Db">>, U)
  <2> HIDE DEF F, D, U
  <2>1. QED
    BY DEF Under
<1>3. key \in ValidationErrors(c)
        <=> \/ key \in ZeroFields("Config", c)
            \/ key \in Under(<<"Db">>, F) \/ key \in Under(<<"Db">>, D)
            \/ key \in Under(<<"Db">>, U)
            \/ key \in Under(<<"Manager">>, ZeroFields("StartManager", c.Manager))
            \/ key \in Under(<<"Upgrader">>, ZeroFields("Upgrader", c.Upgrader))
  BY <1>2 DEF ValidationErrors, Validator, DatabaseErrors
<1>4. QED
  BY <1>1, <1>3, UnderFields, UnderElements DEF Complaint

-----------------------------------------------------------------------------
(* What a repair does                                                        *)

FillerOf(f) == CASE f = "ClusterIps" -> <<"text">>
                 [] f = "ClusterProbeTimeout" -> 1
                 [] OTHER -> "text"

\* Field f of the struct v, repaired.
Filled(keys, prefix, v, f) == IF Append(prefix, f) \in keys THEN FillerOf(f) ELSE v[f]

\* The struct w is v repaired, in all fields that must not be blank.
RepairOf(w, keys, prefix, type, v) ==
  \A f \in Nonzero[type] : w[f] = Filled(keys, prefix, v, f)

\* A repair is made field by field.
LEMMA RepairedFacts ==
  ASSUME NEW c \in Configs, NEW keys
  PROVE  LET r == Repaired(c, keys) IN
         /\ RepairOf(r, keys, << >>, "Config", c)
         /\ RepairOf(r.Db, keys, <<"Db">>, "DBHelper", c.Db)
         /\ RepairOf(r.Manager, keys, <<"Manager">>, "StartManager", c.Manager)
         /\ RepairOf(r.Upgrader, keys, <<"Upgrader">>, "Upgrader", c.Upgrader)
         /\ DOMAIN r.Db.PreseededDatabases = DOMAIN c.Db.PreseededDatabases
         /\ DOMAIN r.Db.SeededUsers = DOMAIN c.Db.SeededUsers
         /\ \A i \in DOMAIN c.Db.PreseededDatabases :
              RepairOf(r.Db.PreseededDatabases[i], keys, <<"Db", "PreseededDatabases", i - 1>>,
                       "PreseededDatabase", c.Db.PreseededDatabases[i])
         /\ \A i \in DOMAIN c.Db.SeededUsers :
              RepairOf(r.Db.SeededUsers[i], keys, <<"Db", "SeededUsers", i - 1>>,
                       "SeededUser", c.Db.SeededUsers[i])
<1> DEFINE Fill(prefix, v) == [f \in DOMAIN v |-> Filled(keys, prefix, v, f)]
           FillList(name, list) == [i \in DOMAIN list |-> Fill(<<"Db", name, i - 1>>, list[i])]
           databases == FillList("PreseededDatabases", c.Db.PreseededDatabases)
           users == FillList("SeededUsers", c.Db.SeededUsers)
           P == Fill(<<"Db">>, c.Db)
           F == Fill(<< >>, c)
           db == [P EXCEPT !.PreseededDatabases = databases, !.SeededUsers = users]
           m == Fill(<<"Manager">>, c.Manager)
           u == Fill(<<"Upgrader">>, c.Upgrader)
           r == Repaired(c, keys)
<1>1. /\ DOMAIN c = {"LogFileLocation", "Db", "Manager", "Upgrader"}
      /\ c.Db \in DBHelper /\ c.Manager \in StartManager /\ c.Upgrader \in Upgrader
  BY DEF Configs
<1>2. r = [F EXCEPT !.Db = db, !.Manager = m, !.Upgrader = u]
  BY DEF Repaired, Filled, FillerOf
<1>3. /\ DOMAIN F = {"LogFileLocation", "Db", "Manager", "Upgrader"}
      /\ F.LogFileLocation = Filled(keys, << >>, c, "LogFileLocation")
  BY <1>1
<1>4. /\ r.Db = db /\ r.Manager = m /\ r.Upgrader = u
      /\ r.LogFileLocation = Filled(keys, << >>, c, "LogFileLocation")
  <2> HIDE DEF F, r, db, m, u
  <2>1. QED
    BY <1>2, <1>3
<1>5. /\ DOMAIN P = {"Password", "UpgradePath", "User", "PreseededDatabases", "SeededUsers"}
      /\ \A f \in {"UpgradePath", "User"} : P[f] = Filled(keys, <<"Db">>, c.Db, f)
  BY <1>1 DEF DBHelper
<1>6. r.Db = [P EXCEPT !.PreseededDatabases = databases, !.SeededUsers = users]
  BY <1>4
<1>7. /\ r.Db.PreseededDatabases = databases /\ r.Db.SeededUsers = users
      /\ \A f \in {"UpgradePath", "User"} : r.Db[f] = Filled(keys, <<"Db">>, c.Db, f)
  <2> HIDE DEF P, r, databases, users
  <2>1. QED
    BY <1>5, <1>6
<1> HIDE DEF r
<1>8. RepairOf(r, keys, << >>, "Config", c)
  BY <1>4 DEF RepairOf, Nonzero
<1>9. RepairOf(r.Db, keys, <<"Db">>, "DBHelper", c.Db)
  BY <1>7 DEF RepairOf, Nonzero
<1>10. RepairOf(r.Manager, keys, <<"Manager">>, "StartManager", c.Manager)
  BY <1>1, <1>4 DEF RepairOf, Nonzero, StartManager
<1>11. RepairOf(r.Upgrader, keys, <<"Upgrader">>, "Upgrader", c.Upgrader)
  BY <1>1, <1>4 DEF RepairOf, Nonzero, Upgrader
<1>12. /\ DOMAIN r.Db.PreseededDatabases = DOMAIN c.Db.PreseededDatabases
       /\ DOMAIN r.Db.SeededUsers = DOMAIN c.Db.SeededUsers
  BY <1>7
<1>13. ASSUME NEW i \in DOMAIN c.Db.PreseededDatabases
       PROVE  RepairOf(r.Db.PreseededDatabases[i], keys, <<"Db", "PreseededDatabases", i - 1>>,
                       "PreseededDatabase", c.Db.PreseededDatabases[i])
  <2>1. c.Db.PreseededDatabases[i] \in PreseededDatabase
    BY <1>1, DatabasesAssumption DEF DBHelper
  <2>2. r.Db.PreseededDatabases[i] =
          Fill(<<"Db", "PreseededDatabases", i - 1>>, c.Db.PreseededDatabases[i])
    BY <1>7
  <2>3. QED
    BY <2>1, <2>2 DEF RepairOf, Nonzero, PreseededDatabase
<1>14. ASSUME NEW i \in DOMAIN c.Db.SeededUsers
       PROVE  RepairOf(r.Db.SeededUsers[i], keys, <<"Db", "SeededUsers", i - 1>>,
                       "SeededUser", c.Db.SeededUsers[i])
  <2>1. c.Db.SeededUsers[i] \in SeededUser
    BY <1>1, UsersAssumption DEF DBHelper
  <2>2. r.Db.SeededUsers[i] = Fill(<<"Db", "SeededUsers", i - 1>>, c.Db.SeededUsers[i])
    BY <1>7
  <2>3. QED
    BY <2>1, <2>2 DEF RepairOf, Nonzero, SeededUser
<1>15. QED
  BY <1>8, <1>9, <1>10, <1>11, <1>12, <1>13, <1>14 DEF r

\* No filler is blank.
LEMMA FillersAreNonzero ==
  ASSUME NEW f
  PROVE  ~ Zero(f, FillerOf(f))
<1>1. Len(<<"text">>) # 0
  OBVIOUS
<1>2. QED
  BY <1>1 DEF Zero, FillerOf

\* With all its blank fields filled in a struct is complete.
LEMMA RepairCompletes ==
  ASSUME NEW w, NEW keys, NEW prefix, NEW type, NEW v, RepairOf(w, keys, prefix, type, v),
         \A f \in Missing(type, v) : Append(prefix, f) \in keys
  PROVE  Missing(type, w) = {}
<1> SUFFICES ASSUME NEW f \in Nonzero[type], Zero(f, w[f])
             PROVE  FALSE
  BY DEF Missing
<1>1. w[f] = Filled(keys, prefix, v, f)
  BY DEF RepairOf
<1>2. CASE Append(prefix, f) \in keys
  BY <1>1, <1>2, FillersAreNonzero DEF Filled
<1>3. CASE Append(prefix, f) \notin keys
  BY <1>1, <1>3 DEF Filled, Missing
<1>4. QED
  BY <1>2, <1>3

\* A blank field that is not filled in stays blank.
LEMMA RepairLeaves ==
  ASSUME NEW w, NEW keys, NEW prefix, NEW type, NEW v, RepairOf(w, keys, prefix, type, v),
         NEW f \in Missing(type, v), Append(prefix, f) \notin keys
  PROVE  f \in Missing(type, w)
BY DEF RepairOf, Missing, Filled

-----------------------------------------------------------------------------
(* The errors of a configuration                                             *)

\* With the fields that Validate names filled in the configuration is
\* accepted.
LEMMA ErrorsSuffice ==
  ASSUME NEW c \in Configs
  PROVE  ValidationErrors(Repaired(c, ValidationErrors(c))) = {}
<1> DEFINE keys == ValidationErrors(c)
           r == Repaired(c, keys)
<1>1. \A key : Complaint(c, key) => key \in keys
  BY ComplaintsAreErrors
<1> HIDE DEF keys
<1>2. /\ RepairOf(r, keys, << >>, "Config", c)
      /\ RepairOf(r.Db, keys, <<"Db">>, "DBHelper", c.Db)
      /\ RepairOf(r.Manager, keys, <<"Manager">>, "StartManager", c.Manager)
      /\ RepairOf(r.Upgrader, keys, <<"Upgrader">>, "Upgrader", c.Upgrader)
      /\ DOMAIN r.Db.PreseededDatabases = DOMAIN c.Db.PreseededDatabases
      /\ DOMAIN r.Db.SeededUsers = DOMAIN c.Db.SeededUsers
      /\ \A i \in DOMAIN c.Db.PreseededDatabases :
           RepairOf(r.Db.PreseededDatabases[i], keys, <<"Db", "PreseededDatabases", i - 1>>,
                    "PreseededDatabase", c.Db.PreseededDatabases[i])
      /\ \A i \in DOMAIN c.Db.SeededUsers :
           RepairOf(r.Db.SeededUsers[i], keys, <<"Db", "SeededUsers", i - 1>>,
                    "SeededUser", c.Db.SeededUsers[i])
  BY RepairedFacts
<1> HIDE DEF r
<1>3. Missing("Config", r) = {}
  BY <1>1, <1>2, RepairCompletes DEF Complaint
<1>4. Missing("DBHelper", r.Db) = {}
  BY <1>1, <1>2, RepairCompletes DEF Complaint
<1>5. Missing("StartManager", r.Manager) = {}
  BY <1>1, <1>2, RepairCompletes DEF Complaint
<1>6. Missing("Upgrader", r.Upgrader) = {}
  BY <1>1, <1>2, RepairCompletes DEF Complaint
<1>7. ASSUME NEW i \in DOMAIN r.Db.PreseededDatabases
      PROVE  Missing("PreseededDatabase", r.Db.PreseededDatabases[i]) = {}
  <2>1. i \in DOMAIN c.Db.PreseededDatabases
    BY <1>2, <1>7
  <2>2. \A f \in Missing("PreseededDatabase", c.Db.PreseededDatabases[i]) :
          Append(<<"Db", "PreseededDatabases", i - 1>>, f) \in keys
    BY <1>1, <2>1 DEF Complaint
  <2>3. QED
    BY <1>2, <2>1, <2>2, RepairCompletes
<1>8. ASSUME NEW i \in DOMAIN r.Db.SeededUsers
      PROVE  Missing("SeededUser", r.Db.SeededUsers[i]) = {}
  <2>1. i \in DOMAIN c.Db.SeededUsers
    BY <1>2, <1>8
  <2>2. \A f \in Missing("SeededUser", c.Db.SeededUsers[i]) :
          Append(<<"Db", "SeededUsers", i - 1>>, f) \in keys
    BY <1>1, <2>1 DEF Complaint
  <2>3. QED
    BY <1>2, <2>1, <2>2, RepairCompletes
<1>9. \A key : ~ Complaint(r, key)
  BY <1>3, <1>4, <1>5, <1>6, <1>7, <1>8 DEF Complaint
<1>10. ValidationErrors(r) = {}
  BY <1>9, ComplaintsAreErrors
<1>11. QED
  BY <1>10 DEF r, keys

\* As long as one of them is left blank it is not.
LEMMA ErrorsAreNeeded ==
  ASSUME NEW c \in Configs, NEW key \in ValidationErrors(c)
  PROVE  ValidationErrors(Repaired(c, ValidationErrors(c) \ {key})) # {}
<1> DEFINE keys == ValidationErrors(c) \ {key}
           r == Repaired(c, keys)
<1>1. Complaint(c, key) /\ key \notin keys
  BY ComplaintsAreErrors
<1> HIDE DEF keys
<1>2. /\ RepairOf(r, keys, << >>, "Config", c)
      /\ RepairOf(r.Db, keys, <<"Db">>, "DBHelper", c.Db)
      /\ RepairOf(r.Manager, keys, <<"Manager">>, "StartManager", c.Manager)
      /\ RepairOf(r.Upgrader, keys, <<"Upgrader">>, "Upgrader", c.Upgrader)
      /\ DOMAIN r.Db.PreseededDatabases = DOMAIN c.Db.PreseededDatabases
      /\ DOMAIN r.Db.SeededUsers = DOMAIN c.Db.SeededUsers
      /\ \A i \in DOMAIN c.Db.PreseededDatabases :
           RepairOf(r.Db.PreseededDatabases[i], keys, <<"Db", "PreseededDatabases", i - 1>>,
                    "PreseededDatabase", c.Db.PreseededDatabases[i])
      /\ \A i \in DOMAIN c.Db.SeededUsers :
           RepairOf(r.Db.SeededUsers[i], keys, <<"Db", "SeededUsers", i - 1>>,
                    "SeededUser", c.Db.SeededUsers[i])
  BY RepairedFacts
<1> HIDE DEF r
<1>3. ASSUME NEW f \in Missing("Config", c), key = Append(<< >>, f)
      PROVE  Complaint(r, key)
  BY <1>1, <1>2, <1>3, RepairLeaves DEF Complaint
<1>4. ASSUME NEW f \in Missing("DBHelper", c.Db), key = Append(<<"Db">>, f)
      PROVE  Complaint(r, key)
  BY <1>1, <1>2, <1>4, RepairLeaves DEF Complaint
<1>5. ASSUME NEW f \in Missing("StartManager", c.Manager), key = Append(<<"Manager">>, f)
      PROVE  Complaint(r, key)
  BY <1>1, <1>2, <1>5, RepairLeaves DEF Complaint
<1>6. ASSUME NEW f \in Missing("Upgrader", c.Upgrader), key = Append(<<"Upgrader">>, f)
      PROVE  Complaint(r, key)
  BY <1>1, <1>2, <1>6, RepairLeaves DEF Complaint
<1>7. ASSUME NEW i \in DOMAIN c.Db.PreseededDatabases,
             NEW f \in Missing("PreseededDatabase", c.Db.PreseededDatabases[i]),
             key = Append(<<"Db", "PreseededDatabases", i - 1>>, f)
      PROVE  Complaint(r, key)
  <2>1. f \in Missing("PreseededDatabase", r.Db.PreseededDatabases[i])
    BY <1>1, <1>2, <1>7, RepairLeaves
  <2>2. QED
    BY <1>2, <1>7, <2>1 DEF Complaint
<1>8. ASSUME NEW i \in DOMAIN c.Db.SeededUsers,
             NEW f \in Missing("SeededUser", c.Db.SeededUsers[i]),
             key = Append(<<"Db", "SeededUsers", i - 1>>, f)
      PROVE  Complaint(r, key)
  <2>1. f \in Missing("SeededUser", r.Db.SeededUsers[i])
    BY <1>1, <1>2, <1>8, RepairLeaves
  <2>2. QED
    BY <1>2, <1>8, <2>1 DEF Complaint
<1>9. Complaint(r, key)
  BY <1>1, <1>3, <1>4, <1>5, <1>6, <1>7, <1>8 DEF Complaint
<1>10. key \in ValidationErrors(r)
  BY <1>9, ComplaintsAreErrors
<1>11. QED
  BY <1>10 DEF r, keys

\* A configuration that Validate has no complaint about.
LEMMA NoErrorsFacts ==
  ASSUME NEW c \in Configs, ValidationErrors(c) = {}
  PROVE  /\ c.Manager.ClusterIps # << >> /\ c.Manager.ClusterProbeTimeout # 0
         /\ \A i \in DOMAIN c.Db.PreseededDatabases :
              /\ c.Db.PreseededDatabases[i].DBName # ""
              /\ c.Db.PreseededDatabases[i].User # ""
         /\ \A i \in DOMAIN c.Db.SeededUsers :
              \A f \in {"User", "Password", "Host", "Role"} : c.Db.SeededUsers[i][f] # ""
<1>1. \A key : ~ Complaint(c, key)
  BY ComplaintsAreErrors
<1>2. Missing("StartManager", c.Manager) = {}
  BY <1>1 DEF Complaint
<1>3. \A i \in DOMAIN c.Db.PreseededDatabases :
        Missing("PreseededDatabase", c.Db.PreseededDatabases[i]) = {}
  BY <1>1 DEF Complaint
<1>4. \A i \in DOMAIN c.Db.SeededUsers : Missing("SeededUser", c.Db.SeededUsers[i]) = {}
  BY <1>1 DEF Complaint
<1>5. c.Manager.ClusterIps # << >> /\ c.Manager.ClusterProbeTimeout # 0
  <2>1. /\ ~ Zero("ClusterIps", c.Manager["ClusterIps"])
        /\ ~ Zero("ClusterProbeTimeout", c.Manager["ClusterProbeTimeout"])
    BY <1>2 DEF Missing, Nonzero
  <2>2. QED
    BY <2>1 DEF Zero
<1>6. ASSUME NEW i \in DOMAIN c.Db.PreseededDatabases
      PROVE  c.Db.PreseededDatabases[i].DBName # "" /\ c.Db.PreseededDatabases[i].User # ""
  <2>1. /\ ~ Zero("DBName", c.Db.PreseededDatabases[i]["DBName"])
        /\ ~ Zero("User", c.Db.PreseededDatabases[i]["User"])
    BY <1>3 DEF Missing, Nonzero
  <2>2. QED
    BY <2>1 DEF Zero
<1>7. ASSUME NEW i \in DOMAIN c.Db.SeededUsers, NEW f \in {"User", "Password", "Host", "Role"}
      PROVE  c.Db.SeededUsers[i][f] # ""
  <2>1. ~ Zero(f, c.Db.SeededUsers[i][f])
    BY <1>4 DEF Missing, Nonzero
  <2>2. QED
    BY <2>1 DEF Zero
<1>8. QED
  BY <1>5, <1>6, <1>7

\* AddDefaults leaves neither the user nor the grastate file blank.
LEMMA DefaultsFacts ==
  ASSUME NEW c \in Configs
  PROVE  /\ WithDefaults(c) \in Configs
         /\ WithDefaults(c).Db.User # "" /\ WithDefaults(c).Manager.GrastateFileLocation # ""
BY DEF Configs, WithDefaults, DBHelper, StartManager, Upgrader, Text

-----------------------------------------------------------------------------
(* The theorems                                                              *)

\* What main knows of the configuration when it has got to a point.
Inv ==
  /\ manifest \in Configs /\ cfg \in Configs
  /\ at \in {"Validate", "managerSetup"} =>
       cfg.Db.User # "" /\ cfg.Manager.GrastateFileLocation # ""
  /\ at = "NewConfig" => errString = {}
  /\ errString # {} => errString = ValidationErrors(cfg)
  /\ at = "managerSetup" => ValidationErrors(cfg) = {}

\* Validate's complaints are about the configuration that is then used.
THEOREM Invariance == Spec => []Inv
<1>1. Init => Inv
  BY DEF Init, Inv
<1>2. Inv /\ [Next]_vars => Inv'
  <2> SUFFICES ASSUME Inv, [Next]_vars
               PROVE  Inv'
    OBVIOUS
  <2>1. CASE NewConfig
    BY <2>1, DefaultsFacts DEF Inv, NewConfig
  <2>2. CASE Validate
    BY <2>2 DEF Inv, Validate
  <2>3. CASE UNCHANGED vars
    BY <2>3 DEF Inv, vars
  <2>4. QED
    BY <2>1, <2>2, <2>3 DEF Next
<1>3. QED
  BY <1>1, <1>2, PTL DEF Spec

\* What managerSetup gets from NewConfig and Validate is what the rest of the
\* program relies on.
THEOREM AcceptedConfigsAreUsable == Spec => []AcceptedIsUsable
<1>1. Inv => AcceptedIsUsable
  <2> SUFFICES ASSUME Inv, at = "managerSetup"
               PROVE  AcceptedIsUsable
    BY DEF AcceptedIsUsable
  <2>1. cfg \in Configs /\ ValidationErrors(cfg) = {}
        /\ cfg.Db.User # "" /\ cfg.Manager.GrastateFileLocation # ""
    BY DEF Inv
  <2>2. QED
    BY <2>1, NoErrorsFacts DEF AcceptedIsUsable
<1>2. QED
  BY Invariance, <1>1, PTL

\* One error of Validate names all fields that have to be filled in, and no
\* other.
THEOREM OneErrorIsEnough == Spec => []ErrorsAreComplete
<1>1. Inv => ErrorsAreComplete
  <2> SUFFICES ASSUME Inv, errString # {}
               PROVE  ErrorsAreComplete
    BY DEF ErrorsAreComplete
  <2>1. cfg \in Configs /\ errString = ValidationErrors(cfg)
    BY DEF Inv
  <2>2. ValidationErrors(Repaired(cfg, errString)) = {}
    BY <2>1, ErrorsSuffice
  <2>3. \A key \in errString : ValidationErrors(Repaired(cfg, errString \ {key})) # {}
    BY <2>1, ErrorsAreNeeded
  <2>4. QED
    BY <2>2, <2>3 DEF ErrorsAreComplete
<1>2. QED
  BY Invariance, <1>1, PTL

=============================================================================
