# galera-init: a TLA+ verification project

galera-init is the process monit starts on every VM of a MySQL/Galera cluster.
It stops a mysqld that is left from before, upgrades the data directory when
the package has changed, decides from a state file and the health of the peers
whether to bootstrap a cluster or to join one, starts mysqld, seeds databases and
users, records the new state, answers a status probe and then watches mysqld until
it ends or SIGTERM arrives. Restarts are the normal error handling: nearly every
error ends the process, and the next launch has to cope with what it left behind.

## Inventory

| component (source) | state | operations | interacts with |
|---|---|---|---|
| main (`cmd/start/main.go`) | context, signal handler, status socket | load and validate configuration, `managerSetup`, `setupSignals`, translate mysqld's wait status into an exit code | monit and BOSH (launch, SIGTERM, SIGKILL), start manager |
| start manager (`start_manager/start_manager.go`) | state file, `currentState`/`newNodeState` | `Execute`, `getCurrentNodeState`, `Shutdown`, `writeStringToFile` | all helpers |
| node starter (`node_starter/starter.go`) | `mysqlCmd`, grastate.dat | `StartNodeFromState`, `bootstrapNode`, `joinCluster`, `waitForDatabaseToAcceptConnections`, seeding phases | db helper, health checker, channel of `WaitForCommand` |
| upgrader (`upgrader/upgrader.go`) | version files, poll counter | `NeedsUpgrade`, `Upgrade`, `waitUntilMySQLReachable` | db helper, its own mysqld and exit channel |
| db helper (`db_helper/db_helper.go`) | none of its own; the server's tables | probes, starts, `StopMysqld`, `Upgrade`, `Seed`, `SeedUsers`, `RunPostStartSQL` | the mysqld that answers on the socket, whichever that is |
| seeders (`db_helper/seeder`, `db_helper/user_seeder.go`) | databases, accounts, privileges | one SQL statement each | replicated tables, shared by all nodes |
| os helper (`os_helper/os_helper.go`) | processes, wait channels, files | `StartCommand`, `WaitForCommand`, `KillCommand`, file access | mysqld, file system |
| health checker (`cluster_health_checker`) | none | `HealthyCluster`, one `MakeRequest` per node | port 9200 of the peers |
| status server (`galera_init_status_server`) | the socket | `Start`, `Status` | drain and probe scripts |
| configuration (`config/config.go`) | the manifest | `NewConfig`, `Validate`, `formatErrorString` | validator library, main |
| docker helper (`integration_test/test_helpers`) | containers and networks at the docker daemon | `CreateNetwork`, `RunContainer`, `RunExec`, `HardKillMySQL`, `RemoveContainer`, ... | ginkgo's set-up and clean-up |
| fakes (`*fakes/`, generated) | recorded calls, stubs, one mutex per method and one for the list | the faked methods, `...CallCount`, `...ArgsForCall`, `...Returns`, `Invocations` | goroutines of the tests |
| tools (`tools/tools.go`) | none | none | |

What is hard here:

* **Several actors.** galera-init processes (an old and a new one), mysqld
  processes with and without a parent, the goroutines for `Wait`, for signals and
  for the status server, and other nodes writing the same replicated accounts.
* **Probes that answer for somebody else.** `mysqladmin`, the reachability query,
  `mysql_upgrade` and the seeding reach whichever mysqld holds the socket.
* **Decisions on what peers answered a moment ago.** Nodes are asked one after the
  other, by somebody who then bootstraps a cluster of its own.
* **Crashes between steps.** A file is truncated and then written; mysqld is
  started long before the state is recorded; seeding stops half-way.
* **Time.** A bounded poll in the upgrader, an unbounded one in the node starter,
  SIGTERM that is looked at in the very last `select` only.

`PROJECT.json` lists these hazards at their lines, with the properties aimed at them.

## Modules

    NodeState <- OsHelper <- DbHelper <- Upgrader    <- StartManager <- GaleraInit
                                      <- NodeStarter <-
    GaleraInit <- MCGaleraInit (TLC)
    GaleraInit <- GaleraInitProofs <- GaleraInitSafetyProofs <- LifecycleProofs (TLAPS)
    Seeding <- MCSeeding, SeedingProofs    Cluster <- MCCluster, ClusterProofs
    Config <- MCConfig, ConfigProofs       Fake <- MCFake, FakeProofs
    IntegrationSuite <- IntegrationSuiteProofs
    GaleraInit implements Lifecycle, Cluster implements PrimaryComponent

The modules of the first row follow the repository's packages; each extends the one
it calls.

**NodeState** declares the state of one VM. Per galera-init process: `pc`, labelled
with the call that is executed next, the context, the locals of `Execute` and
`Upgrade`, the child's command and its channel, the exit code. Per mysqld slot:
`phase` (booting, serving, synced, stopping, a wait status while it is a zombie, none)
and `mode`. Then the owner of the status socket, the three files and the deployed
manifest. File contents are abstracted to what the code tells apart: a state-file
text that no `case` knows is `"torn"`, whether it is empty, cut off or mistyped; a
version file is `absent`, `old` or `current`.

**OsHelper** has the process primitives. `Terminate` is the end of a galera-init
process: socket and context vanish, the child lives on without a parent. It also
holds mysqld, which is external, as the environment's actions: it opens the data
directory only if no other process holds it (and, when bootstrapping, only if
grastate.dat does not forbid it), otherwise it gives up; it syncs, desyncs, stops,
crashes, rewrites grastate.dat. A call that can come out in several ways is the set of
its results, e.g. `FileExists` or `IsProcessRunning`.

**DbHelper** has the probes and requests to "the mysqld that answers". `StopMysqld`
returns when the shutdown has been accepted; the process may still be stopping. This
is the weaker reading of `mysqladmin shutdown`, so what holds here holds for the
stronger one as well.

**Upgrader**, **NodeStarter**, **StartManager** have one action per step of
`Upgrade`, `StartNodeFromState` and `Execute`. Steps that write a file are two
actions, truncation and write, because `ioutil.WriteFile` is. A turn of
`waitForDatabaseToAcceptConnections` that finds no database changes nothing and is
left out as a stuttering step.

**GaleraInit** adds main, signals at every program point, redeployments and operator
repairs (while the job is stopped), fairness, the properties and the inductive
invariant.

**Seeding** opens up the three seeding phases, which DbHelper takes as one step each:
one action per SQL statement, several nodes, a set of manifests between which a
redeployment moves. MySQL's own rules are used where the statements rely on them: an
account named without a host is `user@'%'`, `CREATE USER` fails on an existing
account, `SET PASSWORD` on a missing one, and `REVOKE ALL PRIVILEGES ON *.*` takes back
the global privileges only: neither the GRANT OPTION that the role admin gives
(`grantOption`) nor the privileges on databases (`dbPrivs`).

**Lifecycle** is what monit may rely on: one process at a time gets past its setup, a
process is ready only with a database it has started, a ready process ends only with
that database (or when its status server fails, `MayAbandon`), and its exit code is
the one of the database's wait status. GaleraInit implements it under this mapping:
`run` is read off `pc`, `database` is the child's phase while it lives and its wait
status from then on, wherever that status is (zombie or channel), `exit` is `exit`.

**Cluster** has all nodes of a deployment. A node's galera-init is reduced to the
steps others can notice: stopping an old mysqld, the decision, each probe of
`HealthyCluster`, the start, the wait, seeding, the state file, the end. What is left
out (upgrades, torn files, exit codes) happens on one VM and is in the other modules.
mysqld's group is external: a bootstrapping mysqld forms a view of its own; a joining one
needs a synced donor in a primary view and gives up without one; an orderly leave
keeps a view primary, a crash does so only if more than half of it remain. A donor is
healthy for port 9200 but not `Synced` for `IsDatabaseReachable`. Seven kinds of
faults are listed at the head of the module.

**PrimaryComponent** is what clients may rely on: there is one primary component, a
new one is formed only where none lives. `components` is mapped to the views of the
serving nodes. The promise is conditional on `excused`, which Cluster's `History`
defines: two nodes were authorised to bootstrap at the same time, or a node found
nobody although at every moment of its probing some peer was healthy, never the same
all along. So `OneComponent` says that these are the only two ways to a split brain.

**Config** turns a manifest into a configuration. A text is blank or not, a field is
named by its path, and the error of `Validate` is the set of the fields it names.

**Fake** is FakeStarter. counterfeiter generates the same bodies for every method of
every fake, so it stands for them all; goroutines, mutexes and the two records of
each call are what can go wrong. A `sync.RWMutex` with a waiting writer admits no
reader. Setters run while no call is under way, as in all tests of this repository.

**IntegrationSuite** has the docker helper with the `BeforeEach`/`AfterEach` that call it.
A daemon call may fail, and some fail although the daemon has carried them out.

Definitions whose comment starts with "Mutant" are faulty variants of the definition
that follows; they show that the properties notice the fault and are used by no
specification.

## Runs

| run | instance | result |
|---|---|---|
| `safety` | 1 galera-init, 2 mysqld slots, 2 poll attempts, 1 or 3 nodes; every fault but `stat` and `accept` | holds, 8.0e5 states |
| `orderly` | 2 galera-init; `crash`, `desync`, `sql`, `accept`, `operator`; no upgrade | holds, 9.9e4 states |
| `liveness` | 1 galera-init, 3 nodes; `kill`, `crash`, `io`, `sql`; with and without an upgrade | holds, 1.6e5 states |
| `seeding` | 2 nodes, 7 manifests, 2 failures | holds, 3.0e5 states |
| `cluster` | 3 nodes, any 2 faults of all 7 kinds | holds, 7.8e4 states |
| `config` | every set of blank fields, 4 lists of databases, 3 of users, 3 of nodes, 3 timeouts | holds, 2.2e5 states |
| `fake` | 3 goroutines, 2 calls of either method | holds, 2.4e6 states |
| `integration_suite` | 2 specs, 2 containers, 3 faults | holds, 469 states |
| `old_mysqld`, `upgrade_hang` | 1 galera-init, no fault | finding, see below |
| `stat_error` | 1 galera-init, `stat` only | finding, see below |
| `cluster_race` | 3 nodes, 2 failed seedings | finding, see below |

*What they ask.* `safety` relates what galera-init does to what it has read, written
and started many steps earlier, across restarts: the state file when the status probe
is answered (`ReadyRecorded`), the right to bootstrap (`BootstrapAuthorised`), the
upgrade before the start (`UpgradeBeforeServe`), and both ends of the race between
SIGTERM and mysqld's own end (`NeverWaitsInVain`, `StopsWithoutOrphan`). It also
checks the contract with monit for one process (`ImplementsLifecycle`). `orderly`
checks the same contract for two, whether the status socket is a lock, and what is
left to go wrong when nobody kills galera-init and no upgrade times out: nothing
starts a second mysqld, answers come from the own child, and the state file stays
readable. `liveness` asks that startup, shutdown and error reporting come to an end;
`SigtermHonoured` names the one place where a SIGTERM may be without effect, the wait of
the upgrade for its own mysqld (the finding of `upgrade_hang`).
`seeding` asks what a successful seeding guarantees after half-done attempts and with
two nodes at work, and whether retries get there. `UsersSeeded` says what the statements
of a role give and take: an admin has all privileges on `*.*` with GRANT OPTION, a minimal
user no privilege on `*.*`; what a minimal user may keep of an earlier role is in the
configurations after the findings. `SeedingConverges` excepts a user of the manifest
that is known for another host only (`KnownElsewhere`), where every retry fails. `cluster` asks whether a peer that
is healthy throughout can be overlooked (`SteadyPeerIsJoined`), how a split brain can
come about (`OneComponent`), whether probing ends although peers hang (`ProbingEnds`)
and whether a deployment comes up (`ClusterForms`). `config` asks whether an accepted
configuration has what the other modules assume, and whether one error message is
enough to repair a rejected one. `fake` asks what a test may conclude from the records
of concurrent calls, and `integration_suite` whether a spec removes what it has
created.

*Bounds.* Two mysqld slots are enough for the own child and one from before; with a
third slot the same cases happen to more left-overs. `PollingAttempts` is 1 or 2
instead of 30: one poll that is repeated and one that gives up. One and three nodes
are the two cases the code distinguishes (`len(ClusterIps) == 1` or more); `liveness`
has three only, to keep it short, and holds with both (3.2e5 states). Two
galera-init processes suffice for every pairwise race; the proofs lift it to any
number. For Cluster three nodes are the usual deployment and give a probe before and
after each node; two faults are enough for every cause of a split brain (two failed
seedings; a stop or a late answer while another node probes; a repair and a lost
disk), for a lost cluster and its repair, and for a node that dies after others have
joined it. The safety properties were also checked with three faults (3.7e5 states).
In Seeding the bounds are two nodes, the listed manifests and `MaxFailures`. mysqld
slots are interchangeable, and so are processes and nodes, hence the symmetry sets in
the safety runs; the liveness runs use none.

*Faults* are switched on per run by the constant `Faults`. `BootstrapAuthorised` is
checked without `stat` in `safety`; `stat_error` shows that it fails with it.
`ClusterForms` is about deployments whose only faults are failed seedings: after a
crash a cluster may be lost, and then it waits for an operator by design.

*Deadlock* is not checked where the system really may stop: `upgrade_hang` (the point
of it), `stat_error` (an unreadable version file can lead to the same hang), Cluster
(a settled cluster without faults left has no steps), Config and IntegrationSuite
(they end), Fake (the bound on calls, and a deadlock that is real, see
`StuckOnlyByInvocations`).

*Fairness.* galera-init's own code and the goroutine of `WaitForCommand` are weakly
fair: nothing in them waits for anything but what their guards say. Of mysqld it is
assumed that it does not boot, sync or shut down for ever, and that one that cannot
get the data directory gives up (InnoDB retries the lock a bounded number of times).
Without the assumption on syncing `StartupResolves` would be false, as
`waitForDatabaseToAcceptConnections` has no limit; for the same reason `liveness` has
neither `desync` nor `spurious`. Launches, signals, repairs and redeployments are
never forced. In Cluster monit's launches, galera-init's steps and mysqld's (which
neither bootstraps nor joins for ever) are weakly fair; faults and the replacement of
a frozen VM are not. In Seeding monit's restarts are fair, and failures are limited by
`MaxFailures`: a seeding that always fails never converges.

## What the checks found

* **A booting mysqld is invisible** (`old_mysqld`). `Execute` asks `mysqladmin status`
  once. A mysqld that an earlier galera-init left while it was booting does not answer, and
  a second one is started. The left-over may win the data directory, be probed,
  seeded and reported as ready, while the own child is refused.
* **Upgrade can wait for ever** (`upgrade_hang`). After a poll timeout the next
  launch's `Upgrade` talks to the left-over mysqld and shuts that one down; its own
  mysqld, which waited for the data directory, then comes up, and `<-mysqldExitChan` is
  never served. SIGTERM does not help: nobody looks at the context there.
* **A living cluster may be overlooked** (`cluster_race`). `HealthyCluster` asks the nodes
  in order and never again. n1 probes n2, which is still joining; n2 becomes healthy;
  n3, the healthy member, leaves in order (a failed seeding and a restart are enough);
  n1 probes n3. At every moment a node was healthy, yet n1 bootstraps a second cluster.
* **An unreadable state file is taken for none** (`stat_error`). `FileExists` is false on
  every error of `os.Stat`, so a bootstrap node whose recorded state cannot be examined
  believes it is deployed for the first time and bootstraps if no peer answers.

Four more configurations are kept that reproduce smaller disagreements; run them with
`tlc -config <cfg> <module>`:

* `MCBootstrapFlag.cfg` (MCGaleraInit): with NEEDS_BOOTSTRAP in the state file a node
  bootstraps whatever BootstrapNode says; `start_manager_test.go:355,363` is titled
  'And the current node is not the bootstrap node' ... 'starts the node in join mode'.
* `MCSeedingHost.cfg` (MCSeeding): `IsExistingUser` selects by name only, while SET PASSWORD
  means the account of host `%`; a user known for localhost only makes every
  seeding of its database fail (`db_helper_test.go:322,331`), so
  `ExistingUsersAreUpdated` is violated.
* `MCSeedingMinimal.cfg` (MCSeeding): the role minimal revokes on `*.*` only, so an account
  keeps a database it had before, though `user_seeder_test.go:57` says
  'grants no access when the role is minimal' (`MinimalHasNoAccess`).
* `MCSeedingGrantOption.cfg` (MCSeeding): the same property, with an admin that the next
  manifest makes minimal: REVOKE ALL PRIVILEGES leaves it the GRANT OPTION.

Seen while modelling, without a run: the comments "panic on err" at
`os_helper.go:65` and `:74` describe functions that return the error;
`MaxDatabaseSeedTries` in `example-config.yml` has no counterpart in the code; a torn
state file stops every later start until an operator edits it; errors after mysqld was
started leave it running without a parent; `Validate` accepts a negative
`ClusterProbeTimeout`, which is no timeout for `http.Client` (with `ProbeTimeout <- NoTimeout` in
MCCluster.cfg `ProbingEnds` is violated).

## What is proved

Every invariant, action property and refinement that a passing run checks is also a
theorem, for every value of the constants. What a theorem assumes of the constants is
stated with the constants (`ASSUME` in the component's module, evaluated by TLC in
every run) or in the theorem itself. Each inductive invariant was first checked by TLC
as an invariant of the component's run.

**GaleraInitProofs**: any sets of galera-init and mysqld processes, any number of poll
attempts, any set of faults.

* `TypeCorrect`: `TypeOK` is inductive by itself, with one lemma per package
  (`UpgraderType`, `NodeStarterType`, `ExecuteType`, `ProcessType`, `MysqldType`) and
  `TerminateType` for every error exit.
* `Invariance`: `Inv` adds four parts to `TypeOK`:
  - `LockInv`: whoever is inside `Execute` owns the socket. Alone it is inductive and
    gives mutual exclusion; the other parts need it because two processes inside
    `Execute` could overwrite each other's files and children.
  - `ChildInv`: who has a child is past the start of one, whoever waits, seeds or serves
    has one, and it is reaped exactly when its status is in the channel.
  - `DecisionInv`: `SINGLE_NODE` is decided exactly on one-node deployments, what
    `StartNodeFromState` will return fits, and it is in the file once the status server
    runs. `ReadyRecorded` is not inductive without the first two: they carry the
    decision from `getCurrentNodeState` to the write.
  - `VersionInv`: whoever is past the upgrade check has a current data directory or
    an accepted error; the part on `upgradeErr` carries the result of `mysql_upgrade`
    over the shutdown.
* from it `MutualExclusion`, `ReadyIsRecorded`, `UpgradedFirst` and, as an action
  property, `NoOrphanAfterStop`, which also needs that no process moves another
  (`OthersStay`) and what can end a serving process (`ServingEnds`).

**GaleraInitSafetyProofs**, from `Inv`. `OutsiderStep` is used throughout: while one
process executes, no step of another one touches what it works with.

* `NoTornStateFile`: the file has one writer at a time, and the writer's next step
  completes it unless it is killed or the write fails (`WriteCompletes`).
* `WaitIsJustified`: `mysqldChan` is entered with the signal (`ToMysqldChan`), and a
  mysqld that stops never serves again while somebody owns it (`EndIsFinal`).
* `BootstrapNeedsAuthority`, assuming that `stat` is no fault (`stat_error` shows that it
  has to be): `AuthorityInv` says that file and manifest are still what the decision was
  made from, all the way from `getCurrentNodeState` to the start.
* `OneDatabaseAtATime` and `AnswersAreFromTheChild`, assuming `Orderly`: nobody kills
  galera-init, files can be read and written, probes tell the truth, nothing is
  redeployed and the data directory needs no upgrade. `old_mysqld` shows what happens
  otherwise. Neither property is inductive; `OrderlyInv` adds that a booting mysqld has
  a parent that waits for it, and that nothing runs from the upgrade check to the start.
  The instance of `orderly` satisfies `Orderly`, and both properties hold in it with
  crashes, failed seedings, a failing status server and operators at work.

**LifecycleProofs** proves `LifecycleRefinement`. By `OthersView` and `ViewUpdate` a
step of one process changes the abstract state at that process only; then there is one
lemma per package that says which step of Lifecycle its steps are, or that they are not
seen. The end of a mysqld is seen by its parent alone, because there is one parent at
most (`OneParent`), and reaping is not seen, because `DatabaseOf` takes the status from
the zombie or the channel, wherever `ChildInv` has it.

**ClusterProofs**: any number of nodes, any list of addresses that has them all, any
kinds and number of faults. `Inv` adds to `TypeOK`:

  - `PlaceInv`: galera-init decides and starts only where its mysqld is down;
  - `ProbeInv`: a peer that has been healthy since the probing began is among the
    addresses still to be asked. This is the whole argument for `NoSteadyPeerOverlooked`:
    asking it would have ended the loop;
  - `GroupInv`: the members of a group agree on the group and on being primary, so groups
    are disjoint (`GroupsDisjoint`), through joins, orderly leaves and crashes
    (`GroupSteps`);
  - `ComponentInv`: unless the protocol is excused, one node at most is authorised to
    bootstrap and nobody else tries; one that has seen a moment without a healthy peer
    can rely on it until it has bootstrapped; and all serving nodes have the same view.

`OnePrimaryComponent` maps each step to a step of PrimaryComponent: the only one that
forms a component is `FormsGroup`, and `ComponentInv` has it happen where nobody serves.

**SeedingProofs**: any nodes (at least one), manifests and bound on failures. `Past` and
`UserPast` say which entries of the two loops a node has behind it. `DbInv` and `UserInv`
say that what is behind a node is in force, which no statement of another node undoes
as long as the manifest is consistent; this gives `DatabasesAreSeeded` and
`UsersAreSeeded`. What is in force of a role is `RoleInForce`: all privileges with GRANT
OPTION for an admin, no privilege on `*.*` for a minimal user. That a minimal user has
no GRANT OPTION or no database is not claimed, as it is false. For `LockTablesRevoked` a finished node is not enough, since another
one may execute GRANT ALL again: `LockInv` says that a LOCK TABLES that is left has a
node somewhere with the REVOKE still ahead of it. A failed statement sends the node back
to the start, where everything is ahead of it. `TypeOK` is not inductive by itself: that
privileges go to accounts with a known host needs `UserInv`, by which the host was
checked before.

**ConfigProofs**: lists of nodes, databases and users of any length. `ComplaintsAreErrors`
says in one formula what `ValidationErrors` computes with prefixes of paths: exactly the
blank fields among those tagged `nonzero`. `ErrorsSuffice` and `ErrorsAreNeeded` follow
from what filling in a set of fields does to each field; `NoErrorsFacts` and
`DefaultsFacts` give what an accepted configuration has. `AcceptedConfigsAreUsable` and
`OneErrorIsEnough` are these facts in the reachable states.

**FakeProofs**: any finite number of goroutines (`Cardinality` in `CountInv` needs it), any
bound on calls. `MutexInv`: who is between `Lock` and `Unlock` holds the method's mutex.
`RecordInv`: the two records differ by the one call between its two appends. `CountInv`:
calls and calls to come are within the bound. `NumberInv`: a number is a place in the
record, and a return that was given belongs to a call that is over. From these
`RecordsAlwaysAgree` and `NumbersAreOwn`; `NoCircleOfCalls` from `MutexInv`: without
`Invocations` the holder of a method's mutex waits for nobody.

**IntegrationSuiteProofs**: any number of containers, specs and faults. `ReferenceInv`: a
container that exists is the one `RunContainer` is working on or one the suite has a
reference to and `AfterEach` has not come to; `NetworkInv` says the same of the network,
`FreshInv` that a spec begins with nothing. `SpecsCleanUp` reads them off at the end.

*Only model-checked*: the liveness properties `SigtermHonoured`, `StartupResolves`,
`AbnormalEndReported`, `SeedingConverges`, `ProbingEnds` and `ClusterForms`, as fairness and
ENABLED are out of the prover's reach. The findings above are counterexamples and need
no proof.

## Not modelled

* DSN formatting, logging, the wording of errors: data without control.
* mysqld beyond what galera-init can observe of it; monit and BOSH beyond launching,
  signalling and redeploying; of the vendored validator
  the other tags (only `nonzero` and the descent into structs and lists are in Config); the
  docker daemon beyond what its calls do.
* The other fakes: FakeDBHelper, FakeOsHelper, FakeSeeder, FakeUserSeeder, FakeUpgrader,
  FakeStartManager, FakeServiceStatus and FakeClusterHealthChecker come from the same
  template as FakeStarter and differ in the number of their methods and in types only.
* Of the docker helper the functions that only build options or read data (`AddBinds`,
  `WithCmd`, `HostPort`, `FetchContainerFileContents`, ...), since nothing depends on
  their order.
* Constructors and interfaces; `tools`, `bin`, other vendored code.

## Plan

Done: the VM (NodeState to GaleraInit) and its contract Lifecycle, Seeding, Cluster and
its contract PrimaryComponent, Config, Fake, IntegrationSuite; the safety side of all of
them proved. Next, in this order:

1. Theorems that bound the findings: that `Orderly` can be weakened fault by fault
   (kills before a mysqld was started, redeployments of an upgraded directory), so
   that exactly the faults `old_mysqld` needs are left.
2. The safety facts that the liveness properties rest on, e.g. that a caught SIGTERM
   stays caught until the process ends.
3. Common lemmas for the steps that several proofs split on in the same way.
