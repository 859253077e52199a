# A TLA+ model of pastelup

`pastelup` installs, starts, stops, updates and initialises the software of a
Pastel node on a host, or on many hosts over ssh. It is a command-line program
without a daemon: what lasts between two commands is the state of the hosts
(unit files and units of systemd, processes, the working directory, archives,
`masternode.conf`), and what makes it hard is that this state moves while a
command works on it call by call.

All paths below are relative to the repository; those in PROJECT.json start with `src/`.

## 1. The system

| Component | Source | State it works on | Operations | What makes it correct |
|---|---|---|---|---|
| Service manager | `cmd/servicemanager.go`, `cmd/systemServicesHelper.go` | unit files, enabled units, unit states | RegisterService, StartService, StopService, EnableService, DisableService, RemoveService, install-service, remove-service | what it vouches for stays up, what it reports stopped stays down, what it removes is gone |
| Stop and start of services | `cmd/stop.go`, `cmd/start.go` | units and processes | stopServices, stopPatelCLI, runPastelNode, runPastelService | one node on one working directory; stop means stopped |
| Update and backup | `cmd/update.go`, `cmd/install.go`, `utils.ClearDir` | working directory, `.pastel_archives`, executables | stopAndUpdateService, backUpWorkDir, backUpDDDir, deleteOldArchives | nothing is cleaned that is not archived, nothing replaced before the backup, the newest whole archive survives |
| Inventory | `cmd/inventory.go`, `cmd/common.go`, `utils/sshclient.go` | the `Config` shared by the goroutines, a channel, a wait group | ExecuteCommands, ExecuteCommandsAsync, executeRemoteCommands | every host is tried with its own parameters, every answer is collected |
| Masternode initialisation | `cmd/init.go`, `cmd/start.go` | `masternode.conf` and its backups, `supernode.yml`, the node | createOrUpdateMasternodeConf, checkCollateral, runStartMasternode | the node that runs is the masternode the file records; no key is lost |
| Cold and hot node | `cmd/start_coldhot.go`, `cmd/coldhot_reg_ticket.go` | two nodes, their configurations, two wallets | ColdHotRunner.Init and Run, registerTicketPastelID | the hot node runs with the key the cold one announces; the cold host is left as it was found |
| Waiting for the node | `cmd/common.go` | attempts | WaitingForPastelDToStart, CheckMasterNodeSync | a node that loads is waited for |
| Install, uninstall | `cmd/install.go`, `cmd/uninstall.go`, `utils/utils.go` | executables, configurations, parameters, packages, snapshot | runServicesInstall, downloadComponents, downloadZksnarkParams, downloadLatestSnapshot, the uninstall commands | what was installed without an error is whole; a repeated command works; the user's settings and the block chain are given up only when asked for |
| Configuration of the services | `cmd/configs.go`, `cmd/template.go` | `supernode.yml`, `hermes.yml`, `bridge.yml` | GetSNConfigs, checkBridgeConfigPastelID | the PastelID in the files is the masternode's |
| Info, show, ping | `cmd/info.go`, `cmd/show.go`, `cmd/ping.go` | none | read and print | |
| Shell, logging, RPC client, constants, generated code | `cmd/app.go`, `common/`, `services/`, `configs/`, `configurer/`, `constants/`, `structure/`, `proto/` | none | | |

How they interact. `update` stops services through `stop`, archives, and calls
the install routines; `update install-service` and `remove-service` call the
service manager; `start` asks the service manager first and falls back on a
process of its own; every remote sub-command is a command line that the
inventory runs on other hosts, where the same program works locally. `init
supernode` and the cold/hot runner start and stop the node as `start` and
`stop` do, and write `masternode.conf` between.

What is hard:

- *Interleavings.* systemd restarts a service (`Restart=always`,
  `RestartSec=10`) between the reading of its state and the call that acts on
  it; a node answers RPC only some time after it started; the goroutines of
  a parallel command share one `Config`.
- *Failures in the middle.* Each call of systemctl, each copy, removal and
  download can fail alone; the user can interrupt and run the command again;
  the host can reboot.
- *Readings that are taken for more than they say.* A failed
  `list-unit-files` reads as "registered", a node that does not answer as
  "not running", an empty list as nothing where nil is everything.
- *Time.* Archives are named by the second and evicted by modification time.
- *Two hosts.* The cold/hot runner leaves processes behind on a host it reaches
  only by ssh, and what it has done on one host is not undone when the other
  one fails.

PROJECT.json lists the hazards one by one, each at its line with the properties
that would catch it.

## 2. The modules

| Module | What it is |
|---|---|
| `Tools` | the tool types and the lists of tools commands work on |
| `ServiceManager` | one host: units, processes, and the commands start, stop, install-service and remove-service |
| `ManagedService` | what the service manager promises of a service, abstractly |
| `ServiceManagerProofs` | theorems about it |
| `Update` | one host: node, working directory, archives, and the command update |
| `UpdateProofs` | theorems about it |
| `Inventory` | a remote command on the hosts of an inventory file |
| `InventoryProofs` | theorems about it |
| `MasternodeConf` | `masternode.conf`, its backups and the helpers that write it |
| `Pasteld` | the nodes of one or several hosts: process, lock, RPC, unit (extends `MasternodeConf`) |
| `PasteldProofs` | the lemmas about both that the next two need |
| `Supernode` | init supernode, start supernode and start masternode (extends `Pasteld`) |
| `SupernodeProofs` | theorems about it |
| `ColdHot` | init supernode coldhot on two hosts (extends `Pasteld`) |
| `ColdHotProofs` | theorems about it |
| `ReleaseFiles` | what releases leave on a host, and the helpers that download, unpack, write and remove it |
| `Install` | install, update and uninstall as lists of calls (extends `ReleaseFiles`) |
| `InstallProofs` | theorems about it: types, repeated commands, the block chain |
| `InstallPlanProofs` | theorems about it that rest on the order of the calls: what is whole, whose settings are lost (extends `InstallProofs`) |
| `MC*` | instances for TLC: hosts, lists, files, inventories |

### ServiceManager

State: `unitFile` is `/etc/systemd/system` (only whether a unit is there and
whether it starts a plain node or a masternode), `enabled` and `unit` are what
systemd knows (`active` is a running process, `activating` one waiting for
its restart), `manual` counts the processes started without systemd, `execs`
the executables on disk, `servicesEnabled` is whether `NewServiceManager`
succeeds. A command is a program counter `at` over a list `todo`; each action is
one call: `SeenRegistered` and `SeenUnregistered` are the two answers of
`IsRegistered`, `SystemctlStop` and `SystemctlStopFails` the two outcomes of
`systemctl stop`, and so on. `Failures` says which kinds of call may fail.
`claim` records what pastelup last said of a tool: that it is stopped
(`stopServices` without a warning) or managed (`StartService` returned true).

Between two calls: `UnitExits`, `UnitRestarts`, `ManualExits`, `Interrupt`, `Reboot`.

`ManagedService` has three states for each service (absent, stopped, running)
and says which may follow which: a service never goes from absent to
running without being stopped in between, and is never removed while running.
`ServiceManager` implements it with the unit's restart window mapped to running.

### Update

State: `node` (off, loading, ready: only a ready node answers getinfo),
`work` (which files the working directory holds), `archives` in the order of
their modification time, each with the directory it is of, the second it is
named after and whether it is whole, `now` in half seconds, and the local
variables of the command. One action per call: `Confirm` (stop with
confirmation), `MakeArchive`, `Copy`, `Prune`, `Clean`, `StopAgain` (the check
in `runServicesInstall`), `Unzip`, `FetchSnapshot`, `CleanForSnapshot`,
`ExtractSnapshot`, `InstallRest`, each with its failure. `dirty` and `copied`
are observations for the properties. Meanwhile the node starts, loads, writes
its files again and exits, and the user interrupts and runs another update.

### Inventory

State: `config` holds the four `Remote*` fields of the shared `Config`; `code`
the accesses to them each goroutine has still to make, in program order, so
that every read and every write is a step: the test for a missing port and the
assignment of the default one are two of them. Go promises nothing of a string that
two goroutines write, or one writes while another reads: the access may yield
a string made of two (`Torn`), and reading one may crash the process
(`Crash`). `chan`, `closed` and `running` are `outChan` and the wait group;
`loop` is where the goroutine of the command stands. Modes: `single`
(`--remote`), `serial` (`--inventory`), `parallel` (`--in-parallel`).

### MasternodeConf, Pasteld, Supernode

State: `conf[h]` is the masternode.conf of a host, a function from names to an
address, a private key and a PastelID, or `Missing`, or `Torn` after a failed
write; `backups` are the files it was renamed to. Keys and PastelIDs are numbers:
0 is one the user brought, n the one the node made for the n-th command, so that
two keys are the same only if they are. `node[h]` is the pasteld that has the
lock, with its role (`Plain` or its key) and with the masternode.conf it has
read; `starting[h]` the processes that were started with `--daemon` and have not
tried the lock. It is a set: of two processes that were started alike, one gets the lock
and the other is assumed to come to it while the first holds it, and to exit, as it
takes a new pasteld seconds. `units` and `managed` what systemd would start, and keeps
running. `at` is the call the command is about to make:

| Action | Code |
|---|---|
| `checkStartMasterNodeParams`, `CheckProcessRunning` | the checks at the head of `runStartSuperNode` |
| `StartsPlain`, `Answered("wait plain", ...)`, `Answered("sync", ...)`, `checkKeys`, `Stops("stop plain", ...)` | `prepareMasterNodeParameters`: a node that is down is started to ask it for keys and stopped again |
| `createOrUpdateMasternodeConf` | `Draft` (load and add), `backupMasterNodeConfFile`, `WriteConf` or `WriteConfFails` |
| `createOrUpdateSuperNodeConfig` | the PastelID in `supernode.yml`, `yml`; a new file comes from the template without one, a failed write is taken for a success (`lost`) |
| `Stops("stop", ...)`, `runStartMasternode`, `Answered(...)`, `runStartAliasMasternode`, `StartsServices` | the restart as a masternode, the waits, start-alias |
| `ReturnsError`, `Interrupted` | an error of any call before it changed something; Ctrl-C |

`init` and `start` differ in where `CheckProcessRunning` leads; `start
masternode` begins at `runStartMasternode` and ends with the wait. Between any
two calls a host takes a step by itself: a started process gets the lock or exits
(`PasteldStarts`), the unit restarts, the node becomes ready, exits or crashes.

The properties depend on what the surroundings are. `Cases` names what is
allowed beyond the usual, and each case breaks one property:

| Case | What it allows | Breaks |
|---|---|---|
| `"same stamp"` | two backups of one name | `ConfKept` (run conf_backup) |
| `"unit"` | pasteld as a service | `RunsAsMasternode` (run masternode_unit); what holds all the same is in `MasternodeUnlessManaged` and `AliasIsKnown` (run supernode) |
| `"loading"` | a command while the node loads: it refuses the stop, which is not noticed, and the second node does not get the lock | `RunsAsMasternode` |
| `"running"` | start masternode while the node is up: nothing looks for it | `RunsAsMasternode` |
| `"yml"` | no `supernode.yml` yet: the one from the template has no PastelID; or a failed write, which returns nil | that the PastelID is in `supernode.yml` after every init; `SupernodeHasItsId` says what holds all the same (run supernode) |

The last three are not findings, since no comment or test claims otherwise. In
every case a command begins when no process of an earlier one is still on its
way to the lock: it tries within seconds of its start, so that somebody would
have to interrupt a command and run the next within them.

### ColdHot

The same files and nodes on two hosts: `Local` is the cold one, with the wallet
and masternode.conf, `Hot` the one that is to run as the masternode and is worked
on over ssh. `at` is again the next call; `seen` what the runner has read of
the two nodes (`isPasteldAlreadyRunning`, `remoteIsRunning`) and acts on long
after; `here` and `there` the files `supernode.yml` and `hermes.yml` in the
directory of the command and on the hot host, by the PastelID in them; `ticket`
the balances that were read.

| Action | Code |
|---|---|
| `StartCold`, `Answered(Local, ...)` | the cold node is started if it does not answer, and waited for |
| `LookAtHot`, `CannotSync`, `stopRemoteNode`, `startAndSyncRemoteNode`, `SecondAnswers` | the hot node that runs is synchronised, or stopped and started; one that does not come up is started again with `--reindex` |
| `checkKeys`, `StopAfterKeys` | `handleCreateUpdateStartColdHot`: the keys are made by the hot node, which is then stopped |
| `createOrUpdateMasternodeConf`, `copyMasterNodeConToRemote` | the file of the cold host with its backup; the hot one gets a file with the record alone |
| `runRemoteNodeAsMasterNode`, `RestartCold`, `runStartAliasMasternode` | the hot node with the key of the file, the cold one again, so that it reads the file, start-alias |
| `registerTicketPastelID`, `handleAskForBalance`, `handleTransferBalance`, `handleWaitForBalance`, `TicketEnds` | the ticket of the PastelID and the 1,000 PSL it takes |
| `PutColdBack`, `StartServices`, `CreateYml`, `CopyYml`, `DeleteYml`, `StartSupernode` | the cold node is stopped if it was started for the command, the two files, the services |

`stopRemoteNode` does not look at the error of the stop and takes a node
that does not answer ten seconds later for a stopped one, as one that still loads or
shuts down is; `StopAfterKeys` needs an answer and does not look again. ssh being
lost is an error of the call or an interrupt, with what was started on the hot
host going on. A call that fails changes nothing, but for the writing and copying of
files, which may leave a piece (`Torn`).

What an earlier command left of the two files in the directory of the command is
updated. An update that fails returns the nil error of the call before it; the file
is then not copied and the command goes on.

The case `"loading"` (a node of either host loads when the command begins) breaks
HotIsMasternode, AliasIsKnown and ColdAsBefore: it does not answer, so it counts as
none and is not stopped. The case `"yml"` (a file that an earlier command left behind
cannot be rewritten) breaks HotIsMasternode. With a unit of pasteld (`"unit"`, in run
coldhot) systemd starts a node again whenever the command has stopped it, so that the
properties are said of a host where none is managed, each of the host it is about. Neither is claimed anywhere not to happen.

### ReleaseFiles and Install

`ReleaseFiles` is what is on the host: `exec` says of which release an executable is,
or that it is missing or a piece (`Torn`); `runnable` which have the mode 755; `zip`
the archives; `conf` the configuration of each tool, the installer's own
(`"default"`) or one with settings of the user's (`"own"`); `dirs`, `checked` (the
parameters and support files whose checksum is known), `chain`, and `sys` and `temp`,
the system files with limits and `/tmp/tempfile`, through which they are rewritten.
`DownloadFile` writes under another name and renames; `Unzip` empties and writes
file by file, so that it can break between two executables.

`Install` is a list of calls, `todo`, that each command makes in the order of the
code: `Installs(c)` follows `runServicesInstall` and the install functions,
`Uninstalls(c)` the `runUninstall` functions. Every call is an action with its
outcomes: done, broken off, refused because something exists (`"exists"`, which is
what utils returns without `--force`), or failed with only a line in the log, after
which the command goes on. A user says Yes or No where there is a prompt.
`checkInstallDir` turns the Yes to the overwriting of the installation directory into
`config.Force`, for all that follows. `apps` are the tools that have been installed
without an error, `halfway` those of a command that has not ended well: observations
for the properties. Between two commands a release comes out, the user puts settings of
their own into a file, and the node builds a block chain.

## 3. What the runs check

| Run | Instance | Shows |
|---|---|---|
| service_node | pasteld and dd-service, every list that names them, every call failing but a query and a stop | stopped stays down, managed stays up, the node never runs twice, and the refinement of `ManagedService` |
| service_failing | dd-img-server and bridge, every call failing but a query and a disable, hosts with and without systemd | removed is gone, installed is managed, and stop without a unit really ends a process |
| service_live | pasteld and hermes, the commands of a supernode and the service of the node, queries, starts, stops and the process list failing | a registered unit keeps its flavour; every command returns; what is managed comes back |
| update_archives | three kinds of file in the working directory, four updates, all calls but stop failing, seven backups | the properties of an update, below |
| inventory | one to two groups of one to two servers, three modes | every answer is collected; serial commands reach each server with its parameters; groups are kept apart; the command returns |
| supernode | two commands on one host, or one where pasteld is a service; any masternode.conf; `supernode.yml` there or not, its writing failing | who returns without an error leaves the masternode it was asked for, unless systemd keeps another one running; `supernode.yml` has its PastelID or that was lost, and never one without a record; no record of a key is lost |
| coldhot | two commands of the runner, a cold and a hot host, or one where one of them has a unit of pasteld | the hot host is the masternode that the cold one has on file; no key in use is lost; start-alias meets nodes that know the key; the cold host is as before; a ticket is registered with its coins |
| install | two of eighteen commands (install, update, uninstall of several tools) on a new host or one with data | what is installed is whole; commands can be repeated; block chain and settings are given up only when asked for |

Four runs end in a violation, each a place where the code does not do what a
comment of the code says: `update_busy`, `inventory_parallel`, `masternode_unit`,
`conf_backup`. PROJECT.json quotes the comments under "findings".

### The properties of an update, in words

- *NewestWholeKept.* Once a directory has a whole archive, its newest whole
  archive is replaced only by a newer whole one. The danger is that partial
  archives count as archives and that a removal that stops half-way makes the
  victim the newest by modification time.
- *RetentionKeepsNewest.* After the eviction at most `archiveRetention` archives
  are left, the one just made among them.
- *OtherArchivesKept.* A backup of one directory does not touch archives of
  the other.
- *CleanedIsSaved, BackupBeforeInstall, KeysSurvive.* What `--clean` deletes
  was copied by the same update; executables are replaced only after whole
  archives were made; wallet, keys and `masternode.conf` are never deleted.
- *BackupOfStoppedNode.* If the update found the node running, the node stands
  still during the copying. It does not hold of a node that had not answered yet
  (run `update_busy`).

### The properties of a masternode, in words

- *MasternodeUnlessManaged.* After a command without an error the node runs with the
  key that masternode.conf has for the name, or for the address, unless it has crashed
  since or systemd keeps it running. A node that was not stopped, one that started
  before the stop took effect, or the plain node of `prepareMasterNodeParameters` would
  violate it. Without the exception it is RunsAsMasternode, which run `masternode_unit`
  refutes.
- *AliasIsKnown.* A node that is told `start-alias` has read the file that is
  there now, with the record of init in it, and runs with the key it has there. The node
  reads the file once, when it starts, and the command writes it while an older node may
  still run. It is said of a node that systemd does not keep running: a unit may start
  again before the file is written, and a node that loads refuses the stop.
- *SupernodeHasItsId.* `supernode.yml` and masternode.conf name the same PastelID
  after init, and the node runs with the key beside it, unless `supernode.yml` was made
  from the template or could not be written, which init takes for a success. Even then,
  and wherever a command broke off, `supernode.yml` has no new PastelID of which there is
  no record in masternode.conf or a backup.
- *ConfKept.* Every record that has ever been in masternode.conf is there or in a
  backup, at every moment of the renaming and writing. Private keys that the node
  made exist nowhere else.

### The properties of two hosts, in words

- *HotIsMasternode.* When the runner returns without an error, the node of the hot
  host runs with the key that the cold host has for the name, and `masternode.conf`,
  `supernode.yml` and `hermes.yml` there agree with that record, unless a service keeps
  a node on the hot host. The steps it takes span two hosts and four nodes that are started and stopped, some without a look at
  whether they obeyed.
- *KeyInUseIsKept.* A key with which a masternode runs, or a process on its way
  would run, is in masternode.conf of the cold host or in a backup, however the
  command broke off. The hot host alone has it otherwise.
- *AliasIsKnown.* When start-alias is sent, the cold node has read the present file,
  unless a service keeps it, and the hot node runs with the key in it, unless a service
  keeps that one.
- *ColdAsBefore.* A cold node that answered is up after a command that succeeds,
  service or not; where no service keeps it, one that had yet to answer is up too, and one
  that was started for the command is stopped, though it is stopped and started again in
  between and the decision rests on a reading from the beginning.
- *RegistersWithCoins.* The ticket costs 1,000 PSL on the hot node. It is
  registered only when the node has them or they are on the way, whatever the user
  answered; the exception is a balance of the cold node of exactly 1,000, which the
  code neither sends (`>`) nor takes for too little (`<`), `coldhot_reg_ticket.go:160-168`.

### The properties of an installation, in words

- *InstalledIsWhole.* A tool that was once installed without an error has its
  executables whole and executable, its configuration, packages, checked files and
  ports, unless a later command that concerns it is under way or has failed; a
  command that succeeded left nothing older than the release of its beginning.
  Uninstalling another tool, with the data of the wrong one, a torn archive or an
  update that skips would break it.
- *RerunWorks.* A command that finds the installation directory is not ended by "already
  exists", wherever an earlier one stopped.
- *ChainGivenUpForSnapshot.* The block chain is deleted only when the snapshot that is
  to replace it has been downloaded, though any of the calls may fail and be logged only.
- *SettingsAskedFor.* A configuration with settings of the user's is lost only with
  `--force`, or after a Yes. For the rq- and the dd-service that Yes may have been to
  the prompt of the other one: see "Where comments and code differ" in section 5.

### Bounds

- Two tools a host. Commands handle one tool after the other and share no
  state between tools but the list, so that two tools show a list that goes
  on, one that stops early and the interplay of a tool that has a unit with one
  that has none. The hosts of the three runs cover the three ways tools differ: the node
  (RPC), a script (dd-service, dd-img-server), an executable.
- `MaxManual = 2` processes by hand: enough for one started twice.
- `archiveRetention = 3` is the constant of the code. `MaxTime = 9` half
  seconds allow archives of four different seconds and two in one second, hence
  evictions and a further backup after each.
- The inventory has at most four servers in two groups: one with every
  parameter of its own, one without, one without an address. A third thread
  would add only more of the same interleavings.
- Supernode: two names, two addresses, two stamps, one host. A record can be
  found by its name, by its address alone, or by neither, and two addresses show
  each. The second command meets what the first, whole or broken off anywhere, has
  left; a third meets nothing that two cannot leave. Where pasteld is a service one
  command is run (`Units`). Names, addresses and stamps are symmetric: nothing
  compares them but for equality.
- ColdHot: one name, one address, two stamps, two runs, and every combination of
  nodes and flags to begin with, as long as no host has a unit of pasteld; with a unit on
  either one of the hosts, of a plain node or a masternode, running or not, one command
  (the constraint `Units`). Units on both hosts are left to the proofs. Which record is found by what is a
  question of `MasternodeConf`, which run supernode asks with more of both; here two
  commands with the same name are the case in which one masternode replaces another.
  Balances are less than, exactly and more than 1,000 PSL.
- Install: `MaxRelease = 1`, one release that comes out at any time, also within a
  command; `MaxRuns = 2` out of eighteen commands: each tool, with and without the tools
  it depends on, `--force`, the snapshot, every combination of the three `--skip` flags,
  `--purge`. Two of the four
  system files: they are rewritten one after the other through the same
  temporary file, which takes two to show. The uninstallation of a supernode with all its
  tools takes the calls that those of a walletnode, an rq-service and a dd-service
  take, and is left to the proofs, which are about every list of tools.
- `CHECK_DEADLOCK FALSE` where commands are counted: after the last one a host with
  nothing running stops.

### Fairness

- A call of a command returns and the command makes the next one:
  `WF_vars(CommandStep)`. It is a sequential program that waits for external
  commands.
- systemd restarts what it has scheduled for a restart:
  `WF_vars(UnitRestarts(t))`, which is what `Restart=always` says in the unit
  file that `RegisterService` writes.
- The goroutines of Inventory run: weak fairness of the loop, of the closing
  goroutine and of each attempt. Sessions are assumed to end: the code sets no
  time limit for a remote command.
- Nothing is assumed of users, crashes, reboots or interrupts.

## 4. What is proved

Every safety property that a passing run checks is a theorem. It holds for every host,
list of tools, inventory, set of commands and bound; what a theorem assumes besides is
said with it. Hardly one of the properties is inductive as it stands: they speak of what
was reported or left behind, while the steps of a command rely on what it has done and
read some steps before. Their invariants say what is known at each call.

*ServiceManager* (`ServiceManagerProofs`). `TypeCorrect` for every set of
failures. `ServiceInv` adds to the types what is known at each program counter: that
the unit is down where the command kills, disables, removes or launches; that there is no
unit file where it writes one; that a unit runs only if it has a file; and that
hosts without systemd have no units. It is preserved when a failed query or stop
cannot pass for an answer (`NoSilentFailure`: neither "query" nor "stop" in
`Failures`); `ManagedStaysUpAlways` and `FlavourKeptAlways` are proved without this,
the latter from `WritesNew`: a unit file is written only after a query that has answered
that there is none, and one that fails answers the opposite. From
`ServiceInv`: `StoppedStaysDownAlways`, `RemovedIsGoneAlways` (which also needs
that `systemctl disable` does not fail, since its error is only logged),
`NodeNotRunTwiceAlways`, and `Refinement`, each step of the
units being a step or a stutter of `ManagedService`. `InstalledIsManagedAlways` follows
the tools of the list that are done: each has its unit, is enabled and up as the flags
asked (`InstallInv`), where `AskedInv` and `CallInv` tell which tools and which call the
command is at. `StopMeansKilledAlways` is about the one step with which a tool becomes
reported as stopped.

*Update* (`UpdateProofs`). `UpdateTypeCorrect`; `KeysSurviveAlways`, which
follows from the types and the steps that remove files; `OtherArchivesKeptAlways`. If a
stop does not fail silently: `BackupOfStoppedNodeAlways`, with the invariant that a node
which was stopped stays off and the archive clean until the update ends, and
`CleanedIsSavedAlways`, with what is copied and still to be copied (`CopyInv`,
`SavedInv`). The archives are in good order (`BackupInv`): no two of a directory have the
same second (`ArchiveInv`), the backup in hand is of the present second (`CopyInv`), its
archive is whole when the old ones are looked at (`WholeInv`), and by time at most one of
its directory stands behind it, the victim of a removal that broke off (`OrderInv`).
Hence `NewestWholeKeptAlways`, and with what is made and how many are left (`DoneInv`)
`RetentionKeepsNewestAlways` and `BackupBeforeInstallAlways`. These three assume
`archiveRetention > 1`, which the constant 3 of `cmd/update.go:26` is. With a retention
of 1 they are false: a removal that broke off leaves its victim the newest by time, and
a backup within the same second as the one before, which finds its directory there, is
then the one that is evicted.

*Inventory* (`InventoryProofs`). `AnswersKeptAlways`: however many servers and
groups, every answer of every attempt arrives exactly once. The invariant has
three parts: where the loop stands (`LoopInv`), in which of four places each
attempt is, not started, running, in the channel, collected, and never in two
(`PlaceInv`), and that the attempts started and still to start add up to
the selected servers (`AccountInv`). `InventoryTypeCorrect` covers the torn accesses.
One after the other, only one thread has accesses to make (`Alone`), so that nothing is
torn, and what an attempt has still to write, has written and has read fits
together (`SerialInv`): each of its own parameters is in `config` or among the writes
left, then it is in `config`, then in the session. Hence `SerialReachesEachAlways`.
`GroupsKeptApartAlways` from `ApartInv`: while the loop is in a group, each shared field is
of that group or about to be reset. `NobodyStuckAlways` is the part of the liveness
property Returns that needs no fairness: until the command ends, the guard of a step of the
loop, of an attempt or of the closing goroutine is met (the guards are written out, since
ENABLED is beyond the prover), although `outChan` has room for an answer of each group
only.

*Nodes and masternode.conf* (`PasteldProofs`). The lemmas the next two share: the
types are kept by every helper, a backup keeps every record (`BackupKeeps`, if its name
is new), what a host may do by itself to a node (`HostEffect`), and that a node which
comes up has read the file that is there (`HostSees`).

*Supernode* (`SupernodeProofs`). `TypeCorrect` for every case.
`MasternodeUnlessManagedAlways`, in the absence of the cases `"loading"` and
`"running"`: a command's success is a matter of what ran before its last wait, so
the invariant `IInv` follows the node through the command for as long as systemd does
not manage it. `QuietBefore`: no
process is on its way to the lock until the command starts one. `StoppedBefore`:
from the stop on, the old node is stopping or gone, and cannot answer.
`OnlyTheMasternode`: after `runStartMasternode` a node that loads or answers was
started with the key of the record, as no other process is left to take the lock.
`IdleWhenDone` says that a result stands only between two commands.
`AliasIsKnownAlways` needs the same, is said of a node that systemd does not manage, and
adds that this node has read the file as it is (`SeesInv`). `SupernodeHasItsIdAlways`
needs besides that backups do not share a name: the record of the command stays in the
file from the writing on (`RecordInv`), the PastelID goes where it is written or is lost
(`IdWritten`), and one that is in `supernode.yml` has a record (`IdOnFile`). `ConfIsKept`
needs only that backups do not share a name: its invariant is
`BackedUp`, that the file has been moved away where the new one is written.

*ColdHot* (`ColdHotProofs`). `TypeCorrect` and `RegistersWithCoinsAlways` for every case.
`KeyInUseIsKeptAlways` if backups do not share a name (`KeyInv`: the old file is gone
where the new one is written, and units have no key the node made).
`HotIsMasternodeAlways` without the cases `"loading"` and `"yml"`, for as long as
systemd does not manage the hot node. Its invariant has four parts: what is known of the
hot node at each call (`NodeInv`, as in Supernode: quiet before the launch, then only
the masternode), where the record is on its way from the map to the two files
(`RecordWritten`), where the PastelID is on its way through the two yml files
(`IdWritten`), and `IdleWhenDone`. `ColdAsBeforeAlways` and `AliasIsKnownAlways`
without `"loading"`, each part for as long as systemd does not manage the node it is about:
`ColdInv` follows the other node, what the command has found of it
(`ColdFound`), whether it is up at each call, though it may crash (`ColdKnown`), how it is
left (`ColdLeft`), and that after its restart it has read the new file (`ColdHasRead`).
That a cold node which answered is left up holds for a managed one too (`FoundIsUp`).

*Install*, for every set of commands. What is proved of the lists of
calls is kept by concatenation and by dropping calls from the front. In `InstallProofs`:
each call is about a thing of its kind, and cleaning comes right after the
download of a snapshot and right before its extraction (`Placed`). Hence `TypeCorrect` and
`ChainGivenUpForSnapshotAlways`: at the head of a list a cleaning needs a snapshot
downloaded by the same command. `RerunWorksAlways` from `DirInv`: a command that found
the installation directory has `config.Force` once it has looked at it, which is its
first call, and no command takes the directory away. In `InstallPlanProofs`: the order of
calls that are further apart (`Has`, `Followed`, `Led`: a call of one kind before each of
another, and none of a third between). `SettingsAskedForAlways` from `SettingsInv`: a
purge is led by the prompt that allows it, and a configuration is written over only under
a Force that was given or agreed to. `InstalledIsWholeAlways` from `WholeInv`: whatever
the tools of the command still need is done or on the list (`ProgressInv`); nothing on the
list belongs to other tools (`OwnInv`); an archive is unpacked after it was downloaded and
before it is deleted (`OrderInv`); and what a tool that counts as installed consists of
(`AppsInv`). Both use that a missing or torn thing is not a release or a configuration
(`ContentsAssumption`, as `ContentAssumption` for masternode.conf).

Only model-checked: liveness (CommandReturns, ManagedComesBack, Returns), which
needs fairness and ENABLED and is beyond the prover, on the instances of the runs; and
what the four runs with a violation refute.

## 5. What is left out

- One pastelup command at a time works on a host. Nothing in the code
  prevents two, and nothing claims they would work.
- The clock does not go back, and updates use one working directory.
- The text of unit files, configuration files and command lines: only what
  the properties tell apart (the flavour of a unit, the presence of a file).
- The wrapper by which dd-service is run is taken to be one process.
- `ReadLegacyInventory` has no caller, and `checkAndStopRemoteServices` cannot
  be reached: every caller passes `tryStop = false`.
- info, show and ping read and print. The remote sub-commands make one command line
  for the inventory, which is modelled. The bridge and the wait for its balance, the
  dd-img-server and the inference programs, which scripts of other projects install, and
  `--ignore-dependencies` are left out.
- The number of attempts and the length of pauses while a node is waited for: a wait
  goes on when the node answers and ends when it does not.
- The registration of a ticket ends as it ends: what the node makes of it is not a
  state of the two hosts.

Where comments and code differ without a run: `servicemanager.go:107` says
RegisterService "registers the service and starts it", but it never starts it;
`systemServicesHelper.go:146` still carries the TODO of what is
implemented; `removeSystemService`
returns at the first tool of its list that has no unit (`:157-159`), so that the rest is left; `update.go:85-86` offers `--clean` without a word that it cleans
nothing together with `--no-backup` (`update.go:468`, `:528`). `backUpDDDir` hands an
empty list to `backUpDir` (`update.go:668`), which "makes a copy of the specified dir"
(`:545`) by copying what is on the list, so that the archive of the dd-service is empty. A Yes to "overwrite" of the
installation directory becomes `--force` (`install.go:1068-1074`), which the help
explains as overwriting configurations (`:115`): pastel.conf is then replaced though
nobody asked about it. The prompt before the data of the rq-service is deleted
names the dd-service, and the other way round (`uninstall.go:363`, `:385`).

## 6. Plan

Done: `ServiceManager` with its abstract specification and refinement,
`Update`, `Inventory`, `MasternodeConf`, `Pasteld`, `Supernode`, `ColdHot`,
`ReleaseFiles` and `Install`.

Every safety property of a passing run is proved as well. What is left:

1. That nobody is stuck in a command of `ServiceManager` or `Update` either, as
   `NobodyStuckAlways` says of `Inventory`: wherever a command stands, one of its calls may
   be made.
2. The abstract view of an update, archives as a set of snapshots, implemented by
   `Update`.
