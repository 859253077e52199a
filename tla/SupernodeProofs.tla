---------------------------- MODULE SupernodeProofs ----------------------------
(***************************************************************************)
(* What init supernode, start supernode and start masternode leave behind,    *)
(* for any hosts, names and addresses and any number of commands, failures    *)
(* and crashes, when none of the cases is there that make it otherwise.       *)
(***************************************************************************)
EXTENDS Supernode, PasteldProofs

\* The record the node is started from.
Chosen(e) == e \in Named /\ e.addr = cmd.flags.ip

BeforeLaunch == {"params", "process", "sync", "keys", "stop plain", "draft", "backup",
                 "write", "yml", "stop"}
AfterLaunch == {"sync masternode", "alias", "services"}

\* Until the node is started as a masternode no other process is on its way to the
\* lock and no node is loading, so that a stop that was answered has been obeyed.
QuietBefore ==
  /\ at \in BeforeLaunch => Quiet(Local) /\ node[Local].is # "loading"
  /\ at = "start plain" => Quiet(Local) /\ Down(Local)
  /\ at = "wait plain" => starting[Local] \subseteq {Plain} /\ (Up(Local) => Quiet(Local))
\* When it is started no node is up.
StoppedBefore ==
  /\ at \in {"draft", "backup", "write", "yml"} /\ ~running => ~Up(Local)
  /\ at = "params" /\ cmd.flags.op = "masternode" => ~Up(Local)
  /\ at = "masternode" => Quiet(Local) /\ ~Up(Local)
\* What comes up then is that process, and what answered was it.
OnlyTheMasternode ==
  /\ at = "wait masternode" =>
       \E e : /\ Chosen(e) /\ starting[Local] \subseteq {e.key}
              /\ Up(Local) => node[Local].as = e.key /\ Quiet(Local)
  /\ at \in AfterLaunch \/ result = "ok" => Quiet(Local) /\ \E e : Chosen(e) /\ node[Local].as = e.key
\* The old masternode.conf is gone, into a backup, when the new one is written.
BackedUp == at = "write" => conf[Local] = Missing
IdleWhenDone == result = "ok" => at = "idle"

\* All of it as long as systemd does not keep the node running.
IInv ==
  /\ Local \notin managed
  /\ QuietBefore /\ StoppedBefore /\ OnlyTheMasternode /\ BackedUp /\ IdleWhenDone
-----------------------------------------------------------------------------
(* Types.                                                                    *)

\* The initial files, nodes and flags are of the types.
LEMMA InitType == Init => TypeOK
<1> SUFFICES ASSUME Init PROVE TypeOK
  OBVIOUS
<1>1. OwnRecords \subseteq masterNodeConf
  BY KeyTypes DEF OwnRecords, masterNodeConf
<1>2. ASSUME NEW M \in SUBSET Name PROVE [M -> OwnRecords] \subseteq File
  BY <1>1 DEF File
<1>3. ConfTypeOK
  <2>1. {Missing} \cup UNION {[N -> OwnRecords] : N \in SUBSET Name} \subseteq Content
    BY <1>2 DEF Content
  <2>2. conf \in [Host -> {Missing} \cup UNION {[N -> OwnRecords] : N \in SUBSET Name}]
    BY DEF Init
  <2>3. conf \in [Host -> Content]
    BY <2>1, <2>2
  <2> QED
    BY <2>3, EmptyFileType DEF Init, ConfTypeOK, Content
<1>4. NodeTypeOK
  BY <1>3, NodesInitType DEF Init
<1>5. cmd \in config
  BY CommandsAssumption, KeyTypes DEF Init, config
<1>6. yml \in Key \cup {NoFile, NoId, Piece} /\ lost \in BOOLEAN
  BY KeyTypes DEF Init
<1>7. runs \in 0 .. MaxRuns
  BY CaseAssumption DEF Init
<1>8. at \in Calls /\ running \in BOOLEAN /\ result \in {"none", "ok", "error"}
  BY DEF Init, Calls
<1> QED
  BY <1>3, <1>4, <1>5, <1>6, <1>7, <1>8 DEF TypeOK

\* The variables of the command.
CmdTypeOK ==
  /\ cmd \in config /\ at \in Calls /\ running \in BOOLEAN
  /\ yml \in Key \cup {NoFile, NoId, Piece} /\ lost \in BOOLEAN
  /\ result \in {"none", "ok", "error"}
  /\ runs \in 0 .. MaxRuns

LEMMA LeaveType ==
  ASSUME CmdTypeOK, NEW a, NEW b \in Calls, Leave(a, b)
  PROVE  at' \in Calls /\ running' \in BOOLEAN /\ result' \in {"none", "ok", "error"}
         /\ runs' \in 0 .. MaxRuns
BY DEF CmdTypeOK, Leave, Goto, Returns, Calls

LEMMA StepType ==
  ASSUME TypeOK, Step PROVE TypeOK'
<1>0. CmdTypeOK
  BY DEF TypeOK, CmdTypeOK
<1> SUFFICES ConfTypeOK' /\ NodeTypeOK' /\ CmdTypeOK'
  BY DEF TypeOK, CmdTypeOK
<1>1. ASSUME NEW a, NEW b \in Calls, Answered(a, b) PROVE ConfTypeOK' /\ NodeTypeOK' /\ CmdTypeOK'
  BY <1>0, <1>1, ConfStep, NodeStep, LeaveType DEF ymlVars, Answered, TypeOK, CmdTypeOK
<1>2. ASSUME NEW a, NEW b \in Calls, Stops(a, b) PROVE ConfTypeOK' /\ NodeTypeOK' /\ CmdTypeOK'
  <2>1. NodeTypeOK'
    BY <1>2, HostAssumption, NodeStep DEF Stops, TypeOK
  <2> QED
    BY <1>0, <1>2, <2>1, ConfStep DEF ymlVars, Stops, TypeOK, CmdTypeOK, Goto
<1>3. CASE checkStartMasterNodeParams
  BY <1>0, <1>3, ConfStep, NodeStep DEF ymlVars, checkStartMasterNodeParams, TypeOK, CmdTypeOK, Goto, Calls
<1>4. CASE CheckProcessRunning
  <2>1. at' \in {"sync", "start plain", "stop", "masternode"} /\ running' \in BOOLEAN
    BY <1>4 DEF CheckProcessRunning
  <2> QED
    BY <1>0, <1>4, <2>1, ConfStep, NodeStep DEF ymlVars, CheckProcessRunning, TypeOK, CmdTypeOK, Calls
<1>5. CASE StartsPlain
  <2>1. runPastelNode(Local, Plain) /\ Plain \in Role
    BY <1>5 DEF StartsPlain, Role
  <2>2. NodeTypeOK'
    BY <2>1, HostAssumption, NodeStep DEF TypeOK
  <2> QED
    BY <1>0, <1>5, <2>2, ConfStep DEF ymlVars, StartsPlain, TypeOK, CmdTypeOK, Goto, Calls
<1>6. CASE checkKeys
  <2>1. cmd' \in config
    BY <1>0, <1>6, KeyTypes DEF checkKeys, CmdTypeOK, config
  <2> QED
    BY <1>0, <1>6, <2>1, ConfStep, NodeStep DEF ymlVars, checkKeys, TypeOK, CmdTypeOK, Goto, Calls
<1>7. CASE createOrUpdateMasternodeConf
  <2>1. ConfTypeOK'
    <3>1. [addr |-> cmd.flags.ip, key |-> cmd.key, id |-> cmd.id] \in masterNodeConf
          /\ cmd.flags.name \in Name
      BY <1>0 DEF CmdTypeOK, config, Command, masterNodeConf
    <3>2. \/ Draft(~cmd.flags.new, cmd.flags.name,
                   [addr |-> cmd.flags.ip, key |-> cmd.key, id |-> cmd.id])
          \/ backupMasterNodeConfFile \/ WriteConf \/ WriteConfFails
      BY <1>7 DEF createOrUpdateMasternodeConf
    <3>3. ASSUME NEW add \in BOOLEAN, NEW e \in masterNodeConf, Draft(add, cmd.flags.name, e)
          PROVE  ConfTypeOK'
      BY <3>1, <3>3, ConfStep DEF TypeOK
    <3>4. (~cmd.flags.new) \in BOOLEAN
      OBVIOUS
    <3> QED
      BY <3>1, <3>2, <3>3, <3>4, ConfStep DEF TypeOK
  <2> QED
    BY <1>0, <1>7, <2>1, NodeStep
    DEF ymlVars, createOrUpdateMasternodeConf, TypeOK, CmdTypeOK, Goto, Returns, Calls
<1>8. CASE createOrUpdateSuperNodeConfig
  <2>1. yml' \in Key \cup {NoFile, NoId, Piece} /\ lost' \in BOOLEAN
    BY <1>0, <1>8, KeyTypes DEF createOrUpdateSuperNodeConfig, CmdTypeOK, config
  <2> QED
    BY <1>0, <1>8, <2>1, ConfStep, NodeStep
    DEF createOrUpdateSuperNodeConfig, TypeOK, CmdTypeOK, YmlDone, Goto, Returns, Calls
<1>9. CASE runStartMasternode
  <2>1. PICK e \in Named : runPastelNode(Local, e.key)
    BY <1>9 DEF runStartMasternode, Named
  <2>2. e \in masterNodeConf
    BY RecordFound DEF TypeOK, Named
  <2>3. e.key \in Role
    BY <2>2 DEF masterNodeConf, Role
  <2>4. NodeTypeOK'
    BY <2>1, <2>3, HostAssumption, NodeStep DEF TypeOK
  <2> QED
    BY <1>0, <1>9, <2>4, ConfStep DEF ymlVars, runStartMasternode, TypeOK, CmdTypeOK, Goto, Calls
<1>10. CASE StartsServices
  BY <1>0, <1>10, ConfStep, NodeStep, LeaveType DEF ymlVars, StartsServices, TypeOK, CmdTypeOK, Calls
<1>11. CASE ReturnsError
  BY <1>0, <1>11, ConfStep, NodeStep DEF ymlVars, ReturnsError, TypeOK, CmdTypeOK, Returns, Calls
<1>12. CASE runStartAliasMasternode
  BY <1>1, <1>12 DEF runStartAliasMasternode, AfterAlias, Calls
<1>13. AfterWait \in Calls /\ AfterAlias \in Calls
       /\ {"alias", "sync", "keys", "draft", "masternode"} \subseteq Calls
  BY DEF AfterWait, AfterAlias, Calls
<1> QED
  BY <1>1, <1>2, <1>3, <1>4, <1>5, <1>6, <1>7, <1>8, <1>9, <1>10, <1>11, <1>12, <1>13 DEF Step

LEMMA NextType == TypeOK /\ [Next]_vars => TypeOK'
<1> SUFFICES ASSUME TypeOK, [Next]_vars PROVE TypeOK'
  OBVIOUS
<1>1. ASSUME NEW c \in Commands, Begin(c) PROVE TypeOK'
  <2>1. cmd' \in config
    BY <1>1, CommandsAssumption, KeyTypes DEF Begin, config
  <2>2. runs' \in 0 .. MaxRuns
    BY <1>1, CaseAssumption DEF Begin, TypeOK
  <2> QED
    BY <1>1, <2>1, <2>2, ConfStep, NodeStep DEF Begin, TypeOK, Calls
<1>2. CASE Step
  BY <1>2, StepType
<1>3. CASE Interrupted
  BY <1>3, ConfStep, NodeStep DEF ymlVars, Interrupted, TypeOK, Returns, Calls
<1>4. ASSUME NEW h \in Host, HostStep(h), UNCHANGED <<confVars, cmdVars>> PROVE TypeOK'
  BY <1>4, ConfStep, NodeStep DEF ymlVars, TypeOK, cmdVars
<1>5. CASE UNCHANGED vars
  BY <1>5, ConfStep, NodeStep DEF ymlVars, TypeOK, vars, cmdVars
<1> QED
  BY <1>1, <1>2, <1>3, <1>4, <1>5 DEF Next

\* The variables keep to their types, whatever the commands and however they fail.
THEOREM TypeCorrect == Spec => []TypeOK
BY InitType, NextType, PTL DEF Spec

-----------------------------------------------------------------------------
(* The node.                                                                 *)

Ordinary == Cases \cap {"loading", "running"} = {}

\* No step of the hosts disturbs the invariant.
LEMMA HostKeeps ==
  ASSUME TypeOK, IInv, NEW h \in Host, HostStep(h), UNCHANGED <<confVars, cmdVars>>
  PROVE  IInv'
<1>1. Local \notin managed
  BY DEF IInv
<1>0. Effect(Local) /\ UNCHANGED <<units, managed>>
  BY <1>1, HostAssumption, HostEffect DEF TypeOK
<1>2. UNCHANGED <<conf, cmd, at, running, result, Named>>
  BY DEF confVars, cmdVars, Named, getMasternodeConfData, Readable
<1>3. \A e : Chosen(e)' <=> Chosen(e)
  BY <1>2 DEF Chosen
<1>4. QuietBefore'
  <2>1. Quiet(Local) /\ node[Local].is # "loading" => Quiet(Local)' /\ node'[Local].is # "loading"
    BY <1>0 DEF Effect, Quiet, Up, Down
  <2>2. Quiet(Local) /\ Down(Local) => Quiet(Local)' /\ Down(Local)'
    BY <1>0 DEF Effect, Quiet, Up, Down
  <2>3. starting[Local] \subseteq {Plain} /\ (Up(Local) => Quiet(Local))
        => starting'[Local] \subseteq {Plain} /\ (Up(Local)' => Quiet(Local)')
    BY <1>0 DEF Effect, Quiet, Up, Down
  <2> QED
    BY <1>2, <2>1, <2>2, <2>3 DEF IInv, QuietBefore
<1>5. StoppedBefore'
  <2>1. at = "params" /\ ~Up(Local) => Quiet(Local)
    BY DEF IInv, QuietBefore, BeforeLaunch
  <2>2. at \in {"draft", "backup", "write", "yml", "params", "masternode"} /\ ~Up(Local) => Quiet(Local)
    BY DEF IInv, QuietBefore, StoppedBefore, BeforeLaunch
  <2>3. Quiet(Local) /\ ~Up(Local) => Quiet(Local)' /\ ~Up(Local)'
    BY <1>0 DEF Effect, Down, Quiet, Up
  <2> QED
    BY <1>2, <2>1, <2>2, <2>3 DEF IInv, StoppedBefore
<1>6. OnlyTheMasternode'
  <2>1. ASSUME NEW e, starting[Local] \subseteq {e.key}, Up(Local) => node[Local].as = e.key /\ Quiet(Local)
        PROVE  starting'[Local] \subseteq {e.key} /\ (Up(Local)' => node'[Local].as = e.key /\ Quiet(Local)')
    BY <1>0, <2>1 DEF Effect, Down, Quiet, Up
  <2>2. ASSUME NEW e, Quiet(Local), node[Local].as = e.key PROVE Quiet(Local)' /\ node'[Local].as = e.key
    BY <1>0, <2>2 DEF Effect, Down, Quiet, Up
  <2> QED
    BY <1>2, <1>3, <2>1, <2>2 DEF IInv, OnlyTheMasternode
<1>7. BackedUp' /\ IdleWhenDone' /\ Local \notin managed'
  BY <1>0, <1>1, <1>2 DEF IInv, BackedUp, IdleWhenDone
<1> QED
  BY <1>4, <1>5, <1>6, <1>7 DEF IInv

-----------------------------------------------------------------------------
(* The commands.                                                             *)

LEMMA InitInv == Init /\ Local \notin managed => IInv
BY DEF Init, IInv, QuietBefore, StoppedBefore, OnlyTheMasternode, BackedUp,
       IdleWhenDone, BeforeLaunch, AfterLaunch

\* A command begins when no node is loading and no process is on its way.
LEMMA BeginKeeps ==
  ASSUME Ordinary, TypeOK, IInv, NEW c \in Commands, Begin(c) PROVE IInv'
<1>1. at' = "params" /\ result' = "none" /\ UNCHANGED <<starting, node, units, managed, conf>>
  BY DEF Begin, nodeVars, confVars
<1>2. Quiet(Local)' /\ node'[Local].is # "loading"
  BY <1>1 DEF Begin, Ordinary, Quiet
<1>3. cmd'.flags.op = "masternode" => ~Up(Local)'
  BY <1>1 DEF Begin, Ordinary, Up, Down
<1> QED
  BY <1>1, <1>2, <1>3 DEF IInv, QuietBefore, StoppedBefore, OnlyTheMasternode, BackedUp,
                          IdleWhenDone, BeforeLaunch, AfterLaunch

\* A command that returns with an error, or is killed, leaves whatever is there.
LEMMA GivingUpKeeps ==
  ASSUME IInv, at' = "idle", result' # "ok", UNCHANGED nodeVars PROVE IInv'
BY DEF IInv, QuietBefore, StoppedBefore, OnlyTheMasternode, BackedUp,
       IdleWhenDone, BeforeLaunch, AfterLaunch, nodeVars

\* The calls before the masternode is started.
LEMMA PreparationKeeps ==
  ASSUME TypeOK, IInv, result' = result, at # "idle",
         at' \in BeforeLaunch \cup {"start plain", "wait plain", "masternode"},
         Local \notin managed',
         QuietBefore', StoppedBefore', BackedUp'
  PROVE  IInv'
BY DEF IInv, OnlyTheMasternode, IdleWhenDone, BeforeLaunch, AfterLaunch

\* The calls of a command, one by one.
LEMMA StepKeeps ==
  ASSUME TypeOK, IInv, Step, Local \notin managed' PROVE IInv'
<1> USE HostAssumption
<1>0. /\ node \in [Host -> [is : Status, as : Role, sees : Content]]
      /\ starting \in [Host -> SUBSET Role]
      /\ Local \notin managed
      /\ result = "ok" => at = "idle"
  BY DEF TypeOK, NodeTypeOK, IInv, IdleWhenDone
<1>1. CASE checkStartMasterNodeParams
  <2>1. /\ at = "params" /\ UNCHANGED <<node, starting, units, managed, conf, running, result, cmd>>
        /\ at' = IF cmd.flags.op = "masternode" THEN "masternode" ELSE "process"
    BY <1>1 DEF checkStartMasterNodeParams, Goto, nodeVars, confVars
  <2>2. QuietBefore' /\ StoppedBefore' /\ BackedUp'
    BY <2>1 DEF IInv, QuietBefore, StoppedBefore, BackedUp, BeforeLaunch, Quiet, Up
  <2> QED
    BY <1>0, <2>1, <2>2, PreparationKeeps DEF BeforeLaunch
<1>2. CASE CheckProcessRunning
  <2>1. /\ at = "process" /\ UNCHANGED <<node, starting, units, managed, conf, result, cmd>>
        /\ running' = ~Down(Local)
        /\ at' \in {"sync", "stop"} \/ (~running' /\ at' \in {"start plain", "masternode"})
    BY <1>2 DEF CheckProcessRunning, nodeVars, confVars
  <2>2. QuietBefore' /\ StoppedBefore' /\ BackedUp'
    BY <2>1 DEF IInv, QuietBefore, StoppedBefore, BackedUp, BeforeLaunch, Quiet, Up, Down
  <2> QED
    BY <1>0, <2>1, <2>2, PreparationKeeps DEF BeforeLaunch
<1>3. CASE StartsPlain
  <2>1. /\ at = "start plain" /\ at' = "wait plain"
        /\ UNCHANGED <<node, units, managed, conf, running, result, cmd>>
        /\ starting'[Local] = starting[Local] \cup {Plain}
    BY <1>0, <1>3 DEF StartsPlain, runPastelNode, StartService, Launch, Goto, confVars
  <2>2. QuietBefore' /\ StoppedBefore' /\ BackedUp'
    BY <2>1 DEF IInv, QuietBefore, StoppedBefore, BackedUp, BeforeLaunch, Quiet, Up, Down
  <2> QED
    BY <1>0, <2>1, <2>2, PreparationKeeps DEF BeforeLaunch
<1>4. CASE Answered("wait plain", "sync") \/ Answered("sync", "keys")
  <2>1. /\ at \in {"wait plain", "sync"} /\ at' \in {"sync", "keys"}
        /\ node[Local].is = "ready"
        /\ UNCHANGED <<node, starting, units, managed, conf, running, result, cmd>>
    BY <1>4 DEF Answered, Answers, Leave, Goto, nodeVars, confVars
  <2>2. QuietBefore' /\ StoppedBefore' /\ BackedUp'
    BY <2>1 DEF IInv, QuietBefore, StoppedBefore, BackedUp, BeforeLaunch, Quiet, Up, Down
  <2> QED
    BY <1>0, <2>1, <2>2, PreparationKeeps DEF BeforeLaunch
<1>5. CASE checkKeys
  <2>1. /\ at = "keys" /\ at' = IF running THEN "draft" ELSE "stop plain"
        /\ UNCHANGED <<node, starting, units, managed, conf, running, result>>
    BY <1>5 DEF checkKeys, Goto, nodeVars, confVars
  <2>2. QuietBefore' /\ StoppedBefore' /\ BackedUp'
    BY <2>1 DEF IInv, QuietBefore, StoppedBefore, BackedUp, BeforeLaunch, Quiet, Up, Down
  <2> QED
    BY <1>0, <2>1, <2>2, PreparationKeeps DEF BeforeLaunch
<1>6. CASE Stops("stop plain", "draft") \/ Stops("stop", "masternode")
  <2>1. /\ (at = "stop plain" /\ at' = "draft") \/ (at = "stop" /\ at' = "masternode")
        /\ UNCHANGED <<starting, units, managed, conf, running, result, cmd>>
    BY <1>6 DEF Stops, StopPastelDAndWait, Goto, confVars
  <2>2. node[Local].is # "loading" /\ Quiet(Local)
    BY <2>1 DEF IInv, QuietBefore, BeforeLaunch
  <2>3. node'[Local].is = "stopping"
    BY <1>0, <1>6, <2>2 DEF Stops, StopPastelDAndWait
  <2>4. QuietBefore' /\ StoppedBefore' /\ BackedUp'
    BY <2>1, <2>2, <2>3 DEF QuietBefore, StoppedBefore, BackedUp, BeforeLaunch, Quiet, Up, Down
  <2> QED
    BY <1>0, <2>1, <2>4, PreparationKeeps DEF BeforeLaunch
<1>7. CASE createOrUpdateMasternodeConf
  <2>1. UNCHANGED <<node, starting, units, managed, cmd>>
    BY <1>7 DEF createOrUpdateMasternodeConf, nodeVars
  <2>2. CASE WriteConfFails /\ at = "write" /\ Returns("error")
    BY <2>1, <2>2, GivingUpKeeps DEF Returns, nodeVars
  <2>3. CASE ~(WriteConfFails /\ at = "write" /\ Returns("error"))
    <3>1. /\ \/ at = "draft" /\ at' = "backup"
             \/ at = "backup" /\ at' = "write"
             \/ at = "write" /\ at' = "yml"
          /\ UNCHANGED <<running, result>>
      BY <1>7, <2>3 DEF createOrUpdateMasternodeConf, Goto
    <3>2. QuietBefore' /\ StoppedBefore'
      BY <2>1, <3>1 DEF IInv, QuietBefore, StoppedBefore, BeforeLaunch, Quiet, Up, Down
    <3>3. BackedUp'
      <4>1. ASSUME at' = "write" PROVE conf'[Local] = Missing
        <5>1. backupMasterNodeConfFile
          BY <1>7, <2>3, <4>1 DEF createOrUpdateMasternodeConf, Goto
        <5>2. conf \in [Host -> Content]
          BY DEF TypeOK, ConfTypeOK
        <5> QED
          BY <5>1, <5>2 DEF backupMasterNodeConfFile
      <4> QED
        BY <4>1 DEF BackedUp
    <3> QED
      BY <1>0, <2>1, <3>1, <3>2, <3>3, PreparationKeeps DEF BeforeLaunch
  <2> QED
    BY <2>2, <2>3
<1>8. CASE createOrUpdateSuperNodeConfig
  <2>1. CASE Returns("error")
    BY <1>8, <2>1, GivingUpKeeps DEF createOrUpdateSuperNodeConfig, Returns
  <2>2. CASE ~Returns("error")
    <3>1. /\ at = "yml" /\ at' = IF running THEN "stop" ELSE "masternode"
          /\ UNCHANGED <<node, starting, units, managed, conf, running, result, cmd>>
      BY <1>8, <2>2 DEF createOrUpdateSuperNodeConfig, YmlDone, Goto, nodeVars, confVars
    <3>2. QuietBefore' /\ StoppedBefore' /\ BackedUp'
      BY <3>1 DEF IInv, QuietBefore, StoppedBefore, BackedUp, BeforeLaunch, Quiet, Up, Down
    <3> QED
      BY <1>0, <3>1, <3>2, PreparationKeeps DEF BeforeLaunch
  <2> QED
    BY <2>1, <2>2
<1>9. CASE runStartMasternode
  <2>1. PICK e \in Named : e.addr = cmd.flags.ip /\ runPastelNode(Local, e.key)
    BY <1>9 DEF runStartMasternode, Named
  <2>2. /\ at = "masternode" /\ at' = "wait masternode"
        /\ UNCHANGED <<node, units, managed, confVars, cmd, running, result>>
        /\ starting'[Local] = starting[Local] \cup {e.key}
    BY <1>0, <1>9, <2>1 DEF runStartMasternode, runPastelNode, StartService, Launch, Goto
  <2>3. Quiet(Local) /\ ~Up(Local)
    BY <2>2 DEF IInv, StoppedBefore
  <2>4. Chosen(e)'
    BY <2>1, <2>2 DEF Chosen, Named, getMasternodeConfData, Readable, confVars
  <2>5. starting'[Local] \subseteq {e.key} /\ ~Up(Local)'
    BY <2>2, <2>3 DEF Quiet, Up
  <2>6. result' # "ok"
    BY <1>0, <2>2
  <2>7. OnlyTheMasternode'
    BY <2>2, <2>4, <2>5, <2>6 DEF OnlyTheMasternode, AfterLaunch
  <2> QED
    BY <1>0, <2>2, <2>6, <2>7 DEF IInv, QuietBefore, StoppedBefore, BackedUp, IdleWhenDone, BeforeLaunch
<1>10. CASE ReturnsError
  BY <1>10, GivingUpKeeps DEF ReturnsError, Returns
<1>11. CASE \/ Answered("wait masternode", AfterWait)
            \/ Answered("sync masternode", IF cmd.flags.activate THEN "alias" ELSE AfterAlias)
            \/ runStartAliasMasternode \/ StartsServices
  <2>1. /\ \/ at = "wait masternode" /\ node[Local].is = "ready"
           \/ at \in AfterLaunch
        /\ at' \in AfterLaunch \cup {"idle"} /\ result' \in {result, "ok"}
        /\ result' = "ok" => at' = "idle"
        /\ UNCHANGED <<node, starting, units, managed, confVars, cmd>>
    BY <1>0, <1>11 DEF Answered, runStartAliasMasternode, StartsServices, Leave, Goto, Returns,
                AfterWait, AfterAlias, AfterLaunch, Answers, nodeVars
  <2>2. Quiet(Local) /\ \E e : Chosen(e) /\ node[Local].as = e.key
    BY <2>1 DEF IInv, OnlyTheMasternode, Up
  <2>3. \A e : Chosen(e)' <=> Chosen(e)
    BY <2>1 DEF Chosen, Named, getMasternodeConfData, Readable, confVars
  <2>4. OnlyTheMasternode'
    BY <2>1, <2>2, <2>3 DEF OnlyTheMasternode, Quiet, AfterLaunch
  <2> QED
    BY <1>0, <2>1, <2>4 DEF IInv, QuietBefore, StoppedBefore, BackedUp, IdleWhenDone,
                     BeforeLaunch, AfterLaunch
<1> QED
  BY <1>1, <1>2, <1>3, <1>4, <1>5, <1>6, <1>7, <1>8, <1>9, <1>10, <1>11 DEF Step

\* What systemd has taken over it keeps.
LEMMA ManagedGrows == [Next]_vars => managed \subseteq managed'
BY DEF Next, vars, nodeVars, Begin, Interrupted, Step, Answered, HostStep, UnitStarts, Loads,
       Exits, PasteldStarts, checkStartMasterNodeParams, CheckProcessRunning, StartsPlain,
       checkKeys, Stops, createOrUpdateMasternodeConf, createOrUpdateSuperNodeConfig,
       runStartMasternode, runStartAliasMasternode, StartsServices, ReturnsError,
       runPastelNode, StartService, Launch, StopPastelDAndWait

Inv == Local \in managed \/ IInv

LEMMA NextKeeps == Ordinary /\ TypeOK /\ Inv /\ [Next]_vars => Inv'
<1> SUFFICES ASSUME Ordinary, TypeOK, IInv, [Next]_vars, Local \notin managed' PROVE IInv'
  BY ManagedGrows DEF Inv
<1>1. CASE Interrupted
  BY <1>1, GivingUpKeeps DEF Interrupted, Returns
<1>2. CASE UNCHANGED vars
  BY <1>2 DEF vars, confVars, nodeVars, cmdVars, IInv, QuietBefore, StoppedBefore, BackedUp,
              OnlyTheMasternode, IdleWhenDone, Quiet, Up, Down, Chosen, Named,
              getMasternodeConfData, Readable
<1> QED
  BY <1>1, <1>2, BeginKeeps, StepKeeps, HostKeeps DEF Next

-----------------------------------------------------------------------------
\* Whatever init supernode, start supernode and start masternode meet, and whatever
\* crashes, once one of them has returned without an error the node runs with the
\* private key of the record it was started for -- unless systemd keeps it running,
\* if no command is run while it loads, and start masternode only when it is down.
THEOREM MasternodeUnlessManagedAlways == Ordinary => (Spec => []MasternodeUnlessManaged)
<1> SUFFICES ASSUME Ordinary PROVE Spec => []MasternodeUnlessManaged
  OBVIOUS
<1>1. Inv => MasternodeUnlessManaged
  BY DEF Inv, IInv, OnlyTheMasternode, Chosen, MasternodeUnlessManaged, RunsAsMasternode
<1>2. Init => TypeOK /\ Inv
  BY InitType, InitInv DEF Inv
<1>3. TypeOK /\ Inv /\ [Next]_vars => (TypeOK /\ Inv)'
  BY NextType, NextKeeps
<1> QED
  BY <1>1, <1>2, <1>3, PTL DEF Spec

-----------------------------------------------------------------------------
(* masternode.conf.                                                          *)

\* The new file is written where the old one has been moved away.
LEMMA BackedUpKept == TypeOK /\ BackedUp /\ [Next]_vars => BackedUp'
<1> SUFFICES ASSUME TypeOK, BackedUp, [Next]_vars, at' = "write"
             PROVE  conf'[Local] = Missing
  BY DEF BackedUp
<1>0. conf \in [Host -> Content] /\ Local \in Host
  BY HostAssumption DEF TypeOK, ConfTypeOK
<1>1. CASE UNCHANGED <<conf, at>>
  BY <1>1 DEF BackedUp
<1>2. CASE createOrUpdateMasternodeConf
  BY <1>0, <1>2 DEF createOrUpdateMasternodeConf, Goto, Returns, backupMasterNodeConfFile
<1>3. \/ UNCHANGED <<conf, at>> \/ createOrUpdateMasternodeConf \/ at' # "write"
  BY DEF Next, vars, cmdVars, confVars, Begin, Interrupted, Returns, Step, YmlDone, Goto, Leave, Answered,
         checkStartMasterNodeParams, CheckProcessRunning, StartsPlain, checkKeys, Stops,
         createOrUpdateSuperNodeConfig, runStartMasternode, runStartAliasMasternode,
         StartsServices, ReturnsError, AfterWait, AfterAlias
<1> QED
  BY <1>1, <1>2, <1>3

\* Only createOrUpdateMasternodeConf touches the files.
LEMMA OthersKeepConf ==
  ASSUME [Next]_vars PROVE UNCHANGED confVars \/ createOrUpdateMasternodeConf
BY DEF Next, vars, cmdVars, Begin, Interrupted, Step, Answered,
       checkStartMasterNodeParams, CheckProcessRunning, StartsPlain, checkKeys, Stops,
       createOrUpdateSuperNodeConfig, runStartMasternode, runStartAliasMasternode,
       StartsServices, ReturnsError

LEMMA KeptStep ==
  ASSUME "same stamp" \notin Cases, TypeOK, BackedUp, createOrUpdateMasternodeConf
  PROVE  Kept \subseteq Kept'
<1>0. conf \in [Host -> Content] /\ Local \in Host /\ backups \in [Stamp -> Content]
  BY HostAssumption DEF TypeOK, ConfTypeOK
<1>1. Records(Missing) = {}
  BY DEF Records, Readable
<1>5. Kept' = Records(conf'[Local]) \cup UNION {Records(backups'[s]) : s \in Stamp}
  BY DEF Kept, Records, Readable
<1>2. CASE backupMasterNodeConfFile
  BY <1>2, BackupKeeps DEF TypeOK
<1>3. CASE at = "write" /\ UNCHANGED backups
  BY <1>1, <1>3, <1>5 DEF BackedUp, Kept
<1>4. CASE UNCHANGED <<conf, backups>>
  BY <1>4, <1>5 DEF Kept
<1> QED
  BY <1>2, <1>3, <1>4
  DEF createOrUpdateMasternodeConf, Draft, WriteConf, WriteConfFails, Goto

\* However often masternode.conf is created anew or added to, whatever fails and
\* whenever a command is interrupted, no record and no private key is lost -- if no
\* two backups get the same name.
THEOREM ConfIsKept == "same stamp" \notin Cases => (Spec => ConfKept)
<1> SUFFICES ASSUME "same stamp" \notin Cases PROVE Spec => ConfKept
  OBVIOUS
<1>1. Init => TypeOK /\ BackedUp
  BY InitType DEF Init, BackedUp
<1>2. TypeOK /\ BackedUp /\ [Next]_vars => (TypeOK /\ BackedUp)'
  BY NextType, BackedUpKept
<1>3. TypeOK /\ BackedUp /\ [Next]_vars => [Kept \subseteq Kept']_confVars
  BY OthersKeepConf, KeptStep
<1> QED
  BY <1>1, <1>2, <1>3, PTL DEF Spec, ConfKept

-----------------------------------------------------------------------------
(* The record of the masternode.                                             *)

\* What init writes under the name.
newRecord == [addr |-> cmd.flags.ip, key |-> cmd.key, id |-> cmd.id]
HasRecord(file) == cmd.flags.name \in DOMAIN file /\ file[cmd.flags.name] = newRecord

AfterWrite == {"yml", "stop", "masternode", "wait masternode"} \cup AfterLaunch

\* From the draft on the new record is there, in masternode.conf as soon as that is
\* written, and it stays there until the next command.
RecordWritten ==
  cmd.flags.op = "init" =>
    /\ at \in {"backup", "write"} => HasRecord(draft)
    /\ at \in AfterWrite \/ result = "ok" => Readable(conf[Local]) /\ HasRecord(conf[Local])
RecordInv == IdleWhenDone /\ RecordWritten

LEMMA WithHas ==
  ASSUME NEW f, NEW n, NEW e PROVE n \in DOMAIN With(f, n, e) /\ With(f, n, e)[n] = e
BY DEF With

\* The calls that write masternode.conf.
LEMMA WritingKeepsRecord ==
  ASSUME TypeOK, RecordInv, createOrUpdateMasternodeConf PROVE RecordInv'
<1>0. /\ conf \in [Host -> Content] /\ draft \in File /\ Local \in Host
      /\ result = "ok" => at = "idle"
  BY HostAssumption DEF TypeOK, ConfTypeOK, RecordInv, IdleWhenDone
<1>1. cmd' = cmd
  BY DEF createOrUpdateMasternodeConf
<1>2. CASE Draft(~cmd.flags.new, cmd.flags.name,
                 [addr |-> cmd.flags.ip, key |-> cmd.key, id |-> cmd.id]) /\ Goto("draft", "backup")
  <2>1. /\ at = "draft" /\ at' = "backup" /\ result' = result
        /\ \E f : draft' = With(f, cmd.flags.name, newRecord)
    BY <1>2 DEF Draft, Goto, newRecord
  <2>2. HasRecord(draft)'
    BY <1>1, <2>1, WithHas DEF HasRecord, newRecord
  <2> QED
    BY <1>0, <2>1, <2>2 DEF RecordInv, RecordWritten, IdleWhenDone, AfterWrite, AfterLaunch
<1>3. CASE backupMasterNodeConfFile /\ Goto("backup", "write")
  <2>1. at = "backup" /\ at' = "write" /\ result' = result /\ draft' = draft
    BY <1>3 DEF backupMasterNodeConfFile, Goto
  <2> QED
    BY <1>0, <1>1, <2>1
    DEF RecordInv, RecordWritten, IdleWhenDone, AfterWrite, AfterLaunch, HasRecord, newRecord
<1>4. CASE WriteConf /\ Goto("write", "yml")
  <2>1. at = "write" /\ at' = "yml" /\ result' = result /\ conf'[Local] = draft
    BY <1>0, <1>4 DEF WriteConf, Goto
  <2>2. Readable(conf'[Local])
    BY <1>0, <2>1, ContentAssumption DEF Readable
  <2>3. cmd.flags.op = "init" => HasRecord(draft)
    BY <2>1 DEF RecordInv, RecordWritten
  <2>4. cmd'.flags.op = "init" => HasRecord(conf[Local])'
    BY <1>1, <2>1, <2>3 DEF HasRecord, newRecord
  <2> QED
    BY <1>0, <2>1, <2>2, <2>4 DEF RecordInv, RecordWritten, IdleWhenDone
<1>5. CASE at = "write" /\ Returns("error")
  BY <1>5 DEF Returns, RecordInv, RecordWritten, IdleWhenDone, AfterWrite, AfterLaunch
<1> QED
  BY <1>2, <1>3, <1>4, <1>5 DEF createOrUpdateMasternodeConf

\* All other calls leave it as it is; a call that comes behind the writing comes from one
\* that does, for init.
LEMMA OthersKeepRecord ==
  ASSUME TypeOK, RecordInv, [Next]_vars, ~createOrUpdateMasternodeConf PROVE RecordInv'
<1>0. UNCHANGED confVars /\ (result = "ok" => at = "idle")
  BY OthersKeepConf DEF RecordInv, IdleWhenDone
<1>1. CASE UNCHANGED <<at, cmd, result>>
  BY <1>0, <1>1
  DEF RecordInv, RecordWritten, IdleWhenDone, HasRecord, newRecord, Readable, confVars
<1>2. CASE at' = "idle" /\ result' # "ok"
  BY <1>2 DEF RecordInv, RecordWritten, IdleWhenDone, AfterWrite, AfterLaunch
<1>3. ASSUME NEW c \in Commands, Begin(c) PROVE RecordInv'
  BY <1>3 DEF Begin, RecordInv, RecordWritten, IdleWhenDone, AfterWrite, AfterLaunch
<1>4. CASE /\ at # "idle" /\ result' = result /\ at' \notin {"backup", "write"}
           /\ at' \in AfterWrite => cmd'.flags.op # "init"
  BY <1>0, <1>4 DEF RecordInv, RecordWritten, IdleWhenDone
<1>5. CASE /\ at \in AfterWrite /\ cmd' = cmd
           /\ \/ at' \in AfterWrite /\ result' = result
              \/ at' = "idle" /\ result' = "ok"
  BY <1>0, <1>5
  DEF RecordInv, RecordWritten, IdleWhenDone, HasRecord, newRecord, Readable, confVars,
      AfterWrite, AfterLaunch
<1>6. CASE Step
  <2>1. CASE checkStartMasterNodeParams \/ CheckProcessRunning \/ StartsPlain
    BY <1>4, <2>1
    DEF checkStartMasterNodeParams, CheckProcessRunning, StartsPlain, Goto, AfterWrite, AfterLaunch
  <2>2. CASE Answered("wait plain", "sync") \/ Answered("sync", "keys")
    BY <1>4, <2>2 DEF Answered, Leave, Goto, AfterWrite, AfterLaunch
  <2>3. CASE checkKeys \/ Stops("stop plain", "draft")
    BY <1>4, <2>3 DEF checkKeys, Stops, Goto, AfterWrite, AfterLaunch
  <2>8. CASE createOrUpdateSuperNodeConfig /\ Returns("error")
    BY <1>2, <2>8 DEF Returns
  <2>4. CASE \/ createOrUpdateSuperNodeConfig /\ ~Returns("error")
             \/ Stops("stop", "masternode") \/ runStartMasternode
    BY <1>5, <2>4
    DEF createOrUpdateSuperNodeConfig, Stops, runStartMasternode, YmlDone, Goto, AfterWrite, AfterLaunch
  <2>5. CASE \/ Answered("wait masternode", AfterWait)
             \/ Answered("sync masternode", IF cmd.flags.activate THEN "alias" ELSE AfterAlias)
             \/ runStartAliasMasternode \/ StartsServices
    BY <1>5, <2>5
    DEF Answered, runStartAliasMasternode, StartsServices, Leave, Goto, Returns, AfterWait,
        AfterAlias, AfterWrite, AfterLaunch
  <2>6. CASE ReturnsError
    BY <1>2, <2>6 DEF ReturnsError, Returns
  <2> QED
    BY <1>6, <2>1, <2>2, <2>3, <2>4, <2>5, <2>6, <2>8 DEF Step
<1>7. CASE Interrupted
  BY <1>2, <1>7 DEF Interrupted, Returns
<1>8. CASE UNCHANGED cmdVars \/ UNCHANGED vars
  BY <1>1, <1>8 DEF cmdVars, vars
<1> QED
  BY <1>3, <1>6, <1>7, <1>8 DEF Next

LEMMA RecordKept == TypeOK /\ RecordInv /\ [Next]_vars => RecordInv'
BY WritingKeepsRecord, OthersKeepRecord

-----------------------------------------------------------------------------
(* What the node has read.                                                   *)

\* The node that comes up for the masternode has read the file as it is.
SeesInv == at \in {"wait masternode", "sync masternode", "alias"} => SeesConf(Local)

LEMMA SeesKept ==
  ASSUME TypeOK, IInv, SeesInv, [Next]_vars PROVE SeesInv'
<1>0. Local \in Host /\ node \in [Host -> [is : Status, as : Role, sees : Content]]
  BY HostAssumption DEF TypeOK, NodeTypeOK
<1>1. CASE at' \notin {"wait masternode", "sync masternode", "alias"}
  BY <1>1 DEF SeesInv
<1>2. CASE \E h \in Host : HostStep(h) /\ UNCHANGED <<confVars, cmdVars>>
  <2>1. UNCHANGED <<conf, at>>
    BY <1>2 DEF confVars, cmdVars
  <2>2. SeesConf(Local) => SeesConf(Local)'
    BY <1>0, <1>2, <2>1, HostSees DEF TypeOK
  <2> QED
    BY <2>1, <2>2 DEF SeesInv
<1>3. CASE runStartMasternode
  <2>1. at = "masternode" /\ UNCHANGED <<node, confVars>>
    BY <1>3 DEF runStartMasternode, runPastelNode, StartService, Launch, Goto
  <2>2. ~Up(Local)
    BY <2>1 DEF IInv, StoppedBefore
  <2> QED
    BY <2>1, <2>2 DEF SeesInv, SeesConf, Up
<1>4. CASE \/ Answered("wait masternode", AfterWait)
           \/ Answered("sync masternode", IF cmd.flags.activate THEN "alias" ELSE AfterAlias)
           \/ UNCHANGED vars
  <2>1. UNCHANGED <<node, conf>>
        /\ (at \in {"wait masternode", "sync masternode", "alias"} \/ at' = at)
    BY <1>4 DEF Answered, Leave, Goto, vars, nodeVars, confVars, cmdVars
  <2> QED
    BY <2>1 DEF SeesInv, SeesConf, Up
<1>5. CASE \/ checkStartMasterNodeParams \/ CheckProcessRunning \/ StartsPlain
           \/ Answered("wait plain", "sync") \/ Answered("sync", "keys")
           \/ checkKeys \/ Stops("stop plain", "draft") \/ Stops("stop", "masternode")
  BY <1>1, <1>5
  DEF checkStartMasterNodeParams, CheckProcessRunning, StartsPlain, Answered, Leave, checkKeys,
      Stops, Goto, Returns
<1>6. CASE createOrUpdateMasternodeConf \/ createOrUpdateSuperNodeConfig
  BY <1>1, <1>6 DEF createOrUpdateMasternodeConf, createOrUpdateSuperNodeConfig, YmlDone, Goto, Returns
<1>7. CASE runStartAliasMasternode \/ StartsServices \/ ReturnsError \/ Interrupted
  BY <1>1, <1>7
  DEF runStartAliasMasternode, AfterAlias, Answered, StartsServices, ReturnsError, Interrupted,
      Leave, Goto, Returns
<1>8. ASSUME NEW c \in Commands, Begin(c) PROVE SeesInv'
  BY <1>1, <1>8 DEF Begin
<1> QED
  BY <1>2, <1>3, <1>4, <1>5, <1>6, <1>7, <1>8 DEF Next, Step

\* Where no service keeps the node, the one that is told to start an alias has read the
\* masternode.conf that is there, with the record init has put into it, and runs with the
\* key it has: the file is written before the node is stopped or started, and no later
\* call touches it.
THEOREM AliasIsKnownAlways == Ordinary => (Spec => []AliasIsKnown)
<1> SUFFICES ASSUME Ordinary PROVE Spec => []AliasIsKnown
  OBVIOUS
<1> DEFINE Sees == Local \in managed \/ SeesInv
<1>1. TypeOK /\ Inv /\ Sees /\ [Next]_vars => Sees'
  BY SeesKept, ManagedGrows DEF Inv
<1>2. Inv /\ RecordInv /\ Sees => AliasIsKnown
  <2> SUFFICES ASSUME IInv, RecordInv, SeesInv, at = "alias", Answers(Local) PROVE AliasIsKnown
    BY DEF AliasIsKnown, Inv
  <2>1. node[Local].sees = conf[Local]
    BY DEF SeesInv, SeesConf, Up, Answers
  <2>2. cmd.flags.op = "init" => Readable(conf[Local]) /\ HasRecord(conf[Local])
    BY DEF RecordInv, RecordWritten, AfterWrite, AfterLaunch
  <2>3. \E e \in Named : e.addr = cmd.flags.ip /\ node[Local].as = e.key
    BY DEF IInv, OnlyTheMasternode, AfterLaunch, Chosen
  <2> QED
    BY <2>1, <2>2, <2>3 DEF AliasIsKnown, HasRecord, newRecord, Records
<1>3. Init => TypeOK /\ Inv /\ RecordInv /\ Sees
  BY InitType, InitInv
  DEF Inv, Init, RecordInv, IdleWhenDone, RecordWritten, AfterWrite, AfterLaunch, SeesInv
<1>4. TypeOK /\ Inv /\ [Next]_vars => (TypeOK /\ Inv)'
  BY NextType, NextKeeps
<1> QED
  BY <1>1, <1>2, <1>3, <1>4, RecordKept, PTL DEF Spec

-----------------------------------------------------------------------------
(* supernode.yml.                                                            *)

\* From the call that writes it on it has the PastelID of init, or that is lost.
IdWritten ==
  cmd.flags.op = "init" /\ (at \in AfterWrite \ {"yml"} \/ result = "ok") => yml = cmd.id \/ lost

\* supernode.yml is written by one call only, and a command knows at its beginning of
\* nothing that is lost.
LEMMA OthersKeepYml ==
  ASSUME [Next]_vars, ~createOrUpdateSuperNodeConfig
  PROVE  yml' = yml /\ ((\E c \in Commands : Begin(c)) \/ lost' = lost)
BY DEF Next, vars, cmdVars, ymlVars, Begin, Interrupted, Step, Answered,
       checkStartMasterNodeParams, CheckProcessRunning, StartsPlain, checkKeys, Stops,
       createOrUpdateMasternodeConf, runStartMasternode, runStartAliasMasternode,
       StartsServices, ReturnsError

LEMMA IdKept ==
  ASSUME TypeOK, IdleWhenDone, IdWritten, [Next]_vars PROVE IdWritten'
<1>0. result = "ok" => at = "idle"
  BY DEF IdleWhenDone
<1>1. CASE UNCHANGED <<at, cmd, result, yml, lost>>
  BY <1>1 DEF IdWritten
<1>2. CASE at' = "idle" /\ result' # "ok"
  BY <1>2 DEF IdWritten, AfterWrite, AfterLaunch
<1>3. ASSUME NEW c \in Commands, Begin(c) PROVE IdWritten'
  BY <1>3 DEF Begin, IdWritten, AfterWrite, AfterLaunch
<1>4. CASE /\ at # "idle" /\ result' = result
           /\ at' \in AfterWrite \ {"yml"} => cmd'.flags.op # "init"
  BY <1>0, <1>4 DEF IdWritten
<1>5. CASE /\ at \in AfterWrite \ {"yml"} /\ UNCHANGED <<cmd, yml, lost>>
  BY <1>5 DEF IdWritten
<1>6. CASE createOrUpdateSuperNodeConfig
  <2>1. CASE Returns("error")
    BY <1>2, <2>1 DEF Returns
  <2>2. CASE ~Returns("error")
    <3>1. cmd' = cmd /\ (yml' = cmd.id \/ lost')
      BY <1>6, <2>2 DEF createOrUpdateSuperNodeConfig
    <3> QED
      BY <3>1, Zenon DEF IdWritten
  <2> QED
    BY <2>1, <2>2
<1>7. CASE Step
  <2>1. CASE checkStartMasterNodeParams \/ CheckProcessRunning \/ StartsPlain
    BY <1>4, <2>1
    DEF checkStartMasterNodeParams, CheckProcessRunning, StartsPlain, Goto, AfterWrite, AfterLaunch
  <2>2. CASE Answered("wait plain", "sync") \/ Answered("sync", "keys")
    BY <1>4, <2>2 DEF Answered, Leave, Goto, AfterWrite, AfterLaunch
  <2>3. CASE checkKeys \/ Stops("stop plain", "draft")
    BY <1>4, <2>3 DEF checkKeys, Stops, Goto, AfterWrite, AfterLaunch
  <2>4. CASE createOrUpdateMasternodeConf
    <3>1. at # "idle" /\ at' \notin AfterWrite \ {"yml"}
          /\ (result' = result \/ (at' = "idle" /\ result' = "error"))
      BY <2>4 DEF createOrUpdateMasternodeConf, Goto, Returns, AfterWrite, AfterLaunch
    <3> QED
      BY <1>2, <1>4, <3>1
  <2>5. CASE Stops("stop", "masternode") \/ runStartMasternode
    BY <1>5, <2>5 DEF Stops, runStartMasternode, Goto, ymlVars, AfterWrite, AfterLaunch
  <2>6. CASE \/ Answered("wait masternode", AfterWait)
             \/ Answered("sync masternode", IF cmd.flags.activate THEN "alias" ELSE AfterAlias)
             \/ runStartAliasMasternode \/ StartsServices
    BY <1>5, <2>6
    DEF Answered, runStartAliasMasternode, StartsServices, Leave, Goto, ymlVars, AfterWrite,
        AfterLaunch
  <2>7. CASE ReturnsError
    BY <1>2, <2>7 DEF ReturnsError, Returns
  <2> QED
    BY <1>6, <1>7, <2>1, <2>2, <2>3, <2>4, <2>5, <2>6, <2>7 DEF Step
<1>8. CASE Interrupted
  BY <1>2, <1>8 DEF Interrupted, Returns
<1>9. CASE UNCHANGED cmdVars \/ UNCHANGED vars
  BY <1>1, <1>9 DEF cmdVars, ymlVars, vars
<1> QED
  BY <1>3, <1>7, <1>8, <1>9 DEF Next

\* Only init writes the files.
Writes == {"start plain", "wait plain", "sync", "keys", "stop plain", "draft", "backup", "write",
           "yml"}
OnlyInit == at \in Writes => cmd.flags.op = "init"

LEMMA OnlyInitKept == ASSUME TypeOK, OnlyInit, [Next]_vars PROVE OnlyInit'
<1>0. cmd \in config
  BY DEF TypeOK
<1>1. CASE at' \notin Writes
  BY <1>1 DEF OnlyInit
<1>2. CASE at \in Writes /\ cmd'.flags = cmd.flags
  BY <1>2 DEF OnlyInit
<1>3. CASE UNCHANGED cmdVars \/ UNCHANGED vars
  BY <1>3 DEF cmdVars, vars, OnlyInit
<1>4. CASE CheckProcessRunning
  BY <1>4 DEF CheckProcessRunning, OnlyInit, Writes
<1>5. CASE \/ StartsPlain \/ Answered("wait plain", "sync") \/ Answered("sync", "keys")
           \/ Stops("stop plain", "draft") \/ createOrUpdateMasternodeConf
  BY <1>1, <1>2, <1>5
  DEF StartsPlain, Answered, Leave, Stops, createOrUpdateMasternodeConf, Goto, Returns, Writes
<1>6. CASE checkKeys
  <2>1. cmd'.flags = cmd.flags /\ at = "keys"
    BY <1>0, <1>6 DEF checkKeys, config, Goto
  <2> QED
    BY <1>2, <2>1 DEF Writes
<1>7. CASE \/ checkStartMasterNodeParams \/ createOrUpdateSuperNodeConfig
           \/ Stops("stop", "masternode") \/ runStartMasternode
           \/ Answered("wait masternode", AfterWait)
           \/ Answered("sync masternode", IF cmd.flags.activate THEN "alias" ELSE AfterAlias)
           \/ runStartAliasMasternode \/ StartsServices \/ ReturnsError \/ Interrupted
           \/ \E c \in Commands : Begin(c)
  BY <1>1, <1>7
  DEF checkStartMasterNodeParams, createOrUpdateSuperNodeConfig, YmlDone, Stops, runStartMasternode,
      Answered, AfterWait, AfterAlias, runStartAliasMasternode, StartsServices, ReturnsError,
      Interrupted, Begin, Leave, Goto, Returns, Writes
<1> QED
  BY <1>3, <1>4, <1>5, <1>6, <1>7 DEF Next, Step

\* What supernode.yml has is the PastelID of a record that is on file.
IdOnFile == yml \in {0, NoFile, NoId, Piece} \/ \E k \in Kept : k[2].id = yml

LEMMA OnFileKept ==
  ASSUME "same stamp" \notin Cases, TypeOK, BackedUp, OnlyInit, RecordInv, IdOnFile, [Next]_vars
  PROVE  IdOnFile'
<1>1. Kept \subseteq Kept'
  <2>1. CASE UNCHANGED confVars
    <3>1. Kept' = Records(conf'[Local]) \cup UNION {Records(backups'[s]) : s \in Stamp}
      BY DEF Kept, Records, Readable
    <3> QED
      BY <2>1, <3>1 DEF confVars, Kept
  <2> QED
    BY <2>1, OthersKeepConf, KeptStep
<1>2. CASE yml' \in {yml, NoId, Piece}
  BY <1>1, <1>2 DEF IdOnFile
<1>3. CASE createOrUpdateSuperNodeConfig /\ yml' = cmd.id
  <2>1. at = "yml" /\ UNCHANGED confVars
    BY <1>3 DEF createOrUpdateSuperNodeConfig, YmlDone, Goto
  <2>2. Readable(conf[Local]) /\ HasRecord(conf[Local])
    BY <2>1 DEF OnlyInit, Writes, RecordInv, RecordWritten, AfterWrite
  <2>3. <<cmd.flags.name, newRecord>> \in Kept
    BY <2>2 DEF HasRecord, Kept, Records
  <2>4. newRecord.id = yml'
    BY <1>3 DEF newRecord
  <2>5. \E k \in Kept' : k[2].id = yml'
    <3>1. PICK k \in Kept' : k = <<cmd.flags.name, newRecord>>
      BY <1>1, <2>3
    <3> QED
      BY <2>4, <3>1
  <2> QED
    BY <2>5 DEF IdOnFile
<1> QED
  BY <1>2, <1>3, OthersKeepYml DEF createOrUpdateSuperNodeConfig

\* After init, supernode.yml has the PastelID that masternode.conf has for the masternode
\* the node runs as, unless it had to be made or could not be written; and whichever of
\* the two, and wherever a command broke off, it never has a PastelID of which there is
\* no record in masternode.conf or a backup -- if no two backups get the same name.
THEOREM SupernodeHasItsIdAlways ==
  Ordinary /\ "same stamp" \notin Cases => (Spec => []SupernodeHasItsId)
<1> SUFFICES ASSUME Ordinary, "same stamp" \notin Cases PROVE Spec => []SupernodeHasItsId
  OBVIOUS
<1>1. Inv /\ RecordInv /\ IdWritten /\ IdOnFile => SupernodeHasItsId
  <2> SUFFICES ASSUME Inv, RecordInv, IdWritten, result = "ok", cmd.flags.op = "init"
               PROVE  \E e \in Named : /\ yml = e.id \/ lost
                                       /\ node[Local].is = "crashed" \/ Local \in managed
                                            \/ node[Local].as = e.key
    BY DEF SupernodeHasItsId, IdOnFile
  <2>1. Readable(conf[Local]) /\ HasRecord(conf[Local]) /\ (yml = cmd.id \/ lost)
    BY DEF RecordInv, RecordWritten, IdWritten
  <2>2. Named = {newRecord} /\ newRecord.id = cmd.id
    BY <2>1 DEF Named, getMasternodeConfData, HasRecord, newRecord
  <2>3. Local \in managed \/ \E e \in Named : node[Local].as = e.key
    BY DEF Inv, IInv, OnlyTheMasternode, Chosen
  <2> QED
    BY <2>1, <2>2, <2>3
<1>2. Init => TypeOK /\ Inv /\ RecordInv /\ IdWritten /\ IdOnFile /\ OnlyInit /\ BackedUp
  BY InitType, InitInv
  DEF Inv, Init, RecordInv, IdleWhenDone, RecordWritten, AfterWrite, AfterLaunch, IdWritten, NoFile,
      IdOnFile, OnlyInit, Writes, BackedUp
<1>3. TypeOK /\ Inv /\ [Next]_vars => (TypeOK /\ Inv)'
  BY NextType, NextKeeps
<1>4. TypeOK /\ RecordInv /\ IdWritten /\ [Next]_vars => IdWritten'
  BY IdKept DEF RecordInv
<1>5. TypeOK /\ RecordInv /\ BackedUp /\ OnlyInit /\ IdOnFile /\ [Next]_vars
      => (BackedUp /\ OnlyInit /\ IdOnFile)'
  BY BackedUpKept, OnlyInitKept, OnFileKept
<1> QED
  BY <1>1, <1>2, <1>3, <1>4, <1>5, RecordKept, PTL DEF Spec
=============================================================================
