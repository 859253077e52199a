----------------------------- MODULE ColdHotProofs -----------------------------
(***************************************************************************)
(* What init supernode coldhot leaves on its two hosts, for any hosts, names   *)
(* and addresses and any number of commands, failures, interrupts and crashes. *)
(***************************************************************************)
EXTENDS ColdHot, PasteldProofs

-----------------------------------------------------------------------------
(* Types.                                                                    *)

\* The variables of the command.
CmdTypeOK ==
  /\ cmd \in config /\ at \in Calls
  /\ seen \in [cold : BOOLEAN, hot : BOOLEAN] /\ wasUp \in BOOLEAN
  /\ file \in Yml /\ here \in [Yml -> YmlFile] /\ there \in [Yml -> YmlFile]
  /\ ticket \in [remote : Balance, local : Balance, txid : BOOLEAN]
  /\ result \in {"none", "ok", "error"}
  /\ runs \in 0 .. MaxRuns

Typed == ConfTypeOK' /\ NodeTypeOK' /\ CmdTypeOK'

LEMMA NoTicketType == NoTicket \in [remote : Balance, local : Balance, txid : BOOLEAN]
BY DEF NoTicket, Balance

\* The initial files, nodes and flags are of the types.
LEMMA InitType == Init => TypeOK
<1> SUFFICES ASSUME Init PROVE TypeOK
  OBVIOUS
<1>1. OwnRecords \subseteq masterNodeConf
  BY KeyTypes DEF OwnRecords, masterNodeConf
<1>2. ASSUME NEW M \in SUBSET Name PROVE [M -> OwnRecords] \subseteq File
  BY <1>1 DEF File
<1>3. ConfTypeOK
  <2>1. {Missing} \cup UNION {[N -> OwnRecords] : N \in SUBSET Name} \subseteq Content
    BY <1>2 DEF Content
  <2>2. conf \in [Host -> {Missing} \cup UNION {[N -> OwnRecords] : N \in SUBSET Name}]
    BY DEF Init
  <2>3. conf \in [Host -> Content]
    BY <2>1, <2>2
  <2> QED
    BY <2>3, EmptyFileType DEF Init, ConfTypeOK, Content
<1>4. NodeTypeOK
  BY <1>3, NodesInitType DEF Init
<1>5. cmd \in config
  BY CommandsAssumption, KeyTypes DEF Init, config
<1>6. here \in [Yml -> YmlFile] /\ there \in [Yml -> YmlFile] /\ file \in Yml
  BY DEF Init, Yml, YmlFile
<1>7. runs \in 0 .. MaxRuns
  BY CaseAssumption DEF Init
<1>8. /\ at \in Calls /\ result \in {"none", "ok", "error"}
      /\ seen \in [cold : BOOLEAN, hot : BOOLEAN] /\ wasUp \in BOOLEAN
  BY DEF Init, Calls
<1>9. ticket \in [remote : Balance, local : Balance, txid : BOOLEAN]
  BY NoTicketType DEF Init
<1> QED
  BY <1>3, <1>4, <1>5, <1>6, <1>7, <1>8, <1>9 DEF TypeOK

\* What the command does to the hot host keeps the types of the nodes.
LEMMA RemoteType ==
  ASSUME NodeTypeOK, NEW a, NEW b,
         stopRemoteNode(a, b) \/ (\E r \in Role : RunRemote(r, a, b))
  PROVE  NodeTypeOK'
<1>1. CASE stopRemoteNode(a, b)
  BY <1>1, HotAssumption DEF stopRemoteNode, NodeTypeOK, Status
<1>2. ASSUME NEW r \in Role, RunRemote(r, a, b) PROVE NodeTypeOK'
  BY <1>2, HotAssumption DEF RunRemote, NodeTypeOK
<1> QED
  BY <1>1, <1>2

LEMMA ColdType ==
  ASSUME TypeOK, ColdStep PROVE TypeOK'
<1> USE HostAssumption
<1>0. CmdTypeOK /\ ConfTypeOK /\ NodeTypeOK /\ Plain \in Role
  BY DEF TypeOK, CmdTypeOK, Role
<1> SUFFICES Typed
  BY DEF TypeOK, CmdTypeOK, Typed
<1>1. ConfTypeOK'
  BY <1>0, ConfStep DEF ColdStep, StartCold, Answered, RestartCold, runStartAliasMasternode, PutColdBack
<1>2. NodeTypeOK'
  <2>1. \/ UNCHANGED nodeVars \/ runPastelNode(Local, Plain) \/ StopPastelDAndWait(Local)
    BY DEF ColdStep, StartCold, Answered, RestartCold, runStartAliasMasternode, PutColdBack
  <2> QED
    BY <1>0, <2>1, NodeStep
<1>3. at' \in Calls /\ UNCHANGED <<result, runs>>
  BY DEF ColdStep, StartCold, Answered, RestartCold, runStartAliasMasternode, PutColdBack, Goto,
         AfterRestart, Calls, TicketCalls
<1>4. UNCHANGED <<cmd, localVars>>
  BY DEF ColdStep, StartCold, Answered, RestartCold, runStartAliasMasternode, PutColdBack
<1>5. seen' \in [cold : BOOLEAN, hot : BOOLEAN] /\ wasUp' \in BOOLEAN
  <2>1. CASE StartCold
    <3>1. wasUp' \in BOOLEAN
      <4>1. wasUp' = (node[Local].is \in {"loading", "ready"})
        BY <2>1, Zenon DEF StartCold
      <4>2. (node[Local].is \in {"loading", "ready"}) \in BOOLEAN
        OBVIOUS
      <4> QED
        BY <4>1, <4>2, Zenon
    <3>2. seen' \in [cold : BOOLEAN, hot : BOOLEAN]
      BY <1>0, <2>1 DEF StartCold, CmdTypeOK
    <3> QED
      BY <3>1, <3>2
  <2>2. StartCold \/ UNCHANGED <<seen, wasUp>>
    BY DEF ColdStep, Answered, RestartCold, runStartAliasMasternode, PutColdBack
  <2> QED
    BY <1>0, <2>1, <2>2 DEF CmdTypeOK
<1> QED
  BY <1>0, <1>1, <1>2, <1>3, <1>4, <1>5 DEF Typed, CmdTypeOK, localVars

LEMMA HotType ==
  ASSUME TypeOK, HotStep PROVE TypeOK'
<1>0. CmdTypeOK /\ ConfTypeOK /\ NodeTypeOK /\ Plain \in Role
  BY DEF TypeOK, CmdTypeOK, Role
<1> SUFFICES Typed
  BY DEF TypeOK, CmdTypeOK, Typed
<1>1. /\ UNCHANGED confVars /\ UNCHANGED <<localVars, wasUp, result, runs>>
      /\ at' \in Calls
  BY DEF HotStep, LookAtHot, CannotSync, Answered, stopRemoteNode, startAndSyncRemoteNode, RunRemote,
         SecondAnswers, checkKeys, StopAfterKeys, runRemoteNodeAsMasterNode, Goto,
         AfterMasternode, Calls
<1>2. ConfTypeOK'
  BY <1>0, <1>1, ConfStep
<1>3. NodeTypeOK'
  <2>1. \/ UNCHANGED nodeVars \/ \E a, b : stopRemoteNode(a, b)
        \/ \E a, b : RunRemote(Plain, a, b)
        \/ \E e \in getMasternodeConfData(cmd.flags.name, cmd.flags.ip) :
             RunRemote(e.key, "masternode", "wait masternode")
    BY DEF HotStep, LookAtHot, CannotSync, Answered, startAndSyncRemoteNode,
           SecondAnswers, checkKeys, StopAfterKeys, runRemoteNodeAsMasterNode
  <2>2. ASSUME NEW e \in getMasternodeConfData(cmd.flags.name, cmd.flags.ip),
               RunRemote(e.key, "masternode", "wait masternode")
        PROVE  NodeTypeOK'
    <3>1. e.key \in Role
      BY <1>0, RecordFound DEF masterNodeConf, Role
    <3> QED
      BY <1>0, <2>2, <3>1, RemoteType
  <2>3. CASE UNCHANGED nodeVars
    BY <1>0, <2>3, NodeStep
  <2> QED
    BY <1>0, <2>1, <2>2, <2>3, RemoteType
<1>4. cmd' \in config
  BY <1>0, KeyTypes
  DEF HotStep, LookAtHot, CannotSync, Answered, stopRemoteNode, startAndSyncRemoteNode, RunRemote,
      SecondAnswers, checkKeys, StopAfterKeys, runRemoteNodeAsMasterNode, CmdTypeOK, config
<1>5. seen' \in [cold : BOOLEAN, hot : BOOLEAN]
  <2>1. Answers(Hot) \in BOOLEAN
    BY DEF Answers
  <2>2. LookAtHot \/ UNCHANGED seen
    BY DEF HotStep, LookAtHot, CannotSync, Answered, stopRemoteNode, startAndSyncRemoteNode, RunRemote,
         SecondAnswers, checkKeys, StopAfterKeys, runRemoteNodeAsMasterNode
  <2> QED
    BY <1>0, <2>1, <2>2 DEF LookAtHot, CmdTypeOK
<1> QED
  BY <1>0, <1>1, <1>2, <1>3, <1>4, <1>5 DEF Typed, CmdTypeOK, localVars

\* The record of the command is one.
LEMMA NewRecordType == TypeOK => newRecord \in masterNodeConf /\ cmd.flags.name \in Name
BY DEF TypeOK, config, Command, newRecord, masterNodeConf

LEMMA ConfType ==
  ASSUME TypeOK, createOrUpdateMasternodeConf PROVE TypeOK'
<1>0. CmdTypeOK /\ ConfTypeOK /\ NodeTypeOK
  BY DEF TypeOK, CmdTypeOK
<1>1. ConfTypeOK'
  <2>1. \/ Draft(~cmd.flags.new, cmd.flags.name, newRecord)
        \/ backupMasterNodeConfFile \/ WriteConf \/ WriteConfFails
    BY DEF createOrUpdateMasternodeConf
  <2>2. ASSUME NEW add \in BOOLEAN, Draft(add, cmd.flags.name, newRecord) PROVE ConfTypeOK'
    BY <1>0, <2>2, NewRecordType, ConfStep
  <2>3. (~cmd.flags.new) \in BOOLEAN
    OBVIOUS
  <2> QED
    BY <1>0, <2>1, <2>2, <2>3, ConfStep
<1>2. NodeTypeOK'
  BY <1>0, NodeStep DEF createOrUpdateMasternodeConf
<1> QED
  BY <1>0, <1>1, <1>2
  DEF createOrUpdateMasternodeConf, TypeOK, CmdTypeOK, Goto, Returns, Calls, localVars

LEMMA CopyType ==
  ASSUME TypeOK, copyMasterNodeConToRemote PROVE TypeOK'
<1>0. CmdTypeOK /\ ConfTypeOK /\ NodeTypeOK
  BY DEF TypeOK, CmdTypeOK
<1>1. With(EmptyFile, cmd.flags.name, newRecord) \in Content
  BY NewRecordType, EmptyFileType, WithType DEF Content
<1>2. ConfTypeOK'
  BY <1>0, <1>1, HotAssumption DEF copyMasterNodeConToRemote, ConfTypeOK, Content
<1>3. NodeTypeOK'
  BY <1>0, NodeStep DEF copyMasterNodeConToRemote
<1> QED
  BY <1>0, <1>2, <1>3
  DEF copyMasterNodeConToRemote, AfterCopy, TypeOK, CmdTypeOK, Goto, Returns, Calls, localVars

LEMMA YmlType ==
  ASSUME TypeOK, CreateYml \/ CopyYml \/ DeleteYml \/ StartServices PROVE TypeOK'
<1>0. CmdTypeOK /\ ConfTypeOK /\ NodeTypeOK /\ cmd.id \in YmlFile
  BY DEF TypeOK, CmdTypeOK, config, YmlFile
<1>1. ConfTypeOK' /\ NodeTypeOK' /\ UNCHANGED <<cmd, seen, wasUp, ticket>>
  BY <1>0, ConfStep, NodeStep DEF CreateYml, CopyYml, DeleteYml, StartServices
<1>2. at' \in Calls /\ result' \in {"none", "ok", "error"} /\ UNCHANGED runs
  BY <1>0 DEF CreateYml, CopyYml, DeleteYml, StartServices, Goto, AfterYml, Returns, Calls, CmdTypeOK
<1>3. file' \in Yml /\ here' \in [Yml -> YmlFile] /\ there' \in [Yml -> YmlFile]
  BY <1>0 DEF CreateYml, CopyYml, DeleteYml, StartServices, CmdTypeOK, Yml, YmlFile
<1> QED
  BY <1>0, <1>1, <1>2, <1>3 DEF TypeOK, CmdTypeOK

\* The registration of the ticket touches nothing else, and is then over.
LEMMA TicketEffect ==
  ASSUME TicketStep
  PROVE  /\ at \in TicketCalls /\ at' \in TicketCalls \cup {"put back"}
         /\ UNCHANGED <<confVars, nodeVars, cmd, seen, wasUp, file, here, there, result, runs>>
<1>1. \/ \E a \in TicketCalls, b \in TicketCalls \cup {"put back"} : OnTicket(a, b)
  BY DEF TicketStep, registerTicketPastelID, handleAskForBalance, handleTransferBalance,
         handleWaitForBalance, TicketEnds, TicketCalls
<1> QED
  BY <1>1 DEF OnTicket, Goto

LEMMA TicketType ==
  ASSUME TypeOK, TicketStep PROVE TypeOK'
<1>0. CmdTypeOK /\ ConfTypeOK /\ NodeTypeOK
  BY DEF TypeOK, CmdTypeOK
<1>1. ticket' \in [remote : Balance, local : Balance, txid : BOOLEAN]
  <2>1. CASE registerTicketPastelID
    <3>1. PICK h \in Balance, c \in Balance : ticket' = [remote |-> h, local |-> c, txid |-> FALSE]
      BY <2>1, Zenon DEF registerTicketPastelID
    <3> QED
      BY <3>1
  <2>2. CASE UNCHANGED ticket \/ ticket' = NoTicket
    BY <1>0, <2>2, NoTicketType DEF CmdTypeOK
  <2>3. CASE \/ ticket' = [ticket EXCEPT !.txid = TRUE]
             \/ \E b \in Balance : ticket' = [ticket EXCEPT !.remote = b]
    BY <1>0, <2>3 DEF CmdTypeOK
  <2> QED
    BY <2>1, <2>2, <2>3
    DEF TicketStep, handleAskForBalance, handleTransferBalance, handleWaitForBalance, TicketEnds
<1>2. ConfTypeOK' /\ NodeTypeOK'
  BY <1>0, TicketEffect, ConfStep, NodeStep
<1> QED
  BY <1>0, <1>1, <1>2, TicketEffect DEF TypeOK, CmdTypeOK, Calls

LEMMA NextType == TypeOK /\ [Next]_vars => TypeOK'
<1> SUFFICES ASSUME TypeOK, [Next]_vars PROVE TypeOK'
  OBVIOUS
<1>0. CmdTypeOK /\ ConfTypeOK /\ NodeTypeOK
  BY DEF TypeOK, CmdTypeOK
<1>1. ASSUME NEW c \in Commands, Begin(c) PROVE TypeOK'
  <2>1. cmd' \in config /\ runs' \in 0 .. MaxRuns
    BY <1>0, <1>1, CommandsAssumption, KeyTypes, CaseAssumption DEF Begin, config, CmdTypeOK
  <2> QED
    BY <1>0, <1>1, <2>1, ConfStep, NodeStep DEF Begin, TypeOK, Calls, localVars
<1>2. CASE Prepare \/ StartSupernode \/ ReturnsError
  BY <1>0, <1>2, ConfStep, NodeStep
  DEF Prepare, StartSupernode, ReturnsError, Goto, Returns, Calls, TypeOK, localVars
<1>5. CASE Interrupted
  BY <1>0, <1>5, NoTicketType, ConfStep, NodeStep DEF Interrupted, Returns, Calls, TypeOK
<1>3. ASSUME NEW h \in Host, HostStep(h), UNCHANGED <<confVars, cmdVars>> PROVE TypeOK'
  BY <1>0, <1>3, ConfStep, NodeStep DEF TypeOK, cmdVars, localVars
<1>4. CASE UNCHANGED vars
  BY <1>0, <1>4, ConfStep, NodeStep DEF TypeOK, vars, cmdVars, localVars
<1> QED
  BY <1>1, <1>2, <1>3, <1>4, <1>5, ColdType, HotType, ConfType, CopyType, YmlType, TicketType
  DEF Next, Step, FileStep

\* The variables keep to their types, whatever the commands and however they fail.
THEOREM TypeCorrect == Spec => []TypeOK
BY InitType, NextType, PTL DEF Spec

-----------------------------------------------------------------------------
(* Private keys.                                                             *)

Harmless(r) == r \in {Plain, 0}
Saved(r) == \E k \in Kept : k[2].key = r
UsedOnHot == starting[Hot] \cup {node[Hot].as}

\* The old masternode.conf is gone, into a backup, when the new one is written.
BackedUp == at = "write" => conf[Local] = Missing
UnitsHarmless == \A h \in DOMAIN units : Harmless(units[h])
KeyInv == BackedUp /\ UnitsHarmless /\ KeyInUseIsKept

LEMMA InitKey == Init => KeyInv
<1> SUFFICES ASSUME Init PROVE KeyInv
  OBVIOUS
<1>1. TypeOK /\ UnitsHarmless
  BY InitType, NodesInitType DEF Init, TypeOK, UnitsHarmless, Harmless
<1>2. starting[Hot] = {} /\ Harmless(node[Hot].as)
  BY HotAssumption DEF Init, NodesInit, Harmless
<1> QED
  BY <1>1, <1>2 DEF KeyInv, BackedUp, KeyInUseIsKept, Init, Harmless

\* Only createOrUpdateMasternodeConf touches the files of the cold host.
LEMMA OthersKeepConf ==
  ASSUME TypeOK, [Next]_vars
  PROVE  \/ createOrUpdateMasternodeConf
         \/ conf'[Local] = conf[Local] /\ UNCHANGED <<backups, draft>>
<1>1. CASE copyMasterNodeConToRemote
  BY <1>1, HostAssumption, HotAssumption DEF copyMasterNodeConToRemote, TypeOK, ConfTypeOK
<1>2. \/ UNCHANGED confVars \/ createOrUpdateMasternodeConf \/ copyMasterNodeConToRemote
  BY TicketEffect DEF Next, vars, Begin, Step, Interrupted, ReturnsError, Prepare, StartServices, StartSupernode,
       FileStep, CreateYml, CopyYml, DeleteYml, ColdStep, StartCold, Answered, RestartCold,
       runStartAliasMasternode, PutColdBack, HotStep, LookAtHot, CannotSync, stopRemoteNode,
       startAndSyncRemoteNode, RunRemote, SecondAnswers, checkKeys, StopAfterKeys,
       runRemoteNodeAsMasterNode
<1> QED
  BY <1>1, <1>2 DEF confVars

\* The new file is written where the old one has been moved away.
LEMMA BackedUpKept ==
  ASSUME TypeOK, BackedUp, [Next]_vars PROVE BackedUp'
<1> SUFFICES ASSUME at' = "write" PROVE conf'[Local] = Missing
  BY DEF BackedUp
<1>1. CASE createOrUpdateMasternodeConf
  BY <1>1, HostAssumption
  DEF createOrUpdateMasternodeConf, Goto, Returns, backupMasterNodeConfFile, TypeOK, ConfTypeOK
<1>2. CASE ~createOrUpdateMasternodeConf
  <2>1. at = "write"
    BY <1>2, TicketEffect DEF TicketCalls, Next, vars, cmdVars, Begin, Step, Interrupted, ReturnsError, Prepare, StartServices,
         StartSupernode, FileStep, copyMasterNodeConToRemote, CreateYml, CopyYml, DeleteYml, ColdStep,
         StartCold, Answered, RestartCold, runStartAliasMasternode, PutColdBack, HotStep, LookAtHot,
         CannotSync, stopRemoteNode, startAndSyncRemoteNode, RunRemote, SecondAnswers, checkKeys,
         StopAfterKeys, runRemoteNodeAsMasterNode, Goto, AfterYml, Returns, AfterCopy, AfterMasternode,
         AfterRestart
  <2> QED
    BY <1>2, <2>1, OthersKeepConf DEF BackedUp
<1> QED
  BY <1>1, <1>2

LEMMA KeptStep ==
  ASSUME "same stamp" \notin Cases, TypeOK, BackedUp, [Next]_vars
  PROVE  Kept \subseteq Kept'
<1>0. conf \in [Host -> Content] /\ Local \in Host /\ backups \in [Stamp -> Content]
  BY HostAssumption DEF TypeOK, ConfTypeOK
<1>1. Kept' = Records(conf'[Local]) \cup UNION {Records(backups'[s]) : s \in Stamp}
  BY DEF Kept, Records, Readable
<1>2. CASE createOrUpdateMasternodeConf
  <2>1. CASE backupMasterNodeConfFile
    BY <2>1, BackupKeeps DEF TypeOK
  <2>2. CASE at = "write" /\ UNCHANGED backups
    <3>1. Records(conf[Local]) = {}
      BY <2>2 DEF BackedUp, Records, Readable
    <3> QED
      BY <1>1, <2>2, <3>1 DEF Kept
  <2>3. CASE UNCHANGED <<conf, backups>>
    BY <1>1, <2>3 DEF Kept
  <2> QED
    BY <1>2, <2>1, <2>2, <2>3
    DEF createOrUpdateMasternodeConf, Draft, WriteConf, WriteConfFails, Goto
<1>3. CASE conf'[Local] = conf[Local] /\ UNCHANGED backups
  BY <1>1, <1>3 DEF Kept
<1> QED
  BY <1>2, <1>3, OthersKeepConf

\* A step of the hosts starts on the hot one only what is on its way or is its unit's.
LEMMA HostUses ==
  ASSUME TypeOK, NEW h \in Host, HostStep(h)
  PROVE  \A r \in UsedOnHot' : r \in UsedOnHot \/ (\E g \in DOMAIN units : r = units[g])
<1> USE HotAssumption
<1>0. node \in [Host -> [is : Status, as : Role, sees : Content]]
      /\ starting \in [Host -> SUBSET Role] /\ managed \subseteq DOMAIN units
  BY DEF TypeOK, NodeTypeOK
<1>1. CASE UnitStarts(h)
  BY <1>0, <1>1 DEF UnitStarts, Boots, UsedOnHot
<1>2. ASSUME NEW r \in Role, PasteldStarts(h, r) PROVE UsedOnHot' \subseteq UsedOnHot
  BY <1>0, <1>2 DEF PasteldStarts, Boots, UsedOnHot
<1>3. CASE Loads(h) \/ Exits(h)
  BY <1>0, <1>3 DEF Loads, Exits, UsedOnHot
<1> QED
  BY <1>1, <1>2, <1>3 DEF HostStep

\* The command starts on the hot host a plain node, or one with a key it has found in
\* masternode.conf of the cold host.
LEMMA CommandUses ==
  ASSUME TypeOK, [Next]_vars, ~\E h \in Host : HostStep(h)
  PROVE  \A r \in UsedOnHot' : r \in UsedOnHot \/ r = Plain \/ Saved(r)
<1> USE HostAssumption, HotAssumption
<1>0. node \in [Host -> [is : Status, as : Role, sees : Content]]
      /\ starting \in [Host -> SUBSET Role]
  BY DEF TypeOK, NodeTypeOK
<1>1. ASSUME NEW r, NEW a, NEW b, RunRemote(r, a, b) PROVE UsedOnHot' \subseteq UsedOnHot \cup {r}
  BY <1>0, <1>1 DEF RunRemote, UsedOnHot
<1>2. ASSUME NEW a, NEW b, stopRemoteNode(a, b) PROVE UsedOnHot' \subseteq UsedOnHot
  BY <1>0, <1>2 DEF stopRemoteNode, UsedOnHot
<1>3. CASE runPastelNode(Local, Plain) \/ StopPastelDAndWait(Local)
  BY <1>0, <1>3 DEF runPastelNode, StartService, Launch, StopPastelDAndWait, UsedOnHot
<1>4. CASE UNCHANGED nodeVars
  BY <1>4 DEF nodeVars, UsedOnHot
<1>5. CASE runRemoteNodeAsMasterNode
  <2>1. PICK e \in getMasternodeConfData(cmd.flags.name, cmd.flags.ip) :
          RunRemote(e.key, "masternode", "wait masternode")
    BY <1>5 DEF runRemoteNodeAsMasterNode
  <2>2. PICK n \in DOMAIN conf[Local] : e = conf[Local][n] /\ Readable(conf[Local])
    BY DEF getMasternodeConfData
  <2>3. <<n, e>> \in Kept
    BY <2>2 DEF Kept, Records
  <2>4. Saved(e.key)
    BY <2>3 DEF Saved
  <2> QED
    BY <1>1, <2>1, <2>4
<1>6. \/ UNCHANGED nodeVars \/ runPastelNode(Local, Plain) \/ StopPastelDAndWait(Local)
      \/ (\E a, b : stopRemoteNode(a, b)) \/ (\E a, b : RunRemote(Plain, a, b))
      \/ runRemoteNodeAsMasterNode
  BY TicketEffect DEF Next, vars, Begin, Step, Interrupted, ReturnsError, Prepare, StartServices,
       StartSupernode, FileStep, createOrUpdateMasternodeConf, copyMasterNodeConToRemote, CreateYml,
       CopyYml, DeleteYml, ColdStep, StartCold, Answered, RestartCold, runStartAliasMasternode,
       PutColdBack, HotStep, LookAtHot, CannotSync, startAndSyncRemoteNode, SecondAnswers,
       checkKeys, StopAfterKeys
<1> QED
  BY <1>1, <1>2, <1>3, <1>4, <1>5, <1>6

\* A unit is what it was.
LEMMA UnitsKept == [Next]_vars => UNCHANGED units
BY TicketEffect DEF Next, vars, nodeVars, Begin, Step, Interrupted, ReturnsError, Prepare, StartServices,
       StartSupernode, FileStep, createOrUpdateMasternodeConf, copyMasterNodeConToRemote, CreateYml,
       CopyYml, DeleteYml, ColdStep, StartCold, Answered, RestartCold, runStartAliasMasternode,
       PutColdBack, HotStep, LookAtHot, CannotSync, startAndSyncRemoteNode, SecondAnswers,
       checkKeys, StopAfterKeys, runRemoteNodeAsMasterNode, RunRemote, stopRemoteNode,
       runPastelNode, StartService, Launch, StopPastelDAndWait,
       HostStep, UnitStarts, Loads, Exits, PasteldStarts

LEMMA KeyKept ==
  ASSUME "same stamp" \notin Cases, TypeOK, KeyInv, [Next]_vars PROVE KeyInv'
<1>1. BackedUp' /\ UnitsHarmless'
  BY BackedUpKept, UnitsKept DEF KeyInv, UnitsHarmless, Harmless
<1>2. \A r : Saved(r) => Saved(r)'
  BY KeptStep DEF Saved, KeyInv
<1>3. \A r \in UsedOnHot' : Harmless(r) \/ Saved(r)
  BY HostUses, CommandUses DEF KeyInv, KeyInUseIsKept, UnitsHarmless, UsedOnHot, Saved, Harmless
<1> QED
  BY <1>1, <1>2, <1>3 DEF KeyInv, KeyInUseIsKept, UsedOnHot, Saved, Harmless

\* However many masternodes init supernode coldhot makes and however it fails, a private
\* key the hot host runs with, or is about to, is not lost on the cold host -- if no two
\* backups get the same name.
THEOREM KeyInUseIsKeptAlways == "same stamp" \notin Cases => (Spec => []KeyInUseIsKept)
<1> SUFFICES ASSUME "same stamp" \notin Cases PROVE Spec => []KeyInUseIsKept
  OBVIOUS
<1>1. Init => TypeOK /\ KeyInv
  BY InitType, InitKey
<1>2. TypeOK /\ KeyInv /\ [Next]_vars => (TypeOK /\ KeyInv)'
  BY NextType, KeyKept
<1>3. KeyInv => KeyInUseIsKept
  BY DEF KeyInv
<1> QED
  BY <1>1, <1>2, <1>3, PTL DEF Spec

-----------------------------------------------------------------------------
(* The hot node.                                                             *)

Ordinary == Cases \cap {"loading", "yml"} = {}

BeforeKeys == {"init", "cold", "wait cold", "sync cold", "hot", "sync running", "stop unsynced",
               "sync hot", "keys", "stop hot"}
BeforeLaunch == {"draft", "backup", "write", "copy conf", "stop again", "masternode"}
YmlCalls == {"yml", "copy yml", "delete yml"}
AfterLaunch == {"sync masternode", "stop cold", "restart cold", "wait restarted",
                "sync restarted", "alias", "put back", "services", "supernode"}
                 \cup YmlCalls \cup TicketCalls

\* Until the node is started as a masternode no other process is on its way to the
\* lock, so that a stop that was answered has been obeyed; when it is started no node
\* is up.
QuietBefore ==
  /\ at \in BeforeKeys => Quiet(Hot) /\ node[Hot].is # "loading"
  /\ at = "start hot" => Quiet(Hot) /\ ~Up(Hot)
  /\ at = "wait hot" => starting[Hot] \subseteq {Plain} /\ (Up(Hot) => Quiet(Hot))
  /\ at \in BeforeLaunch => Quiet(Hot) /\ ~Up(Hot)
\* What comes up then is that process, and what answered was it.
OnlyTheMasternode ==
  /\ at = "wait masternode" => /\ starting[Hot] \subseteq {cmd.key}
                               /\ Up(Hot) => node[Hot].as = cmd.key /\ Quiet(Hot)
  /\ at \in AfterLaunch \/ result = "ok" =>
       Quiet(Hot) /\ node[Hot].is \notin {"off", "stopping"} /\ node[Hot].as = cmd.key
IdleWhenDone == result = "ok" => at = "idle"
NodeInv == QuietBefore /\ OnlyTheMasternode /\ IdleWhenDone

HasRecord(f) == cmd.flags.name \in DOMAIN f /\ f[cmd.flags.name] = newRecord

\* The record of the command is in the map, then in masternode.conf of the cold host,
\* then in that of the hot one.
RecordWritten ==
  /\ at \in {"backup", "write"} => HasRecord(draft)
  /\ at \in {"copy conf", "stop again", "masternode"} => HasRecord(conf[Local])
  /\ at \in {"wait masternode"} \cup AfterLaunch \/ result = "ok" =>
       Readable(conf[Local]) /\ HasRecord(conf[Local])
  /\ at \in {"stop again", "masternode", "wait masternode"} \cup AfterLaunch \/ result = "ok" =>
       conf[Hot] = With(EmptyFile, cmd.flags.name, newRecord)
\* The PastelID goes into supernode.yml of the hot host, then into hermes.yml.
IdWritten ==
  /\ at = "copy yml" => here[file] = cmd.id
  /\ at = "delete yml" => there[file] = cmd.id
  /\ at \in YmlCalls /\ file = "hermes.yml" => there["supernode.yml"] = cmd.id
  /\ at = "supernode" \/ result = "ok" => \A f \in Yml : there[f] = cmd.id
HotInv == Hot \notin managed => NodeInv

-----------------------------------------------------------------------------
\* No step of the hosts disturbs what is known of the node.
LEMMA HostKeepsNode ==
  ASSUME TypeOK, NodeInv, Hot \notin managed, NEW h \in Host, HostStep(h), UNCHANGED cmdVars
  PROVE  NodeInv'
<1>0. Effect(Hot)
  BY HotAssumption, HostEffect DEF TypeOK
<1>1. UNCHANGED <<at, cmd, result>>
  BY DEF cmdVars
<1>2. Quiet(Hot) /\ node[Hot].is # "loading" => Quiet(Hot)' /\ node'[Hot].is # "loading"
  BY <1>0 DEF Effect, Quiet, Up, Down
<1>3. Quiet(Hot) /\ ~Up(Hot) => Quiet(Hot)' /\ ~Up(Hot)'
  BY <1>0 DEF Effect, Quiet, Up, Down
<1>4. starting[Hot] \subseteq {Plain} /\ (Up(Hot) => Quiet(Hot))
      => starting'[Hot] \subseteq {Plain} /\ (Up(Hot)' => Quiet(Hot)')
  BY <1>0 DEF Effect, Quiet, Up, Down
<1>5. ASSUME starting[Hot] \subseteq {cmd.key}, Up(Hot) => node[Hot].as = cmd.key /\ Quiet(Hot)
      PROVE  starting'[Hot] \subseteq {cmd.key} /\ (Up(Hot)' => node'[Hot].as = cmd.key /\ Quiet(Hot)')
  BY <1>0, <1>5 DEF Effect, Quiet, Up, Down
<1>6. ASSUME Quiet(Hot), node[Hot].is \notin {"off", "stopping"}, node[Hot].as = cmd.key
      PROVE  Quiet(Hot)' /\ node'[Hot].is \notin {"off", "stopping"} /\ node'[Hot].as = cmd.key
  BY <1>0, <1>6 DEF Effect, Quiet, Up, Down
<1>7. QuietBefore'
  BY <1>1, <1>2, <1>3, <1>4 DEF NodeInv, QuietBefore
<1>8. OnlyTheMasternode' /\ IdleWhenDone'
  BY <1>1, <1>5, <1>6 DEF NodeInv, OnlyTheMasternode, IdleWhenDone
<1> QED
  BY <1>7, <1>8 DEF NodeInv

SameHot == starting'[Hot] = starting[Hot] /\ node'[Hot] = node[Hot]

\* A command that returns with an error, or is killed, leaves whatever is there.
LEMMA GivingUpKeeps ==
  ASSUME NodeInv, at' = "idle", result' # "ok", SameHot PROVE NodeInv'
BY DEF NodeInv, QuietBefore, OnlyTheMasternode, IdleWhenDone, BeforeKeys, BeforeLaunch,
       AfterLaunch, TicketCalls, YmlCalls

\* A call that leaves the hot node alone, between two calls of which the same is known.
LEMMA GoingOnKeeps ==
  ASSUME NodeInv, SameHot, UNCHANGED result, at # "idle",
         UNCHANGED cmd \/ at' \in BeforeKeys,
         \/ at \in BeforeKeys /\ at' \in BeforeKeys
         \/ at \in BeforeLaunch /\ at' \in BeforeLaunch
         \/ at \in AfterLaunch /\ at' \in AfterLaunch
  PROVE  NodeInv'
BY DEF NodeInv, QuietBefore, OnlyTheMasternode, IdleWhenDone, BeforeKeys, BeforeLaunch,
       AfterLaunch, TicketCalls, YmlCalls, SameHot, Quiet, Up

\* What is done on the cold host, or with files, leaves the hot node alone.
LEMMA ColdKeepsNode ==
  ASSUME TypeOK, NodeInv,
         ColdStep \/ FileStep \/ Prepare \/ StartServices \/ StartSupernode \/ ReturnsError
  PROVE  NodeInv'
<1> USE HostAssumption, HotAssumption
<1>1. SameHot
  <2>1. CASE runPastelNode(Local, Plain)
    BY <2>1 DEF runPastelNode, StartService, Launch, SameHot, TypeOK, NodeTypeOK
  <2>2. CASE StopPastelDAndWait(Local)
    BY <2>2 DEF StopPastelDAndWait, SameHot, TypeOK, NodeTypeOK
  <2>3. CASE UNCHANGED nodeVars
    BY <2>3 DEF nodeVars, SameHot
  <2> QED
    BY <2>1, <2>2, <2>3
    DEF ColdStep, StartCold, Answered, RestartCold, runStartAliasMasternode, PutColdBack, FileStep,
        createOrUpdateMasternodeConf, copyMasterNodeConToRemote, CreateYml, CopyYml, DeleteYml,
        Prepare, StartServices, StartSupernode, ReturnsError
<1>2. UNCHANGED cmd
  BY DEF ColdStep, StartCold, Answered, RestartCold, runStartAliasMasternode, PutColdBack, FileStep,
         createOrUpdateMasternodeConf, copyMasterNodeConToRemote, CreateYml, CopyYml, DeleteYml,
         Prepare, StartServices, StartSupernode, ReturnsError
<1>3. CASE StartSupernode
  BY <1>1, <1>2, <1>3
  DEF StartSupernode, Returns, NodeInv, QuietBefore, OnlyTheMasternode, IdleWhenDone, BeforeKeys,
      BeforeLaunch, AfterLaunch, TicketCalls, YmlCalls, SameHot, Quiet
<1>4. CASE Returns("error")
  BY <1>1, <1>4, GivingUpKeeps DEF Returns
<1>5. CASE ColdStep \/ Prepare
  <2>1. /\ UNCHANGED result /\ at # "idle"
        /\ \/ at \in BeforeKeys /\ at' \in BeforeKeys
           \/ at \in AfterLaunch /\ at' \in AfterLaunch
    BY <1>5
    DEF ColdStep, StartCold, Answered, RestartCold, runStartAliasMasternode, PutColdBack, Prepare,
        Goto, AfterRestart, BeforeKeys, AfterLaunch, TicketCalls, YmlCalls
  <2> QED
    BY <1>1, <1>2, <2>1, GoingOnKeeps
<1>6. CASE (FileStep \/ StartServices) /\ ~Returns("error")
  <2>1. /\ UNCHANGED result /\ at # "idle"
        /\ \/ at \in BeforeLaunch /\ at' \in BeforeLaunch
           \/ at \in AfterLaunch /\ at' \in AfterLaunch
    BY <1>6
    DEF FileStep, createOrUpdateMasternodeConf, copyMasterNodeConToRemote, CreateYml, CopyYml,
        DeleteYml, StartServices, Goto, AfterYml, AfterCopy, BeforeLaunch, AfterLaunch, TicketCalls, YmlCalls
  <2> QED
    BY <1>1, <1>2, <2>1, GoingOnKeeps
<1> QED
  BY <1>3, <1>4, <1>5, <1>6 DEF ReturnsError

\* The calls that look at the hot node, stop it and start it.
LEMMA HotKeepsNode ==
  ASSUME TypeOK, RecordWritten, NodeInv, HotStep PROVE NodeInv'
<1> USE HotAssumption
<1>0. /\ node \in [Host -> [is : Status, as : Role, sees : Content]]
      /\ starting \in [Host -> SUBSET Role]
      /\ UNCHANGED result
  BY DEF TypeOK, NodeTypeOK, HotStep, LookAtHot, CannotSync, Answered, stopRemoteNode,
         startAndSyncRemoteNode, RunRemote, SecondAnswers, checkKeys, StopAfterKeys,
         runRemoteNodeAsMasterNode, Goto
<1>1. ASSUME UNCHANGED nodeVars,
             \/ LookAtHot \/ CannotSync \/ Answered(Hot, "sync running", "keys")
             \/ Answered(Hot, "wait hot", "sync hot") \/ SecondAnswers
             \/ Answered(Hot, "sync hot", "keys") \/ checkKeys
      PROVE  NodeInv'
  <2>1. /\ at # "idle" /\ (UNCHANGED cmd \/ at' \in BeforeKeys)
        /\ \/ at \in BeforeKeys /\ at' \in BeforeKeys \cup {"start hot"}
           \/ at \in {"wait hot", "wait again"} /\ at' = "sync hot"
    BY <1>1 DEF LookAtHot, CannotSync, Answered, SecondAnswers, checkKeys, Goto, BeforeKeys
  <2>2. at' = "start hot" => node[Hot].is \notin {"ready"}
    BY <1>1 DEF LookAtHot, CannotSync, Answered, SecondAnswers, checkKeys, Goto, Answers
  <2>3. at' = "sync hot" => Quiet(Hot) /\ node[Hot].is = "ready"
    BY <1>1 DEF LookAtHot, CannotSync, Answered, SecondAnswers, checkKeys, Goto, Answers, NodeInv,
                QuietBefore, Up, Quiet
  <2>4. at' \in BeforeKeys => Quiet(Hot) /\ node[Hot].is # "loading"
    BY <2>1, <2>3 DEF NodeInv, QuietBefore
  <2>5. at' = "start hot" => Quiet(Hot) /\ ~Up(Hot)
    BY <2>1, <2>2 DEF NodeInv, QuietBefore, Up, BeforeKeys
  <2>6. QuietBefore'
    BY <1>1, <2>1, <2>4, <2>5 DEF QuietBefore, BeforeKeys, BeforeLaunch, Quiet, Up, nodeVars
  <2> QED
    BY <1>0, <2>1, <2>6
    DEF NodeInv, OnlyTheMasternode, IdleWhenDone, BeforeKeys, AfterLaunch, TicketCalls, YmlCalls
<1>2. ASSUME NEW a, NEW b, stopRemoteNode(a, b),
             \/ a = "stop unsynced" /\ b = "start hot"
             \/ a = "stop hot" /\ b = "draft"
             \/ a = "stop again" /\ b = "masternode"
      PROVE  NodeInv'
  <2>1. at = a /\ at' = b /\ UNCHANGED <<starting, cmd>>
    BY <1>2 DEF stopRemoteNode, Goto
  <2>2. Quiet(Hot) /\ node[Hot].is # "loading"
    BY <1>2, <2>1 DEF NodeInv, QuietBefore, BeforeKeys, BeforeLaunch, Up
  <2>3. ~Up(Hot)'
    BY <1>0, <1>2, <2>2 DEF stopRemoteNode, Answers, Up, Status
  <2>4. Quiet(Hot)'
    BY <2>1, <2>2 DEF Quiet
  <2> QED
    BY <1>0, <1>2, <2>1, <2>3, <2>4
    DEF NodeInv, QuietBefore, OnlyTheMasternode, IdleWhenDone, BeforeKeys, BeforeLaunch,
        AfterLaunch, TicketCalls, YmlCalls
<1>3. CASE startAndSyncRemoteNode
  <2>1. /\ UNCHANGED <<node, cmd>> /\ starting'[Hot] = starting[Hot] \cup {Plain}
        /\ \/ at = "start hot" /\ at' = "wait hot"
           \/ at = "wait hot" /\ at' = "wait again"
    BY <1>0, <1>3 DEF startAndSyncRemoteNode, RunRemote, Goto
  <2>2. at' = "wait hot" => starting'[Hot] \subseteq {Plain} /\ ~Up(Hot)'
    BY <2>1 DEF NodeInv, QuietBefore, Quiet, Up
  <2> QED
    BY <1>0, <2>1, <2>2
    DEF NodeInv, QuietBefore, OnlyTheMasternode, IdleWhenDone, BeforeKeys, BeforeLaunch,
        AfterLaunch, TicketCalls, YmlCalls
<1>4. CASE runRemoteNodeAsMasterNode
  <2>1. PICK e \in getMasternodeConfData(cmd.flags.name, cmd.flags.ip) :
          RunRemote(e.key, "masternode", "wait masternode")
    BY <1>4 DEF runRemoteNodeAsMasterNode
  <2>2. /\ UNCHANGED <<node, cmd>> /\ starting'[Hot] = starting[Hot] \cup {e.key}
        /\ at = "masternode" /\ at' = "wait masternode"
    BY <1>0, <2>1 DEF RunRemote, Goto
  <2>3. e.key = cmd.key
    <3>1. cmd.flags.name \in DOMAIN conf[Local] /\ conf[Local][cmd.flags.name] = newRecord
      BY <2>2 DEF RecordWritten, HasRecord
    <3>2. e = newRecord
      BY <2>1, <3>1 DEF getMasternodeConfData
    <3> QED
      BY <3>2 DEF newRecord
  <2>4. starting'[Hot] \subseteq {cmd.key} /\ ~Up(Hot)'
    BY <2>2, <2>3 DEF NodeInv, QuietBefore, BeforeLaunch, Quiet, Up
  <2> QED
    BY <1>0, <2>2, <2>4
    DEF NodeInv, QuietBefore, OnlyTheMasternode, IdleWhenDone, BeforeKeys, BeforeLaunch,
        AfterLaunch, TicketCalls, YmlCalls
<1>5. CASE \/ Answered(Hot, "wait masternode", "sync masternode")
           \/ Answered(Hot, "sync masternode", AfterMasternode)
  <2>1. /\ UNCHANGED <<nodeVars, cmd>> /\ at' \in AfterLaunch /\ at # "idle"
        /\ node[Hot].is = "ready"
        /\ at \in {"wait masternode", "sync masternode"}
    BY <1>5 DEF Answered, Answers, Goto, AfterMasternode, AfterLaunch
  <2>2. Quiet(Hot) /\ node[Hot].as = cmd.key
    BY <2>1 DEF NodeInv, OnlyTheMasternode, Up, AfterLaunch
  <2> QED
    BY <1>0, <2>1, <2>2
    DEF NodeInv, QuietBefore, OnlyTheMasternode, IdleWhenDone, BeforeKeys, BeforeLaunch,
        AfterLaunch, TicketCalls, YmlCalls, nodeVars, Quiet
<1>6. StopAfterKeys => stopRemoteNode("stop hot", "draft")
  BY DEF StopAfterKeys
<1>7. (LookAtHot \/ CannotSync \/ SecondAnswers \/ checkKeys \/ \E a, b : Answered(Hot, a, b))
      => UNCHANGED nodeVars
  BY DEF LookAtHot, CannotSync, SecondAnswers, checkKeys, Answered
<1> QED
  BY <1>1, <1>2, <1>3, <1>4, <1>5, <1>6, <1>7 DEF HotStep

-----------------------------------------------------------------------------
(* The files.                                                                *)

Written == {"copy conf", "stop again", "masternode"}
Launched == {"wait masternode"} \cup AfterLaunch

\* A call that leaves the files and the command alone, and comes from where the same
\* was known.
LEMMA FilesUntouched ==
  ASSUME RecordWritten, UNCHANGED <<conf, draft, cmd>>,
         at' \in {"backup", "write"} => at \in {"backup", "write"},
         at' \in Written => at \in Written,
         at' \in {"stop again", "masternode"} => at \in {"stop again", "masternode"},
         at' \in Launched \/ result' = "ok" => at \in Launched \/ result = "ok"
  PROVE  RecordWritten'
BY DEF RecordWritten, HasRecord, newRecord, Written, Launched, Readable

LEMMA ConfKeepsRecord ==
  ASSUME TypeOK, RecordWritten, IdleWhenDone, createOrUpdateMasternodeConf PROVE RecordWritten'
<1> USE HostAssumption, HotAssumption
<1>0. conf \in [Host -> Content] /\ UNCHANGED cmd
  BY DEF TypeOK, ConfTypeOK, createOrUpdateMasternodeConf
<1>1. CASE Draft(~cmd.flags.new, cmd.flags.name, newRecord) /\ Goto("draft", "backup")
  <2>1. HasRecord(draft')
    BY <1>1 DEF Draft, With, HasRecord
  <2>2. HasRecord(draft)'
    BY <1>0, <2>1 DEF HasRecord, newRecord
  <2>3. at' = "backup" /\ result' # "ok"
    BY <1>1 DEF Goto, IdleWhenDone
  <2> QED
    BY <2>2, <2>3 DEF RecordWritten, AfterLaunch, TicketCalls, YmlCalls
<1>2. CASE backupMasterNodeConfFile /\ Goto("backup", "write")
  <2>1. HasRecord(draft)'
    BY <1>0, <1>2 DEF backupMasterNodeConfFile, Goto, RecordWritten, HasRecord, newRecord
  <2>2. at' = "write" /\ result' # "ok"
    BY <1>2 DEF Goto, IdleWhenDone
  <2> QED
    BY <2>1, <2>2 DEF RecordWritten, AfterLaunch, TicketCalls, YmlCalls
<1>3. CASE WriteConf /\ Goto("write", "copy conf")
  <2>1. conf'[Local] = draft /\ HasRecord(draft)
    BY <1>0, <1>3 DEF WriteConf, Goto, RecordWritten
  <2>2. HasRecord(conf[Local])'
    BY <1>0, <2>1 DEF HasRecord, newRecord
  <2>3. at' = "copy conf" /\ result' # "ok"
    BY <1>3 DEF Goto, IdleWhenDone
  <2> QED
    BY <2>2, <2>3 DEF RecordWritten, AfterLaunch, TicketCalls, YmlCalls
<1>4. CASE Returns("error")
  BY <1>4 DEF Returns, RecordWritten, AfterLaunch, TicketCalls, YmlCalls
<1> QED
  BY <1>1, <1>2, <1>3, <1>4 DEF createOrUpdateMasternodeConf

LEMMA CopyKeepsRecord ==
  ASSUME TypeOK, RecordWritten, IdleWhenDone, copyMasterNodeConToRemote PROVE RecordWritten'
<1> USE HostAssumption, HotAssumption
<1>0. conf \in [Host -> Content] /\ UNCHANGED <<cmd, draft>>
  BY DEF TypeOK, ConfTypeOK, copyMasterNodeConToRemote
<1>1. CASE Returns("error")
  BY <1>1 DEF Returns, RecordWritten, AfterLaunch, TicketCalls, YmlCalls
<1>2. CASE ~Returns("error")
  <2>1. /\ conf' = [conf EXCEPT ![Hot] = With(EmptyFile, cmd.flags.name, newRecord)]
        /\ at = "copy conf" /\ at' \in {"stop again", "masternode"} /\ result' # "ok"
    BY <1>2 DEF copyMasterNodeConToRemote, Goto, AfterCopy, IdleWhenDone
  <2>2. conf'[Hot] = With(EmptyFile, cmd.flags.name, newRecord) /\ conf'[Local] = conf[Local]
    BY <1>0, <2>1
  <2>3. conf'[Hot] = With(EmptyFile, cmd.flags.name, newRecord)'
    BY <1>0, <2>2 DEF newRecord, With, EmptyFile
  <2>4. HasRecord(conf[Local])'
    BY <1>0, <2>1, <2>2 DEF RecordWritten, HasRecord, newRecord
  <2> QED
    BY <2>1, <2>3, <2>4 DEF RecordWritten, AfterLaunch, TicketCalls, YmlCalls
<1> QED
  BY <1>1, <1>2

LEMMA RecordKept ==
  ASSUME TypeOK, RecordWritten, IdleWhenDone, [Next]_vars PROVE RecordWritten'
<1>1. ASSUME NEW c \in Commands, Begin(c) PROVE RecordWritten'
  BY <1>1 DEF Begin, RecordWritten, AfterLaunch, TicketCalls, YmlCalls
<1>2. CASE checkKeys
  BY <1>2 DEF checkKeys, Goto, RecordWritten, AfterLaunch, TicketCalls, YmlCalls, IdleWhenDone
<1>3. CASE runRemoteNodeAsMasterNode
  <2>1. Readable(conf[Local])
    BY <1>3 DEF runRemoteNodeAsMasterNode, getMasternodeConfData
  <2>2. /\ UNCHANGED <<confVars, cmd>> /\ at = "masternode" /\ at' = "wait masternode"
    BY <1>3 DEF runRemoteNodeAsMasterNode, RunRemote, Goto
  <2>3. HasRecord(conf[Local]) /\ conf[Hot] = With(EmptyFile, cmd.flags.name, newRecord)
    BY <2>2 DEF RecordWritten
  <2> QED
    BY <2>1, <2>2, <2>3 DEF RecordWritten, HasRecord, newRecord, confVars, Readable, With, EmptyFile
<1>4. CASE ColdStep \/ (HotStep /\ ~checkKeys /\ ~runRemoteNodeAsMasterNode)
           \/ Prepare \/ StartServices \/ StartSupernode \/ ReturnsError \/ Interrupted
           \/ CreateYml \/ CopyYml \/ DeleteYml
  <2>1. UNCHANGED <<confVars, cmd>>
    BY <1>4
    DEF ColdStep, StartCold, Answered, RestartCold, runStartAliasMasternode, PutColdBack, HotStep,
        LookAtHot, CannotSync, stopRemoteNode, startAndSyncRemoteNode, RunRemote, SecondAnswers,
        StopAfterKeys, Prepare, StartServices, StartSupernode, ReturnsError, Interrupted, CreateYml,
        CopyYml, DeleteYml
  <2>2. \/ at \in BeforeKeys /\ at' \in BeforeKeys \cup {"start hot", "draft"} /\ UNCHANGED result
        \/ at \in {"start hot", "wait hot", "wait again"} /\ UNCHANGED result
           /\ at' \in {"wait hot", "wait again", "sync hot"}
        \/ at = "stop again" /\ at' = "masternode" /\ UNCHANGED result
        \/ at \in Launched /\ at' \in AfterLaunch /\ UNCHANGED result
        \/ at \in AfterLaunch /\ at' = "idle"
        \/ at' = "idle" /\ result' # "ok"
    BY <1>4
    DEF ColdStep, StartCold, Answered, RestartCold, runStartAliasMasternode, PutColdBack, HotStep,
        LookAtHot, CannotSync, stopRemoteNode, startAndSyncRemoteNode, RunRemote, SecondAnswers,
        StopAfterKeys, Prepare, StartServices, StartSupernode, ReturnsError, Interrupted, CreateYml,
        CopyYml, DeleteYml, Goto, AfterYml, Returns, BeforeKeys, AfterLaunch, TicketCalls, YmlCalls, Launched,
        AfterMasternode, AfterRestart
  <2> QED
    BY <2>1, <2>2, FilesUntouched
    DEF BeforeKeys, AfterLaunch, TicketCalls, YmlCalls, Launched, Written, confVars, IdleWhenDone
<1>5. CASE UNCHANGED <<confVars, cmdVars>>
  BY <1>5, FilesUntouched DEF confVars, cmdVars
<1>6. CASE TicketStep
  BY <1>6, TicketEffect, FilesUntouched DEF AfterLaunch, TicketCalls, Launched, Written, confVars, IdleWhenDone
<1> QED
  BY <1>1, <1>2, <1>3, <1>4, <1>5, <1>6, ConfKeepsRecord, CopyKeepsRecord DEF Next, Step, FileStep, vars

\* With no failed write of supernode.yml what is copied to the hot host has the PastelID.
LEMMA IdKept ==
  ASSUME Ordinary, TypeOK, IdWritten, IdleWhenDone, [Next]_vars PROVE IdWritten'
<1>0. /\ here \in [Yml -> YmlFile] /\ there \in [Yml -> YmlFile] /\ file \in Yml
      /\ Yml = {"supernode.yml", "hermes.yml"}
  BY DEF TypeOK, Yml
<1>1. CASE at' \notin YmlCalls \cup {"supernode"} /\ result' # "ok"
  BY <1>1 DEF IdWritten, YmlCalls
<1>2. CASE CreateYml
  <2>1. CASE Returns("error")
    BY <1>1, <2>1 DEF Returns, YmlCalls
  <2>2. CASE ~Returns("error")
    <3>1. /\ here' = [here EXCEPT ![file] = cmd.id] /\ at = "yml" /\ at' = "copy yml"
          /\ UNCHANGED <<cmd, file, there, result>>
      BY <1>2, <2>2 DEF CreateYml, Goto, AfterYml, Ordinary
    <3> QED
      BY <1>0, <3>1 DEF IdWritten, YmlCalls, IdleWhenDone
  <2> QED
    BY <2>1, <2>2
<1>3. CASE CopyYml
  <2>1. CASE Returns("error")
    BY <1>1, <2>1 DEF Returns, YmlCalls
  <2>2. CASE ~Returns("error")
    <3>1. /\ there' = [there EXCEPT ![file] = here[file]] /\ at = "copy yml" /\ at' = "delete yml"
          /\ UNCHANGED <<cmd, file, here, result>>
      BY <1>3, <2>2 DEF CopyYml, Goto
    <3> QED
      BY <1>0, <3>1 DEF IdWritten, YmlCalls, IdleWhenDone
  <2> QED
    BY <2>1, <2>2
<1>4. CASE DeleteYml
  <2>1. /\ UNCHANGED <<cmd, there, result>> /\ at = "delete yml" /\ file' = "hermes.yml"
        /\ at' = IF file = "hermes.yml" THEN "supernode" ELSE "yml"
    BY <1>4 DEF DeleteYml, Goto, AfterYml
  <2>2. there[file] = cmd.id /\ (file = "hermes.yml" => there["supernode.yml"] = cmd.id)
    BY <2>1 DEF IdWritten, YmlCalls
  <2>3. there["supernode.yml"] = cmd.id /\ (at' = "supernode" => \A f \in Yml : there[f] = cmd.id)
    BY <1>0, <2>1, <2>2
  <2>4. result' # "ok"
    BY <2>1 DEF IdleWhenDone
  <2> QED
    BY <2>1, <2>3, <2>4 DEF IdWritten
<1>5. CASE StartServices
  <2>1. at = "services" /\ at' = "yml" /\ file' = "supernode.yml" /\ UNCHANGED result
    BY <1>5 DEF StartServices, Goto
  <2>2. result' # "ok"
    BY <2>1 DEF IdleWhenDone
  <2> QED
    BY <2>1, <2>2 DEF IdWritten
<1>6. CASE StartSupernode
  <2>1. at = "supernode" /\ at' = "idle" /\ UNCHANGED <<cmd, there>>
    BY <1>6 DEF StartSupernode, Returns, localVars
  <2> QED
    BY <2>1 DEF IdWritten, YmlCalls
<1>7. CASE UNCHANGED cmdVars
  BY <1>7 DEF cmdVars, localVars, IdWritten
<1>9. CASE TicketStep
  <2>1. at' \notin YmlCalls \cup {"supernode"} /\ result' # "ok"
    BY <1>9, TicketEffect DEF TicketCalls, YmlCalls, IdleWhenDone
  <2> QED
    BY <1>1, <2>1
<1>8. CASE \/ ColdStep \/ HotStep \/ Prepare \/ ReturnsError \/ Interrupted
           \/ createOrUpdateMasternodeConf \/ copyMasterNodeConToRemote
           \/ \E c \in Commands : Begin(c)
  <2>1. at' \notin YmlCalls \cup {"supernode"}
    BY <1>8
    DEF ColdStep, StartCold, Answered, RestartCold, runStartAliasMasternode, PutColdBack, HotStep,
        LookAtHot, CannotSync, stopRemoteNode, startAndSyncRemoteNode, RunRemote, SecondAnswers,
        StopAfterKeys, checkKeys, runRemoteNodeAsMasterNode, Prepare, ReturnsError, Interrupted,
        createOrUpdateMasternodeConf, copyMasterNodeConToRemote, Begin, Goto, Returns, YmlCalls,
        AfterMasternode, AfterRestart, AfterCopy
  <2>2. result' # "ok"
    BY <1>8
    DEF ColdStep, StartCold, Answered, RestartCold, runStartAliasMasternode, PutColdBack, HotStep,
        LookAtHot, CannotSync, stopRemoteNode, startAndSyncRemoteNode, RunRemote, SecondAnswers,
        StopAfterKeys, checkKeys, runRemoteNodeAsMasterNode, Prepare, ReturnsError, Interrupted,
        createOrUpdateMasternodeConf, copyMasterNodeConToRemote, Begin, Goto, Returns, IdleWhenDone
  <2> QED
    BY <1>1, <2>1, <2>2
<1> QED
  BY <1>2, <1>3, <1>4, <1>5, <1>6, <1>7, <1>8, <1>9 DEF Next, Step, FileStep, vars

\* A command is begun when no process is on its way to the lock and no node loads.
LEMMA BeginKeepsNode ==
  ASSUME "loading" \notin Cases, NEW c \in Commands, Begin(c) PROVE NodeInv'
BY HotAssumption
DEF Begin, NodeInv, QuietBefore, OnlyTheMasternode, IdleWhenDone, BeforeKeys,
    BeforeLaunch, AfterLaunch, TicketCalls, YmlCalls, Quiet, nodeVars

\* Of the hosts only the cold one has a service that the command starts.
LEMMA HotManagedKept == [Next]_vars => (Hot \in managed <=> Hot \in managed')
BY HotAssumption, TicketEffect
DEF Next, vars, nodeVars, Begin, Step, Interrupted, ReturnsError, Prepare, StartServices,
    StartSupernode, FileStep, createOrUpdateMasternodeConf, copyMasterNodeConToRemote, CreateYml,
    CopyYml, DeleteYml, ColdStep, StartCold, Answered, RestartCold, runStartAliasMasternode,
    PutColdBack, HotStep, LookAtHot, CannotSync, startAndSyncRemoteNode, SecondAnswers,
    checkKeys, StopAfterKeys, runRemoteNodeAsMasterNode, RunRemote, stopRemoteNode,
    runPastelNode, StartService, Launch, StopPastelDAndWait,
    HostStep, UnitStarts, Loads, Exits, PasteldStarts

HotAlone == IdleWhenDone /\ RecordWritten /\ HotInv
IInv == HotAlone /\ IdWritten

\* A command returns before another one begins.
LEMMA IdleKept == TypeOK /\ IdleWhenDone /\ [Next]_vars => IdleWhenDone'
<1> SUFFICES ASSUME IdleWhenDone, [Next]_vars, result' = "ok" PROVE at' = "idle"
  BY DEF IdleWhenDone
<1> QED
  BY TicketEffect
  DEF Next, vars, cmdVars, Begin, Step, Interrupted, ReturnsError, Prepare, StartServices,
    StartSupernode, FileStep, createOrUpdateMasternodeConf, copyMasterNodeConToRemote, CreateYml,
    TicketCalls, CopyYml, DeleteYml, ColdStep, StartCold, Answered, RestartCold, runStartAliasMasternode,
    PutColdBack, HotStep, LookAtHot, CannotSync, startAndSyncRemoteNode, SecondAnswers,
    checkKeys, StopAfterKeys, runRemoteNodeAsMasterNode, RunRemote, stopRemoteNode, Goto, AfterYml, Returns,
    IdleWhenDone

LEMMA NextKeepsHot == "loading" \notin Cases /\ TypeOK /\ HotAlone /\ [Next]_vars => HotAlone'
<1> SUFFICES ASSUME "loading" \notin Cases, TypeOK, HotAlone, [Next]_vars PROVE HotAlone'
  OBVIOUS
<1>1. IdleWhenDone' /\ RecordWritten'
  BY IdleKept, RecordKept DEF HotAlone
<1>2. ASSUME Hot \notin managed' PROVE NodeInv'
  <2>1. NodeInv /\ RecordWritten /\ Hot \notin managed
    BY <1>2, HotManagedKept DEF HotAlone, HotInv
  <2>2. CASE Interrupted
    BY <2>1, <2>2, GivingUpKeeps DEF Interrupted, Returns, nodeVars, SameHot
  <2>3. CASE UNCHANGED vars
    BY <2>1, <2>3
    DEF vars, cmdVars, nodeVars, NodeInv, QuietBefore, OnlyTheMasternode, IdleWhenDone, Quiet, Up
  <2>4. CASE TicketStep
    BY <2>1, <2>4, TicketEffect, GoingOnKeeps
    DEF nodeVars, SameHot, AfterLaunch, TicketCalls, NodeInv, IdleWhenDone
  <2> QED
    BY <2>1, <2>2, <2>3, <2>4, BeginKeepsNode, ColdKeepsNode, HotKeepsNode, HostKeepsNode DEF Next, Step
<1> QED
  BY <1>1, <1>2 DEF HotAlone, HotInv

LEMMA NextKeeps == Ordinary /\ TypeOK /\ IInv /\ [Next]_vars => IInv'
BY NextKeepsHot, IdKept DEF IInv, HotAlone, Ordinary

LEMMA InitInv == Init => IInv
BY DEF Init, IInv, HotAlone, IdleWhenDone, RecordWritten, IdWritten, HotInv, NodeInv, QuietBefore,
       OnlyTheMasternode, BeforeKeys, BeforeLaunch, AfterLaunch, TicketCalls, YmlCalls

\* However a command gets through -- with or without a node on either host, after one
\* that failed or was interrupted at any call, whatever crashes -- when it returns
\* without an error the hot host, unless a service keeps a node there, has a masternode
\* with the key and the files of its record.  It takes that no host has a loading node
\* when a command begins, and that supernode.yml and hermes.yml, where they are left
\* from an earlier command, can be written over.
THEOREM HotIsMasternodeAlways == Ordinary => (Spec => []HotIsMasternode)
<1> SUFFICES ASSUME Ordinary PROVE Spec => []HotIsMasternode
  OBVIOUS
<1>1. TypeOK /\ IInv => HotIsMasternode
  <2> SUFFICES ASSUME TypeOK, IInv, result = "ok", Hot \notin managed
               PROVE  \E e \in getMasternodeConfData(cmd.flags.name, cmd.flags.ip) :
                        /\ node[Hot].as = e.key /\ node[Hot].is \notin {"off", "stopping"}
                        /\ conf[Hot] = With(EmptyFile, cmd.flags.name, e)
                        /\ \A f \in Yml : there[f] = e.id
    BY DEF HotIsMasternode
  <2>1. /\ Readable(conf[Local]) /\ HasRecord(conf[Local])
        /\ conf[Hot] = With(EmptyFile, cmd.flags.name, newRecord)
    BY DEF IInv, HotAlone, RecordWritten
  <2>2. newRecord \in getMasternodeConfData(cmd.flags.name, cmd.flags.ip)
    BY <2>1 DEF HasRecord, getMasternodeConfData
  <2>3. node[Hot].as = newRecord.key /\ node[Hot].is \notin {"off", "stopping"}
    BY DEF IInv, HotAlone, HotInv, NodeInv, OnlyTheMasternode, newRecord
  <2>4. \A f \in Yml : there[f] = newRecord.id
    BY DEF IInv, IdWritten, newRecord
  <2> QED
    BY <2>1, <2>2, <2>3, <2>4
<1>2. Init => TypeOK /\ IInv
  BY InitType, InitInv
<1>3. TypeOK /\ IInv /\ [Next]_vars => (TypeOK /\ IInv)'
  BY NextType, NextKeeps
<1> QED
  BY <1>1, <1>2, <1>3, PTL DEF Spec

-----------------------------------------------------------------------------
(* The cold node.                                                            *)

BeforeCold == {"init", "cold"}
ColdStarts == {"wait cold", "wait restarted"}
ColdDone == {"services", "supernode"} \cup YmlCalls
ColdUp == {"sync cold", "hot", "sync running", "stop unsynced", "start hot", "wait hot",
           "wait again", "sync hot", "keys", "stop hot", "wait masternode", "sync masternode",
           "stop cold", "sync restarted", "alias", "put back"} \cup BeforeLaunch \cup TicketCalls
ColdReads == {"restart cold", "wait restarted", "sync restarted", "alias"}

\* What the command has seen of the cold node is what there was.
ColdFound ==
  /\ at \in BeforeCold => ~seen.cold
  /\ at \notin {"idle"} \cup BeforeCold \/ result = "ok" => (wasUp <=> seen.cold)
\* No process is on its way to the lock but the one the command waits for; a node that
\* has answered goes on, unless it crashes, until it is stopped.
ColdKnown ==
  /\ at \in BeforeCold => Quiet(Local) /\ node[Local].is # "loading"
  /\ at \in ColdStarts => starting[Local] \subseteq {Plain} /\ (Up(Local) => Quiet(Local))
  /\ at \in ColdUp => Quiet(Local) /\ node[Local].is \in {"ready", "crashed"}
  /\ at = "restart cold" => Quiet(Local) /\ node[Local].is \in {"stopping", "off"}
ColdLeft ==
  at \in ColdDone \/ result = "ok" =>
    Quiet(Local) /\ node[Local].is \in IF seen.cold THEN {"ready", "crashed"} ELSE {"stopping", "off"}
\* Once it was stopped the node can only come up with the masternode.conf written before.
ColdHasRead == at \in ColdReads => SeesConf(Local)

ColdInv == ColdFound /\ ColdKnown /\ ColdLeft /\ ColdHasRead
SameCold == starting'[Local] = starting[Local] /\ node'[Local] = node[Local]
SameFound == UNCHANGED wasUp /\ seen'.cold = seen.cold

\* No step of the hosts disturbs what is known of the cold node.
LEMMA HostKeepsCold ==
  ASSUME TypeOK, ColdInv, Local \notin managed, NEW h \in Host, HostStep(h),
         UNCHANGED <<confVars, cmdVars>>
  PROVE  ColdInv'
<1>0. Effect(Local)
  BY HostAssumption, HostEffect DEF TypeOK
<1>1. UNCHANGED <<at, seen, wasUp, result, conf>>
  BY DEF cmdVars, confVars
<1>2. Quiet(Local) /\ node[Local].is # "loading" => Quiet(Local)' /\ node'[Local].is # "loading"
  BY <1>0 DEF Effect, Quiet, Up, Down
<1>3. starting[Local] \subseteq {Plain} /\ (Up(Local) => Quiet(Local))
      => starting'[Local] \subseteq {Plain} /\ (Up(Local)' => Quiet(Local)')
  BY <1>0 DEF Effect, Quiet, Up, Down
<1>4. Quiet(Local) /\ node[Local].is \in {"ready", "crashed"}
      => Quiet(Local)' /\ node'[Local].is \in {"ready", "crashed"}
  BY <1>0 DEF Effect, Quiet, Up, Down
<1>5. Quiet(Local) /\ node[Local].is \in {"stopping", "off"}
      => Quiet(Local)' /\ node'[Local].is \in {"stopping", "off"}
  BY <1>0 DEF Effect, Quiet, Up, Down
<1>6. ColdFound'
  BY <1>1 DEF ColdInv, ColdFound
<1>7. ColdKnown'
  BY <1>1, <1>2, <1>3, <1>4, <1>5 DEF ColdInv, ColdKnown
<1>8. ColdLeft'
  BY <1>1, <1>4, <1>5 DEF ColdInv, ColdLeft
<1>9. ColdHasRead'
  BY <1>1, HostSees, HostAssumption DEF ColdInv, ColdHasRead, TypeOK
<1> QED
  BY <1>6, <1>7, <1>8, <1>9 DEF ColdInv

\* A command that returns with an error, or is killed, leaves whatever is there.
LEMMA GivingUpKeepsCold ==
  ASSUME ColdInv, at' = "idle", result' # "ok" PROVE ColdInv'
BY DEF ColdInv, ColdFound, ColdKnown, ColdLeft, ColdHasRead, BeforeCold, ColdStarts, ColdUp,
       ColdDone, ColdReads, YmlCalls, BeforeLaunch, TicketCalls

\* A call that leaves the cold node alone, between two calls of which the same is known.
LEMMA GoingOnKeepsCold ==
  ASSUME ColdInv, IdleWhenDone, SameCold, SameFound, UNCHANGED result, at # "idle",
         \/ at \in BeforeCold /\ at' \in BeforeCold
         \/ at \in ColdUp /\ at' \in ColdUp
         \/ at \in ColdDone /\ at' \in ColdDone,
         at' \in ColdReads => at \in ColdReads /\ conf'[Local] = conf[Local]
  PROVE  ColdInv'
<1>1. result' # "ok"
  BY DEF IdleWhenDone
<1>2. ColdFound'
  <2>1. CASE at \in BeforeCold /\ at' \in BeforeCold
    BY <1>1, <2>1 DEF ColdInv, ColdFound, SameFound, BeforeCold
  <2>2. CASE at \notin {"idle"} \cup BeforeCold /\ at' \notin BeforeCold
    <3>1. wasUp <=> seen.cold
      BY <2>2 DEF ColdInv, ColdFound
    <3>2. (wasUp <=> seen.cold)'
      BY <3>1, Zenon DEF SameFound
    <3> QED
      BY <2>2, <3>2 DEF ColdFound
  <2> QED
    BY <2>1, <2>2 DEF BeforeCold, ColdUp, ColdDone, YmlCalls, BeforeLaunch, TicketCalls
<1>3. Quiet(Local) => Quiet(Local)'
  BY DEF SameCold, Quiet
<1>4. ColdKnown'
  BY <1>3 DEF ColdInv, ColdKnown, SameCold, BeforeCold, ColdStarts, ColdUp, ColdDone, YmlCalls,
              BeforeLaunch, TicketCalls
<1>5. ColdLeft'
  <2>1. CASE at' \in ColdDone
    <3>1. at \in ColdDone
      BY <2>1 DEF BeforeCold, ColdUp, ColdDone, YmlCalls, BeforeLaunch, TicketCalls
    <3>2. seen'.cold = seen.cold
      BY DEF SameFound
    <3> QED
      BY <1>3, <3>1, <3>2 DEF ColdInv, ColdLeft, SameCold
  <2> QED
    BY <1>1, <2>1 DEF ColdLeft
<1>6. ColdHasRead'
  BY DEF ColdInv, ColdHasRead, SameCold, SeesConf, Up
<1> QED
  BY <1>2, <1>4, <1>5, <1>6 DEF ColdInv

\* A call of which the state of the cold node after it is known.
LEMMA NewlyKnown ==
  ASSUME TypeOK, ColdInv, IdleWhenDone, SameFound, UNCHANGED result,
         at \notin {"idle"} \cup BeforeCold, at' \notin {"idle"} \cup BeforeCold,
         ColdKnown', ColdLeft', ColdHasRead'
  PROVE  ColdInv'
<1>1. wasUp <=> seen.cold
  BY DEF ColdInv, ColdFound
<1>2. (wasUp <=> seen.cold)'
  BY <1>1, Zenon DEF SameFound
<1> QED
  BY <1>2 DEF ColdInv, ColdFound

\* The first call looks at the cold node, and starts one when none answers.
LEMMA StartColdKeeps ==
  ASSUME TypeOK, ColdInv, IdleWhenDone, Local \notin managed', StartCold PROVE ColdInv'
<1> USE HostAssumption
<1>0. /\ node \in [Host -> [is : Status, as : Role, sees : Content]]
      /\ starting \in [Host -> SUBSET Role] /\ seen \in [cold : BOOLEAN, hot : BOOLEAN]
  BY DEF TypeOK, NodeTypeOK
<1>1. at = "cold" /\ UNCHANGED result
  BY DEF StartCold, Goto
<1>2. Quiet(Local) /\ node[Local].is # "loading" /\ ~seen.cold
  BY <1>1 DEF ColdInv, ColdKnown, ColdFound, BeforeCold
<1>3. result' # "ok"
  BY <1>1 DEF IdleWhenDone
<1>4. wasUp' <=> Answers(Local)
  <2>1. wasUp' = (node[Local].is \in {"loading", "ready"})
    BY Zenon DEF StartCold
  <2>2. node[Local].is \in {"loading", "ready"} <=> node[Local].is = "ready"
    BY <1>2
  <2> QED
    BY <2>1, <2>2, Zenon DEF Answers
<1>5. CASE Answers(Local)
  <2>1. at' = "sync cold" /\ seen' = [seen EXCEPT !.cold = TRUE] /\ UNCHANGED nodeVars
    BY <1>5 DEF StartCold, Goto
  <2>2. seen'.cold
    BY <1>0, <2>1
  <2>3. (wasUp <=> seen.cold)'
    BY <1>4, <1>5, <2>2, Zenon
  <2>4. ColdFound'
    BY <2>1, <2>3 DEF ColdFound, BeforeCold
  <2>5. Quiet(Local)' /\ node'[Local].is = "ready"
    BY <1>2, <1>5, <2>1 DEF nodeVars, Quiet, Answers
  <2> QED
    BY <1>3, <2>1, <2>4, <2>5
    DEF ColdInv, ColdKnown, ColdLeft, ColdHasRead, BeforeCold, ColdStarts, ColdDone, ColdReads,
        YmlCalls
<1>6. CASE ~Answers(Local)
  <2>1. at' = "wait cold" /\ runPastelNode(Local, Plain) /\ UNCHANGED seen
    BY <1>6 DEF StartCold, Goto
  <2>2. Launch(Local, Plain)
    BY <2>1 DEF runPastelNode, StartService
  <2>3. ~seen'.cold
    BY <1>2, <2>1
  <2>4. (wasUp <=> seen.cold)'
    BY <1>4, <1>6, <2>3, Zenon
  <2>5. ColdFound'
    BY <2>1, <2>4 DEF ColdFound, BeforeCold
  <2>6. starting'[Local] = {Plain} /\ ~Up(Local)'
    BY <1>0, <1>2, <1>6, <2>2 DEF Launch, Quiet, Up, Answers
  <2> QED
    BY <1>3, <2>1, <2>5, <2>6
    DEF ColdInv, ColdKnown, ColdLeft, ColdHasRead, BeforeCold, ColdStarts, ColdDone, ColdReads, ColdUp,
        YmlCalls, BeforeLaunch, TicketCalls
<1> QED
  BY <1>5, <1>6

\* The calls that wait for the cold node, stop it and start it again.
LEMMA ColdStepKeeps ==
  ASSUME TypeOK, ColdInv, IdleWhenDone, Local \notin managed', ColdStep PROVE ColdInv'
<1> USE HostAssumption
<1>0. /\ node \in [Host -> [is : Status, as : Role, sees : Content]]
      /\ starting \in [Host -> SUBSET Role]
  BY DEF TypeOK, NodeTypeOK
<1>1. /\ at \notin {"idle"} /\ UNCHANGED <<result, conf>>
      /\ StartCold \/ UNCHANGED <<seen, wasUp>>
  BY DEF ColdStep, StartCold, Answered, RestartCold, runStartAliasMasternode, PutColdBack, Goto, confVars
<1>2. result' # "ok"
  BY <1>1 DEF IdleWhenDone
<1>3. CASE \/ Answered(Local, "sync cold", "hot") \/ Answered(Local, "sync restarted", "alias")
           \/ runStartAliasMasternode
  <2>1. /\ at \in ColdUp /\ at' \in ColdUp /\ (at' \in ColdReads => at \in ColdReads)
        /\ UNCHANGED <<nodeVars, seen, wasUp>>
    BY <1>3 DEF runStartAliasMasternode, Answered, Goto, ColdUp, ColdReads, TicketCalls
  <2> QED
    BY <1>1, <2>1, GoingOnKeepsCold DEF SameCold, SameFound, nodeVars
<1>4. CASE \/ Answered(Local, "wait cold", "sync cold")
           \/ Answered(Local, "wait restarted", AfterRestart)
  <2>1. /\ at \in ColdStarts /\ at' \in {"sync cold", "sync restarted", "put back"}
        /\ UNCHANGED <<nodeVars, seen, wasUp>> /\ node[Local].is = "ready"
        /\ at' = "sync restarted" => at = "wait restarted"
    BY <1>4 DEF Answered, Answers, Goto, AfterRestart, ColdStarts
  <2>2. Quiet(Local)
    BY <2>1 DEF ColdInv, ColdKnown, Up
  <2>3. Quiet(Local)' /\ node'[Local].is = "ready"
    BY <2>1, <2>2 DEF nodeVars, Quiet
  <2>4. ColdKnown' /\ ColdLeft'
    BY <1>2, <2>1, <2>3
    DEF ColdKnown, ColdLeft, BeforeCold, ColdStarts, ColdUp, ColdDone, YmlCalls
  <2>5. ColdHasRead'
    BY <1>1, <2>1 DEF ColdInv, ColdHasRead, ColdReads, SeesConf, Up, nodeVars
  <2> QED
    BY <1>1, <2>1, <2>4, <2>5, NewlyKnown DEF SameFound, BeforeCold, ColdStarts
<1>5. CASE RestartCold /\ at = "stop cold"
  <2>1. StopPastelDAndWait(Local) /\ at' = "restart cold" /\ UNCHANGED <<seen, wasUp>>
    BY <1>5 DEF RestartCold, Goto
  <2>2. Quiet(Local) /\ node[Local].is \in {"ready", "crashed"}
    BY <1>5 DEF ColdInv, ColdKnown, ColdUp
  <2>3. Quiet(Local)' /\ node'[Local].is = "stopping"
    BY <1>0, <2>1, <2>2 DEF StopPastelDAndWait, Quiet
  <2>4. ColdKnown' /\ ColdLeft'
    BY <1>2, <2>1, <2>3
    DEF ColdKnown, ColdLeft, BeforeCold, ColdStarts, ColdUp, ColdDone, YmlCalls, BeforeLaunch, TicketCalls
  <2>5. ColdHasRead'
    BY <2>3 DEF ColdHasRead, SeesConf, Up
  <2> QED
    BY <1>1, <1>5, <2>1, <2>4, <2>5, NewlyKnown DEF SameFound, BeforeCold
<1>6. CASE RestartCold /\ at # "stop cold"
  <2>1. /\ runPastelNode(Local, Plain) /\ at = "restart cold" /\ at' = "wait restarted"
        /\ UNCHANGED <<seen, wasUp>>
    BY <1>6 DEF RestartCold, Goto
  <2>2. Launch(Local, Plain)
    BY <2>1 DEF runPastelNode, StartService
  <2>3. Quiet(Local) /\ node[Local].is \in {"stopping", "off"}
    BY <2>1 DEF ColdInv, ColdKnown
  <2>4. starting'[Local] = {Plain} /\ ~Up(Local)'
    BY <1>0, <2>2, <2>3 DEF Launch, Quiet, Up
  <2>5. ColdKnown' /\ ColdLeft'
    BY <1>2, <2>1, <2>4
    DEF ColdKnown, ColdLeft, BeforeCold, ColdStarts, ColdUp, ColdDone, YmlCalls, BeforeLaunch, TicketCalls
  <2>6. ColdHasRead'
    BY <2>4 DEF ColdHasRead, SeesConf, Up
  <2> QED
    BY <1>1, <2>1, <2>5, <2>6, NewlyKnown DEF SameFound, BeforeCold
<1>7. CASE PutColdBack
  <2>1. /\ at = "put back" /\ at' = "services" /\ UNCHANGED <<seen, wasUp>>
        /\ IF seen.cold THEN UNCHANGED nodeVars ELSE StopPastelDAndWait(Local)
    BY <1>7 DEF PutColdBack, Goto
  <2>2. Quiet(Local) /\ node[Local].is \in {"ready", "crashed"}
    BY <2>1 DEF ColdInv, ColdKnown, ColdUp
  <2>3. ASSUME seen.cold PROVE ColdLeft'
    <3>1. Quiet(Local)' /\ node'[Local].is \in {"ready", "crashed"} /\ seen'.cold
      BY <2>1, <2>2, <2>3 DEF nodeVars, Quiet
    <3> QED
      BY <3>1 DEF ColdLeft
  <2>4. ASSUME ~seen.cold PROVE ColdLeft'
    <3>1. Quiet(Local)' /\ node'[Local].is = "stopping" /\ ~seen'.cold
      BY <1>0, <2>1, <2>2, <2>4 DEF StopPastelDAndWait, Quiet
    <3> QED
      BY <3>1 DEF ColdLeft
  <2>5. ColdKnown' /\ ColdHasRead'
    BY <2>1 DEF ColdKnown, ColdHasRead, BeforeCold, ColdStarts, ColdUp, ColdReads, BeforeLaunch, TicketCalls
  <2> QED
    BY <1>1, <2>1, <2>3, <2>4, <2>5, NewlyKnown DEF SameFound, BeforeCold
<1> QED
  BY <1>3, <1>4, <1>5, <1>6, <1>7, StartColdKeeps DEF ColdStep

\* What is done on the hot host, or with files and tickets, leaves the cold node alone.
LEMMA OthersKeepCold ==
  ASSUME TypeOK, ColdInv, IdleWhenDone,
         HotStep \/ FileStep \/ Prepare \/ StartServices \/ TicketStep
  PROVE  ColdInv'
<1> USE HostAssumption, HotAssumption
<1>0. /\ node \in [Host -> [is : Status, as : Role, sees : Content]]
      /\ starting \in [Host -> SUBSET Role] /\ seen \in [cold : BOOLEAN, hot : BOOLEAN]
  BY DEF TypeOK, NodeTypeOK
<1>1. CASE HotStep
  <2>1. SameCold
    <3>1. ASSUME NEW r, NEW a, NEW b, RunRemote(r, a, b) PROVE SameCold
      BY <1>0, <3>1 DEF RunRemote, SameCold
    <3>2. ASSUME NEW a, NEW b, stopRemoteNode(a, b) PROVE SameCold
      BY <1>0, <3>2 DEF stopRemoteNode, SameCold
    <3>3. CASE UNCHANGED nodeVars
      BY <3>3 DEF nodeVars, SameCold
    <3> QED
      BY <1>1, <3>1, <3>2, <3>3
      DEF HotStep, LookAtHot, CannotSync, Answered, startAndSyncRemoteNode, SecondAnswers,
          checkKeys, StopAfterKeys, runRemoteNodeAsMasterNode
  <2>2. /\ at \in ColdUp /\ at' \in ColdUp /\ at' \notin ColdReads /\ UNCHANGED <<result, wasUp>>
    BY <1>1
    DEF HotStep, LookAtHot, CannotSync, Answered, stopRemoteNode, startAndSyncRemoteNode, RunRemote,
        SecondAnswers, checkKeys, StopAfterKeys, runRemoteNodeAsMasterNode, Goto,
        AfterMasternode, ColdUp, BeforeLaunch, ColdReads
  <2>3. LookAtHot \/ UNCHANGED seen
    BY <1>1
    DEF HotStep, CannotSync, Answered, stopRemoteNode, startAndSyncRemoteNode, RunRemote,
        SecondAnswers, checkKeys, StopAfterKeys, runRemoteNodeAsMasterNode
  <2>4. SameFound
    BY <1>0, <2>2, <2>3 DEF SameFound, LookAtHot
  <2>5. at # "idle"
    BY <2>2 DEF ColdUp, BeforeLaunch, TicketCalls
  <2> QED
    BY <2>1, <2>2, <2>4, <2>5, GoingOnKeepsCold
<1>2. CASE (FileStep \/ Prepare \/ StartServices) /\ ~Returns("error")
  <2>1. /\ UNCHANGED <<nodeVars, seen, wasUp, result>> /\ at # "idle"
        /\ \/ at \in BeforeCold /\ at' \in BeforeCold
           \/ at \in ColdUp /\ at' \in ColdUp
           \/ at \in ColdDone /\ at' \in ColdDone
        /\ at' \notin ColdReads
    BY <1>2
    DEF FileStep, createOrUpdateMasternodeConf, copyMasterNodeConToRemote, CreateYml, CopyYml,
        DeleteYml, StartServices, Prepare, Goto, AfterYml, AfterCopy, BeforeCold, ColdUp, ColdDone, ColdReads,
        BeforeLaunch, YmlCalls
  <2> QED
    BY <2>1, GoingOnKeepsCold DEF SameCold, SameFound, nodeVars
<1>3. CASE Returns("error")
  BY <1>3, GivingUpKeepsCold DEF Returns
<1>4. CASE TicketStep
  BY <1>4, TicketEffect, GoingOnKeepsCold
  DEF SameCold, SameFound, nodeVars, ColdUp, ColdReads, TicketCalls
<1> QED
  BY <1>1, <1>2, <1>3, <1>4

\* A command is begun when no process is on its way to the lock and no node loads.
LEMMA BeginFindsCold ==
  ASSUME "loading" \notin Cases, NEW c \in Commands, Begin(c) PROVE ColdInv'
<1>1. /\ at' = "init" /\ result' = "none" /\ seen'.cold = FALSE
      /\ UNCHANGED <<starting, node>> /\ starting[Local] = {} /\ node[Local].is # "loading"
  BY HostAssumption DEF Begin, nodeVars
<1>2. ColdFound' /\ ColdKnown'
  BY <1>1 DEF ColdFound, ColdKnown, BeforeCold, ColdStarts, ColdUp, BeforeLaunch, TicketCalls, Quiet
<1>3. ColdLeft' /\ ColdHasRead'
  BY <1>1 DEF ColdLeft, ColdHasRead, ColdDone, ColdReads, YmlCalls
<1> QED
  BY <1>2, <1>3 DEF ColdInv

\* The command that is done leaves the cold node as it has put it back.
LEMMA DoneKeepsCold ==
  ASSUME ColdInv, StartSupernode PROVE ColdInv'
<1>1. /\ at = "supernode" /\ at' = "idle" /\ UNCHANGED <<node, starting, seen, wasUp>>
  BY DEF StartSupernode, Returns, nodeVars
<1>2. ColdFound'
  <2>1. wasUp <=> seen.cold
    BY <1>1 DEF ColdInv, ColdFound, BeforeCold
  <2>2. (wasUp <=> seen.cold)'
    BY <1>1, <2>1, Zenon
  <2> QED
    BY <1>1, <2>2 DEF ColdFound, BeforeCold
<1>3. ColdKnown' /\ ColdHasRead'
  BY <1>1 DEF ColdKnown, ColdHasRead, BeforeCold, ColdStarts, ColdUp, ColdReads, BeforeLaunch,
              TicketCalls
<1>4. ColdLeft'
  BY <1>1 DEF ColdInv, ColdLeft, ColdDone, Quiet
<1> QED
  BY <1>2, <1>3, <1>4 DEF ColdInv

\* A service that was started is not stopped.
LEMMA ColdManagedKept == [Next]_vars /\ Local \in managed => Local \in managed'
BY HostAssumption, TicketEffect
DEF Next, vars, nodeVars, Begin, Step, Interrupted, ReturnsError, Prepare, StartServices,
    StartSupernode, FileStep, createOrUpdateMasternodeConf, copyMasterNodeConToRemote, CreateYml,
    CopyYml, DeleteYml, ColdStep, StartCold, Answered, RestartCold, runStartAliasMasternode,
    PutColdBack, HotStep, LookAtHot, CannotSync, startAndSyncRemoteNode, SecondAnswers,
    checkKeys, StopAfterKeys, runRemoteNodeAsMasterNode, RunRemote, stopRemoteNode,
    runPastelNode, StartService, Launch, StopPastelDAndWait,
    HostStep, UnitStarts, Loads, Exits, PasteldStarts

ColdAlone == IdleWhenDone /\ (Local \notin managed => ColdInv)

LEMMA InitCold == Init => ColdAlone
BY DEF Init, ColdAlone, IdleWhenDone, ColdInv, ColdFound, ColdKnown, ColdLeft, ColdHasRead,
       BeforeCold, ColdStarts, ColdUp, ColdDone, ColdReads, BeforeLaunch, TicketCalls, YmlCalls

LEMMA NextKeepsCold == "loading" \notin Cases /\ TypeOK /\ ColdAlone /\ [Next]_vars => ColdAlone'
<1> SUFFICES ASSUME "loading" \notin Cases, TypeOK, ColdAlone, [Next]_vars, Local \notin managed'
             PROVE  ColdInv'
  BY IdleKept DEF ColdAlone
<1>1. ColdInv /\ IdleWhenDone /\ Local \notin managed
  BY ColdManagedKept DEF ColdAlone
<1>2. CASE Interrupted \/ ReturnsError
  BY <1>1, <1>2, GivingUpKeepsCold DEF Interrupted, ReturnsError, Returns
<1>3. CASE UNCHANGED vars
  <2>1. UNCHANGED <<at, result, seen, wasUp, node, starting, conf>>
    BY <1>3 DEF vars, cmdVars, nodeVars, confVars
  <2>2. ColdFound'
    BY <1>1, <2>1 DEF ColdInv, ColdFound
  <2>3. ColdKnown' /\ ColdLeft' /\ ColdHasRead'
    BY <1>1, <2>1 DEF ColdInv, ColdKnown, ColdLeft, ColdHasRead, Quiet, Up, SeesConf
  <2> QED
    BY <2>2, <2>3 DEF ColdInv
<1> QED
  BY <1>1, <1>2, <1>3, BeginFindsCold, ColdStepKeeps, OthersKeepCold, DoneKeepsCold, HostKeepsCold
  DEF Next, Step

\* A node that answered when the command looked is not stopped but to be started again.
FoundIsUp ==
  /\ at \in BeforeCold => ~seen.cold
  /\ seen.cold /\ (at \notin {"idle", "restart cold", "wait restarted"} \/ result = "ok") =>
       node[Local].is \notin {"off", "stopping"}

\* By itself a node only leaves the states it can be left in for others of them.
LEMMA HostKeepsUp ==
  ASSUME TypeOK, NEW h \in Host, HostStep(h), node[Local].is \notin {"off", "stopping"}
  PROVE  node'[Local].is \notin {"off", "stopping"}
<1>0. node \in [Host -> [is : Status, as : Role, sees : Content]] /\ Local \in Host
  BY HostAssumption DEF TypeOK, NodeTypeOK
<1>1. ASSUME NEW r, Boots(h, r) PROVE node'[Local].is \notin {"off", "stopping"}
  BY <1>0, <1>1 DEF Boots
<1>2. CASE Loads(h)
  BY <1>0, <1>2 DEF Loads
<1>3. CASE Exits(h)
  BY <1>0, <1>3 DEF Exits
<1> QED
  BY <1>1, <1>2, <1>3 DEF HostStep, UnitStarts, PasteldStarts

LEMMA ColdStepKeepsFound ==
  ASSUME TypeOK, IdleWhenDone, FoundIsUp, ColdStep PROVE FoundIsUp'
<1>0. /\ node \in [Host -> [is : Status, as : Role, sees : Content]] /\ Local \in Host
      /\ seen \in [cold : BOOLEAN, hot : BOOLEAN]
  BY HostAssumption DEF TypeOK, NodeTypeOK
<1>1. CASE StartCold
  <2>1. at = "cold" /\ at' \in {"sync cold", "wait cold"} /\ ~seen.cold
    BY <1>1 DEF StartCold, Goto, FoundIsUp, BeforeCold
  <2>2. CASE Answers(Local)
    <3>1. node' = node
      BY <1>1, <2>2 DEF StartCold, nodeVars
    <3> QED
      BY <2>1, <2>2, <3>1 DEF FoundIsUp, BeforeCold, Answers
  <2>3. CASE ~Answers(Local)
    <3>1. ~seen'.cold
      BY <1>1, <2>1, <2>3 DEF StartCold
    <3> QED
      BY <3>1 DEF FoundIsUp
  <2> QED
    BY <2>2, <2>3
<1>2. CASE RestartCold
  <2>1. at' \in {"restart cold", "wait restarted"} /\ result' # "ok"
    BY <1>2 DEF RestartCold, Goto, IdleWhenDone
  <2> QED
    BY <2>1 DEF FoundIsUp, BeforeCold
<1>3. CASE PutColdBack
  <2>1. /\ at = "put back" /\ at' = "services" /\ UNCHANGED seen
        /\ seen.cold => UNCHANGED node
    BY <1>3 DEF PutColdBack, Goto, nodeVars
  <2> QED
    BY <2>1 DEF FoundIsUp, BeforeCold
<1>4. ASSUME NEW a, NEW b, Answered(Local, a, b), b \notin BeforeCold PROVE FoundIsUp'
  <2>1. node'[Local].is = "ready" /\ at' \notin BeforeCold
    BY <1>4 DEF Answered, Answers, Goto, nodeVars
  <2> QED
    BY <2>1 DEF FoundIsUp
<1> QED
  BY <1>1, <1>2, <1>3, <1>4
  DEF ColdStep, runStartAliasMasternode, AfterRestart, BeforeCold

\* What is done elsewhere leaves the cold node alone.
LEMMA OthersLeaveFound ==
  ASSUME TypeOK, IdleWhenDone, FoundIsUp,
         HotStep \/ FileStep \/ Prepare \/ StartServices \/ TicketStep
  PROVE  FoundIsUp'
<1> USE HostAssumption, HotAssumption
<1>0. /\ node \in [Host -> [is : Status, as : Role, sees : Content]]
      /\ seen \in [cold : BOOLEAN, hot : BOOLEAN]
  BY DEF TypeOK, NodeTypeOK
<1>1. CASE HotStep
  <2>1. node'[Local] = node[Local]
    <3>1. ASSUME NEW a, NEW b, stopRemoteNode(a, b) PROVE node'[Local] = node[Local]
      BY <1>0, <3>1 DEF stopRemoteNode
    <3>2. CASE UNCHANGED node
      BY <3>2
    <3> QED
      BY <1>1, <3>1, <3>2
      DEF HotStep, LookAtHot, CannotSync, Answered, startAndSyncRemoteNode, SecondAnswers, RunRemote,
          checkKeys, StopAfterKeys, runRemoteNodeAsMasterNode, nodeVars
  <2>2. /\ at \notin {"idle", "restart cold", "wait restarted"} \cup BeforeCold
        /\ at' \notin BeforeCold
    BY <1>1
    DEF HotStep, LookAtHot, CannotSync, Answered, stopRemoteNode, startAndSyncRemoteNode, RunRemote,
        SecondAnswers, checkKeys, StopAfterKeys, runRemoteNodeAsMasterNode, Goto,
        AfterMasternode, BeforeCold
  <2>3. LookAtHot \/ UNCHANGED seen
    BY <1>1
    DEF HotStep, CannotSync, Answered, stopRemoteNode, startAndSyncRemoteNode, RunRemote,
        SecondAnswers, checkKeys, StopAfterKeys, runRemoteNodeAsMasterNode
  <2>4. seen'.cold = seen.cold
    BY <1>0, <2>3 DEF LookAtHot
  <2> QED
    BY <2>1, <2>2, <2>4 DEF FoundIsUp
<1>2. CASE Returns("error")
  BY <1>2 DEF Returns, FoundIsUp, BeforeCold
<1>3. CASE (FileStep \/ Prepare \/ StartServices) /\ ~Returns("error")
  <2>1. /\ UNCHANGED <<node, seen>> /\ at \notin {"idle", "restart cold", "wait restarted"}
        /\ at' \in BeforeCold => at \in BeforeCold
    BY <1>3
    DEF FileStep, createOrUpdateMasternodeConf, copyMasterNodeConToRemote, CreateYml, CopyYml,
        DeleteYml, StartServices, Prepare, Goto, AfterYml, AfterCopy, BeforeCold, nodeVars
  <2> QED
    BY <2>1 DEF FoundIsUp
<1>4. CASE TicketStep
  <2>1. /\ UNCHANGED <<node, seen>> /\ at \notin {"idle", "restart cold", "wait restarted"}
        /\ at' \notin BeforeCold
    BY <1>4, TicketEffect DEF TicketCalls, BeforeCold, nodeVars
  <2> QED
    BY <2>1 DEF FoundIsUp
<1> QED
  BY <1>1, <1>2, <1>3, <1>4

LEMMA FoundKept == TypeOK /\ IdleWhenDone /\ FoundIsUp /\ [Next]_vars => FoundIsUp'
<1> SUFFICES ASSUME TypeOK, IdleWhenDone, FoundIsUp, [Next]_vars PROVE FoundIsUp'
  OBVIOUS
<1>1. ASSUME NEW c \in Commands, Begin(c) PROVE FoundIsUp'
  BY <1>1 DEF Begin, FoundIsUp
<1>2. CASE Interrupted \/ ReturnsError
  BY <1>2 DEF Interrupted, ReturnsError, Returns, FoundIsUp, BeforeCold
<1>3. CASE StartSupernode
  <2>1. at = "supernode" /\ at' = "idle" /\ UNCHANGED <<node, seen>>
    BY <1>3 DEF StartSupernode, Returns, nodeVars
  <2> QED
    BY <2>1 DEF FoundIsUp, BeforeCold
<1>4. ASSUME NEW h \in Host, HostStep(h), UNCHANGED <<confVars, cmdVars>> PROVE FoundIsUp'
  BY <1>4, HostKeepsUp DEF cmdVars, FoundIsUp
<1>5. CASE UNCHANGED vars
  BY <1>5 DEF vars, cmdVars, nodeVars, FoundIsUp
<1> QED
  BY <1>1, <1>2, <1>3, <1>4, <1>5, ColdStepKeepsFound, OthersLeaveFound DEF Next, Step

\* A node of the user on the cold host that answered is up when the command has returned
\* without an error, service or not.  Where no service keeps the node, one that was there
\* is up and one that was started for the command is not, whatever crashed -- if no
\* node loads when a command begins.
THEOREM ColdAsBeforeAlways == "loading" \notin Cases => (Spec => []ColdAsBefore)
<1> SUFFICES ASSUME "loading" \notin Cases PROVE Spec => []ColdAsBefore
  OBVIOUS
<1>1. ColdAlone /\ FoundIsUp => ColdAsBefore
  <2> SUFFICES ASSUME ColdAlone, FoundIsUp, result = "ok" PROVE ColdAsBefore
    BY DEF ColdAsBefore
  <2>1. seen.cold => node[Local].is \notin {"off", "stopping"}
    BY DEF FoundIsUp
  <2>2. ASSUME Local \notin managed
        PROVE  /\ wasUp <=> seen.cold
               /\ node[Local].is \in IF seen.cold THEN {"ready", "crashed"} ELSE {"stopping", "off"}
    BY <2>2 DEF ColdAlone, ColdInv, ColdFound, ColdLeft
  <2>3. ASSUME wasUp, Local \notin managed PROVE node[Local].is \notin {"off", "stopping"}
    <3>1. seen.cold
      BY <2>2, <2>3, Zenon
    <3> QED
      BY <2>1, <3>1
  <2>4. ASSUME ~wasUp, Local \notin managed PROVE node[Local].is \notin {"loading", "ready"}
    <3>1. ~seen.cold
      BY <2>2, <2>4, Zenon
    <3>2. node[Local].is \in IF seen.cold THEN {"ready", "crashed"} ELSE {"stopping", "off"}
      BY <2>2, <2>4
    <3> QED
      BY <3>1, <3>2
  <2> QED
    BY <2>1, <2>3, <2>4, Zenon DEF ColdAsBefore
<1>2. Init => TypeOK /\ ColdAlone /\ FoundIsUp
  BY InitType, InitCold DEF Init, FoundIsUp
<1>3. TypeOK /\ ColdAlone /\ FoundIsUp /\ [Next]_vars => (TypeOK /\ ColdAlone /\ FoundIsUp)'
  BY NextType, NextKeepsCold, FoundKept DEF ColdAlone
<1> QED
  BY <1>1, <1>2, <1>3, PTL DEF Spec

\* When the alias is started, a cold node that no service keeps has read the
\* masternode.conf with its record, and a hot one that no service keeps runs with the key
\* of that record -- if no node loads when a command begins.
THEOREM AliasIsKnownAlways == "loading" \notin Cases => (Spec => []AliasIsKnown)
<1> SUFFICES ASSUME "loading" \notin Cases PROVE Spec => []AliasIsKnown
  OBVIOUS
<1>1. HotAlone /\ ColdAlone => AliasIsKnown
  <2> SUFFICES ASSUME HotAlone, ColdAlone, at = "alias", Answers(Local) PROVE AliasIsKnown
    BY DEF AliasIsKnown
  <2>1. ASSUME Local \notin managed PROVE node[Local].sees = conf[Local]
    BY <2>1 DEF ColdAlone, ColdInv, ColdHasRead, ColdReads, SeesConf, Up, Answers
  <2>2. Readable(conf[Local]) /\ HasRecord(conf[Local])
    BY DEF HotAlone, RecordWritten, AfterLaunch
  <2>3. newRecord \in getMasternodeConfData(cmd.flags.name, cmd.flags.ip)
    BY <2>2 DEF HasRecord, getMasternodeConfData
  <2>4. ASSUME Hot \notin managed PROVE node[Hot].as = newRecord.key
    BY <2>4 DEF HotAlone, HotInv, NodeInv, OnlyTheMasternode, newRecord, AfterLaunch
  <2> QED
    BY <2>1, <2>3, <2>4 DEF AliasIsKnown
<1>2. Init => TypeOK /\ HotAlone /\ ColdAlone
  BY InitType, InitInv, InitCold DEF IInv
<1>3. TypeOK /\ HotAlone /\ ColdAlone /\ [Next]_vars => (TypeOK /\ HotAlone /\ ColdAlone)'
  BY NextType, NextKeepsHot, NextKeepsCold
<1> QED
  BY <1>1, <1>2, <1>3, PTL DEF Spec

-----------------------------------------------------------------------------
(* The ticket.                                                               *)

LEMMA CoinsKept == TypeOK /\ RegistersWithCoins /\ [Next]_vars => RegistersWithCoins'
<1> SUFFICES ASSUME TypeOK, RegistersWithCoins, [Next]_vars, at' = "mnid" PROVE RegistersWithCoins'
  BY DEF RegistersWithCoins
<1>0. ticket \in [remote : Balance, local : Balance, txid : BOOLEAN]
  BY DEF TypeOK
<1>1. CASE registerTicketPastelID
  <2>1. PICK h \in Balance, c \in Balance :
          /\ ticket' = [remote |-> h, local |-> c, txid |-> FALSE]
          /\ h >= minBalanceForTicketReg \/ c = minBalanceForTicketReg
    BY <1>1 DEF registerTicketPastelID, OnTicket, Goto
  <2> QED
    BY <2>1 DEF RegistersWithCoins
<1>2. CASE handleWaitForBalance
  <2>1. CASE ticket.txid /\ UNCHANGED ticket
    BY <2>1 DEF RegistersWithCoins
  <2>2. ASSUME NEW b \in Balance, b >= minBalanceForTicketReg, ticket' = [ticket EXCEPT !.remote = b]
        PROVE  RegistersWithCoins'
    BY <1>0, <2>2 DEF RegistersWithCoins
  <2> QED
    BY <1>2, <2>1, <2>2 DEF handleWaitForBalance
<1>3. CASE at = "mnid" /\ UNCHANGED ticket
  BY <1>3 DEF RegistersWithCoins
<1>4. registerTicketPastelID \/ handleWaitForBalance \/ (at = "mnid" /\ UNCHANGED ticket)
  BY DEF Next, vars, cmdVars, localVars, Begin, Step, Interrupted, ReturnsError, Prepare,
    StartServices, StartSupernode, FileStep, createOrUpdateMasternodeConf,
    copyMasterNodeConToRemote, CreateYml, CopyYml, DeleteYml, ColdStep, StartCold, Answered,
    RestartCold, runStartAliasMasternode, PutColdBack, HotStep, LookAtHot, CannotSync,
    startAndSyncRemoteNode, SecondAnswers, checkKeys, StopAfterKeys, runRemoteNodeAsMasterNode,
    RunRemote, stopRemoteNode, TicketStep, handleAskForBalance, handleTransferBalance, TicketEnds,
    OnTicket, Goto, AfterYml, Returns, AfterCopy, AfterMasternode, AfterRestart
<1> QED
  BY <1>1, <1>2, <1>3, <1>4

\* Whatever the user answers and whichever balance is read, the hot node is asked to
\* register a ticket without the coins for it only where the cold one has exactly those.
THEOREM RegistersWithCoinsAlways == Spec => []RegistersWithCoins
<1>1. Init => RegistersWithCoins
  BY DEF Init, RegistersWithCoins
<1> QED
  BY <1>1, InitType, NextType, CoinsKept, PTL DEF Spec
=============================================================================
