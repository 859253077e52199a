-------------------------------- MODULE ColdHot --------------------------------
(***************************************************************************)
(* pastelup init supernode coldhot: a masternode on two hosts.  The cold one  *)
(* (Local) has the wallet and masternode.conf and only starts the alias; the  *)
(* hot one runs as the masternode and is worked on over ssh.                  *)
(*                                                                           *)
(* ColdHotRunner of cmd/start_coldhot.go; the command in cmd/init.go.  One     *)
(* action per call that changes something or waits, as in Supernode.  What     *)
(* happens on the hot host when ssh is lost is what happens when the command   *)
(* returns: processes that were started go on.                                *)
(***************************************************************************)
EXTENDS Pasteld

CONSTANTS Hot, Commands
ASSUME HotAssumption == Hot \in Host \ {Local}

Command == [new : BOOLEAN, name : Name, ip : Addr, pkey : BOOLEAN, pid : BOOLEAN,
            activate : BOOLEAN]
ASSUME CommandsAssumption == Commands \subseteq Command

VARIABLES
  cmd,      \* the flags of the command, and the keys it has found: config
  at,       \* the call it is about to make
  seen,     \* what it saw of the nodes: isPasteldAlreadyRunning, remoteIsRunning
  wasUp,    \* history: there was a cold node when it looked
  file,     \* the configuration file of the hot host it works on
  here,     \* that file in the directory of the command: whose PastelID it has
  there,    \* the files on the hot host
  ticket,   \* the balances it has read, and whether it has sent coins: txid
  result,   \* what the last command has returned
  runs      \* commands that have been run

localVars == <<file, here, there, ticket>>
cmdVars == <<cmd, at, seen, wasUp, localVars, result, runs>>
vars == <<confVars, nodeVars, cmdVars>>

Yml == {"supernode.yml", "hermes.yml"}
TicketCalls == {"register", "ask", "transfer", "wait balance", "mnid"}
Calls == {"idle", "init", "cold", "wait cold", "sync cold", "hot", "sync running",
          "stop unsynced", "start hot", "wait hot", "wait again", "sync hot", "keys",
          "stop hot", "draft", "backup", "write", "copy conf", "stop again", "masternode",
          "wait masternode", "sync masternode", "stop cold", "restart cold",
          "wait restarted", "sync restarted", "alias", "put back", "services",
          "yml", "copy yml", "delete yml", "supernode"} \cup TicketCalls
config == [flags : Command, key : Key, id : Key]
YmlFile == Key \cup {Missing, Torn}

\* In thousands of PSL: less than it takes, just enough, more.
Balance == 0 .. 2
minBalanceForTicketReg == 1
NoTicket == [remote |-> 0, local |-> 0, txid |-> FALSE]

TypeOK ==
  /\ ConfTypeOK /\ NodeTypeOK
  /\ cmd \in config /\ at \in Calls
  /\ seen \in [cold : BOOLEAN, hot : BOOLEAN] /\ wasUp \in BOOLEAN
  /\ file \in Yml /\ here \in [Yml -> YmlFile] /\ there \in [Yml -> YmlFile]
  /\ ticket \in [remote : Balance, local : Balance, txid : BOOLEAN]
  /\ result \in {"none", "ok", "error"}
  /\ runs \in 0 .. MaxRuns

OwnRecords == [addr : Addr, key : {0}, id : {0}]
Init ==
  /\ conf \in [Host -> {Missing} \cup UNION {[N -> OwnRecords] : N \in SUBSET Name}]
  /\ conf[Hot] = Missing \* whatever was there is written over
  /\ backups = [s \in Stamp |-> Missing] /\ draft = EmptyFile
  /\ NodesInit
  /\ cmd \in [flags : Commands, key : {0}, id : {0}]
  /\ at = "idle" /\ result = "none" /\ runs = 0
  /\ seen = [cold |-> FALSE, hot |-> FALSE] /\ wasUp = FALSE
  /\ file = "supernode.yml" /\ here = [f \in Yml |-> Missing]
  /\ there = [f \in Yml |-> Missing] /\ ticket = NoTicket

-----------------------------------------------------------------------------
Goto(a, b) == at = a /\ at' = b /\ UNCHANGED <<result, runs>>
Returns(r) == at' = "idle" /\ result' = r /\ UNCHANGED runs

\* As in Supernode: what earlier commands have started has come to the lock.
Begin(c) ==
  /\ at = "idle" /\ runs < MaxRuns
  /\ \A h \in Host : /\ starting[h] = {}
                     /\ node[h].is = "loading" => "loading" \in Cases
  /\ cmd' = [flags |-> c, key |-> 0, id |-> 0]
  /\ at' = "init" /\ seen' = [cold |-> FALSE, hot |-> FALSE]
  /\ result' = "none" /\ runs' = runs + 1
  /\ UNCHANGED <<confVars, nodeVars, wasUp, localVars>>

\* The ssh session, the parameters and the network modes of both hosts.
Prepare ==
  /\ ~cmd.flags.new => conf[Local] # Missing
  /\ Goto("init", "cold")
  /\ UNCHANGED <<confVars, nodeVars, cmd, seen, wasUp, localVars>>

\* pastel-cli getinfo fails for a node that loads as well as for none.
StartCold ==
  /\ wasUp' = (node[Local].is \in {"loading", "ready"})
  /\ \/ Answers(Local) /\ seen' = [seen EXCEPT !.cold = TRUE] /\ UNCHANGED nodeVars
        /\ Goto("cold", "sync cold")
     \/ ~Answers(Local) /\ runPastelNode(Local, Plain) /\ UNCHANGED seen
        /\ Goto("cold", "wait cold")
  /\ UNCHANGED <<confVars, cmd, localVars>>

\* A call that goes on when a node answers: WaitingForPastelDToStart,
\* CheckPastelDRunningRemote, CheckMasterNodeSync, checkMasterNodeSyncRemote.
Answered(h, a, b) ==
  /\ Answers(h) /\ Goto(a, b)
  /\ UNCHANGED <<confVars, nodeVars, cmd, seen, wasUp, localVars>>

LookAtHot ==
  /\ seen' = [seen EXCEPT !.hot = Answers(Hot)]
  /\ Goto("hot", IF Answers(Hot) THEN "sync running" ELSE "start hot")
  /\ UNCHANGED <<confVars, nodeVars, cmd, wasUp, localVars>>
CannotSync ==
  /\ Goto("sync running", "stop unsynced")
  /\ UNCHANGED <<confVars, nodeVars, cmd, seen, wasUp, localVars>>

\* Variant: the hot node is left as it is.
LeaveHot(a, b) ==
  Goto(a, b) /\ UNCHANGED <<confVars, nodeVars, cmd, seen, wasUp, localVars>>
\* The error of pastel-cli stop is not looked at: it is enough that the node does
\* not answer ten seconds later, which one that loads or stops does not.
stopRemoteNode(a, b) ==
  /\ \/ Answers(Hot) /\ node' = [node EXCEPT ![Hot].is = "stopping"]
     \/ ~Answers(Hot) /\ UNCHANGED node
  /\ Goto(a, b)
  /\ UNCHANGED <<confVars, starting, units, managed, cmd, seen, wasUp, localVars>>

\* pasteld is called over ssh in the background, past the service if there is one.
RunRemote(r, a, b) ==
  /\ starting' = [starting EXCEPT ![Hot] = @ \cup {r}]
  /\ Goto(a, b)
  /\ UNCHANGED <<confVars, node, units, managed, cmd, seen, wasUp, localVars>>

\* A node that does not come up within a minute is started once more, with --reindex.
startAndSyncRemoteNode ==
  \/ RunRemote(Plain, "start hot", "wait hot")
  \/ ~Answers(Hot) /\ RunRemote(Plain, "wait hot", "wait again")

\* Assumed: of the two processes the one that finds the lock taken has ended when the
\* other one has loaded.
SecondAnswers ==
  starting[Hot] = {} /\ Answered(Hot, "wait again", "sync hot")

\* handleCreateUpdateStartColdHot: the hot node makes the keys that are not brought.
checkKeys ==
  /\ Answers(Hot)
  /\ cmd' = [cmd EXCEPT !.key = IF cmd.flags.pkey THEN 0 ELSE runs,
                        !.id = IF cmd.flags.pid THEN 0 ELSE runs]
  /\ Goto("keys", "stop hot")
  /\ UNCHANGED <<confVars, nodeVars, seen, wasUp, localVars>>
\* Unlike stopRemoteNode it needs the stop to be taken, and does not look again.
StopAfterKeys == Answers(Hot) /\ stopRemoteNode("stop hot", "draft")

newRecord == [addr |-> cmd.flags.ip, key |-> cmd.key, id |-> cmd.id]
createOrUpdateMasternodeConf ==
  /\ \/ Draft(~cmd.flags.new, cmd.flags.name, newRecord) /\ Goto("draft", "backup")
     \/ backupMasterNodeConfFile /\ Goto("backup", "write")
     \/ WriteConf /\ Goto("write", "copy conf")
     \/ WriteConfFails /\ at = "write" /\ Returns("error")
  /\ UNCHANGED <<nodeVars, cmd, seen, wasUp, localVars>>

AfterCopy == IF seen.hot THEN "stop again" ELSE "masternode"
\* The hot host gets a file of its own with the new record only.
copyMasterNodeConToRemote ==
  /\ \/ /\ conf' = [conf EXCEPT ![Hot] = With(EmptyFile, cmd.flags.name, newRecord)]
        /\ Goto("copy conf", AfterCopy)
     \/ /\ conf' \in {conf, [conf EXCEPT ![Hot] = Torn]}
        /\ at = "copy conf" /\ Returns("error")
  /\ UNCHANGED <<backups, draft, nodeVars, cmd, seen, wasUp, localVars>>

\* The key is the one masternode.conf of the cold host has.
runRemoteNodeAsMasterNode ==
  \E e \in getMasternodeConfData(cmd.flags.name, cmd.flags.ip) :
    RunRemote(e.key, "masternode", "wait masternode")

\* The cold node reads the new masternode.conf when it starts again.
AfterMasternode == IF seen.cold \/ cmd.flags.activate THEN "stop cold" ELSE "put back"
AfterRestart == IF cmd.flags.activate THEN "sync restarted" ELSE "put back"
RestartCold ==
  /\ \/ StopPastelDAndWait(Local) /\ Goto("stop cold", "restart cold")
     \/ runPastelNode(Local, Plain) /\ Goto("restart cold", "wait restarted")
  /\ UNCHANGED <<confVars, cmd, seen, wasUp, localVars>>

runStartAliasMasternode ==
  /\ cmd.flags.name \in (IF Readable(node[Local].sees) THEN DOMAIN node[Local].sees ELSE {})
  /\ Answered(Local, "alias", IF cmd.flags.new THEN "register" ELSE "put back")

\* The ticket for the PastelID, which the hot node pays.  What goes wrong is only
\* logged, and the command goes on without a ticket.
OnTicket(a, b) ==
  Goto(a, b) /\ UNCHANGED <<confVars, nodeVars, cmd, seen, wasUp, file, here, there>>
\* A cold node with more than it takes can give it; one with just as much lets the
\* registration go on as if the hot node had it.
registerTicketPastelID ==
  /\ Answers(Hot) /\ Answers(Local)
  /\ \E h, c \in Balance :
       /\ ticket' = [remote |-> h, local |-> c, txid |-> FALSE]
       /\ OnTicket("register",
            IF h >= minBalanceForTicketReg \/ c = minBalanceForTicketReg THEN "mnid"
            ELSE IF c < minBalanceForTicketReg THEN "ask" ELSE "transfer")
\* The user is asked to send the coins.
handleAskForBalance == OnTicket("ask", "wait balance") /\ UNCHANGED ticket
\* The cold node sends them if the user agrees; after a No they are waited for as well.
handleTransferBalance ==
  /\ OnTicket("transfer", "wait balance")
  /\ \/ Answers(Local) /\ ticket' = [ticket EXCEPT !.txid = TRUE]
     \/ UNCHANGED ticket
\* Variant: who gives up the wait does not give up the registration.
WaitNoLonger ==
  OnTicket("wait balance", "mnid") /\ UNCHANGED ticket
\* The balance of the hot node is asked for until it is enough or the user gives up;
\* the registration is tried then only if coins are on the way.
handleWaitForBalance ==
  \/ /\ Answers(Hot) /\ OnTicket("wait balance", "mnid")
     /\ \E b \in Balance : b >= minBalanceForTicketReg /\ ticket' = [ticket EXCEPT !.remote = b]
  \/ ticket.txid /\ OnTicket("wait balance", "mnid") /\ UNCHANGED ticket
TicketEnds ==
  (\E a \in TicketCalls : OnTicket(a, "put back")) /\ ticket' = NoTicket

\* Variant: the cold node is stopped in any case.
StopColdAnyway ==
  /\ StopPastelDAndWait(Local) /\ Goto("put back", "services")
  /\ UNCHANGED <<confVars, cmd, seen, wasUp, localVars>>
PutColdBack ==
  /\ IF seen.cold THEN UNCHANGED nodeVars ELSE StopPastelDAndWait(Local)
  /\ Goto("put back", "services")
  /\ UNCHANGED <<confVars, cmd, seen, wasUp, localVars>>

\* An rq- or dd-service that does not start is only logged.
StartServices ==
  /\ Goto("services", "yml") /\ file' = "supernode.yml"
  /\ UNCHANGED <<confVars, nodeVars, cmd, seen, wasUp, here, there, ticket>>

\* Variant: a file that is there is taken as it is.
KeepYml ==
  /\ here' = [here EXCEPT ![file] = IF @ = Missing THEN cmd.id ELSE @]
  /\ Goto("yml", "copy yml")
  /\ UNCHANGED <<confVars, nodeVars, cmd, seen, wasUp, file, there, ticket>>
\* createAndCopyRemoteSuperNodeConfig and createAndCopyRemoteHermesConfig.  What an
\* earlier command left behind is updated; to a piece of a file pastelup can add the
\* PastelID in hermes.yml, not in supernode.yml, where it lacks the node.  A failed
\* update returns the nil error of the call before: the file is not copied, and the
\* command goes on.
AfterYml == IF file = "hermes.yml" THEN "supernode" ELSE "yml"
CreateYml ==
  /\ \/ /\ here[file] # Torn \/ file = "hermes.yml"
        /\ here' = [here EXCEPT ![file] = cmd.id] /\ Goto("yml", "copy yml") /\ UNCHANGED file
     \/ /\ here[file] = Missing /\ at = "yml"
        /\ here' = [here EXCEPT ![file] = Torn] /\ Returns("error") /\ UNCHANGED file
     \/ /\ "yml" \in Cases /\ here[file] # Missing
        /\ here' \in {here, [here EXCEPT ![file] = Torn]}
        /\ Goto("yml", AfterYml) /\ file' = "hermes.yml"
  /\ UNCHANGED <<confVars, nodeVars, cmd, seen, wasUp, there, ticket>>
CopyYml ==
  /\ \/ there' = [there EXCEPT ![file] = here[file]] /\ Goto("copy yml", "delete yml")
     \/ there' \in {there, [there EXCEPT ![file] = Torn]}
        /\ at = "copy yml" /\ Returns("error")
  /\ UNCHANGED <<confVars, nodeVars, cmd, seen, wasUp, file, here, ticket>>
DeleteYml ==
  /\ here' = [here EXCEPT ![file] = Missing] /\ file' = "hermes.yml"
  /\ Goto("delete yml", AfterYml)
  /\ UNCHANGED <<confVars, nodeVars, cmd, seen, wasUp, there, ticket>>

StartSupernode ==
  /\ at = "supernode" /\ Returns("ok")
  /\ UNCHANGED <<confVars, nodeVars, cmd, seen, wasUp, localVars>>

\* An error of any call, or the user's No.  The waits end with one only when the
\* node does not answer; nothing that was done is undone.
ReturnsError ==
  /\ at \notin {"idle"} \cup TicketCalls /\ Returns("error")
  /\ at \in {"wait cold", "wait restarted"} => ~Answers(Local)
  /\ at \in {"wait hot", "wait again", "wait masternode"} => ~Answers(Hot)
  /\ UNCHANGED <<confVars, nodeVars, cmd, seen, wasUp, localVars>>
\* Ctrl-C, or a panic on a file that is not as expected.
Interrupted ==
  /\ at # "idle" /\ Returns("none") /\ ticket' = NoTicket
  /\ UNCHANGED <<confVars, nodeVars, cmd, seen, wasUp, file, here, there>>

ColdStep ==
  \/ StartCold \/ Answered(Local, "wait cold", "sync cold") \/ Answered(Local, "sync cold", "hot")
  \/ RestartCold \/ Answered(Local, "wait restarted", AfterRestart)
  \/ Answered(Local, "sync restarted", "alias") \/ runStartAliasMasternode
  \/ PutColdBack

HotStep ==
  \/ LookAtHot \/ CannotSync \/ Answered(Hot, "sync running", "keys")
  \/ stopRemoteNode("stop unsynced", "start hot") \/ startAndSyncRemoteNode
  \/ Answered(Hot, "wait hot", "sync hot") \/ SecondAnswers
  \/ Answered(Hot, "sync hot", "keys") \/ checkKeys \/ StopAfterKeys
  \/ stopRemoteNode("stop again", "masternode") \/ runRemoteNodeAsMasterNode
  \/ Answered(Hot, "wait masternode", "sync masternode")
  \/ Answered(Hot, "sync masternode", AfterMasternode)

FileStep ==
  \/ createOrUpdateMasternodeConf \/ copyMasterNodeConToRemote
  \/ CreateYml \/ CopyYml \/ DeleteYml

TicketStep ==
  \/ registerTicketPastelID \/ handleAskForBalance \/ handleTransferBalance
  \/ handleWaitForBalance \/ TicketEnds

Step ==
  \/ Prepare \/ ColdStep \/ HotStep \/ FileStep \/ TicketStep \/ StartServices \/ StartSupernode
  \/ ReturnsError

Next ==
  \/ \E c \in Commands : Begin(c)
  \/ Step \/ Interrupted
  \/ \E h \in Host : HostStep(h) /\ UNCHANGED <<confVars, cmdVars>>

Spec == Init /\ [][Next]_vars

-----------------------------------------------------------------------------
\* A command that returned without an error leaves a masternode on the hot host:
\* its node runs, if it has not crashed since, with the private key that the cold
\* host has for the name, and masternode.conf, supernode.yml and hermes.yml there
\* have the record and its PastelID.  Unless a service keeps a node on the hot host,
\* which systemd starts again, as what it was, whenever the command has stopped it.
HotIsMasternode ==
  result = "ok" /\ Hot \notin managed =>
    \E e \in getMasternodeConfData(cmd.flags.name, cmd.flags.ip) :
      /\ node[Hot].as = e.key /\ node[Hot].is \notin {"off", "stopping"}
      /\ conf[Hot] = With(EmptyFile, cmd.flags.name, e)
      /\ \A f \in Yml : there[f] = e.id

\* A private key with which a masternode runs, or is started, is in masternode.conf
\* of the cold host or in a backup of it: it is saved before it is used.
KeyInUseIsKept ==
  \A r \in starting[Hot] \cup {node[Hot].as} : r \in {Plain, 0} \/ \E k \in Kept : k[2].key = r

\* The cold node that is told to start the alias has read the masternode.conf that
\* is there now, and the hot one runs with the key it has for the name.  Each is
\* said of a host where no service keeps the node: one that systemd starts again
\* may be loading when it is to be stopped, refuse that, and answer with the old file.
AliasIsKnown ==
  at = "alias" /\ Answers(Local) =>
    /\ Local \notin managed => node[Local].sees = conf[Local]
    /\ Hot \notin managed =>
         \E e \in getMasternodeConfData(cmd.flags.name, cmd.flags.ip) : node[Hot].as = e.key

\* A command that returned without an error leaves the cold host as it found it: a
\* node that answered when it looked is up, whether or not it is a service's, and so
\* is one that had yet to answer, and a node that was started for the command is
\* stopped, if they are not a service's: systemd would start those again.
ColdAsBefore ==
  result = "ok" =>
    /\ seen.cold \/ (wasUp /\ Local \notin managed) => node[Local].is \notin {"off", "stopping"}
    /\ ~wasUp /\ Local \notin managed => node[Local].is \notin {"loading", "ready"}

\* The registration of the ticket, which takes 1,000 PSL of the hot node, is tried only
\* when it has them or the cold node has sent them -- or has just as many itself, which
\* it can then neither send nor do without.  In particular a No of the user to the
\* transfer, to sending coins or to a longer wait never ends in a registration.
RegistersWithCoins ==
  at = "mnid" => \/ ticket.remote >= minBalanceForTicketReg \/ ticket.txid
                 \/ ticket.local = minBalanceForTicketReg
=============================================================================
