------------------------------- MODULE Supernode -------------------------------
(***************************************************************************)
(* pastelup init supernode, start supernode and start masternode on one host, *)
(* with the pasteld they restart as a masternode and the files they write.    *)
(*                                                                           *)
(* runStartSuperNode, runStartMasternode and their helpers in cmd/start.go;   *)
(* the commands in cmd/init.go.  One action per call that changes something    *)
(* or waits; whatever may make a call fail is one action, ReturnsError.       *)
(***************************************************************************)
EXTENDS Pasteld, FiniteSets

CONSTANT Commands   \* the commands that are studied

\* The flags: --new rather than --add; --pkey and --pastelid brought or not.
Command == [op : {"init", "start", "masternode"}, new : BOOLEAN, name : Name, ip : Addr,
            pkey : BOOLEAN, pid : BOOLEAN, activate : BOOLEAN]
ASSUME CommandsAssumption == Commands \subseteq Command

VARIABLES
  cmd,      \* the flags of the command, and the keys it has found: config
  at,       \* the call it is about to make
  running,  \* pastelDIsRunning
  yml,      \* the PastelID in supernode.yml
  lost,     \* history: the command has not got its PastelID into supernode.yml
  result,   \* what the last command has returned
  runs      \* commands that have been run

ymlVars == <<yml, lost>>
cmdVars == <<cmd, at, running, ymlVars, result, runs>>
vars == <<confVars, nodeVars, cmdVars>>

Calls == {"idle", "params", "process", "start plain", "wait plain", "sync", "keys",
          "stop plain", "draft", "backup", "write", "yml", "stop", "masternode",
          "wait masternode", "sync masternode", "alias", "services"}
\* supernode.yml is not there, is as the template, or is a piece of a file.
NoFile == -1
NoId == -2
Piece == -3
config == [flags : Command, key : Key, id : Key]

TypeOK ==
  /\ ConfTypeOK /\ NodeTypeOK
  /\ cmd \in config /\ at \in Calls /\ running \in BOOLEAN
  /\ yml \in Key \cup {NoFile, NoId, Piece} /\ lost \in BOOLEAN
  /\ result \in {"none", "ok", "error"}
  /\ runs \in 0 .. MaxRuns

\* Files somebody else has written.
OwnRecords == [addr : Addr, key : {0}, id : {0}]
Init ==
  /\ conf \in [Host -> {Missing} \cup UNION {[N -> OwnRecords] : N \in SUBSET Name}]
  /\ backups = [s \in Stamp |-> Missing] /\ draft = EmptyFile
  /\ NodesInit
  /\ cmd \in [flags : Commands, key : {0}, id : {0}]
  /\ at = "idle" /\ running = FALSE /\ result = "none" /\ runs = 0
  /\ yml \in {0, NoId} \cup (IF "yml" \in Cases THEN {NoFile} ELSE {}) /\ lost = FALSE

-----------------------------------------------------------------------------
(* The command. *)
Goto(a, b) == at = a /\ at' = b /\ UNCHANGED <<running, result, runs>>
Returns(r) == at' = "idle" /\ result' = r /\ UNCHANGED <<running, runs>>
Leave(a, b) == IF b = "idle" THEN at = a /\ Returns("ok") ELSE Goto(a, b)

\* No process started by an earlier command is still on its way to the lock.
Begin(c) ==
  /\ at = "idle" /\ runs < MaxRuns /\ starting[Local] = {}
  /\ node[Local].is = "loading" => "loading" \in Cases
  /\ c.op = "masternode" /\ ~Down(Local) => "running" \in Cases
  /\ cmd' = [flags |-> c, key |-> 0, id |-> 0]
  /\ at' = "params" /\ running' = FALSE /\ result' = "none" /\ runs' = runs + 1
  /\ lost' = FALSE /\ UNCHANGED <<confVars, nodeVars, yml>>

\* start masternode does not look at the processes and waits for no synchronisation.
checkStartMasterNodeParams ==
  /\ ~cmd.flags.new => conf[Local] # Missing
  /\ Goto("params", IF cmd.flags.op = "masternode" THEN "masternode" ELSE "process")
  /\ UNCHANGED <<confVars, nodeVars, cmd, ymlVars>>

\* Variant: the node is taken to be down.
TakenForDown ==
  /\ at = "process" /\ running' = FALSE
  /\ at' = IF cmd.flags.op = "init" THEN "start plain" ELSE "masternode"
  /\ UNCHANGED <<confVars, nodeVars, cmd, ymlVars, result, runs>>
CheckProcessRunning ==
  /\ at = "process" /\ running' = ~Down(Local)
  /\ at' = CASE cmd.flags.op = "init" /\ running'  -> "sync"
             [] cmd.flags.op = "init" /\ ~running' -> "start plain"
             [] cmd.flags.op # "init" /\ running'  -> "stop"
             [] OTHER                              -> "masternode"
  /\ UNCHANGED <<confVars, nodeVars, cmd, ymlVars, result, runs>>

StartsPlain ==
  /\ runPastelNode(Local, Plain) /\ Goto("start plain", "wait plain")
  /\ UNCHANGED <<confVars, cmd, ymlVars>>

\* A call that goes on when the node answers: WaitingForPastelDToStart,
\* CheckMasterNodeSync, masternode start-alias.
Answered(a, b) ==
  /\ Answers(Local) /\ Leave(a, b)
  /\ UNCHANGED <<confVars, nodeVars, cmd, ymlVars>>

\* checkCollateral, checkPassphrase, checkMasternodePrivKey and checkPastelID: the
\* node makes what the user does not bring.
checkKeys ==
  /\ Answers(Local) \/ (cmd.flags.pkey /\ cmd.flags.pid)
  /\ cmd' = [cmd EXCEPT !.key = IF cmd.flags.pkey THEN 0 ELSE runs,
                        !.id = IF cmd.flags.pid THEN 0 ELSE runs]
  /\ Goto("keys", IF running THEN "draft" ELSE "stop plain")
  /\ UNCHANGED <<confVars, nodeVars, ymlVars>>

Stops(a, b) ==
  /\ StopPastelDAndWait(Local) /\ Goto(a, b)
  /\ UNCHANGED <<confVars, cmd, ymlVars>>

createOrUpdateMasternodeConf ==
  /\ \/ /\ Draft(~cmd.flags.new, cmd.flags.name,
                 [addr |-> cmd.flags.ip, key |-> cmd.key, id |-> cmd.id])
        /\ Goto("draft", "backup")
     \/ backupMasterNodeConfFile /\ Goto("backup", "write")
     \/ WriteConf /\ Goto("write", "yml")
     \/ WriteConfFails /\ at = "write" /\ Returns("error")
  /\ UNCHANGED <<nodeVars, cmd, ymlVars>>

YmlDone == Goto("yml", IF running THEN "stop" ELSE "masternode")
\* Variant: a PastelID that is there is kept.
KeepYml ==
  /\ yml' = IF yml \in {NoFile, NoId} THEN cmd.id ELSE yml
  /\ YmlDone /\ UNCHANGED <<confVars, nodeVars, cmd, lost>>
\* A new file comes from the template, which has no PastelID, and a failed write of an
\* old one returns the nil error of the call before.  With a piece of a file it is the
\* parsing that fails, or a panic.
createOrUpdateSuperNodeConfig ==
  /\ \/ yml \notin {NoFile, Piece} /\ yml' = cmd.id /\ UNCHANGED lost /\ YmlDone
     \/ yml = NoFile /\ yml' = NoId /\ lost' = TRUE /\ YmlDone
     \/ yml = NoFile /\ yml' = Piece /\ lost' = TRUE /\ at = "yml" /\ Returns("error")
     \/ /\ "yml" \in Cases /\ yml \notin {NoFile, Piece}
        /\ yml' \in {yml, Piece} /\ lost' = TRUE /\ YmlDone
  /\ UNCHANGED <<confVars, nodeVars, cmd>>

runStartMasternode ==
  /\ \E e \in getMasternodeConfData(cmd.flags.name, cmd.flags.ip) :
       e.addr = cmd.flags.ip /\ runPastelNode(Local, e.key)
  /\ Goto("masternode", "wait masternode")
  /\ UNCHANGED <<confVars, cmd, ymlVars>>

AfterWait == IF cmd.flags.op = "masternode" THEN "idle" ELSE "sync masternode"
AfterAlias == IF cmd.flags.op = "init" THEN "idle" ELSE "services"
runStartAliasMasternode ==
  /\ cmd.flags.name \in (IF Readable(node[Local].sees) THEN DOMAIN node[Local].sees ELSE {})
  /\ Answered("alias", AfterAlias)

\* runRQService, runDDService and runSuperNodeService, which ServiceManager has.
StartsServices == Leave("services", "idle") /\ UNCHANGED <<confVars, nodeVars, cmd, ymlVars>>

\* An error of any call: of the system, of the node, or the user's No.  The waits
\* end with one only when the node does not answer.
ReturnsError ==
  /\ at # "idle" /\ Returns("error")
  /\ at \in {"wait plain", "wait masternode"} => ~Answers(Local)
  /\ UNCHANGED <<confVars, nodeVars, cmd, ymlVars>>
\* Ctrl-C, or a panic on an answer that is not as expected.
Interrupted ==
  /\ at # "idle" /\ Returns("none") /\ UNCHANGED <<confVars, nodeVars, cmd, ymlVars>>

Step ==
  \/ checkStartMasterNodeParams \/ CheckProcessRunning
  \/ StartsPlain \/ Answered("wait plain", "sync") \/ Answered("sync", "keys")
  \/ checkKeys \/ Stops("stop plain", "draft")
  \/ createOrUpdateMasternodeConf \/ createOrUpdateSuperNodeConfig
  \/ Stops("stop", "masternode") \/ runStartMasternode
  \/ Answered("wait masternode", AfterWait)
  \/ Answered("sync masternode", IF cmd.flags.activate THEN "alias" ELSE AfterAlias)
  \/ runStartAliasMasternode \/ StartsServices
  \/ ReturnsError

Next ==
  \/ \E c \in Commands : Begin(c)
  \/ Step \/ Interrupted
  \/ \E h \in Host : HostStep(h) /\ UNCHANGED <<confVars, cmdVars>>

Spec == Init /\ [][Next]_vars

-----------------------------------------------------------------------------
Named == getMasternodeConfData(cmd.flags.name, cmd.flags.ip)

\* A command that has returned without an error leaves a masternode: the node, if
\* it has not crashed since, runs with the private key masternode.conf has for the
\* name, or for the address, and not as the plain node it was before.
RunsAsMasternode ==
  result = "ok" =>
    node[Local].is = "crashed" \/ \E e \in Named : e.addr = cmd.flags.ip /\ node[Local].as = e.key

\* The node's service is the only thing that can make it otherwise: it starts the
\* node as what it was when the service was installed, whatever is asked for.
MasternodeUnlessManaged == Local \notin managed => RunsAsMasternode

\* The node that is told to start an alias has read the masternode.conf that is
\* there now, with the record that init has just put into it, and runs with the private
\* key it has for the masternode.  Unless a service keeps the node: systemd starts it
\* again as what it was, perhaps before the file is written, and a node that loads when
\* it is to be stopped stays.
AliasIsKnown ==
  at = "alias" /\ Answers(Local) /\ Local \notin managed =>
    /\ node[Local].sees = conf[Local]
    /\ \E e \in Named : e.addr = cmd.flags.ip /\ node[Local].as = e.key
    /\ cmd.flags.op = "init" => <<cmd.flags.name, [addr |-> cmd.flags.ip, key |-> cmd.key,
                                           id |-> cmd.id]>> \in Records(conf[Local])

\* After init, supernode.yml has the PastelID that masternode.conf has for the
\* masternode the node runs as, unless it could not be written or had to be made, for
\* which init succeeds all the same.  And even then, at any time, it has none but the
\* PastelID of a record that is in masternode.conf or in a backup of it.
SupernodeHasItsId ==
  /\ result = "ok" /\ cmd.flags.op = "init" =>
       \E e \in Named : /\ yml = e.id \/ lost
                        /\ node[Local].is = "crashed" \/ Local \in managed \/ node[Local].as = e.key
  /\ yml \in {0, NoFile, NoId, Piece} \/ \E k \in Kept : k[2].id = yml
=============================================================================
