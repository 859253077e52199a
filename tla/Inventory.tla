------------------------------- MODULE Inventory -------------------------------
(***************************************************************************)
(* A remote sub-command run on the hosts of an inventory file: the servers    *)
(* of each group one after the other, or all of them in parallel, one         *)
(* goroutine each.  The parameters of the session to come are fields of one   *)
(* Config, which every goroutine and the loop over the groups share: each of  *)
(* their accesses to it is a step.                                           *)
(*                                                                           *)
(* cmd/inventory.go, executeRemoteCommandsWithInventory, executeRemoteCommands *)
(* and prepareRemoteSession of cmd/common.go.                                *)
(***************************************************************************)
EXTENDS Integers, FiniteSets, SequencesExt

CONSTANTS
  Server, Group,
  Commands,          \* the commands under study with the inventory files they are given
  None, Torn,        \* no value, and a string made of two others
  numCommands        \* the callers pass one command to execute

Main == "main"
Field == {"user", "ip", "port", "key"}
defaultPort == "22"
Pending == -1     \* no outcome yet
\* --remote, --inventory and --inventory --in-parallel
Mode == {"single", "serial", "parallel"}

\* The filter {} is none.  The inventory: the groups with the parameters common to
\* their servers, and the group and the own parameters of each server.  Any of them
\* may be missing, also the address; no server is in two groups.
ASSUME CommandAssumption ==
  \A c \in Commands :
    /\ c.mode \in Mode /\ c.filter \subseteq Group
    /\ DOMAIN c.common \subseteq Group /\ DOMAIN c.own \subseteq Server
    /\ \A g \in DOMAIN c.common : Field \subseteq DOMAIN c.common[g] /\ c.common[g].ip = None
    /\ \A s \in DOMAIN c.own : Field \subseteq DOMAIN c.own[s]
    /\ c.groupOf \in [DOMAIN c.own -> DOMAIN c.common]
    /\ c.mode = "single" => DOMAIN c.own # {}   \* the one the flags are about
ASSUME ServerAssumption ==
  Main \notin Server /\ IsFiniteSet(Server) /\ IsFiniteSet(Group) /\ numCommands \in Nat \ {0}

\* The loop over the groups, and one thread for each server it starts on.
Thread == Server \cup {Main}

VARIABLES
  cmd,          \* the command and its inventory
  loop,         \* what the loop is about to do
  groupsLeft, serversLeft,   \* what it has not taken up yet
  config,       \* the shared fields RemoteUser, RemoteIP, RemotePort and RemoteSSHKey
  code,         \* the accesses to config each thread has still to make
  login,        \* what an attempt has read from it
  ran,          \* the commands an attempt has had executed
  running,      \* the attempts the wait group counts
  chan, closed, \* outChan
  outs,         \* the answers: the attempts they come from
  result        \* what executeRemoteCommandsWithInventory returns

vars == <<cmd, loop, groupsLeft, serversLeft, config, code, login, ran,
          running, chan, closed, outs, result>>
plan == <<groupsLeft, serversLeft>>
channel == <<chan, closed>>

mode == cmd.mode
groups == DOMAIN cmd.common
servers == DOMAIN cmd.own
common == cmd.common
own == cmd.own
In(g) == {s \in servers : cmd.groupOf[s] = g}

Value == {None, Torn, defaultPort} \cup {own[s][f] : s \in servers, f \in Field}
           \cup {common[g][f] : g \in groups, f \in Field}
Access == {"set", "default", "get"} \X Field \X Value

TypeOK ==
  /\ cmd \in Commands
  /\ loop \in {"read", "group", "server", "wait", "collect", "end", "crashed"}
  /\ groupsLeft \in SUBSET Group /\ serversLeft \in SUBSET Server
  /\ config \in [Field -> Value]
  /\ code \in [Thread -> Seq(Access)]
  /\ login \in [Server -> [Field -> Value]]
  /\ ran \in [Server -> Pending..numCommands]
  /\ running \in SUBSET Server
  /\ chan \in Seq(Server) /\ closed \in BOOLEAN
  /\ outs \in Seq(Server)
  /\ result \in {"none", "ok", "error"}

Init ==
  /\ cmd \in Commands
  /\ loop = "read"
  /\ groupsLeft = {} /\ serversLeft = {}
  /\ config = [f \in Field |-> None]
  /\ code = [t \in Thread |-> <<>>]
  /\ login = [s \in Server |-> [f \in Field |-> None]]
  /\ ran = [s \in Server |-> Pending]
  /\ running = {} /\ chan = <<>> /\ closed = FALSE
  /\ outs = <<>> /\ result = "none"

(***************************************************************************)
(* What the loop and an attempt do to config.                                *)
(***************************************************************************)
set(f, v) == <<"set", f, v>>
get(f) == <<"get", f, None>>
\* Only parameters that are given are copied.
If(op, f, v) == IF v = None THEN <<>> ELSE <<<<op, f, v>>>>
Copy(op, from) == If(op, "user", from.user) \o If(op, "port", from.port) \o If(op, "key", from.key)

\* Variant: the user of the group before stays.
UserStays(g) == <<set("ip", None), set("port", None), set("key", None)>> \o Copy("set", common[g])
EnterGroup(g) ==
  <<set("user", None), set("ip", None), set("port", None), set("key", None)>>
    \o Copy("set", common[g])

\* prepareRemoteSession: is there an address, is there a key; then the arguments
\* of Credentials and of DialWithKey or DialWithPasswd.
Session == <<get("ip"), get("key"), get("user"), get("ip"), get("port"), get("key")>>

\* Variant: the parameters of the group come first.
GroupFirst(s) ==
  Copy("default", own[s]) \o <<set("ip", own[s].ip), <<"default", "port", defaultPort>>>> \o Session
Attempt(s) ==
  Copy("set", own[s]) \o <<set("ip", own[s].ip), <<"default", "port", defaultPort>>>> \o Session

(***************************************************************************)
(* An access to config.  A string takes two words: who reads or writes one    *)
(* while another thread writes it may leave or get one made of both, or an    *)
(* address that is not there.                                                *)
(***************************************************************************)
Busy(t) == loop # "crashed" /\ code[t] # <<>>
Contended(t, f) ==
  f # "port" /\ \E u \in Thread \ {t} :
                  code[u] # <<>> /\ Head(code[u])[1] = "set" /\ Head(code[u])[2] = f
Seen(t, f, v) == {v} \cup (IF Contended(t, f) THEN {Torn} ELSE {})

Set(t) ==
  /\ Busy(t) /\ Head(code[t])[1] = "set"
  /\ LET f == Head(code[t])[2]
     IN \E v \in Seen(t, f, Head(code[t])[3]) : config' = [config EXCEPT ![f] = v]
  /\ code' = [code EXCEPT ![t] = Tail(@)]
  /\ UNCHANGED <<cmd, loop, plan, login, ran, running, channel, outs, result>>

\* The test for a value that is missing.  The assignment after it is an access of its
\* own, before which another thread may have set the field.
Default(s) ==
  /\ Busy(s) /\ Head(code[s])[1] = "default"
  /\ LET a == Head(code[s])
     IN code' = [code EXCEPT ![s] = IF config[a[2]] = None THEN <<set(a[2], a[3])>> \o Tail(@)
                                    ELSE Tail(@)]
  /\ UNCHANGED <<cmd, loop, plan, config, login, ran, running, channel, outs, result>>

\* The accesses left after one that got v: none without an address; without a key
\* there is a password, and the key is not read again.
After(accesses, v) ==
  CASE Len(accesses) = 6 /\ v = None -> <<>>
    [] Len(accesses) = 5 /\ v = None -> SubSeq(accesses, 2, 4)
    [] OTHER -> Tail(accesses)

Get(s) ==
  /\ Busy(s) /\ Head(code[s])[1] = "get"
  /\ LET f == Head(code[s])[2]
     IN \E v \in Seen(s, f, config[f]) :
          /\ login' = [login EXCEPT ![s][f] = v]
          /\ code' = [code EXCEPT ![s] = After(@, v)]
          /\ ran' = IF Len(code[s]) = 6 /\ v = None THEN [ran EXCEPT ![s] = 0] ELSE ran
  /\ UNCHANGED <<cmd, loop, plan, config, running, channel, outs, result>>

Crash(s) ==
  /\ Busy(s) /\ Head(code[s])[1] = "get" /\ Contended(s, Head(code[s])[2])
  /\ loop' = "crashed"
  /\ config' = [f \in Field |-> None] /\ code' = [t \in Thread |-> <<>>]
  /\ login' = [t \in Server |-> [f \in Field |-> None]]
  /\ groupsLeft' = {} /\ serversLeft' = {} /\ running' = {}
  /\ chan' = <<>> /\ closed' = FALSE /\ outs' = <<>>
  /\ UNCHANGED <<cmd, ran, result>>

\* Variant: the failing command counts.
FailedToo == 0..(numCommands + 1)
Outcomes == 0..numCommands

\* The session is opened, pastelup copied and the commands executed until one
\* fails.  An attempt that lost its address after the test dials this host.
Execute(s) ==
  /\ loop # "crashed" /\ s \in running /\ code[s] = <<>> /\ ran[s] = Pending
  /\ \E n \in Outcomes :
       /\ Torn \in {login[s].ip, login[s].user, login[s].key} => n = 0
       /\ ran' = [ran EXCEPT ![s] = n]
  /\ UNCHANGED <<cmd, loop, plan, config, code, login, running, channel, outs, result>>

(***************************************************************************)
(* The loop over groups and servers.                                        *)
(***************************************************************************)
Passes(g) == cmd.filter = {} \/ g \in cmd.filter
Selected == {s \in servers : Passes(cmd.groupOf[s])}

\* With --remote the parameters are those of the flags.
Single ==
  /\ loop = "read" /\ mode = "single"
  /\ \E s \in servers :
       /\ config' = [f \in Field |-> IF f = "port" /\ own[s][f] = None THEN defaultPort
                                     ELSE own[s][f]]
       /\ code' = [code EXCEPT ![s] = Session]
       /\ running' = {s}
  /\ loop' = "wait"
  /\ UNCHANGED <<cmd, plan, login, ran, channel, outs, result>>

ReadAnsibleYamlInventory ==
  /\ loop = "read" /\ mode # "single"
  /\ \/ loop' = "group" /\ groupsLeft' = groups /\ UNCHANGED result
     \/ loop' = "end" /\ result' = "error" /\ UNCHANGED groupsLeft
  /\ UNCHANGED <<cmd, serversLeft, config, code, login, ran, running, channel, outs>>

NextGroup ==
  /\ loop = "group"
  /\ \E g \in groupsLeft :
       /\ groupsLeft' = groupsLeft \ {g}
       /\ IF ~Passes(g)
          THEN UNCHANGED <<loop, serversLeft, code>>
          ELSE /\ loop' = "server"
               /\ serversLeft' = In(g)
               /\ code' = [code EXCEPT ![Main] = EnterGroup(g)]
  /\ UNCHANGED <<cmd, config, login, ran, running, channel, outs, result>>

NextServer ==
  /\ loop = "server" /\ code[Main] = <<>>
  /\ \E s \in serversLeft :
       /\ serversLeft' = serversLeft \ {s}
       /\ code' = [code EXCEPT ![s] = Attempt(s)]
       /\ running' = running \cup {s}
  /\ loop' = IF mode = "parallel" THEN "server" ELSE "wait"
  /\ UNCHANGED <<cmd, groupsLeft, config, login, ran, channel, outs, result>>

GroupDone ==
  /\ loop = "server" /\ code[Main] = <<>> /\ serversLeft = {}
  /\ loop' = "group"
  /\ UNCHANGED <<cmd, plan, config, code, login, ran, running, channel, outs, result>>

\* The answer of the attempt the loop waits for.
Answer(s) ==
  /\ loop = "wait" /\ s \in running /\ ran[s] # Pending
  /\ running' = running \ {s}
  /\ IF mode = "single"
     THEN /\ loop' = "end"
          /\ result' = IF ran[s] = numCommands THEN "ok" ELSE "error"
          /\ outs' = IF ran[s] = numCommands THEN <<s>> ELSE <<>>
     ELSE loop' = "server" /\ outs' = Append(outs, s) /\ UNCHANGED result
  /\ UNCHANGED <<cmd, plan, config, code, login, ran, channel>>

GroupsDone ==
  /\ loop = "group" /\ groupsLeft = {}
  /\ IF mode = "parallel" THEN loop' = "collect" /\ UNCHANGED result
                          ELSE loop' = "end" /\ result' = "ok"
  /\ UNCHANGED <<cmd, plan, config, code, login, ran, running, channel, outs>>

(***************************************************************************)
(* The answers of a parallel execution: a channel with room for one answer    *)
(* of each group, closed when the wait group is down to zero.                *)
(***************************************************************************)
Send(s) ==
  /\ mode = "parallel" /\ loop # "crashed" /\ s \in running /\ ran[s] # Pending
  /\ Len(chan) < Cardinality(groups)
  /\ chan' = Append(chan, s)
  /\ running' = running \ {s}
  /\ UNCHANGED <<cmd, loop, plan, config, code, login, ran, closed, outs, result>>

\* Variant: nobody is waited for.
NotAwaited == loop = "collect"
AllDone == loop = "collect" /\ running = {}

Close ==
  /\ AllDone /\ ~closed
  /\ closed' = TRUE
  /\ UNCHANGED <<cmd, loop, plan, config, code, login, ran, running, chan, outs, result>>

\* Variant: the answers are read when all are there.
ReceiveWhenClosed == chan # <<>> /\ closed
MayReceive == chan # <<>>

Receive ==
  /\ loop = "collect" /\ MayReceive
  /\ chan' = Tail(chan)
  /\ outs' = Append(outs, Head(chan))
  /\ UNCHANGED <<cmd, loop, plan, config, code, login, ran, running, closed, result>>

Collected ==
  /\ loop = "collect" /\ closed /\ chan = <<>>
  /\ loop' = "end" /\ result' = "ok"
  /\ UNCHANGED <<cmd, plan, config, code, login, ran, running, channel, outs>>

Ended == loop \in {"end", "crashed"} /\ UNCHANGED vars

LoopStep == \/ Set(Main) \/ Single \/ ReadAnsibleYamlInventory \/ NextGroup \/ NextServer
            \/ GroupDone \/ GroupsDone \/ Receive \/ Collected
            \/ \E s \in Server : Answer(s)
AttemptStep(s) == Set(s) \/ Default(s) \/ Get(s) \/ Crash(s) \/ Execute(s) \/ Send(s)

Next == LoopStep \/ (\E s \in Server : AttemptStep(s)) \/ Close \/ Ended

\* The loop and the goroutines run; a session and the commands in it come to an end.
Spec == Init /\ [][Next]_vars /\ WF_vars(LoopStep) /\ WF_vars(Close)
          /\ \A s \in Server : WF_vars(AttemptStep(s))

-----------------------------------------------------------------------------
(***************************************************************************)
(* Properties.                                                              *)
(***************************************************************************)
\* When the command returns after going through an inventory it has one answer,
\* a nil one if need be, from every attempt it was to make: no goroutine is
\* forgotten by the wait group, cut off by the closing of outChan, or counted twice.
AnswersKept ==
  loop = "end" /\ result = "ok" /\ mode # "single" =>
    Range(outs) = Selected /\ Len(outs) = Cardinality(Selected)

\* One after the other, every server of the selected groups is tried at its own
\* address, also after the failure of another, and with its own port, user and key
\* when the file gives it some.
SerialReachesEach ==
  loop = "end" /\ result = "ok" /\ mode = "serial" =>
    \A s \in Selected :
      /\ ran[s] # Pending /\ login[s].ip = own[s].ip
      /\ own[s].ip # None =>
           \A f \in Field : own[s][f] # None => login[s][f] = own[s][f]

\* One after the other, a session never uses the user, the key or the port of
\* another group.  (It does use those of an earlier server of its own group, whose
\* fields stay in config, when it has none itself.)
GroupsKeptApart ==
  mode = "serial" =>
    \A g \in groups, f \in {"user", "port", "key"} : \A s \in In(g) :
      login[s][f] \in {None, defaultPort, common[g][f]} \cup {own[t][f] : t \in In(g)}

\* The command returns: nobody waits for a place in outChan, for the wait group or
\* for the closing of the channel forever.  (A torn string may end the process.)
Returns == <>(loop \in {"end", "crashed"})

\* "ExecuteCommandsAsync executes commands on all hosts from inventory in parallel"
\* (cmd/inventory.go:190): when it returns, every host has been tried.
ParallelReachesEach ==
  loop = "end" /\ result = "ok" /\ mode = "parallel" =>
    \A s \in Selected : \E t \in Selected : login[t].ip = own[s].ip
=============================================================================
