---------------------------- MODULE ServiceManager ----------------------------
(***************************************************************************)
(* One host: the systemd units pastelup writes for its tools, the processes  *)
(* of the tools, and one pastelup command (stop, start, update               *)
(* install-service, update remove-service) working on them call by call.     *)
(* Between two calls of the command systemd restarts services, processes     *)
(* die, the host reboots and the command itself may be interrupted.          *)
(*                                                                           *)
(* cmd/servicemanager.go, cmd/systemServicesHelper.go, cmd/stop.go and the   *)
(* run*Service functions of cmd/start.go.                                    *)
(***************************************************************************)
EXTENDS Tools, Integers

CONSTANTS
  Tool,            \* the tools of the host under study
  StopLists,       \* the lists `stop` is run with
  StartLists,      \* the lists `start` is run with
  ServiceLists,    \* the lists install-service and remove-service are run with
  Systems,         \* which hosts are studied: TRUE for those with systemd
  Failures,        \* the kinds of call that may fail on the host
  MaxManual        \* bound: processes of one tool started outside systemd

ToolOf(n) == IF n \in installServiceFlag THEN toolToToolType[n] ELSE n

Name == {n \in ToolType \cup installServiceFlag : ToolOf(n) \in Tool}

FailureKind == {"query", "start", "stop", "enable", "disable", "write", "rm", "ps", "kill"}

ASSUME ListAssumption == /\ StopLists \subseteq Seq(Name) \ {<<>>}
                         /\ StartLists \subseteq Seq(Name) \ {<<>>}
                         /\ ServiceLists \subseteq Seq(Name) \ {<<>>}
ASSUME HostAssumption == /\ Tool \subseteq ToolType
                         /\ Systems \subseteq BOOLEAN
                         /\ Failures \subseteq FailureKind
                         /\ MaxManual \in Nat \ {0}

VARIABLES
  servicesEnabled,  \* NewServiceManager succeeds: the host is a Linux
  unitFile,   \* Tool -> what /etc/systemd/system holds for the tool
  enabled,    \* the tools whose unit starts at boot
  unit,       \* Tool -> state of the unit; a process runs iff "active"
  manual,     \* Tool -> processes started outside systemd
  execs,      \* the tools whose executable is on disk
  op,         \* the last pastelup command
  at,         \* the call the command is about to make, "idle" between commands
  todo,       \* the rest of the command's list, its head is being handled
  asked,      \* the names of the command's list
  flags,      \* --autostart and --start of install-service
  fg,         \* the process run in the foreground by runPastelService is alive
  result,     \* what the command returned
  claim       \* Tool -> what pastelup last reported of the tool

host == <<servicesEnabled, unitFile, enabled, unit, manual, execs>>
command == <<op, at, todo, asked, flags, fg, result, claim>>
vars == <<servicesEnabled, unitFile, enabled, unit, manual, execs,
          op, at, todo, asked, flags, fg, result, claim>>

Flavour == {"absent", "plain", "masternode"}
UnitState == {"inactive", "active", "activating"}
Op == {"none", "stop", "start", "install", "remove"}
Step == {"idle", "register", "write", "enable",       \* RegisterService, EnableService
         "registered", "running", "sysstart", "sysstop",  \* StartService, StopService
         "verify", "launch", "verify2", "relaunch", "foreground",  \* run*Service
         "kill", "stopcheck",                        \* stopServices without systemd
         "recheck", "disable", "rm"}                 \* removeSystemService

TypeHost ==
  /\ servicesEnabled \in BOOLEAN
  /\ unitFile \in [Tool -> Flavour]
  /\ enabled \in SUBSET Tool
  /\ unit \in [Tool -> UnitState]
  /\ manual \in [Tool -> 0..MaxManual]
  /\ execs \in SUBSET Tool

TypeControl ==
  /\ op \in Op
  /\ at \in Step
  /\ todo \in Seq(Name)
  /\ (at = "idle") \/ (todo # <<>>)
  /\ asked \in SUBSET Name
  /\ flags \in SUBSET {"autostart", "start"}
  /\ result \in {"none", "pending", "ok", "error"}

TypeClaim ==
  /\ fg \in BOOLEAN
  /\ claim \in [Tool -> {"none", "stopped", "managed"}]

TypeOK == TypeHost /\ TypeControl /\ TypeClaim

Init ==
  /\ servicesEnabled \in Systems
  /\ unitFile = [t \in Tool |-> "absent"]
  /\ enabled = {}
  /\ unit = [t \in Tool |-> "inactive"]
  /\ manual = [t \in Tool |-> 0]
  /\ execs \in SUBSET Tool
  /\ op = "none" /\ at = "idle" /\ todo = <<>> /\ asked = {} /\ flags = {}
  /\ fg = FALSE /\ result = "none"
  /\ claim = [t \in Tool |-> "none"]

-----------------------------------------------------------------------------
(* What the calls see. *)

\* The tool being handled.
cur == ToolOf(Head(todo))
Alive(t) == unit[t] = "active" \/ manual[t] > 0

\* Variant: a unit waiting for its restart is not counted as running.
ActiveOnly == {"active"}
\* The outputs of `systemctl is-active` that mean running.
ActiveOutput == {"active", "activating"}

\* Variant: a registered service is taken for a running one.
RunningIfRegistered(t) == {unitFile[t] # "absent"}
\* A failed call gives an empty output, which reads as not running.
IsRunning(t) ==
  {unit[t] \in ActiveOutput} \cup (IF "query" \in Failures THEN {FALSE} ELSE {})

\* `systemctl list-unit-files`: everything but "0 unit files listed." reads as
\* registered, the empty output of a failed call included.
IsRegistered(t) ==
  {unitFile[t] # "absent"} \cup (IF "query" \in Failures THEN {TRUE} ELSE {})

\* GetRunningProcessPid and FindRunningProcess over the process list.
CheckProcessRunning(t) ==
  {Alive(t)} \cup (IF "ps" \in Failures THEN {FALSE} ELSE {})

-----------------------------------------------------------------------------
(* Walking through the list. *)

Goto(step) == at' = step /\ UNCHANGED <<op, todo, asked, flags, result>>

Finish(r) == /\ at' = "idle" /\ todo' = <<>> /\ result' = r
             /\ UNCHANGED <<op, asked, flags>>

FirstStep(o) == CASE o = "install" -> "register" [] OTHER -> "registered"

\* Variant: the loop does not stop after the last one.
AdvancePastEnd == /\ todo' = Tail(todo) /\ at' = FirstStep(op)
                  /\ UNCHANGED <<op, asked, flags, result>>
\* The head of the list is done: on to the next one, or the command returns nil.
Advance ==
  IF Len(todo) = 1 THEN Finish("ok")
  ELSE /\ todo' = Tail(todo) /\ at' = FirstStep(op)
       /\ UNCHANGED <<op, asked, flags, result>>

Report(c) == claim' = [claim EXCEPT ![cur] = c]

Invoke(o, list, fl) ==
  /\ at = "idle"
  /\ op' = o /\ todo' = list /\ flags' = fl
  /\ asked' = {list[i] : i \in DOMAIN list}
  /\ at' = FirstStep(o) /\ result' = "pending"
  /\ UNCHANGED <<host, fg, claim>>

\* install-service and remove-service return an error at once where
\* NewServiceManager does.
NoServiceManager(o) ==
  /\ at = "idle" /\ ~servicesEnabled
  /\ op' = o /\ result' = "error" /\ asked' = {} /\ todo' = <<>>
  /\ UNCHANGED <<host, at, flags, fg, claim>>

Stop == \E l \in StopLists : Invoke("stop", l, {})
\* Bound: a start runs an executable by hand at most twice.
Start == \E l \in StartLists :
           /\ \A i \in DOMAIN l : manual[ToolOf(l[i])] + 2 <= MaxManual
           /\ Invoke("start", l, {})
InstallService ==
  \/ /\ servicesEnabled
     /\ \E l \in ServiceLists, fl \in SUBSET {"autostart", "start"} : Invoke("install", l, fl)
  \/ NoServiceManager("install")
RemoveService ==
  \/ servicesEnabled /\ \E l \in ServiceLists : Invoke("remove", l, {})
  \/ NoServiceManager("remove")

-----------------------------------------------------------------------------
(* IsRegistered and IsRunning, where the commands branch on them.            *)

SeenRegistered ==
  /\ at = "registered" /\ servicesEnabled /\ TRUE \in IsRegistered(cur)
  /\ Goto("running")
  /\ UNCHANGED <<host, fg, claim>>

\* stop kills the process instead; remove-service returns nil from the whole
\* command; StartService returned false to install-service, which fails, or to
\* start, which runs the executable itself.
SeenUnregistered ==
  /\ at = "registered" /\ (~servicesEnabled \/ FALSE \in IsRegistered(cur))
  /\ \/ op = "stop" /\ Goto("kill")
     \/ op = "remove" /\ Finish("ok")
     \/ op = "install" /\ Finish("error")
     \/ op = "start" /\ cur # DDImgService /\ Goto("launch")
     \/ op = "start" /\ cur = DDImgService
          /\ (IF servicesEnabled THEN Advance ELSE Finish("error"))
  /\ UNCHANGED <<host, fg, claim>>

\* Variant: what StartService returned is not looked at.
StartedThenLaunch ==
  /\ Report("managed")
  /\ IF op = "start" /\ cur # DDImgService THEN Goto("launch") ELSE Advance
\* StartService returned true.  Only start looks whether the process runs.
Started ==
  /\ Report("managed")
  /\ IF op = "start" /\ cur # DDImgService THEN Goto("verify") ELSE Advance

SeenRunning ==
  /\ at = "running" /\ TRUE \in IsRunning(cur)
  /\ \/ op = "stop" /\ Goto("sysstop") /\ UNCHANGED claim
     \/ op = "remove" /\ Goto("recheck") /\ UNCHANGED claim
     \/ op \in {"start", "install"} /\ Started
  /\ UNCHANGED <<host, fg>>

\* StopService is a no-op for a service that is not running, and stopServices
\* takes its nil for success: the process is not killed.
SeenNotRunning ==
  /\ at = "running" /\ FALSE \in IsRunning(cur)
  /\ \/ op = "stop" /\ Report("stopped") /\ Advance
     \/ op = "remove" /\ Goto("disable") /\ UNCHANGED claim
     \/ op \in {"start", "install"} /\ Goto("sysstart") /\ UNCHANGED claim
  /\ UNCHANGED <<host, fg>>

\* Variant: the service is not stopped before it is removed.
RecheckSkipsStop ==
  /\ at = "recheck" /\ Goto("disable")
  /\ UNCHANGED <<host, fg, claim>>
\* StopService, called by removeSystemService, asks once more.
Recheck ==
  /\ at = "recheck"
  /\ \/ TRUE \in IsRunning(cur) /\ Goto("sysstop")
     \/ FALSE \in IsRunning(cur) /\ Goto("disable")
  /\ UNCHANGED <<host, fg, claim>>

-----------------------------------------------------------------------------
(* systemctl start and systemctl stop *)

SystemctlStart ==
  /\ at = "sysstart" /\ unitFile[cur] # "absent"
  /\ unit' = [unit EXCEPT ![cur] = "active"]
  /\ Started
  /\ UNCHANGED <<servicesEnabled, unitFile, enabled, manual, execs, fg>>

\* StartService swallows the error and returns false.
SystemctlStartFails ==
  /\ at = "sysstart" /\ ("start" \in Failures \/ unitFile[cur] = "absent")
  /\ \/ op = "install" /\ Finish("error")
     \/ op = "start" /\ cur # DDImgService /\ Goto("launch")
     \/ op = "start" /\ cur = DDImgService /\ Advance
  /\ UNCHANGED <<host, fg, claim>>

SystemctlStop ==
  /\ at = "sysstop"
  /\ unit' = [unit EXCEPT ![cur] = "inactive"]
  /\ Report("stopped")
  /\ \/ op = "stop" /\ Advance
     \/ op = "remove" /\ Goto("disable")
  /\ UNCHANGED <<servicesEnabled, unitFile, enabled, manual, execs, fg>>

\* Variant: stop tries again until systemctl succeeds.
RetryStop ==
  /\ at = "sysstop" /\ "stop" \in Failures
  /\ Goto("registered")
  /\ UNCHANGED <<host, fg, claim>>

SystemctlStopFails ==
  /\ at = "sysstop" /\ "stop" \in Failures
  /\ \/ op = "stop" /\ Goto("kill")
     \/ op = "remove" /\ Finish("error")
  /\ UNCHANGED <<host, fg, claim>>

-----------------------------------------------------------------------------
(* stopServices for a tool that is not a service, or that systemd did not    *)
(* stop: the node is asked over RPC, one process of another tool is killed.  *)

\* One process of the tool dies.  Restart=always brings the unit's one back.
OneDies(t) ==
  \/ /\ unit[t] = "active"
     /\ unit' = [unit EXCEPT ![t] = "activating"] /\ UNCHANGED manual
  \/ /\ manual[t] > 0
     /\ manual' = [manual EXCEPT ![t] = @ - 1] /\ UNCHANGED unit

\* KillProcess takes a missing process for a stopped one, the search for the
\* dd-service script does not; dd-img-server has no executable name to look for.
NothingToKill ==
  /\ at = "kill" /\ cur # PastelD
  /\ cur = DDImgService \/ ~Alive(cur)
  /\ IF cur = DDService THEN UNCHANGED claim ELSE Report("stopped")
  /\ Advance
  /\ UNCHANGED <<host, fg>>

\* Variant: the result of the kill is not looked at.
KillUnchecked ==
  /\ at = "kill" /\ cur \notin {PastelD, DDImgService}
  /\ Report("stopped") /\ Advance
  /\ UNCHANGED <<host, fg>>

KillProcess ==
  /\ at = "kill" /\ cur \notin {PastelD, DDImgService}
  /\ OneDies(cur) /\ Report("stopped") /\ Advance
  /\ UNCHANGED <<servicesEnabled, unitFile, enabled, execs, fg>>

KillFails ==
  /\ at = "kill" /\ cur # PastelD /\ Failures \cap {"ps", "kill"} # {}
  /\ Advance
  /\ UNCHANGED <<host, fg, claim>>

\* GetPastelInfo fails, because no node runs or because it does not answer.
NodeDoesNotAnswer ==
  /\ at = "kill" /\ cur = PastelD
  /\ Report("stopped") /\ Advance
  /\ UNCHANGED <<host, fg>>

\* The node answers; within the 10 seconds of StopPastelDAndWait it exits or not.
NodeStopRequested ==
  /\ at = "kill" /\ cur = PastelD /\ Alive(PastelD)
  /\ OneDies(PastelD) \/ UNCHANGED <<unit, manual>>
  /\ Goto("stopcheck")
  /\ UNCHANGED <<servicesEnabled, unitFile, enabled, execs, fg, claim>>

NodeStopChecked ==
  /\ at = "stopcheck"
  /\ \/ TRUE \in CheckProcessRunning(cur) /\ UNCHANGED claim
     \/ FALSE \in CheckProcessRunning(cur) /\ Report("stopped")
  /\ Advance
  /\ UNCHANGED <<host, fg>>


-----------------------------------------------------------------------------
(* The run*Service functions: verify what StartService started, or run the   *)
(* executable by hand and verify that.                                       *)

\* runHermesService returns nil without starting hermes when its configuration
\* cannot be updated; the start of the wallet skips a bridge that is not enabled.
StartSkipped ==
  /\ at = "registered" /\ op = "start"
  /\ cur = Hermes \/ (cur = Bridge /\ WalletNode \in asked)
  /\ Advance
  /\ UNCHANGED <<host, fg, claim>>

\* runBridgeService first checks the pastel ID of the bridge configuration.
StartRefused ==
  /\ at = "registered" /\ op = "start" /\ cur = Bridge
  /\ Finish("error")
  /\ UNCHANGED <<host, fg, claim>>

\* CheckProcessRunning, FindRunningProcess or, for the node, WaitingForPastelDToStart.
VerifyRunning ==
  /\ at \in {"verify", "verify2"} /\ TRUE \in CheckProcessRunning(cur)
  /\ Advance
  /\ UNCHANGED <<host, fg, claim>>

\* The node may run and yet not answer in all the attempts.
VerifyFails ==
  /\ at = "verify" /\ cur \in {PastelD, DDService}
  /\ cur = PastelD \/ FALSE \in CheckProcessRunning(cur)
  /\ Finish("error")
  /\ UNCHANGED <<host, fg, claim>>

ServiceNotSeen ==
  /\ at \in {"verify", "verify2"} /\ cur \notin {PastelD, DDService}
  /\ FALSE \in CheckProcessRunning(cur)
  /\ Goto(IF at = "verify" THEN "launch" ELSE "relaunch")
  /\ UNCHANGED <<host, fg, claim>>

RunByHand == /\ cur \in execs /\ manual[cur] < MaxManual
             /\ manual' = [manual EXCEPT ![cur] = @ + 1]
             /\ Report("none")
             /\ UNCHANGED <<servicesEnabled, unitFile, enabled, unit, execs>>

Launch ==
  /\ at = "launch" /\ RunByHand
  /\ Goto(IF cur \in {PastelD, DDService} THEN "verify" ELSE "verify2")
  /\ UNCHANGED fg

\* The executable is missing, or one of the other files the node needs.
LaunchFails ==
  /\ at = "launch" /\ (cur \notin execs \/ cur = PastelD)
  /\ Finish("error")
  /\ UNCHANGED <<host, fg, claim>>

\* runPastelService runs the executable again, now waiting for it to end.
Relaunch ==
  /\ at = "relaunch" /\ RunByHand
  /\ Goto("foreground") /\ fg' = TRUE

ForegroundEnded ==
  /\ at = "foreground" /\ ~fg
  /\ Advance \/ Finish("error")
  /\ UNCHANGED <<host, fg, claim>>

-----------------------------------------------------------------------------
(* installSystemService                                                      *)

\* Variant: a registered unit is written again.
RegisteredWrites ==
  /\ at = "register" /\ TRUE \in IsRegistered(cur)
  /\ Goto("write")
  /\ UNCHANGED <<host, fg, claim>>

AlreadyRegistered ==
  /\ at = "register" /\ TRUE \in IsRegistered(cur)
  /\ Goto("enable")
  /\ UNCHANGED <<host, fg, claim>>

NotYetRegistered ==
  /\ at = "register" /\ FALSE \in IsRegistered(cur)
  /\ Goto("write")
  /\ UNCHANGED <<host, fg, claim>>

\* RegisterService returns its err, which is nil here.
ExecutableMissing ==
  /\ at = "write" /\ cur \notin execs /\ cur # DDImgService
  /\ Goto("enable")
  /\ UNCHANGED <<host, fg, claim>>

\* When the temporary file cannot be written, which is only logged, the one an
\* earlier command left in /tmp is copied.
WriteUnitFile ==
  /\ at = "write" /\ (cur \in execs \/ cur = DDImgService)
  /\ \E f \in {"plain", "masternode"} :
       /\ unitFile' = [unitFile EXCEPT ![cur] = f]
       /\ \/ (f = "masternode") <=> (Head(todo) = "masternode")
          \/ "write" \in Failures /\ cur = PastelD
  /\ \/ Goto("enable")
     \/ "write" \in Failures /\ Finish("error")       \* daemon-reload failed
  /\ UNCHANGED <<servicesEnabled, enabled, unit, manual, execs, fg, claim>>

\* No user name, external IP or masternode.conf entry, or the copy failed.
WriteUnitFileFails ==
  /\ at = "write" /\ (cur \in execs \/ cur = DDImgService)
  /\ "write" \in Failures
  /\ Finish("error")
  /\ UNCHANGED <<host, fg, claim>>

AfterEnable == IF "start" \in flags THEN Goto("registered") ELSE Advance

NoAutostart ==
  /\ at = "enable" /\ "autostart" \notin flags
  /\ AfterEnable
  /\ UNCHANGED <<host, fg, claim>>

EnableService ==
  /\ at = "enable" /\ "autostart" \in flags /\ unitFile[cur] # "absent"
  /\ enabled' = enabled \cup {cur}
  /\ AfterEnable
  /\ UNCHANGED <<servicesEnabled, unitFile, unit, manual, execs, fg, claim>>

\* Variant: the error is logged and the loop goes on.
EnableFailureLogged ==
  /\ at = "enable" /\ "autostart" \in flags
  /\ "enable" \in Failures \/ unitFile[cur] = "absent"
  /\ AfterEnable
  /\ UNCHANGED <<host, fg, claim>>

EnableServiceFails ==
  /\ at = "enable" /\ "autostart" \in flags
  /\ "enable" \in Failures \/ unitFile[cur] = "absent"
  /\ Finish("error")
  /\ UNCHANGED <<host, fg, claim>>

-----------------------------------------------------------------------------
(* removeSystemService: errors of the last two calls are only logged.        *)

DisableService ==
  /\ at = "disable"
  /\ \/ unitFile[cur] # "absent" /\ enabled' = enabled \ {cur}
     \/ ("disable" \in Failures \/ unitFile[cur] = "absent") /\ UNCHANGED enabled
  /\ Goto("rm")
  /\ UNCHANGED <<servicesEnabled, unitFile, unit, manual, execs, fg, claim>>

RemoveUnitFile ==
  /\ at = "rm"
  /\ \/ unitFile' = [unitFile EXCEPT ![cur] = "absent"]
     \/ "rm" \in Failures /\ UNCHANGED unitFile
  /\ Advance
  /\ UNCHANGED <<servicesEnabled, enabled, unit, manual, execs, fg, claim>>

-----------------------------------------------------------------------------
(* What happens meanwhile: the units are Restart=always, RestartSec=10.      *)

\* Variant: a unit without Restart=always.
ExitsForGood(t) ==
  /\ unit[t] = "active"
  /\ unit' = [unit EXCEPT ![t] = "inactive"]
  /\ UNCHANGED <<servicesEnabled, unitFile, enabled, manual, execs, command>>

UnitExits(t) ==
  /\ unit[t] = "active"
  /\ unit' = [unit EXCEPT ![t] = "activating"]
  /\ UNCHANGED <<servicesEnabled, unitFile, enabled, manual, execs, command>>

UnitRestarts(t) ==
  /\ unit[t] = "activating"
  /\ unit' = [unit EXCEPT ![t] = "active"]
  /\ UNCHANGED <<servicesEnabled, unitFile, enabled, manual, execs, command>>

ManualExits(t) ==
  /\ manual[t] > 0
  /\ manual' = [manual EXCEPT ![t] = @ - 1]
  /\ \/ fg' = fg /\ (fg => manual'[cur] > 0)
     \/ fg /\ t = cur /\ fg' = FALSE
  /\ UNCHANGED <<servicesEnabled, unitFile, enabled, unit, execs,
                 op, at, todo, asked, flags, result, claim>>

\* Ctrl-C: the processes the command started may live on.
Interrupt ==
  /\ at # "idle" /\ Finish("error") /\ fg' = FALSE
  /\ UNCHANGED <<host, claim>>

Reboot ==
  /\ unit' = [t \in Tool |-> IF t \in enabled /\ unitFile[t] # "absent"
                            THEN "active" ELSE "inactive"]
  /\ manual' = [t \in Tool |-> 0]
  /\ Finish("none") /\ fg' = FALSE
  /\ claim' = [t \in Tool |-> "none"]
  /\ UNCHANGED <<servicesEnabled, unitFile, enabled, execs>>

-----------------------------------------------------------------------------

CommandStep ==
  \/ SeenRegistered \/ SeenUnregistered \/ SeenRunning \/ SeenNotRunning \/ Recheck
  \/ SystemctlStart \/ SystemctlStartFails \/ SystemctlStop \/ SystemctlStopFails
  \/ NothingToKill \/ KillProcess \/ KillFails
  \/ NodeDoesNotAnswer \/ NodeStopRequested \/ NodeStopChecked
  \/ StartSkipped \/ StartRefused \/ VerifyRunning \/ VerifyFails \/ ServiceNotSeen
  \/ Launch \/ LaunchFails \/ Relaunch \/ ForegroundEnded
  \/ AlreadyRegistered \/ NotYetRegistered \/ ExecutableMissing
  \/ WriteUnitFile \/ WriteUnitFileFails
  \/ NoAutostart \/ EnableService \/ EnableServiceFails
  \/ DisableService \/ RemoveUnitFile

Environment == \/ \E t \in Tool : UnitExits(t) \/ UnitRestarts(t) \/ ManualExits(t)
               \/ Interrupt
               \/ Reboot

Next == \/ Stop \/ Start \/ InstallService \/ RemoveService
        \/ CommandStep
        \/ Environment

Spec == Init /\ [][Next]_vars

\* The command's calls return and it makes the next one; systemd restarts what
\* it waits to restart.  Users need not run commands nor processes end.
Fairness == WF_vars(CommandStep) /\ \A t \in Tool : WF_vars(UnitRestarts(t))

FairSpec == Spec /\ Fairness

-----------------------------------------------------------------------------
(* Properties *)

\* A tool stop reported as stopped is not brought back by systemd, not even one
\* that was waiting for its restart when it was stopped.
StoppedStaysDown == \A t \in Tool : claim[t] = "stopped" => unit[t] = "inactive"

\* A tool StartService returned true for is up or about to be restarted until
\* pastelup stops it, whatever happens to its process.
ManagedStaysUp == \A t \in Tool : claim[t] = "managed" => unit[t] # "inactive"

\* systemd never runs, and never starts at boot, a service whose unit file
\* remove-service has deleted.
RemovedIsGone ==
  \A t \in Tool : unitFile[t] = "absent" => unit[t] = "inactive" /\ t \notin enabled

\* When install-service returned nil, every service whose executable exists has
\* its unit, is enabled and is running, as the flags asked.
InstalledIsManaged ==
  (at = "idle" /\ op = "install" /\ result = "ok") =>
    \A n \in asked : LET t == ToolOf(n) IN
      t \in execs => /\ unitFile[t] # "absent"
                     /\ "autostart" \in flags => t \in enabled
                     /\ "start" \in flags => unit[t] # "inactive"

\* stop reports a tool that is no service as stopped only when one of its
\* processes has just ended or none was running.  (The node is stopped over RPC,
\* and dd-img-server has no executable name to look for.)
StopMeansKilled ==
  [][\A t \in Tool \ {PastelD, DDImgService} :
       (/\ claim[t] # "stopped" /\ claim'[t] = "stopped"
        /\ unitFile[t] = "absent" /\ manual[t] > 0)
         => manual'[t] < manual[t]]_vars

\* The node and dd-service, which cannot run twice on a host, are never run by
\* hand while systemd runs them or is about to.
NodeNotRunTwice ==
  [][\A t \in {PastelD, DDService} \cap Tool :
       manual'[t] > manual[t] => unit[t] = "inactive"]_vars

\* The unit of a registered node is never rewritten, neither from a plain to a
\* masternode unit nor back, unless it is removed first.
FlavourKept ==
  [][\A t \in Tool : unitFile[t] # "absent" /\ unitFile'[t] # "absent"
                        => unitFile'[t] = unitFile[t]]_vars

\* Every command returns, whatever fails on the way, unless it runs a service in
\* the foreground.
CommandReturns == (at # "idle") ~> (at = "idle" \/ at = "foreground")

\* What StartService started is up again after every crash unless it is stopped.
ManagedComesBack ==
  \A t \in Tool : (claim[t] = "managed") ~> (unit[t] = "active" \/ claim[t] # "managed")

\* The units behave as the abstract managed services.
Managed == INSTANCE ManagedService WITH
  status <- [t \in Tool |-> IF unitFile[t] = "absent" THEN "absent"
                            ELSE IF unit[t] = "inactive" THEN "stopped" ELSE "running"]
ManagedSpec == Managed!Spec

=============================================================================
