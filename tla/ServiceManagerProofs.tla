------------------------ MODULE ServiceManagerProofs ------------------------
(* The theorems about ServiceManager, for every host, every list of tools   *)
(* and every bound.                                                          *)
EXTENDS ServiceManager, SequenceTheorems, TLAPS

-----------------------------------------------------------------------------
(* Type correctness                                                          *)

\* The head of a command's list is a name, and the tool it names is on the host.
LEMMA CurrentTool ==
  ASSUME TypeOK, at # "idle"
  PROVE  Head(todo) \in Name /\ cur \in Tool
<1>1. todo \in Seq(Name) /\ todo # <<>>
  BY DEF TypeOK, TypeControl
<1>2. Head(todo) \in Name
  BY <1>1
<1> QED
  BY <1>2 DEF Name, cur

\* Goto, Finish, Advance and Invoke leave the command well typed.
LEMMA GotoType ==
  ASSUME TypeOK, at # "idle", NEW s \in Step, Goto(s)
  PROVE  TypeControl'
BY DEF TypeOK, TypeControl, Goto

LEMMA FinishType ==
  ASSUME TypeOK, NEW r \in {"none", "pending", "ok", "error"}, Finish(r)
  PROVE  TypeControl'
<1>1. <<>> \in Seq(Name)
  OBVIOUS
<1> QED
  BY <1>1 DEF TypeOK, TypeControl, Finish, Step

LEMMA AdvanceType ==
  ASSUME TypeOK, at # "idle", Advance
  PROVE  TypeControl'
<1>1. CASE Len(todo) = 1
  BY <1>1, FinishType DEF Advance
<1>2. CASE Len(todo) # 1
  <2>1. todo \in Seq(Name) /\ todo # <<>>
    BY DEF TypeOK, TypeControl
  <2>2. Tail(todo) \in Seq(Name) /\ Len(Tail(todo)) # 0
    BY <1>2, <2>1, HeadTailProperties, LenProperties
  <2>3. FirstStep(op) \in Step
    BY DEF FirstStep, Step
  <2> QED
    BY <1>2, <2>2, <2>3, EmptySeq DEF Advance, TypeOK, TypeControl
<1> QED
  BY <1>1, <1>2

LEMMA InvokeType ==
  ASSUME TypeOK, NEW o \in Op, NEW list \in Seq(Name) \ {<<>>},
         NEW fl \in SUBSET {"autostart", "start"}, Invoke(o, list, fl)
  PROVE  TypeControl'
<1>1. {list[i] : i \in DOMAIN list} \subseteq Name
  OBVIOUS
<1>2. FirstStep(o) \in Step
  BY DEF FirstStep, Step
<1> QED
  BY <1>1, <1>2 DEF Invoke, TypeOK, TypeControl

\* Report writes one of the claims TypeOK names.
LEMMA ReportType ==
  ASSUME TypeOK, at # "idle", NEW c \in {"none", "stopped", "managed"}, Report(c)
  PROVE  claim' \in [Tool -> {"none", "stopped", "managed"}]
BY DEF TypeOK, TypeClaim, Report
LEMMA OneDiesType ==
  ASSUME TypeOK, NEW t \in Tool, OneDies(t)
  PROVE  unit' \in [Tool -> UnitState] /\ manual' \in [Tool -> 0..MaxManual]
<1>1. CASE unit' = [unit EXCEPT ![t] = "activating"] /\ UNCHANGED manual
  BY <1>1 DEF TypeOK, TypeHost, UnitState
<1>2. CASE manual[t] > 0 /\ manual' = [manual EXCEPT ![t] = @ - 1] /\ UNCHANGED unit
  <2>1. manual[t] - 1 \in 0..MaxManual
    BY <1>2, HostAssumption DEF TypeOK, TypeHost
  <2> QED
    BY <1>2, <2>1 DEF TypeOK, TypeHost
<1> QED
  BY <1>1, <1>2 DEF OneDies

LEMMA TypeInit == Init => TypeOK
<1> SUFFICES ASSUME Init PROVE TypeOK
  OBVIOUS
<1>1. 0 \in 0..MaxManual
  BY HostAssumption
<1>2. TypeHost
  BY <1>1, HostAssumption DEF Init, TypeHost, Flavour, UnitState
<1>3. TypeControl
  BY EmptySeq DEF Init, TypeControl, Op, Step
<1>4. TypeClaim
  BY DEF Init, TypeClaim
<1> QED
  BY <1>2, <1>3, <1>4 DEF TypeOK

LEMMA TypeInvocation ==
  ASSUME TypeOK, Stop \/ Start \/ InstallService \/ RemoveService
  PROVE  TypeOK'
<1>1. CASE \E o \in Op, list \in Seq(Name) \ {<<>>}, fl \in SUBSET {"autostart", "start"} :
             Invoke(o, list, fl)
  <2>1. TypeControl'
    BY <1>1, InvokeType
  <2>2. TypeHost' /\ TypeClaim'
    BY <1>1 DEF Invoke, host, TypeOK, TypeHost, TypeClaim
  <2> QED
    BY <2>1, <2>2 DEF TypeOK
<1>2. CASE \E o \in Op : NoServiceManager(o)
  <2>1. TypeControl'
    BY <1>2, EmptySeq DEF NoServiceManager, TypeOK, TypeControl
  <2>2. TypeHost' /\ TypeClaim'
    BY <1>2 DEF NoServiceManager, host, TypeOK, TypeHost, TypeClaim
  <2> QED
    BY <2>1, <2>2 DEF TypeOK
<1> QED
  BY <1>1, <1>2, ListAssumption DEF Stop, Start, InstallService, RemoveService, Op

\* The command's variables after a step of it: it goes to another call, goes on to
\* the next name of its list, or returns.
LEMMA ControlType ==
  ASSUME TypeOK, at # "idle",
         (\E s \in Step : Goto(s)) \/ Advance \/ Finish("ok") \/ Finish("error")
  PROVE  TypeControl'
BY GotoType, AdvanceType, FinishType

\* Calls that read the host.
LEMMA TypeReads ==
  ASSUME TypeOK,
         \/ SeenRegistered \/ SeenUnregistered \/ Recheck \/ SystemctlStartFails
         \/ SystemctlStopFails \/ KillFails \/ StartSkipped \/ StartRefused
         \/ VerifyRunning \/ VerifyFails \/ ServiceNotSeen \/ LaunchFails
         \/ ForegroundEnded \/ AlreadyRegistered \/ NotYetRegistered \/ ExecutableMissing
         \/ WriteUnitFileFails \/ NoAutostart \/ EnableServiceFails
  PROVE  TypeOK'
<1>1. at # "idle"
  BY DEF SeenRegistered, SeenUnregistered, Recheck, SystemctlStartFails, SystemctlStopFails, KillFails, StartSkipped, StartRefused, VerifyRunning, VerifyFails, ServiceNotSeen, LaunchFails, ForegroundEnded, AlreadyRegistered, NotYetRegistered, ExecutableMissing, WriteUnitFileFails, NoAutostart, EnableServiceFails
<1>2. (\E s \in Step : Goto(s)) \/ Advance \/ Finish("ok") \/ Finish("error")
  BY DEF SeenRegistered, SeenUnregistered, Recheck, SystemctlStartFails, SystemctlStopFails, KillFails, StartSkipped, StartRefused, VerifyRunning, VerifyFails, ServiceNotSeen, LaunchFails, ForegroundEnded, AlreadyRegistered, NotYetRegistered, ExecutableMissing, WriteUnitFileFails, NoAutostart, EnableServiceFails, AfterEnable, Step
<1>3. TypeControl'
  BY <1>1, <1>2, ControlType
<1>4. UNCHANGED <<host, fg, claim>>
  BY DEF SeenRegistered, SeenUnregistered, Recheck, SystemctlStartFails, SystemctlStopFails, KillFails, StartSkipped, StartRefused, VerifyRunning, VerifyFails, ServiceNotSeen, LaunchFails, ForegroundEnded, AlreadyRegistered, NotYetRegistered, ExecutableMissing, WriteUnitFileFails, NoAutostart, EnableServiceFails
<1> QED
  BY <1>3, <1>4 DEF host, TypeOK, TypeHost, TypeClaim

\* Calls that read the host and report what they see.
LEMMA TypeReports ==
  ASSUME TypeOK, SeenRunning \/ SeenNotRunning \/ NothingToKill \/ NodeDoesNotAnswer \/ NodeStopChecked
  PROVE  TypeOK'
<1>1. at # "idle"
  BY DEF SeenRunning, SeenNotRunning, NothingToKill, NodeDoesNotAnswer, NodeStopChecked
<1>2. (\E s \in Step : Goto(s)) \/ Advance \/ Finish("ok") \/ Finish("error")
  BY DEF SeenRunning, SeenNotRunning, NothingToKill, NodeDoesNotAnswer, NodeStopChecked, Started, Step
<1>3. TypeControl'
  BY <1>1, <1>2, ControlType
<1>4. UNCHANGED <<host, fg>>
  BY DEF SeenRunning, SeenNotRunning, NothingToKill, NodeDoesNotAnswer, NodeStopChecked
<1>5. Report("managed") \/ Report("stopped") \/ UNCHANGED claim
  BY DEF SeenRunning, SeenNotRunning, NothingToKill, NodeDoesNotAnswer, NodeStopChecked, Started
<1>6. TypeClaim'
  BY <1>1, <1>4, <1>5, ReportType DEF TypeOK, TypeClaim
<1> QED
  BY <1>3, <1>4, <1>6 DEF host, TypeOK, TypeHost

\* The calls that change the host.
LEMMA TypeRunByHand ==
  ASSUME TypeOK, at # "idle", RunByHand
  PROVE  TypeHost' /\ claim' \in [Tool -> {"none", "stopped", "managed"}]
<1>1. cur \in Tool /\ manual[cur] + 1 \in 0..MaxManual
  BY CurrentTool, HostAssumption DEF RunByHand, TypeOK, TypeHost
<1>2. manual' \in [Tool -> 0..MaxManual]
  BY <1>1 DEF RunByHand, TypeOK, TypeHost
<1>3. claim' \in [Tool -> {"none", "stopped", "managed"}]
  BY ReportType DEF RunByHand
<1> QED
  BY <1>2, <1>3 DEF RunByHand, TypeOK, TypeHost

LEMMA TypeCommandStep ==
  ASSUME TypeOK, CommandStep
  PROVE  TypeOK'
<1> USE DEF TypeOK
<1>1. CASE SystemctlStart
  <2>1. at # "idle" /\ (Advance \/ Goto("verify")) /\ Report("managed")
    BY <1>1 DEF SystemctlStart, Started
  <2>2. TypeControl'
    BY <2>1, ControlType DEF Step
  <2>3. TypeClaim'
    BY <1>1, <2>1, ReportType DEF SystemctlStart, TypeClaim
  <2> QED
    BY <1>1, <2>2, <2>3 DEF SystemctlStart, TypeHost, UnitState
<1>2. CASE SystemctlStop
  <2>1. at # "idle" /\ (Advance \/ Goto("disable")) /\ Report("stopped")
    BY <1>2 DEF SystemctlStop
  <2>2. TypeControl'
    BY <2>1, ControlType DEF Step
  <2>3. TypeClaim'
    BY <1>2, <2>1, ReportType DEF SystemctlStop, TypeClaim
  <2> QED
    BY <1>2, <2>2, <2>3 DEF SystemctlStop, TypeHost, UnitState
<1>3. CASE KillProcess
  <2>1. at # "idle" /\ Advance /\ Report("stopped") /\ OneDies(cur)
    BY <1>3 DEF KillProcess
  <2>2. TypeControl' /\ cur \in Tool
    BY <2>1, ControlType, CurrentTool
  <2>3. TypeClaim'
    BY <1>3, <2>1, ReportType DEF KillProcess, TypeClaim
  <2>4. TypeHost'
    BY <1>3, <2>1, <2>2, OneDiesType DEF KillProcess, TypeHost
  <2> QED
    BY <2>2, <2>3, <2>4
<1>4. CASE NodeStopRequested
  <2>1. at # "idle" /\ Goto("stopcheck") /\ PastelD = cur
    BY <1>4 DEF NodeStopRequested
  <2>2. TypeControl' /\ PastelD \in Tool
    BY <2>1, ControlType, CurrentTool DEF Step
  <2>3. TypeHost'
    BY <1>4, <2>2, OneDiesType DEF NodeStopRequested, TypeHost
  <2> QED
    BY <1>4, <2>2, <2>3 DEF NodeStopRequested, TypeClaim
<1>5. CASE Launch \/ Relaunch
  <2>1. at # "idle" /\ (\E s \in Step : Goto(s)) /\ RunByHand /\ fg' \in BOOLEAN
    BY <1>5 DEF Launch, Relaunch, Step, TypeClaim
  <2>2. TypeControl'
    BY <2>1, ControlType
  <2> QED
    BY <2>1, <2>2, TypeRunByHand DEF TypeClaim
<1>6. CASE WriteUnitFile
  <2>1. at # "idle" /\ (Goto("enable") \/ Finish("error"))
    BY <1>6 DEF WriteUnitFile
  <2>2. TypeControl'
    BY <2>1, ControlType DEF Step
  <2>3. TypeHost'
    BY <1>6 DEF WriteUnitFile, TypeHost, Flavour
  <2> QED
    BY <1>6, <2>2, <2>3 DEF WriteUnitFile, TypeClaim
<1>7. CASE EnableService
  <2>1. at # "idle" /\ (Goto("registered") \/ Advance)
    BY <1>7 DEF EnableService, AfterEnable
  <2>2. TypeControl'
    BY <2>1, ControlType DEF Step
  <2>3. TypeHost'
    BY <1>7, <2>1, CurrentTool DEF EnableService, TypeHost
  <2> QED
    BY <1>7, <2>2, <2>3 DEF EnableService, TypeClaim
<1>8. CASE DisableService
  <2>1. at # "idle" /\ Goto("rm")
    BY <1>8 DEF DisableService
  <2>2. TypeControl'
    BY <2>1, ControlType DEF Step
  <2> QED
    BY <1>8, <2>2 DEF DisableService, TypeHost, TypeClaim
<1>9. CASE RemoveUnitFile
  <2>1. at # "idle" /\ Advance
    BY <1>9 DEF RemoveUnitFile
  <2>2. TypeControl'
    BY <2>1, ControlType
  <2> QED
    BY <1>9, <2>2 DEF RemoveUnitFile, TypeHost, TypeClaim, Flavour
<1> QED
  BY <1>1, <1>2, <1>3, <1>4, <1>5, <1>6, <1>7, <1>8, <1>9, TypeReads, TypeReports
  DEF CommandStep

LEMMA TypeEnvironment ==
  ASSUME TypeOK, Environment
  PROVE  TypeOK'
<1> USE DEF TypeOK
<1>1. CASE \E t \in Tool : UnitExits(t) \/ UnitRestarts(t)
  <2>1. TypeHost'
    BY <1>1 DEF UnitExits, UnitRestarts, TypeHost, UnitState
  <2>2. UNCHANGED command
    BY <1>1 DEF UnitExits, UnitRestarts
  <2> QED
    BY <2>1, <2>2 DEF command, TypeControl, TypeClaim
<1>2. ASSUME NEW t \in Tool, ManualExits(t)
      PROVE  TypeOK'
  <2>1. manual[t] - 1 \in 0..MaxManual
    BY <1>2, HostAssumption DEF ManualExits, TypeHost
  <2>2. TypeHost'
    BY <1>2, <2>1 DEF ManualExits, TypeHost
  <2>3. fg' \in BOOLEAN
    BY <1>2 DEF ManualExits, TypeClaim
  <2> QED
    BY <1>2, <2>2, <2>3 DEF ManualExits, TypeControl, TypeClaim
<1>3. CASE Interrupt
  BY <1>3, FinishType DEF Interrupt, host, TypeHost, TypeClaim
<1>4. CASE Reboot
  <2>1. TypeControl'
    BY <1>4, FinishType DEF Reboot
  <2>2. 0 \in 0..MaxManual
    BY HostAssumption
  <2>3. TypeHost'
    BY <1>4, <2>2 DEF Reboot, TypeHost, UnitState
  <2>4. TypeClaim'
    BY <1>4 DEF Reboot, TypeClaim
  <2> QED
    BY <2>1, <2>3, <2>4
<1> QED
  BY <1>1, <1>2, <1>3, <1>4 DEF Environment

\* The variables keep their types: every call, crash and reboot included.
THEOREM TypeCorrect == Spec => []TypeOK
<1>1. TypeOK /\ [Next]_vars => TypeOK'
  <2> SUFFICES ASSUME TypeOK, [Next]_vars PROVE TypeOK'
    OBVIOUS
  <2>1. CASE Next
    BY <2>1, TypeInvocation, TypeCommandStep, TypeEnvironment DEF Next
  <2>2. CASE UNCHANGED vars
    BY <2>2 DEF vars, TypeOK, TypeHost, TypeControl, TypeClaim
  <2> QED
    BY <2>1, <2>2
<1> QED
  BY TypeInit, <1>1, PTL DEF Spec

-----------------------------------------------------------------------------
(* What the position of the command says of the host.  The readings the      *)
(* command branched on still hold when it acts, because nothing but the      *)
(* command itself stops, starts or registers a unit.                         *)

\* A failed query is not taken for an answer, and a failed stop is not followed
\* by killing the process, which systemd would restart.
NoSilentFailure == {"query", "stop"} \cap Failures = {}

\* Without a unit file there is no unit to run.
NoFileNoUnit == \A t \in Tool : unitFile[t] = "absent" => unit[t] = "inactive"

\* Only install-service writes unit files, only where there is a systemd.
Positions ==
  /\ at \in {"register", "write", "enable"} => op = "install"
  /\ (at # "idle" /\ op = "install") => servicesEnabled
  /\ ~servicesEnabled => \A t \in Tool : unitFile[t] = "absent"
  /\ at = "write" => unitFile[cur] = "absent"
  /\ at = "relaunch" => cur \notin {PastelD, DDService}

\* Where the command counts on the unit being down, it is.
UnitDown ==
  /\ at \in {"kill", "stopcheck", "disable", "rm", "sysstart"} => unit[cur] = "inactive"
  /\ (at = "launch" /\ cur \in {PastelD, DDService}) => unit[cur] = "inactive"

ServiceInv == TypeOK /\ NoFileNoUnit /\ Positions /\ UnitDown

\* What disable has undone stays undone until the file is removed.
EnabledInv ==
  /\ \A t \in Tool : unitFile[t] = "absent" => t \notin enabled
  /\ at = "rm" => cur \notin enabled

Inv == NoFileNoUnit /\ Positions /\ UnitDown

\* What must hold for the command to go to call s.
MayGoto(s) ==
  /\ s \in {"register", "write", "enable"} => op = "install"
  /\ s = "write" => unitFile[cur] = "absent"
  /\ s = "relaunch" => cur \notin {PastelD, DDService}
  /\ s \in {"kill", "stopcheck", "disable", "rm", "sysstart"} => unit[cur] = "inactive"
  /\ (s = "launch" /\ cur \in {PastelD, DDService}) => unit[cur] = "inactive"

\* The ways a call ends.
Moves == \/ \E s \in Step : Goto(s) /\ MayGoto(s)
         \/ Advance
         \/ Finish("ok")
         \/ Finish("error")

\* After the head of the list the command is at the first call for the next name.
LEMMA AdvancePosition ==
  ASSUME Advance
  PROVE  /\ op' = op
         /\ at' \in {"idle", "register", "registered"}
         /\ at' = "register" => op = "install"
BY DEF Advance, Finish, FirstStep

\* A call that leaves units and unit files alone keeps the invariant.
LEMMA MovesKeep ==
  ASSUME ServiceInv, at # "idle", Moves, UNCHANGED <<servicesEnabled, unitFile, unit>>
  PROVE  Inv'
<1>1. NoFileNoUnit'
  BY DEF ServiceInv, NoFileNoUnit
<1>2. CASE \E s \in Step : Goto(s) /\ MayGoto(s)
  <2>1. PICK s \in Step : Goto(s) /\ MayGoto(s)
    BY <1>2
  <2>2. cur' = cur /\ op' = op /\ at' = s
    BY <2>1 DEF Goto, cur
  <2>3. Positions'
    BY <2>1, <2>2 DEF ServiceInv, Positions, MayGoto
  <2>4. UnitDown'
    BY <2>1, <2>2 DEF UnitDown, MayGoto
  <2> QED
    BY <1>1, <2>3, <2>4 DEF Inv
<1>3. CASE Advance
  <2>1. Positions'
    BY <1>3, AdvancePosition DEF ServiceInv, Positions
  <2>2. UnitDown'
    BY <1>3, AdvancePosition DEF UnitDown
  <2> QED
    BY <1>1, <2>1, <2>2 DEF Inv
<1>4. CASE Finish("ok") \/ Finish("error")
  <2>1. at' = "idle"
    BY <1>4 DEF Finish
  <2> QED
    BY <1>1, <2>1 DEF ServiceInv, Positions, UnitDown, Inv
<1> QED
  BY <1>2, <1>3, <1>4 DEF Moves

\* What the readings say when no query fails silently.
LEMMA Readings ==
  ASSUME NoSilentFailure, NEW t
  PROVE  /\ IsRunning(t) = {unit[t] \in ActiveOutput}
         /\ IsRegistered(t) = {unitFile[t] # "absent"}
BY DEF NoSilentFailure, IsRunning, IsRegistered

\* A unit that is not running is inactive.
LEMMA NotRunning ==
  ASSUME NoSilentFailure, TypeOK, at # "idle", FALSE \in IsRunning(cur)
  PROVE  unit[cur] = "inactive"
<1>1. unit[cur] \notin ActiveOutput
  BY Readings
<1> QED
  BY <1>1, CurrentTool DEF TypeOK, TypeHost, UnitState, ActiveOutput

LEMMA InvInit == Init => Inv
BY DEF Init, Inv, NoFileNoUnit, Positions, UnitDown

LEMMA InvInvocation ==
  ASSUME ServiceInv, Stop \/ Start \/ InstallService \/ RemoveService
  PROVE  Inv'
<1>1. CASE \E o \in Op : \E list, fl : Invoke(o, list, fl) /\ (o = "install" => servicesEnabled)
  <2>1. /\ at' \in {"register", "registered"} /\ (at' = "register" => op' = "install")
        /\ op' = "install" => servicesEnabled
        /\ UNCHANGED <<servicesEnabled, unitFile, unit>>
    BY <1>1 DEF Invoke, FirstStep, host
  <2> QED
    BY <2>1 DEF ServiceInv, Inv, NoFileNoUnit, Positions, UnitDown
<1>2. CASE \E o \in Op : NoServiceManager(o)
  BY <1>2 DEF NoServiceManager, host, ServiceInv, Inv, NoFileNoUnit, Positions, UnitDown
<1> QED
  BY <1>1, <1>2 DEF Stop, Start, InstallService, RemoveService, Op

LEMMA InvCommandStep ==
  ASSUME NoSilentFailure, ServiceInv, CommandStep
  PROVE  Inv'
<1> TypeOK
  BY DEF ServiceInv
<1>1. CASE SeenRegistered
  <2>1. at # "idle" /\ Moves
    BY <1>1 DEF SeenRegistered, Moves, MayGoto, Step
  <2> QED
    BY <1>1, <2>1, MovesKeep DEF SeenRegistered, host
<1>2. CASE SeenUnregistered
  <2>1. unitFile[cur] = "absent"
    BY <1>2, Readings, CurrentTool DEF SeenUnregistered, ServiceInv, Positions
  <2>2. unit[cur] = "inactive"
    BY <1>2, <2>1, CurrentTool DEF SeenUnregistered, ServiceInv, NoFileNoUnit
  <2>3. at # "idle" /\ Moves
    BY <1>2, <2>2 DEF SeenUnregistered, Moves, MayGoto, Step
  <2> QED
    BY <1>2, <2>3, MovesKeep DEF SeenUnregistered, host
<1>3. CASE SeenRunning
  <2>1. at # "idle" /\ Moves
    BY <1>3 DEF SeenRunning, Started, Moves, MayGoto, Step
  <2> QED
    BY <1>3, <2>1, MovesKeep DEF SeenRunning, host
<1>4. CASE SeenNotRunning
  <2>1. unit[cur] = "inactive"
    BY <1>4, NotRunning DEF SeenNotRunning, ServiceInv
  <2>2. at # "idle" /\ Moves
    BY <1>4, <2>1 DEF SeenNotRunning, Moves, MayGoto, Step
  <2> QED
    BY <1>4, <2>2, MovesKeep DEF SeenNotRunning, host
<1>5. CASE Recheck
  <2>1. FALSE \in IsRunning(cur) => unit[cur] = "inactive"
    BY <1>5, NotRunning DEF Recheck, ServiceInv
  <2>2. at # "idle" /\ Moves
    BY <1>5, <2>1 DEF Recheck, Moves, MayGoto, Step
  <2> QED
    BY <1>5, <2>2, MovesKeep DEF Recheck, host
<1>6. CASE SystemctlStartFails
  <2>1. at # "idle" /\ Moves
    BY <1>6 DEF SystemctlStartFails, ServiceInv, UnitDown, Moves, MayGoto, Step
  <2> QED
    BY <1>6, <2>1, MovesKeep DEF SystemctlStartFails, host
<1>7. CASE SystemctlStopFails
  <2>1. FALSE
    BY <1>7 DEF SystemctlStopFails, NoSilentFailure
  <2> QED
    BY <2>1
<1>8. CASE NothingToKill
  <2>1. at # "idle" /\ Moves
    BY <1>8 DEF NothingToKill, Moves, MayGoto, Step
  <2> QED
    BY <1>8, <2>1, MovesKeep DEF NothingToKill, host
<1>9. CASE KillFails
  <2>1. at # "idle" /\ Moves
    BY <1>9 DEF KillFails, Moves, MayGoto, Step
  <2> QED
    BY <1>9, <2>1, MovesKeep DEF KillFails, host
<1>10. CASE NodeDoesNotAnswer
  <2>1. at # "idle" /\ Moves
    BY <1>10 DEF NodeDoesNotAnswer, Moves, MayGoto, Step
  <2> QED
    BY <1>10, <2>1, MovesKeep DEF NodeDoesNotAnswer, host
<1>11. CASE NodeStopChecked
  <2>1. at # "idle" /\ Moves
    BY <1>11 DEF NodeStopChecked, Moves, MayGoto, Step
  <2> QED
    BY <1>11, <2>1, MovesKeep DEF NodeStopChecked, host
<1>12. CASE StartSkipped
  <2>1. at # "idle" /\ Moves
    BY <1>12 DEF StartSkipped, Moves, MayGoto, Step
  <2> QED
    BY <1>12, <2>1, MovesKeep DEF StartSkipped, host
<1>13. CASE StartRefused
  <2>1. at # "idle" /\ Moves
    BY <1>13 DEF StartRefused, Moves, MayGoto, Step
  <2> QED
    BY <1>13, <2>1, MovesKeep DEF StartRefused, host
<1>14. CASE VerifyRunning
  <2>1. at # "idle" /\ Moves
    BY <1>14 DEF VerifyRunning, Moves, MayGoto, Step
  <2> QED
    BY <1>14, <2>1, MovesKeep DEF VerifyRunning, host
<1>15. CASE VerifyFails
  <2>1. at # "idle" /\ Moves
    BY <1>15 DEF VerifyFails, Moves, MayGoto, Step
  <2> QED
    BY <1>15, <2>1, MovesKeep DEF VerifyFails, host
<1>16. CASE ServiceNotSeen
  <2>1. at # "idle" /\ Moves
    BY <1>16 DEF ServiceNotSeen, Moves, MayGoto, Step
  <2> QED
    BY <1>16, <2>1, MovesKeep DEF ServiceNotSeen, host
<1>17. CASE LaunchFails
  <2>1. at # "idle" /\ Moves
    BY <1>17 DEF LaunchFails, Moves, MayGoto, Step
  <2> QED
    BY <1>17, <2>1, MovesKeep DEF LaunchFails, host
<1>18. CASE ForegroundEnded
  <2>1. at # "idle" /\ Moves
    BY <1>18 DEF ForegroundEnded, Moves, MayGoto, Step
  <2> QED
    BY <1>18, <2>1, MovesKeep DEF ForegroundEnded, host
<1>19. CASE Launch
  <2>1. at # "idle" /\ Moves
    BY <1>19 DEF Launch, Moves, MayGoto, Step
  <2> QED
    BY <1>19, <2>1, MovesKeep DEF Launch, RunByHand, host
<1>20. CASE Relaunch
  <2>1. at # "idle" /\ Moves
    BY <1>20 DEF Relaunch, Moves, MayGoto, Step
  <2> QED
    BY <1>20, <2>1, MovesKeep DEF Relaunch, RunByHand, host
<1>21. CASE AlreadyRegistered
  <2>1. at # "idle" /\ Moves
    BY <1>21 DEF AlreadyRegistered, ServiceInv, Positions, Moves, MayGoto, Step
  <2> QED
    BY <1>21, <2>1, MovesKeep DEF AlreadyRegistered, host
<1>22. CASE NotYetRegistered
  <2>1. unitFile[cur] = "absent"
    BY <1>22, Readings DEF NotYetRegistered
  <2>2. at # "idle" /\ Moves
    BY <1>22, <2>1 DEF NotYetRegistered, ServiceInv, Positions, Moves, MayGoto, Step
  <2> QED
    BY <1>22, <2>2, MovesKeep DEF NotYetRegistered, host
<1>23. CASE ExecutableMissing
  <2>1. at # "idle" /\ Moves
    BY <1>23 DEF ExecutableMissing, ServiceInv, Positions, Moves, MayGoto, Step
  <2> QED
    BY <1>23, <2>1, MovesKeep DEF ExecutableMissing, host
<1>24. CASE WriteUnitFileFails
  <2>1. at # "idle" /\ Moves
    BY <1>24 DEF WriteUnitFileFails, Moves, MayGoto, Step
  <2> QED
    BY <1>24, <2>1, MovesKeep DEF WriteUnitFileFails, host
<1>25. CASE NoAutostart
  <2>1. at # "idle" /\ Moves
    BY <1>25 DEF NoAutostart, AfterEnable, Moves, MayGoto, Step
  <2> QED
    BY <1>25, <2>1, MovesKeep DEF NoAutostart, host
<1>26. CASE EnableService
  <2>1. at # "idle" /\ Moves
    BY <1>26 DEF EnableService, AfterEnable, Moves, MayGoto, Step
  <2> QED
    BY <1>26, <2>1, MovesKeep DEF EnableService, host
<1>27. CASE EnableServiceFails
  <2>1. at # "idle" /\ Moves
    BY <1>27 DEF EnableServiceFails, Moves, MayGoto, Step
  <2> QED
    BY <1>27, <2>1, MovesKeep DEF EnableServiceFails, host
<1>28. CASE DisableService
  <2>1. at # "idle" /\ Moves
    BY <1>28 DEF DisableService, ServiceInv, UnitDown, Moves, MayGoto, Step
  <2> QED
    BY <1>28, <2>1, MovesKeep DEF DisableService, host
<1>29. CASE SystemctlStart
  <2>1. at # "idle" /\ unitFile[cur] # "absent" /\ (Advance \/ Goto("verify"))
    BY <1>29 DEF SystemctlStart, Started
  <2>2. /\ at' \in {"verify", "idle", "registered", "register"} /\ op' = op
        /\ at' = "register" => op = "install"
    BY <2>1, AdvancePosition DEF Goto
  <2>3. NoFileNoUnit'
    BY <1>29, <2>1, CurrentTool DEF SystemctlStart, ServiceInv, NoFileNoUnit, TypeOK, TypeHost
  <2> QED
    BY <1>29, <2>1, <2>2, <2>3 DEF SystemctlStart, ServiceInv, Positions, UnitDown, Inv
<1>30. CASE SystemctlStop
  <2>1. at # "idle" /\ (Advance \/ Goto("disable"))
    BY <1>30 DEF SystemctlStop
  <2>2. NoFileNoUnit'
    BY <1>30, <2>1, CurrentTool DEF SystemctlStop, ServiceInv, NoFileNoUnit, TypeOK, TypeHost
  <2>3. CASE Advance
    BY <1>30, <2>1, <2>2, <2>3, AdvancePosition
    DEF SystemctlStop, ServiceInv, Positions, UnitDown, Inv
  <2>4. CASE Goto("disable")
    <3>1. at' = "disable" /\ cur' = cur /\ op' = op
      BY <2>4 DEF Goto, cur
    <3>2. unit'[cur'] = "inactive"
      BY <1>30, <2>1, <3>1, CurrentTool DEF SystemctlStop, ServiceInv, TypeOK, TypeHost
    <3>3. Positions'
      BY <1>30, <2>1, <3>1 DEF SystemctlStop, ServiceInv, Positions
    <3>4. UnitDown'
      BY <3>1, <3>2 DEF UnitDown
    <3> QED
      BY <2>2, <3>3, <3>4 DEF Inv
  <2> QED
    BY <2>1, <2>3, <2>4
<1>31. CASE KillProcess
  <2>1. at # "idle" /\ Advance /\ unit[cur] = "inactive" /\ OneDies(cur)
    BY <1>31 DEF KillProcess, ServiceInv, UnitDown
  <2>2. UNCHANGED unit
    BY <2>1 DEF OneDies
  <2> QED
    BY <1>31, <2>1, <2>2, MovesKeep DEF KillProcess, Moves
<1>32. CASE NodeStopRequested
  <2>1. at # "idle" /\ unit[PastelD] = "inactive" /\ Goto("stopcheck") /\ cur = PastelD
    BY <1>32 DEF NodeStopRequested, ServiceInv, UnitDown
  <2>2. UNCHANGED unit
    BY <1>32, <2>1 DEF NodeStopRequested, OneDies
  <2>3. Moves
    BY <2>1 DEF Moves, MayGoto, Step
  <2> QED
    BY <1>32, <2>1, <2>2, <2>3, MovesKeep DEF NodeStopRequested
<1>33. CASE WriteUnitFile
  <2>1. at # "idle" /\ op = "install" /\ servicesEnabled /\ unit[cur] = "inactive"
    BY <1>33, CurrentTool DEF WriteUnitFile, ServiceInv, Positions, NoFileNoUnit
  <2>2. NoFileNoUnit'
    BY <1>33, <2>1, CurrentTool DEF WriteUnitFile, ServiceInv, NoFileNoUnit, TypeOK, TypeHost
  <2>3. at' \in {"enable", "idle"} /\ op' = op
    BY <1>33 DEF WriteUnitFile, Goto, Finish
  <2> QED
    BY <1>33, <2>1, <2>2, <2>3 DEF WriteUnitFile, Positions, UnitDown, Inv
<1>34. CASE RemoveUnitFile
  <2>1. at # "idle" /\ Advance /\ unit[cur] = "inactive"
    BY <1>34 DEF RemoveUnitFile, ServiceInv, UnitDown
  <2>2. NoFileNoUnit'
    BY <1>34, <2>1, CurrentTool DEF RemoveUnitFile, ServiceInv, NoFileNoUnit, TypeOK, TypeHost
  <2>3. ~servicesEnabled => \A t \in Tool : unitFile'[t] = "absent"
    BY <1>34, CurrentTool DEF RemoveUnitFile, ServiceInv, Positions, TypeOK, TypeHost
  <2> QED
    BY <1>34, <2>1, <2>2, <2>3, AdvancePosition
    DEF RemoveUnitFile, ServiceInv, Positions, UnitDown, Inv
<1> QED
  BY <1>1, <1>2, <1>3, <1>4, <1>5, <1>6, <1>7, <1>8, <1>9, <1>10, <1>11, <1>12,
     <1>13, <1>14, <1>15, <1>16, <1>17, <1>18, <1>19, <1>20, <1>21, <1>22, <1>23, <1>24,
     <1>25, <1>26, <1>27, <1>28, <1>29, <1>30, <1>31, <1>32, <1>33, <1>34
  DEF CommandStep

LEMMA InvEnvironment ==
  ASSUME ServiceInv, Environment
  PROVE  Inv'
<1>1. CASE \E t \in Tool : UnitExits(t) \/ UnitRestarts(t)
  <2>1. PICK t \in Tool : UnitExits(t) \/ UnitRestarts(t)
    BY <1>1
  <2>2. \A u \in Tool : unit[u] = "inactive" => unit'[u] = "inactive"
    BY <2>1 DEF UnitExits, UnitRestarts, ServiceInv, TypeOK, TypeHost
  <2>3. UNCHANGED <<servicesEnabled, unitFile, op, at, todo>> /\ cur' = cur
    BY <2>1 DEF UnitExits, UnitRestarts, command, cur
  <2>4. NoFileNoUnit'
    BY <2>2, <2>3 DEF ServiceInv, NoFileNoUnit
  <2>5. UnitDown'
    BY <2>2, <2>3, CurrentTool DEF ServiceInv, UnitDown
  <2>6. Positions'
    BY <2>3 DEF ServiceInv, Positions
  <2> QED
    BY <2>4, <2>5, <2>6 DEF Inv
<1>2. CASE \E t \in Tool : ManualExits(t)
  <2>1. UNCHANGED <<servicesEnabled, unitFile, unit, op, at, todo>> /\ cur' = cur
    BY <1>2 DEF ManualExits, cur
  <2> QED
    BY <2>1 DEF ServiceInv, Inv, NoFileNoUnit, Positions, UnitDown
<1>3. CASE Interrupt
  BY <1>3 DEF Interrupt, Finish, host, ServiceInv, Inv, NoFileNoUnit, Positions, UnitDown
<1>4. CASE Reboot
  <2>1. at' = "idle" /\ UNCHANGED <<servicesEnabled, unitFile>>
    BY <1>4 DEF Reboot, Finish
  <2>2. NoFileNoUnit'
    BY <1>4, <2>1 DEF Reboot, NoFileNoUnit
  <2> QED
    BY <2>1, <2>2 DEF ServiceInv, Inv, Positions, UnitDown
<1> QED
  BY <1>1, <1>2, <1>3, <1>4 DEF Environment

\* The readings a command acts on are never stale.
THEOREM ServiceInvariant ==
  ASSUME NoSilentFailure
  PROVE  Spec => []ServiceInv
<1>1. Init => ServiceInv
  BY TypeInit, InvInit DEF ServiceInv, Inv
<1>2. ServiceInv /\ [Next]_vars => ServiceInv'
  <2> SUFFICES ASSUME ServiceInv, [Next]_vars PROVE ServiceInv'
    OBVIOUS
  <2> TypeOK
    BY DEF ServiceInv
  <2>1. CASE Next
    <3>1. TypeOK'
      BY <2>1, TypeInvocation, TypeCommandStep, TypeEnvironment DEF Next
    <3>2. Inv'
      BY <2>1, InvInvocation, InvCommandStep, InvEnvironment DEF Next
    <3> QED
      BY <3>1, <3>2 DEF ServiceInv, Inv
  <2>2. CASE UNCHANGED vars
    BY <2>2 DEF vars, ServiceInv, TypeOK, TypeHost, TypeControl, TypeClaim,
                NoFileNoUnit, Positions, UnitDown, cur
  <2> QED
    BY <2>1, <2>2
<1> QED
  BY <1>1, <1>2, PTL DEF Spec

-----------------------------------------------------------------------------
(* Which actions touch which part of the state.                              *)

UnitActions == \/ SystemctlStart \/ SystemctlStop \/ KillProcess \/ NodeStopRequested
               \/ \E t \in Tool : UnitExits(t) \/ UnitRestarts(t)
               \/ Reboot

ClaimActions == \/ SeenRunning \/ SeenNotRunning \/ SystemctlStart \/ SystemctlStop
                \/ NothingToKill \/ KillProcess \/ NodeDoesNotAnswer \/ NodeStopChecked
                \/ Launch \/ Relaunch \/ Reboot

FileActions == WriteUnitFile \/ RemoveUnitFile

LEMMA UnitFrame == ASSUME Next, ~UnitActions PROVE UNCHANGED unit
BY DEF UnitActions, Next, CommandStep, Environment,
  Stop, Start, InstallService, RemoveService, Invoke, NoServiceManager,
  SeenRegistered, SeenUnregistered, SeenRunning, SeenNotRunning, Recheck,
  SystemctlStart, SystemctlStartFails, SystemctlStop, SystemctlStopFails,
  NothingToKill, KillProcess, KillFails, NodeDoesNotAnswer, NodeStopRequested,
  NodeStopChecked, StartSkipped, StartRefused, VerifyRunning, VerifyFails,
  ServiceNotSeen, Launch, LaunchFails, Relaunch, RunByHand, ForegroundEnded,
  AlreadyRegistered, NotYetRegistered, ExecutableMissing, WriteUnitFile,
  WriteUnitFileFails, NoAutostart, EnableService, EnableServiceFails,
  DisableService, RemoveUnitFile, UnitExits, UnitRestarts, ManualExits,
  Interrupt, Reboot, host, command

LEMMA ClaimFrame == ASSUME Next, ~ClaimActions PROVE UNCHANGED claim
BY DEF ClaimActions, Next, CommandStep, Environment,
  Stop, Start, InstallService, RemoveService, Invoke, NoServiceManager,
  SeenRegistered, SeenUnregistered, SeenRunning, SeenNotRunning, Recheck,
  SystemctlStart, SystemctlStartFails, SystemctlStop, SystemctlStopFails,
  NothingToKill, KillProcess, KillFails, NodeDoesNotAnswer, NodeStopRequested,
  NodeStopChecked, StartSkipped, StartRefused, VerifyRunning, VerifyFails,
  ServiceNotSeen, Launch, LaunchFails, Relaunch, RunByHand, ForegroundEnded,
  AlreadyRegistered, NotYetRegistered, ExecutableMissing, WriteUnitFile,
  WriteUnitFileFails, NoAutostart, EnableService, EnableServiceFails,
  DisableService, RemoveUnitFile, UnitExits, UnitRestarts, ManualExits,
  Interrupt, Reboot, host, command

LEMMA FileFrame == ASSUME Next, ~FileActions PROVE UNCHANGED unitFile
BY DEF FileActions, Next, CommandStep, Environment,
  Stop, Start, InstallService, RemoveService, Invoke, NoServiceManager,
  SeenRegistered, SeenUnregistered, SeenRunning, SeenNotRunning, Recheck,
  SystemctlStart, SystemctlStartFails, SystemctlStop, SystemctlStopFails,
  NothingToKill, KillProcess, KillFails, NodeDoesNotAnswer, NodeStopRequested,
  NodeStopChecked, StartSkipped, StartRefused, VerifyRunning, VerifyFails,
  ServiceNotSeen, Launch, LaunchFails, Relaunch, RunByHand, ForegroundEnded,
  AlreadyRegistered, NotYetRegistered, ExecutableMissing, WriteUnitFile,
  WriteUnitFileFails, NoAutostart, EnableService, EnableServiceFails,
  DisableService, RemoveUnitFile, UnitExits, UnitRestarts, ManualExits,
  Interrupt, Reboot, host, command

LEMMA EnabledFrame ==
  ASSUME Next, ~(EnableService \/ DisableService)
  PROVE  UNCHANGED enabled
BY DEF Next, CommandStep, Environment,
  Stop, Start, InstallService, RemoveService, Invoke, NoServiceManager,
  SeenRegistered, SeenUnregistered, SeenRunning, SeenNotRunning, Recheck,
  SystemctlStart, SystemctlStartFails, SystemctlStop, SystemctlStopFails,
  NothingToKill, KillProcess, KillFails, NodeDoesNotAnswer, NodeStopRequested,
  NodeStopChecked, StartSkipped, StartRefused, VerifyRunning, VerifyFails,
  ServiceNotSeen, Launch, LaunchFails, Relaunch, RunByHand, ForegroundEnded,
  AlreadyRegistered, NotYetRegistered, ExecutableMissing, WriteUnitFile,
  WriteUnitFileFails, NoAutostart, EnableService, EnableServiceFails,
  DisableService, RemoveUnitFile, UnitExits, UnitRestarts, ManualExits,
  Interrupt, Reboot, host, command

-----------------------------------------------------------------------------
(* The safety properties                                                     *)

LEMMA ReportClaim ==
  ASSUME TypeOK, at # "idle", NEW c, Report(c)
  PROVE  /\ cur \in Tool /\ claim'[cur] = c
         /\ \A t \in Tool : t # cur => claim'[t] = claim[t]
BY CurrentTool DEF Report, TypeOK, TypeClaim

LEMMA StoppedStep ==
  ASSUME NoSilentFailure, ServiceInv, StoppedStaysDown, Next
  PROVE  StoppedStaysDown'
<1> TypeOK
  BY DEF ServiceInv
<1>1. CASE SystemctlStart
  <2>1. at # "idle" /\ Report("managed")
    BY <1>1 DEF SystemctlStart, Started
  <2> QED
    BY <1>1, <2>1, ReportClaim DEF SystemctlStart, StoppedStaysDown, TypeOK, TypeHost
<1>2. CASE SystemctlStop
  <2>1. at # "idle" /\ Report("stopped")
    BY <1>2 DEF SystemctlStop
  <2> QED
    BY <1>2, <2>1, ReportClaim DEF SystemctlStop, StoppedStaysDown, TypeOK, TypeHost
<1>3. CASE Reboot
  BY <1>3 DEF Reboot, StoppedStaysDown
<1>4. CASE \E t \in Tool : UnitExits(t) \/ UnitRestarts(t)
  BY <1>4 DEF UnitExits, UnitRestarts, command, StoppedStaysDown, TypeOK, TypeHost
<1>5. CASE \/ SeenNotRunning \/ NothingToKill \/ KillProcess
           \/ NodeDoesNotAnswer \/ NodeStopChecked
  <2>1. at # "idle" /\ (Report("stopped") \/ UNCHANGED claim)
    BY <1>5 DEF SeenNotRunning, NothingToKill, KillProcess, NodeDoesNotAnswer,
                NodeStopChecked
  <2>2. unit[cur] = "inactive"
    BY <1>5, NotRunning DEF SeenNotRunning, NothingToKill, KillProcess,
                            NodeDoesNotAnswer, NodeStopChecked, ServiceInv, UnitDown
  <2>3. UNCHANGED unit
    BY <1>5, <2>2 DEF SeenNotRunning, NothingToKill, KillProcess, OneDies,
                      NodeDoesNotAnswer, NodeStopChecked, host
  <2> QED
    BY <2>1, <2>2, <2>3, ReportClaim DEF StoppedStaysDown
<1>6. CASE SeenRunning \/ Launch \/ Relaunch
  <2>1. at # "idle" /\ (Report("managed") \/ Report("none") \/ UNCHANGED claim)
    BY <1>6 DEF SeenRunning, Started, Launch, Relaunch, RunByHand
  <2>2. UNCHANGED unit
    BY <1>6 DEF SeenRunning, Launch, Relaunch, RunByHand, host
  <2> QED
    BY <2>1, <2>2, ReportClaim DEF StoppedStaysDown
<1>7. CASE NodeStopRequested
  <2>1. UNCHANGED <<unit, claim>>
    BY <1>7 DEF NodeStopRequested, OneDies, ServiceInv, UnitDown
  <2> QED
    BY <2>1 DEF StoppedStaysDown
<1>8. CASE ~UnitActions /\ ~ClaimActions
  BY <1>8, UnitFrame, ClaimFrame DEF StoppedStaysDown
<1> QED
  BY <1>1, <1>2, <1>3, <1>4, <1>5, <1>6, <1>7, <1>8 DEF UnitActions, ClaimActions

\* stop really stops: a tool reported as stopped is not one that systemd is about
\* to restart, in every interleaving with crashes, restarts and reboots.
THEOREM StoppedStaysDownAlways ==
  ASSUME NoSilentFailure
  PROVE  Spec => []StoppedStaysDown
<1>1. Init => StoppedStaysDown
  BY DEF Init, StoppedStaysDown
<1>2. ServiceInv /\ StoppedStaysDown /\ [Next]_vars => StoppedStaysDown'
  BY StoppedStep DEF vars, StoppedStaysDown
<1> QED
  BY <1>1, <1>2, ServiceInvariant, PTL DEF Spec

LEMMA ManagedStep ==
  ASSUME TypeOK, ManagedStaysUp, Next
  PROVE  ManagedStaysUp'
<1>1. CASE SystemctlStart
  <2>1. at # "idle" /\ Report("managed")
    BY <1>1 DEF SystemctlStart, Started
  <2> QED
    BY <1>1, <2>1, ReportClaim DEF SystemctlStart, ManagedStaysUp, TypeOK, TypeHost
<1>2. CASE SystemctlStop
  <2>1. at # "idle" /\ Report("stopped")
    BY <1>2 DEF SystemctlStop
  <2> QED
    BY <1>2, <2>1, ReportClaim DEF SystemctlStop, ManagedStaysUp, TypeOK, TypeHost
<1>3. CASE Reboot
  BY <1>3 DEF Reboot, ManagedStaysUp
<1>4. CASE \E t \in Tool : UnitExits(t) \/ UnitRestarts(t)
  BY <1>4 DEF UnitExits, UnitRestarts, command, ManagedStaysUp, TypeOK, TypeHost
<1>5. CASE SeenRunning
  <2>1. at # "idle" /\ (Report("managed") \/ UNCHANGED claim) /\ UNCHANGED unit
    BY <1>5 DEF SeenRunning, Started, host
  <2>2. unit[cur] # "inactive"
    BY <1>5 DEF SeenRunning, IsRunning, ActiveOutput
  <2> QED
    BY <2>1, <2>2, ReportClaim DEF ManagedStaysUp
<1>6. CASE \/ SeenNotRunning \/ NothingToKill \/ NodeDoesNotAnswer \/ NodeStopChecked
           \/ Launch \/ Relaunch
  <2>1. at # "idle" /\ (Report("stopped") \/ Report("none") \/ UNCHANGED claim)
    BY <1>6 DEF SeenNotRunning, NothingToKill, NodeDoesNotAnswer, NodeStopChecked,
                Launch, Relaunch, RunByHand
  <2>2. UNCHANGED unit
    BY <1>6 DEF SeenNotRunning, NothingToKill, NodeDoesNotAnswer, NodeStopChecked,
                Launch, Relaunch, RunByHand, host
  <2> QED
    BY <2>1, <2>2, ReportClaim DEF ManagedStaysUp
<1>7. CASE KillProcess \/ NodeStopRequested
  <2>1. at # "idle" /\ (Report("stopped") \/ UNCHANGED claim)
    BY <1>7 DEF KillProcess, NodeStopRequested
  <2>2. \A t \in Tool : unit[t] # "inactive" => unit'[t] # "inactive"
    BY <1>7 DEF KillProcess, NodeStopRequested, OneDies, TypeOK, TypeHost
  <2> QED
    BY <2>1, <2>2, ReportClaim DEF ManagedStaysUp
<1>8. CASE ~UnitActions /\ ~ClaimActions
  BY <1>8, UnitFrame, ClaimFrame DEF ManagedStaysUp
<1> QED
  BY <1>1, <1>2, <1>3, <1>4, <1>5, <1>6, <1>7, <1>8 DEF UnitActions, ClaimActions

\* What StartService vouched for is up or restarting until it is stopped, whichever
\* calls fail.
THEOREM ManagedStaysUpAlways == Spec => []ManagedStaysUp
<1>1. Init => ManagedStaysUp
  BY DEF Init, ManagedStaysUp
<1>2. TypeOK /\ ManagedStaysUp /\ [Next]_vars => ManagedStaysUp'
  BY ManagedStep DEF vars, ManagedStaysUp
<1> QED
  BY <1>1, <1>2, TypeCorrect, PTL DEF Spec

LEMMA EnabledInit == Init => EnabledInv
BY DEF Init, EnabledInv

LEMMA EnabledStep ==
  ASSUME NoSilentFailure, "disable" \notin Failures, ServiceInv, EnabledInv, Next
  PROVE  EnabledInv'
<1> TypeOK
  BY DEF ServiceInv
<1>1. CASE DisableService
  <2>1. at # "idle" /\ at' = "rm" /\ cur' = cur /\ UNCHANGED unitFile
    BY <1>1 DEF DisableService, Goto, cur
  <2>2. cur \in Tool
    BY <2>1, CurrentTool
  <2>3. enabled' \subseteq enabled /\ cur \notin enabled'
    BY <1>1, <2>2 DEF DisableService, EnabledInv
  <2> QED
    BY <2>1, <2>3 DEF EnabledInv
<1>2. CASE EnableService
  <2>1. at # "idle" /\ unitFile[cur] # "absent" /\ enabled' = enabled \cup {cur}
    BY <1>2 DEF EnableService
  <2>2. UNCHANGED unitFile /\ at' # "rm"
    BY <1>2, AdvancePosition DEF EnableService, AfterEnable, Goto
  <2> QED
    BY <2>1, <2>2 DEF EnabledInv
<1>3. CASE WriteUnitFile
  <2>1. UNCHANGED enabled /\ at' # "rm"
    BY <1>3 DEF WriteUnitFile, Goto, Finish
  <2>2. \A t \in Tool : unitFile'[t] = "absent" => unitFile[t] = "absent"
    BY <1>3 DEF WriteUnitFile, TypeOK, TypeHost
  <2> QED
    BY <2>1, <2>2 DEF EnabledInv
<1>4. CASE RemoveUnitFile
  <2>1. UNCHANGED enabled /\ at' # "rm" /\ cur \notin enabled
    BY <1>4, AdvancePosition DEF RemoveUnitFile, EnabledInv
  <2>2. \A t \in Tool : unitFile'[t] = "absent" => (t = cur \/ unitFile[t] = "absent")
    BY <1>4 DEF RemoveUnitFile, TypeOK, TypeHost
  <2> QED
    BY <2>1, <2>2 DEF EnabledInv
<1>5. CASE ~DisableService /\ ~EnableService /\ ~FileActions
  <2>1. UNCHANGED <<enabled, unitFile>>
    BY <1>5, EnabledFrame, FileFrame
  <2>2. at' = "rm" => (at = "rm" /\ UNCHANGED todo)
    <3> USE AdvancePosition DEF Finish, FirstStep, Goto, Invoke
    <3>1. CASE Stop \/ Start \/ InstallService \/ RemoveService
      BY <3>1 DEF Stop, Start, InstallService, RemoveService, NoServiceManager
    <3>2. CASE Environment
      BY <3>2 DEF Environment, UnitExits, UnitRestarts, ManualExits, Interrupt, Reboot, command
    <3>3. CASE CommandStep
      BY <1>5, <3>3 DEF CommandStep, FileActions,
        SeenRegistered, SeenUnregistered, SeenRunning, SeenNotRunning, Recheck, Started,
        SystemctlStart, SystemctlStartFails, SystemctlStop, SystemctlStopFails,
        NothingToKill, KillProcess, KillFails, NodeDoesNotAnswer, NodeStopRequested,
        NodeStopChecked, StartSkipped, StartRefused, VerifyRunning, VerifyFails,
        ServiceNotSeen, Launch, LaunchFails, Relaunch, ForegroundEnded, AfterEnable,
        AlreadyRegistered, NotYetRegistered, ExecutableMissing,
        WriteUnitFileFails, NoAutostart, EnableServiceFails
    <3> QED
      BY <3>1, <3>2, <3>3 DEF Next
  <2> QED
    BY <2>1, <2>2 DEF EnabledInv, cur
<1> QED
  BY <1>1, <1>2, <1>3, <1>4, <1>5 DEF FileActions

\* remove-service leaves nothing behind: what has no unit file neither runs under
\* systemd nor starts at the next boot.
THEOREM RemovedIsGoneAlways ==
  ASSUME NoSilentFailure, "disable" \notin Failures
  PROVE  Spec => []RemovedIsGone
<1>1. ServiceInv /\ EnabledInv /\ [Next]_vars => EnabledInv'
  BY EnabledStep DEF vars, EnabledInv, cur
<1>2. ServiceInv /\ EnabledInv => RemovedIsGone
  BY DEF ServiceInv, NoFileNoUnit, EnabledInv, RemovedIsGone
<1> QED
  BY EnabledInit, <1>1, <1>2, ServiceInvariant, PTL DEF Spec

-----------------------------------------------------------------------------
(* Action properties                                                         *)

\* The node and the dd-service never run by hand beside a unit that is up.
THEOREM NodeNotRunTwiceAlways ==
  ASSUME NoSilentFailure
  PROVE  Spec => NodeNotRunTwice
<1> DEFINE Once == \A t \in {PastelD, DDService} \cap Tool :
                     manual'[t] > manual[t] => unit[t] = "inactive"
<1>1. ServiceInv /\ [Next]_vars => [Once]_vars
  <2> SUFFICES ASSUME ServiceInv, Next PROVE Once
    OBVIOUS
  <2> SUFFICES ASSUME NEW t \in {PastelD, DDService} \cap Tool, manual'[t] > manual[t]
               PROVE  unit[t] = "inactive"
    OBVIOUS
  <2>0. \A u \in Tool : manual[u] \in Nat
    BY HostAssumption DEF ServiceInv, TypeOK, TypeHost
  <2>1. CASE Launch \/ Relaunch
    <3>1. at # "idle" /\ at \in {"launch", "relaunch"} /\ manual' = [manual EXCEPT ![cur] = @ + 1]
      BY <2>1 DEF Launch, Relaunch, RunByHand
    <3>2. t = cur
      BY <2>0, <3>1, CurrentTool DEF ServiceInv, TypeOK, TypeHost
    <3> QED
      BY <3>1, <3>2 DEF ServiceInv, Positions, UnitDown
  <2>2. CASE KillProcess \/ NodeStopRequested \/ (\E u \in Tool : ManualExits(u)) \/ Reboot
    <3>1. ~(manual'[t] > manual[t])
      BY <2>0, <2>2 DEF KillProcess, NodeStopRequested, OneDies, ManualExits, Reboot,
                        ServiceInv, TypeOK, TypeHost
    <3> QED
      BY <3>1
  <2>3. CASE ~(Launch \/ Relaunch \/ KillProcess \/ NodeStopRequested
               \/ (\E u \in Tool : ManualExits(u)) \/ Reboot)
    <3>1. UNCHANGED manual
      BY <2>3 DEF Next, CommandStep, Environment,
  Stop, Start, InstallService, RemoveService, Invoke, NoServiceManager,
  SeenRegistered, SeenUnregistered, SeenRunning, SeenNotRunning, Recheck,
  SystemctlStart, SystemctlStartFails, SystemctlStop, SystemctlStopFails,
  NothingToKill, KillFails, NodeDoesNotAnswer, NodeStopChecked, StartSkipped,
  StartRefused, VerifyRunning, VerifyFails, ServiceNotSeen, LaunchFails, ForegroundEnded,
  AlreadyRegistered, NotYetRegistered, ExecutableMissing, WriteUnitFile,
  WriteUnitFileFails, NoAutostart, EnableService, EnableServiceFails,
  DisableService, RemoveUnitFile, UnitExits, UnitRestarts, Interrupt, host, command
    <3> QED
      BY <2>0, <3>1
  <2> QED
    BY <2>1, <2>2, <2>3
<1> QED
  BY <1>1, ServiceInvariant, PTL DEF Spec, NodeNotRunTwice

\* RegisterService comes to write the file only after a query has answered that
\* there is none: a query that fails answers the opposite.
WritesNew == at = "write" => unitFile[cur] = "absent"

LEMMA WritesNewStep ==
  ASSUME TypeOK, WritesNew, Next
  PROVE  WritesNew'
<1>1. CASE NotYetRegistered
  BY <1>1 DEF NotYetRegistered, IsRegistered, Goto, cur, host, WritesNew
<1>2. CASE WriteUnitFile
  BY <1>2 DEF WriteUnitFile, Goto, Finish, WritesNew
<1>3. CASE RemoveUnitFile
  BY <1>3, AdvancePosition DEF RemoveUnitFile, Finish, WritesNew
<1>4. CASE ~NotYetRegistered /\ ~FileActions
  <2>1. UNCHANGED unitFile
    BY <1>4, FileFrame
  <2>2. at' = "write" => (at = "write" /\ UNCHANGED todo)
    <3> USE AdvancePosition DEF Finish, FirstStep, Goto, Invoke
    <3>1. CASE Stop \/ Start \/ InstallService \/ RemoveService
      BY <3>1 DEF Stop, Start, InstallService, RemoveService, NoServiceManager
    <3>2. CASE Environment
      BY <3>2 DEF Environment, UnitExits, UnitRestarts, ManualExits, Interrupt, Reboot, command
    <3>3. CASE CommandStep
      BY <1>4, <3>3 DEF CommandStep, FileActions,
        SeenRegistered, SeenUnregistered, SeenRunning, SeenNotRunning, Recheck, Started,
        SystemctlStart, SystemctlStartFails, SystemctlStop, SystemctlStopFails,
        NothingToKill, KillProcess, KillFails, NodeDoesNotAnswer, NodeStopRequested,
        NodeStopChecked, StartSkipped, StartRefused, VerifyRunning, VerifyFails,
        ServiceNotSeen, Launch, LaunchFails, Relaunch, ForegroundEnded, AfterEnable,
        AlreadyRegistered, ExecutableMissing, EnableService, DisableService,
        WriteUnitFileFails, NoAutostart, EnableServiceFails
    <3> QED
      BY <3>1, <3>2, <3>3 DEF Next
  <2> QED
    BY <2>1, <2>2 DEF WritesNew, cur
<1> QED
  BY <1>1, <1>2, <1>3, <1>4 DEF FileActions

\* A registered unit keeps its flavour until it is removed, whichever calls fail.
THEOREM FlavourKeptAlways == Spec => FlavourKept
<1> DEFINE Kept == \A t \in Tool : unitFile[t] # "absent" /\ unitFile'[t] # "absent"
                                     => unitFile'[t] = unitFile[t]
<1>1. TypeOK /\ WritesNew /\ [Next]_vars => [Kept]_vars
  <2> SUFFICES ASSUME TypeOK, WritesNew, Next PROVE Kept
    OBVIOUS
  <2>1. CASE WriteUnitFile
    BY <2>1 DEF WriteUnitFile, WritesNew, TypeOK, TypeHost
  <2>2. CASE RemoveUnitFile
    BY <2>2 DEF RemoveUnitFile, TypeOK, TypeHost
  <2>3. CASE ~FileActions
    BY <2>3, FileFrame
  <2> QED
    BY <2>1, <2>2, <2>3 DEF FileActions
<1>2. Init => WritesNew
  BY DEF Init, WritesNew
<1>3. TypeOK /\ WritesNew /\ [Next]_vars => WritesNew'
  BY WritesNewStep DEF vars, host, command, WritesNew, cur
<1> QED
  BY <1>1, <1>2, <1>3, TypeCorrect, PTL DEF Spec, FlavourKept

-----------------------------------------------------------------------------
(* What install-service and stop report is true                              *)

\* The call a command is at says what its earlier readings said: it counts on a
\* registered unit from the second call on, and only the node is waited for.
CallInv ==
  /\ at = "idle" => todo = <<>>
  /\ at # "idle" => result = "pending"
  /\ at \in {"running", "recheck", "sysstop", "sysstart"} => unitFile[cur] # "absent"
  /\ at = "stopcheck" => cur = PastelD

\* A name of the list that the command has still to handle.
Waiting(n) == \E i \in 1..Len(todo) : todo[i] = n

\* What the command owes to a name, provided its executable exists.
HasUnit(n) == ToolOf(n) \in execs => unitFile[ToolOf(n)] # "absent"
StartsAtBoot(n) == (ToolOf(n) \in execs /\ "autostart" \in flags) => ToolOf(n) \in enabled
IsUp(n) == (ToolOf(n) \in execs /\ "start" \in flags) => unit[ToolOf(n)] # "inactive"
Settled(n) == HasUnit(n) /\ StartsAtBoot(n) /\ IsUp(n)

InstallCall == {"idle", "register", "write", "enable", "registered", "running", "sysstart"}

\* While install-service is at work and after it returned nil, a name of its list
\* is either still waiting or has all it was promised, and the one being handled
\* has what the calls made so far gave it.
InstallInv ==
  op = "install" =>
    /\ at \in InstallCall
    /\ at \in {"enable", "registered", "running", "sysstart"} => HasUnit(Head(todo))
    /\ at \in {"registered", "running", "sysstart"} => StartsAtBoot(Head(todo))
AskedInv ==
  (op = "install" /\ result \in {"pending", "ok"}) =>
    \A n \in asked : Waiting(n) \/ Settled(n)

\* What one step leaves of the host: no unit file, no link for the boot and no
\* running unit is taken away.
NothingUndone ==
  /\ UNCHANGED execs
  /\ \A t \in Tool : /\ unitFile[t] # "absent" => unitFile'[t] # "absent"
                     /\ t \in enabled => t \in enabled'
                     /\ unit[t] # "inactive" => unit'[t] # "inactive"

LEMMA SettledKept ==
  ASSUME NothingUndone, UNCHANGED flags, NEW n \in Name
  PROVE  /\ HasUnit(n) => HasUnit(n)'
         /\ StartsAtBoot(n) => StartsAtBoot(n)'
         /\ IsUp(n) => IsUp(n)'
<1>1. ToolOf(n) \in Tool
  BY DEF Name
<1> QED
  BY <1>1 DEF NothingUndone, HasUnit, StartsAtBoot, IsUp

\* When the head of the list is done, the others still wait.
LEMMA AdvanceWaiting ==
  ASSUME TypeOK, at # "idle", Advance, NEW n, Waiting(n)
  PROVE  n = Head(todo) \/ Waiting(n)'
<1>1. todo \in Seq(Name) /\ todo # <<>>
  BY DEF TypeOK, TypeControl
<1>2. PICK i \in 1..Len(todo) : todo[i] = n
  BY DEF Waiting
<1>3. CASE i = 1
  BY <1>1, <1>2, <1>3
<1>4. CASE i # 1
  <2>1. Len(todo) # 1 /\ Len(todo) \in Nat
    BY <1>1, <1>2, <1>4, LenProperties
  <2>2. todo' = Tail(todo)
    BY <2>1 DEF Advance
  <2>3. /\ Len(Tail(todo)) = Len(todo) - 1
        /\ \A j \in 1..Len(Tail(todo)) : Tail(todo)[j] = todo[j + 1]
    BY <1>1, HeadTailProperties
  <2>4. i - 1 \in 1..Len(Tail(todo)) /\ (i - 1) + 1 = i
    BY <1>2, <1>4, <2>1, <2>3
  <2>5. Tail(todo)[i - 1] = n
    BY <1>2, <2>3, <2>4
  <2> QED
    BY <2>2, <2>4, <2>5 DEF Waiting
<1> QED
  BY <1>3, <1>4

\* install-service goes to its next call for the same name.
LEMMA InstallGoesOn ==
  ASSUME TypeOK, InstallInv, AskedInv, op = "install", at # "idle", NothingUndone,
         NEW s \in InstallCall \ {"idle"}, Goto(s),
         s \in {"enable", "registered", "running", "sysstart"} => HasUnit(Head(todo))',
         s \in {"registered", "running", "sysstart"} => StartsAtBoot(Head(todo))'
  PROVE  InstallInv' /\ AskedInv'
<1>1. UNCHANGED <<op, todo, asked, flags, result>> /\ at' = s
  BY DEF Goto
<1>2. InstallInv'
  BY <1>1 DEF InstallInv
<1>3. AskedInv'
  <2> SUFFICES ASSUME result \in {"pending", "ok"}, NEW n \in asked
               PROVE  Waiting(n)' \/ Settled(n)'
    BY <1>1 DEF AskedInv
  <2>1. Waiting(n) \/ Settled(n)
    BY DEF AskedInv
  <2>2. n \in Name
    BY DEF TypeOK, TypeControl
  <2>3. Waiting(n) => Waiting(n)'
    BY <1>1 DEF Waiting
  <2> QED
    BY <1>1, <2>1, <2>2, <2>3, SettledKept DEF Settled
<1> QED
  BY <1>2, <1>3

\* install-service is done with a name, which has all it was promised.
LEMMA InstallAdvances ==
  ASSUME TypeOK, CallInv, InstallInv, AskedInv, op = "install", at # "idle", NothingUndone,
         Advance, NEW h, h = Head(todo), Settled(h)'
  PROVE  InstallInv' /\ AskedInv'
<1>1. /\ UNCHANGED <<op, asked, flags>> /\ at' \in {"idle", "register"}
      /\ result = "pending"
  BY DEF Advance, Finish, FirstStep, CallInv
<1>2. InstallInv'
  BY <1>1 DEF InstallInv, InstallCall
<1>3. AskedInv'
  <2> SUFFICES ASSUME NEW n \in asked
               PROVE  Waiting(n)' \/ Settled(n)'
    BY <1>1 DEF AskedInv
  <2>1. Waiting(n) \/ Settled(n)
    BY <1>1 DEF AskedInv
  <2>2. n \in Name
    BY DEF TypeOK, TypeControl
  <2>3. CASE Waiting(n)
    BY <2>3, AdvanceWaiting
  <2>4. CASE Settled(n)
    BY <1>1, <2>2, <2>4, SettledKept DEF Settled
  <2> QED
    BY <2>1, <2>3, <2>4
<1> QED
  BY <1>2, <1>3

LEMMA InstallFails ==
  ASSUME InstallInv, Finish("error")
  PROVE  InstallInv' /\ AskedInv'
BY DEF Finish, InstallInv, AskedInv, InstallCall

\* The calls install-service makes; the others are made at other steps.
InstallReads == \/ SeenRegistered \/ SeenUnregistered \/ SeenNotRunning
                \/ SystemctlStartFails \/ AlreadyRegistered \/ NotYetRegistered
                \/ ExecutableMissing \/ WriteUnitFileFails \/ EnableServiceFails
InstallActs == \/ SeenRunning \/ SystemctlStart \/ WriteUnitFile
               \/ NoAutostart \/ EnableService

LEMMA InstallCalls ==
  ASSUME InstallInv, op = "install", CommandStep
  PROVE  InstallReads \/ InstallActs
<1>1. at \in InstallCall
  BY DEF InstallInv
<1> QED
  BY <1>1 DEF InstallCall, InstallReads, InstallActs, CommandStep, Recheck, SystemctlStop,
     SystemctlStopFails, NothingToKill, KillProcess, KillFails, NodeDoesNotAnswer,
     NodeStopRequested, NodeStopChecked, StartSkipped, StartRefused, VerifyRunning,
     VerifyFails, ServiceNotSeen, Launch, LaunchFails, Relaunch, ForegroundEnded,
     DisableService, RemoveUnitFile

LEMMA InstallReadsKeep ==
  ASSUME NoSilentFailure, TypeOK, CallInv, InstallInv, AskedInv, op = "install", InstallReads
  PROVE  InstallInv' /\ AskedInv'
<1>1. at # "idle" /\ UNCHANGED host /\ NothingUndone
  BY DEF InstallReads, SeenRegistered, SeenUnregistered, SeenNotRunning,
     SystemctlStartFails, AlreadyRegistered, NotYetRegistered, ExecutableMissing,
     WriteUnitFileFails, EnableServiceFails, host, NothingUndone
<1>2. \/ Finish("error")
      \/ /\ at = "registered" /\ Goto("running")
      \/ /\ at = "running" /\ Goto("sysstart")
      \/ /\ at = "register" /\ Goto("enable") /\ TRUE \in IsRegistered(cur)
      \/ /\ at = "register" /\ Goto("write")
      \/ /\ at = "write" /\ Goto("enable") /\ cur \notin execs
  BY DEF InstallReads, SeenRegistered, SeenUnregistered, SeenNotRunning,
     SystemctlStartFails, AlreadyRegistered, NotYetRegistered, ExecutableMissing,
     WriteUnitFileFails, EnableServiceFails
<1>3. CASE Finish("error")
  BY <1>3, InstallFails
<1>4. CASE \/ /\ at = "registered" /\ Goto("running")
           \/ /\ at = "running" /\ Goto("sysstart")
  <2>1. HasUnit(Head(todo)) /\ StartsAtBoot(Head(todo)) /\ Head(todo) \in Name
    BY <1>1, <1>4, CurrentTool DEF InstallInv
  <2>2. UNCHANGED <<flags, todo>>
    BY <1>4 DEF Goto
  <2>3. HasUnit(Head(todo))' /\ StartsAtBoot(Head(todo))'
    BY <1>1, <2>1, <2>2 DEF host, HasUnit, StartsAtBoot
  <2>4. PICK s \in {"running", "sysstart"} : Goto(s)
    BY <1>4
  <2> QED
    BY <1>1, <2>3, <2>4, InstallGoesOn DEF InstallCall
<1>5. CASE \/ /\ at = "register" /\ Goto("enable") /\ TRUE \in IsRegistered(cur)
           \/ /\ at = "write" /\ Goto("enable") /\ cur \notin execs
  <2>1. HasUnit(Head(todo))
    BY <1>5, Readings DEF HasUnit, cur
  <2>2. UNCHANGED todo /\ Goto("enable")
    BY <1>5 DEF Goto
  <2>3. HasUnit(Head(todo))'
    BY <1>1, <2>1, <2>2 DEF host, HasUnit
  <2> QED
    BY <1>1, <2>2, <2>3, InstallGoesOn DEF InstallCall
<1>6. CASE at = "register" /\ Goto("write")
  BY <1>1, <1>6, InstallGoesOn DEF InstallCall
<1> QED
  BY <1>2, <1>3, <1>4, <1>5, <1>6

LEMMA InstallActsKeep ==
  ASSUME NoSilentFailure, TypeOK, CallInv, InstallInv, AskedInv, op = "install", InstallActs
  PROVE  InstallInv' /\ AskedInv'
<1>0. at # "idle" /\ cur \in Tool /\ Head(todo) \in Name /\ cur = ToolOf(Head(todo))
  BY CurrentTool DEF InstallActs, SeenRunning, SystemctlStart, WriteUnitFile,
     NoAutostart, EnableService, cur
<1>1. CASE SeenRunning
  <2>0. unit[cur] # "inactive"
    BY <1>1 DEF SeenRunning, IsRunning, ActiveOutput
  <2>1. at = "running" /\ Advance /\ UNCHANGED <<host, flags>>
    BY <1>1 DEF SeenRunning, Started, Advance, Finish
  <2>2. NothingUndone
    BY <2>1 DEF host, NothingUndone
  <2>3. HasUnit(Head(todo)) /\ StartsAtBoot(Head(todo)) /\ IsUp(Head(todo))
    BY <1>0, <2>0, <2>1 DEF InstallInv, IsUp
  <2>4. ASSUME NEW h, h = Head(todo) PROVE Settled(h)'
    BY <1>0, <2>1, <2>2, <2>3, <2>4, SettledKept DEF Settled
  <2> QED
    BY <1>0, <2>1, <2>2, <2>4, InstallAdvances
<1>2. CASE SystemctlStart
  <2>1. /\ at = "sysstart" /\ Advance /\ UNCHANGED <<unitFile, enabled, execs, flags>>
        /\ unit' = [unit EXCEPT ![cur] = "active"]
    BY <1>2 DEF SystemctlStart, Started, Advance, Finish
  <2>2. NothingUndone /\ unit'[cur] = "active"
    BY <1>0, <2>1 DEF NothingUndone, TypeOK, TypeHost
  <2>3. HasUnit(Head(todo)) /\ StartsAtBoot(Head(todo))
    BY <2>1 DEF InstallInv
  <2>4. ASSUME NEW h, h = Head(todo) PROVE Settled(h)'
    <3>1. HasUnit(h)' /\ StartsAtBoot(h)'
      BY <1>0, <2>1, <2>2, <2>3, <2>4, SettledKept
    <3>2. IsUp(h)'
      BY <1>0, <2>2, <2>4 DEF IsUp
    <3> QED
      BY <3>1, <3>2 DEF Settled
  <2> QED
    BY <1>0, <2>1, <2>2, <2>4, InstallAdvances
<1>3. CASE WriteUnitFile
  <2>1. PICK f \in {"plain", "masternode"} :
          /\ unitFile' = [unitFile EXCEPT ![cur] = f]
          /\ UNCHANGED <<enabled, unit, execs>>
          /\ Goto("enable") \/ Finish("error")
    BY <1>3 DEF WriteUnitFile
  <2>2. NothingUndone /\ unitFile'[cur] # "absent"
    BY <1>0, <2>1 DEF NothingUndone, TypeOK, TypeHost
  <2>3. CASE Goto("enable")
    <3>1. HasUnit(Head(todo))'
      BY <1>0, <2>2, <2>3 DEF HasUnit, Goto
    <3> QED
      BY <1>0, <2>2, <2>3, <3>1, InstallGoesOn DEF InstallCall
  <2> QED
    BY <2>1, <2>3, InstallFails
<1>4. CASE NoAutostart \/ EnableService
  <2>1. /\ at = "enable" /\ AfterEnable /\ UNCHANGED <<unitFile, unit, execs, flags>>
        /\ "autostart" \in flags => cur \in enabled'
        /\ enabled \subseteq enabled'
    BY <1>4 DEF NoAutostart, EnableService, AfterEnable, Goto, Advance, Finish, host
  <2>2. NothingUndone /\ HasUnit(Head(todo))
    BY <2>1 DEF NothingUndone, InstallInv
  <2>3. ASSUME NEW h, h = Head(todo) PROVE HasUnit(h)' /\ StartsAtBoot(h)'
    <3>1. HasUnit(h)'
      BY <1>0, <2>1, <2>2, <2>3, SettledKept
    <3>2. StartsAtBoot(h)'
      BY <1>0, <2>1, <2>3 DEF StartsAtBoot
    <3> QED
      BY <3>1, <3>2
  <2>4. CASE Goto("registered")
    <3>1. UNCHANGED todo
      BY <2>4 DEF Goto
    <3>2. HasUnit(Head(todo))' /\ StartsAtBoot(Head(todo))'
      BY <2>3, <3>1
    <3> QED
      BY <1>0, <2>2, <2>4, <3>2, InstallGoesOn DEF InstallCall
  <2>5. CASE "start" \notin flags /\ Advance
    <3>1. ASSUME NEW h, h = Head(todo) PROVE Settled(h)'
      BY <2>1, <2>3, <2>5, <3>1 DEF Settled, IsUp
    <3> QED
      BY <1>0, <2>2, <2>5, <3>1, InstallAdvances
  <2> QED
    BY <2>1, <2>4, <2>5 DEF AfterEnable
<1> QED
  BY <1>1, <1>2, <1>3, <1>4 DEF InstallActs

\* Every other step leaves what install-service promised alone, or is the start of
\* another command, or the end of this one without a nil.
LEMMA InstallStep ==
  ASSUME NoSilentFailure, TypeOK, CallInv, InstallInv, AskedInv, Next
  PROVE  InstallInv' /\ AskedInv'
<1>1. CASE CommandStep /\ op = "install"
  BY <1>1, InstallCalls, InstallReadsKeep, InstallActsKeep
<1>2. CASE CommandStep /\ op # "install"
  <2>1. UNCHANGED op
    BY <1>2, AdvancePosition DEF CommandStep, Goto, Finish, AfterEnable, Started,
       SeenRegistered, SeenUnregistered, SeenRunning, SeenNotRunning, Recheck,
       SystemctlStart, SystemctlStartFails, SystemctlStop, SystemctlStopFails,
       NothingToKill, KillProcess, KillFails, NodeDoesNotAnswer, NodeStopRequested,
       NodeStopChecked, StartSkipped, StartRefused, VerifyRunning, VerifyFails,
       ServiceNotSeen, Launch, LaunchFails, Relaunch, ForegroundEnded,
       AlreadyRegistered, NotYetRegistered, ExecutableMissing, WriteUnitFile,
       WriteUnitFileFails, NoAutostart, EnableService, EnableServiceFails,
       DisableService, RemoveUnitFile
  <2> QED
    BY <1>2, <2>1 DEF InstallInv, AskedInv
<1>3. CASE Stop \/ Start \/ InstallService \/ RemoveService
  <2>1. CASE \E o \in Op, list \in Seq(Name) \ {<<>>},
            fl \in SUBSET {"autostart", "start"} : Invoke(o, list, fl)
    <3>1. PICK o \in Op, list \in Seq(Name) \ {<<>>},
            fl \in SUBSET {"autostart", "start"} : Invoke(o, list, fl)
      BY <2>1
    <3>2. /\ op' = o /\ todo' = list /\ at' = FirstStep(o)
          /\ asked' = {list[i] : i \in DOMAIN list}
      BY <3>1 DEF Invoke
    <3>3. InstallInv'
      BY <3>2 DEF InstallInv, InstallCall, FirstStep
    <3>4. \A n \in asked' : Waiting(n)'
      BY <3>2, LenProperties DEF Waiting
    <3> QED
      BY <3>3, <3>4 DEF AskedInv
  <2>2. CASE \E o \in Op : NoServiceManager(o)
    BY <2>2 DEF NoServiceManager, InstallInv, AskedInv, InstallCall
  <2> QED
    BY <1>3, <2>1, <2>2, ListAssumption
    DEF Stop, Start, InstallService, RemoveService, Op
<1>4. CASE \E t \in Tool : UnitExits(t) \/ UnitRestarts(t) \/ ManualExits(t)
  <2>1. UNCHANGED <<op, at, todo, asked, flags, result, unitFile, enabled, execs>>
    BY <1>4 DEF UnitExits, UnitRestarts, ManualExits, command
  <2>2. NothingUndone
    BY <1>4, <2>1 DEF UnitExits, UnitRestarts, ManualExits, NothingUndone, TypeOK, TypeHost
  <2>3. InstallInv'
    BY <2>1 DEF InstallInv, HasUnit, StartsAtBoot
  <2>4. AskedInv'
    <3> SUFFICES ASSUME op = "install", result \in {"pending", "ok"}, NEW n \in asked
                 PROVE  Waiting(n)' \/ Settled(n)'
      BY <2>1 DEF AskedInv
    <3>1. n \in Name /\ (Waiting(n) \/ Settled(n))
      BY DEF TypeOK, TypeControl, AskedInv
    <3>2. Waiting(n) => Waiting(n)'
      BY <2>1 DEF Waiting
    <3> QED
      BY <2>1, <2>2, <3>1, <3>2, SettledKept DEF Settled
  <2> QED
    BY <2>3, <2>4
<1>5. CASE Interrupt \/ Reboot
  BY <1>5 DEF Interrupt, Reboot, Finish, InstallInv, AskedInv, InstallCall
<1> QED
  BY <1>1, <1>2, <1>3, <1>4, <1>5 DEF Next, Environment

LEMMA CallStep ==
  ASSUME NoSilentFailure, ServiceInv, CallInv, Next
  PROVE  CallInv'
<1> TypeOK
  BY DEF ServiceInv
<1> DEFINE Counted == {"running", "recheck", "sysstop", "sysstart", "stopcheck"}
<1>1. CASE SeenRegistered
  BY <1>1, Readings DEF SeenRegistered, Goto, host, CallInv, cur
<1>2. CASE SeenRunning \/ SeenNotRunning \/ Recheck
  <2>1. at \in {"running", "recheck"} /\ UNCHANGED host
    BY <1>2 DEF SeenRunning, SeenNotRunning, Recheck
  <2>2. \/ (\E s \in {"sysstop", "recheck", "disable", "sysstart", "verify"} : Goto(s))
        \/ Advance
    BY <1>2 DEF SeenRunning, SeenNotRunning, Recheck, Started
  <2>3. CASE \E s \in {"sysstop", "recheck", "disable", "sysstart", "verify"} : Goto(s)
    BY <2>1, <2>3 DEF Goto, host, CallInv, cur
  <2>4. CASE Advance
    BY <2>1, <2>4 DEF Advance, Finish, FirstStep, CallInv
  <2> QED
    BY <2>2, <2>3, <2>4
<1>3. CASE NodeStopRequested
  BY <1>3 DEF NodeStopRequested, Goto, CallInv, cur
<1>4. CASE CommandStep /\ ~(SeenRegistered \/ SeenRunning \/ SeenNotRunning \/ Recheck
                            \/ NodeStopRequested)
  <2>1. \/ (\E s \in Step \ (Counted \cup {"idle"}) : Goto(s))
        \/ Advance \/ Finish("ok") \/ Finish("error")
    BY <1>4 DEF CommandStep, AfterEnable, Started, Step, SeenUnregistered,
       SystemctlStart, SystemctlStartFails, SystemctlStop, SystemctlStopFails,
       NothingToKill, KillProcess, KillFails, NodeDoesNotAnswer,
       NodeStopChecked, StartSkipped, StartRefused, VerifyRunning, VerifyFails,
       ServiceNotSeen, Launch, LaunchFails, Relaunch, ForegroundEnded,
       AlreadyRegistered, NotYetRegistered, ExecutableMissing, WriteUnitFile,
       WriteUnitFileFails, NoAutostart, EnableService, EnableServiceFails,
       DisableService, RemoveUnitFile
  <2>2. at # "idle"
    BY <1>4 DEF CommandStep, SeenUnregistered,
       SystemctlStart, SystemctlStartFails, SystemctlStop, SystemctlStopFails,
       NothingToKill, KillProcess, KillFails, NodeDoesNotAnswer,
       NodeStopChecked, StartSkipped, StartRefused, VerifyRunning, VerifyFails,
       ServiceNotSeen, Launch, LaunchFails, Relaunch, ForegroundEnded,
       AlreadyRegistered, NotYetRegistered, ExecutableMissing, WriteUnitFile,
       WriteUnitFileFails, NoAutostart, EnableService, EnableServiceFails,
       DisableService, RemoveUnitFile
  <2>3. CASE \E s \in Step \ (Counted \cup {"idle"}) : Goto(s)
    BY <2>2, <2>3 DEF Goto, CallInv
  <2>4. CASE Advance \/ Finish("ok") \/ Finish("error")
    BY <2>2, <2>4 DEF Advance, Finish, FirstStep, CallInv
  <2> QED
    BY <2>1, <2>3, <2>4
<1>5. CASE Stop \/ Start \/ InstallService \/ RemoveService
  BY <1>5 DEF Stop, Start, InstallService, RemoveService, Invoke, NoServiceManager,
     FirstStep, CallInv
<1>6. CASE \E t \in Tool : UnitExits(t) \/ UnitRestarts(t) \/ ManualExits(t)
  BY <1>6 DEF UnitExits, UnitRestarts, ManualExits, command, CallInv, cur
<1>7. CASE Interrupt \/ Reboot
  BY <1>7 DEF Interrupt, Reboot, Finish, CallInv
<1> QED
  BY <1>1, <1>2, <1>3, <1>4, <1>5, <1>6, <1>7 DEF Next, Environment

LEMMA CallInvAlways ==
  ASSUME NoSilentFailure
  PROVE  Spec => [](ServiceInv /\ CallInv)
<1>1. Init => CallInv
  BY DEF Init, CallInv
<1>2. ServiceInv /\ CallInv /\ [Next]_vars => CallInv'
  BY CallStep DEF vars, CallInv, cur
<1> QED
  BY <1>1, <1>2, ServiceInvariant, PTL DEF Spec

\* When install-service returned nil, and until another command runs or the host
\* reboots, every service with an executable has its unit, starts at boot and is up
\* as the flags asked, whatever exits and restarts meanwhile.
THEOREM InstalledIsManagedAlways ==
  ASSUME NoSilentFailure
  PROVE  Spec => []InstalledIsManaged
<1>1. Init => InstallInv /\ AskedInv
  BY DEF Init, InstallInv, AskedInv
<1>2. ServiceInv /\ CallInv /\ InstallInv /\ AskedInv /\ [Next]_vars
        => InstallInv' /\ AskedInv'
  <2> SUFFICES ASSUME ServiceInv, CallInv, InstallInv, AskedInv, [Next]_vars
               PROVE  InstallInv' /\ AskedInv'
    OBVIOUS
  <2>1. CASE Next
    BY <2>1, InstallStep DEF ServiceInv
  <2>2. CASE UNCHANGED vars
    BY <2>2 DEF vars, InstallInv, AskedInv, Waiting, Settled, HasUnit, StartsAtBoot, IsUp
  <2> QED
    BY <2>1, <2>2
<1>3. CallInv /\ AskedInv => InstalledIsManaged
  <2> SUFFICES ASSUME CallInv, AskedInv, at = "idle", op = "install", result = "ok",
                      NEW n \in asked
               PROVE  Settled(n)
    BY DEF InstalledIsManaged, Settled, HasUnit, StartsAtBoot, IsUp
  <2>1. ~Waiting(n)
    BY DEF CallInv, Waiting
  <2> QED
    BY <2>1 DEF AskedInv
<1> QED
  BY <1>1, <1>2, <1>3, CallInvAlways, PTL DEF Spec

\* A tool without a unit is reported as stopped only when one of its processes has
\* just ended or none was left.
THEOREM StopMeansKilledAlways ==
  ASSUME NoSilentFailure
  PROVE  Spec => StopMeansKilled
<1> DEFINE Killed == \A t \in Tool \ {PastelD, DDImgService} :
       (/\ claim[t] # "stopped" /\ claim'[t] = "stopped"
        /\ unitFile[t] = "absent" /\ manual[t] > 0)
         => manual'[t] < manual[t]
<1>1. ServiceInv /\ CallInv /\ [Next]_vars => [Killed]_vars
  <2> SUFFICES ASSUME ServiceInv, CallInv, Next,
                      NEW t \in Tool \ {PastelD, DDImgService},
                      claim[t] # "stopped", claim'[t] = "stopped",
                      unitFile[t] = "absent", manual[t] > 0
               PROVE  manual'[t] < manual[t]
    OBVIOUS
  <2> TypeOK
    BY DEF ServiceInv
  <2>0. manual[t] \in Nat /\ unit[t] = "inactive"
    BY HostAssumption DEF ServiceInv, NoFileNoUnit, TypeOK, TypeHost
  <2>1. CASE KillProcess
    <3>1. at # "idle" /\ Report("stopped") /\ OneDies(cur)
      BY <2>1 DEF KillProcess
    <3>2. t = cur
      BY <3>1, ReportClaim
    <3>3. manual' = [manual EXCEPT ![t] = @ - 1]
      BY <2>0, <3>1, <3>2 DEF OneDies
    <3> QED
      BY <2>0, <3>3 DEF TypeOK, TypeHost
  <2>2. CASE NothingToKill
    <3>1. at # "idle" /\ Report("stopped") /\ (cur = DDImgService \/ ~Alive(cur))
      BY <2>2 DEF NothingToKill
    <3>2. t = cur
      BY <3>1, ReportClaim
    <3> QED
      BY <3>1, <3>2 DEF Alive
  <2>3. CASE SeenNotRunning \/ SystemctlStop
    <3>1. at \in {"running", "sysstop"} /\ (Report("stopped") \/ UNCHANGED claim)
      BY <2>3 DEF SeenNotRunning, SystemctlStop
    <3>2. t = cur
      BY <3>1, ReportClaim
    <3> QED
      BY <3>1, <3>2 DEF CallInv
  <2>4. CASE NodeDoesNotAnswer \/ NodeStopChecked
    <3>1. at # "idle" /\ cur = PastelD /\ (Report("stopped") \/ UNCHANGED claim)
      BY <2>4 DEF NodeDoesNotAnswer, NodeStopChecked, CallInv
    <3>2. t = cur
      BY <3>1, ReportClaim
    <3> QED
      BY <3>1, <3>2
  <2>5. CASE SeenRunning \/ SystemctlStart \/ Launch \/ Relaunch
    <3>1. at # "idle" /\ (Report("managed") \/ Report("none") \/ UNCHANGED claim)
      BY <2>5 DEF SeenRunning, SystemctlStart, Started, Launch, Relaunch, RunByHand
    <3>2. FALSE
      BY <3>1, ReportClaim
    <3> QED
      BY <3>2
  <2>6. CASE Reboot
    BY <2>6 DEF Reboot
  <2>7. CASE ~ClaimActions
    BY <2>7, ClaimFrame
  <2> QED
    BY <2>1, <2>2, <2>3, <2>4, <2>5, <2>6, <2>7 DEF ClaimActions
<1> QED
  BY <1>1, CallInvAlways, PTL DEF Spec, StopMeansKilled

-----------------------------------------------------------------------------
(* The units implement the abstract managed services                         *)

\* The abstract status of a tool with unit file f and unit state x.
Status(f, x) == IF f = "absent" THEN "absent"
                ELSE IF x = "inactive" THEN "stopped" ELSE "running"
status == [t \in Tool |-> Status(unitFile[t], unit[t])]

\* When the file or the unit of one tool changes, so does its status only.
LEMMA OneStatus ==
  ASSUME TypeOK, NEW c \in Tool, NEW f, NEW x,
         unitFile' = [unitFile EXCEPT ![c] = f], unit' = [unit EXCEPT ![c] = x]
  PROVE  status' = [status EXCEPT ![c] = Status(f, x)]
<1>1. unitFile'[c] = f /\ unit'[c] = x
  BY DEF TypeOK, TypeHost
<1>2. \A u \in Tool : u # c => unitFile'[u] = unitFile[u] /\ unit'[u] = unit[u]
  BY DEF TypeOK, TypeHost
<1>3. status' = [u \in Tool |-> Status(unitFile'[u], unit'[u])]
  BY DEF status, Status
<1>4. [status EXCEPT ![c] = Status(f, x)] =
        [u \in Tool |-> IF u = c THEN Status(f, x) ELSE Status(unitFile[u], unit[u])]
  BY DEF status
<1>5. \A u \in Tool : Status(unitFile'[u], unit'[u]) =
                        IF u = c THEN Status(f, x) ELSE Status(unitFile[u], unit[u])
  BY <1>1, <1>2
<1> HIDE DEF Status
<1> QED
  BY <1>3, <1>4, <1>5

LEMMA StatusKept ==
  ASSUME \A u \in Tool : Status(unitFile'[u], unit'[u]) = Status(unitFile[u], unit[u])
  PROVE  status' = status
BY DEF status, Status

LEMMA ManagedInit == Init => Managed!Init
BY DEF Init, Managed!Init

LEMMA ManagedNext ==
  ASSUME NoSilentFailure, ServiceInv, Next
  PROVE  [Managed!Next]_status
<1> TypeOK
  BY DEF ServiceInv
<1> USE DEF Managed!Next, Managed!Register, Managed!StartUnit, Managed!StopUnit,
            Managed!Unregister, Managed!Boot
<1>1. CASE WriteUnitFile
  <2>1. PICK c \in Tool, f \in {"plain", "masternode"} :
          /\ unitFile' = [unitFile EXCEPT ![c] = f] /\ UNCHANGED unit
          /\ unitFile[c] = "absent" /\ unit[c] = "inactive"
    BY <1>1, CurrentTool DEF WriteUnitFile, ServiceInv, Positions, NoFileNoUnit
  <2>2. unit' = [unit EXCEPT ![c] = unit[c]]
    BY <2>1 DEF TypeOK, TypeHost
  <2>3. status' = [status EXCEPT ![c] = Status(f, unit[c])]
    BY <2>1, <2>2, OneStatus
  <2>4. status[c] = "absent" /\ Status(f, unit[c]) = "stopped"
    BY <2>1 DEF status, Status
  <2> QED
    BY <2>3, <2>4 DEF status, Status
<1>2. CASE RemoveUnitFile
  <2>1. PICK c \in Tool :
          /\ unitFile' = [unitFile EXCEPT ![c] = "absent"] \/ UNCHANGED unitFile
          /\ UNCHANGED unit /\ unit[c] = "inactive"
    BY <1>2, CurrentTool DEF RemoveUnitFile, ServiceInv, UnitDown
  <2>2. CASE UNCHANGED unitFile
    BY <2>1, <2>2, StatusKept
  <2>3. CASE unitFile' = [unitFile EXCEPT ![c] = "absent"]
    <3>1. unit' = [unit EXCEPT ![c] = unit[c]]
      BY <2>1 DEF TypeOK, TypeHost
    <3>2. status' = [status EXCEPT ![c] = "absent"]
      BY <2>3, <3>1, OneStatus DEF Status
    <3>3. status[c] \in {"absent", "stopped"}
      BY <2>1 DEF status, Status
    <3>4. CASE status[c] = "absent"
      BY <3>2, <3>4 DEF status
    <3> QED
      BY <3>2, <3>3, <3>4 DEF status, Status
  <2> QED
    BY <2>1, <2>2, <2>3
<1>3. CASE SystemctlStart
  <2>1. PICK c \in Tool :
          /\ unit' = [unit EXCEPT ![c] = "active"] /\ UNCHANGED unitFile
          /\ unitFile[c] # "absent" /\ unit[c] = "inactive"
    BY <1>3, CurrentTool DEF SystemctlStart, ServiceInv, UnitDown
  <2>2. unitFile' = [unitFile EXCEPT ![c] = unitFile[c]]
    BY <2>1 DEF TypeOK, TypeHost
  <2>3. status' = [status EXCEPT ![c] = "running"] /\ status[c] = "stopped"
    BY <2>1, <2>2, OneStatus DEF status, Status
  <2> QED
    BY <2>3 DEF status, Status
<1>4. CASE SystemctlStop
  <2>1. PICK c \in Tool : unit' = [unit EXCEPT ![c] = "inactive"] /\ UNCHANGED unitFile
    BY <1>4, CurrentTool DEF SystemctlStop
  <2>2. unitFile' = [unitFile EXCEPT ![c] = unitFile[c]]
    BY <2>1 DEF TypeOK, TypeHost
  <2>3. status' = [status EXCEPT ![c] = Status(unitFile[c], "inactive")]
    BY <2>1, <2>2, OneStatus
  <2>4. CASE unit[c] = "inactive"
    BY <2>3, <2>4 DEF status, Status
  <2>5. CASE unit[c] # "inactive"
    <3>1. unitFile[c] # "absent"
      BY <2>5 DEF ServiceInv, NoFileNoUnit
    <3> QED
      BY <2>3, <2>5, <3>1 DEF status, Status
  <2> QED
    BY <2>4, <2>5
<1>5. CASE Reboot
  <2>1. UNCHANGED unitFile
    BY <1>5 DEF Reboot
  <2>2. \A t \in Tool : Status(unitFile'[t], unit'[t]) =
          IF status[t] = "absent" THEN "absent" ELSE IF t \in enabled THEN "running" ELSE "stopped"
    BY <1>5, <2>1 DEF Reboot, status, Status
  <2>3. status' = [t \in Tool |-> IF status[t] = "absent" THEN "absent"
                                  ELSE IF t \in enabled THEN "running" ELSE "stopped"]
    BY <2>2 DEF status
  <2>4. enabled \in SUBSET Tool
    BY DEF TypeOK, TypeHost
  <2>5. Managed!Boot(enabled)
    BY <2>3 DEF status, Status
  <2> QED
    BY <2>4, <2>5
<1>6. CASE \/ KillProcess \/ NodeStopRequested
           \/ \E t \in Tool : UnitExits(t) \/ UnitRestarts(t)
  <2>1. UNCHANGED unitFile
    BY <1>6 DEF KillProcess, NodeStopRequested, UnitExits, UnitRestarts
  <2>2. \A t \in Tool : (unit'[t] = "inactive") <=> (unit[t] = "inactive")
    BY <1>6 DEF KillProcess, NodeStopRequested, OneDies, UnitExits, UnitRestarts,
                TypeOK, TypeHost
  <2> QED
    BY <2>1, <2>2, StatusKept DEF Status
<1>7. CASE ~UnitActions /\ ~FileActions
  BY <1>7, UnitFrame, FileFrame, StatusKept
<1> QED
  BY <1>1, <1>2, <1>3, <1>4, <1>5, <1>6, <1>7 DEF UnitActions, FileActions

\* Every command, crash and reboot is a step of the abstract managed services or
\* leaves them as they are: no service is started unregistered or unregistered
\* while it runs.
THEOREM Refinement ==
  ASSUME NoSilentFailure
  PROVE  Spec => ManagedSpec
<1>1. ServiceInv /\ [Next]_vars => [Managed!Next]_status
  BY ManagedNext DEF vars, status
<1> QED
  BY ManagedInit, <1>1, ServiceInvariant, PTL DEF Spec, ManagedSpec, Managed!Spec, status, Status
=============================================================================
