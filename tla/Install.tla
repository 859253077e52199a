-------------------------------- MODULE Install --------------------------------
(***************************************************************************)
(* pastelup install, the same installer as update runs it, and uninstall, on  *)
(* one host that may have been installed before, whole or in part.            *)
(*                                                                           *)
(* runServicesInstall and the install functions of cmd/install.go, and         *)
(* cmd/uninstall.go.  A command is the list of the calls it makes; each call    *)
(* is a step, works or breaks off, and the command may be interrupted before   *)
(* any of them.  What runs meanwhile is in ServiceManager and Update.         *)
(***************************************************************************)
EXTENDS ReleaseFiles

CONSTANTS Commands, MaxRuns
\* What update leaves by --skip-system-update, --skip-dd-packages-update and
\* --skip-dd-supporting-files-update.
Skippable == {"chrome", "venv", "dd support"}
Command == [op : {"install", "update", "uninstall"}, tool : Tool, deps : BOOLEAN,
            force : BOOLEAN, snapshot : BOOLEAN, purge : BOOLEAN,
            skip : SUBSET Skippable]
ASSUME CommandsAssumption == Commands \subseteq Command /\ MaxRuns \in Nat

VARIABLES
  packages,  \* what of the system is installed
  release,   \* the latest release
  cmd,       \* the flags of the command
  todo,      \* the calls it has still to make
  force,     \* config.Force
  asked,     \* the tools whose files the user has agreed to lose
  snap,      \* the snapshot has been downloaded
  begun,     \* history: the latest release when the command began
  hadDir,    \* history: it found the installation directory
  result, runs,
  apps,      \* history: the tools that have been installed without an error
  halfway    \* history: the tools of a command that has not ended well

cmdVars == <<cmd, todo, force, asked, snap, begun, hadDir, result, runs>>
history == <<apps, halfway>>
vars == <<fileVars, packages, release, cmdVars, history>>

\* The packages of apt a tool needs, Chrome, those of python, 7z; the ports of ufw.
AptPackage == {PastelD, WalletNode, SuperNode, DDService}
Package == AptPackage \cup {"chrome", "venv", "7z", "ports"}
Calls == {"dir", "packages", "package", "download", "unzip", "delete", "chmod", "folder",
          "config", "files", "7z", "snapshot", "clean", "extract", "system",
          "ask", "ask data", "remove", "purge"}

Items == Exec \cup Tool \cup Folder \cup Checked \cup SysFile \cup Package \cup {"none"}

TypeOK ==
  /\ FilesTypeOK
  /\ packages \subseteq Package /\ release \in Release
  /\ cmd \in Command /\ todo \in Seq([do : Calls, of : Items])
  /\ force \in BOOLEAN /\ asked \subseteq Tool /\ snap \in BOOLEAN
  /\ begun \in Release /\ hadDir \in BOOLEAN
  /\ result \in {"none", "running", "ok", "error", "exists"}
  /\ runs \in 0 .. MaxRuns /\ apps \cup halfway \subseteq Tool

\* A host without anything, or one with the data of an earlier installation.
Init ==
  /\ exec = [f \in Exec |-> Missing] /\ runnable = {} /\ zip = [t \in Zipped |-> Missing]
  /\ \/ /\ conf = [t \in Tool |-> Missing] /\ dirs = {} /\ chain = Missing
        /\ checked = [c \in Checked |-> Missing]
     \/ /\ conf = [t \in Tool |-> "own"] /\ dirs = {"work", "params", "dd"} /\ chain = "own"
        /\ checked \in [Checked -> {"good", "bad"}]
  /\ sys = [f \in SysFile |-> {f}] /\ temp = {}
  /\ packages = {} /\ release = 0
  /\ cmd \in Commands /\ todo = <<>> /\ force = FALSE /\ asked = {} /\ snap = FALSE
  /\ begun = 0 /\ hadDir = FALSE /\ result = "none" /\ runs = 0
  /\ apps = {} /\ halfway = {}

-----------------------------------------------------------------------------
(* The calls a command makes. *)
Call(do, of) == <<[do |-> do, of |-> of]>>
When(c, calls) == IF c THEN calls ELSE <<>>

\* downloadComponents and processArchive
Get(t) ==
  Call("download", t)
    \o When(t \in Zipped,
         [i \in 1 .. Len(Execs[t]) |-> [do |-> "unzip", of |-> Execs[t][i]]]
           \o Call("delete", t))

\* setupBasePastelWorkingEnvironment
BaseEnvironment ==
  Call("folder", "work") \o Call("config", PastelD) \o Call("folder", "params")
    \o Call("files", "params")
\* Variant: the working directory is cleaned while the snapshot is downloaded.
CleanFirst == Call("clean", "none") \o Call("snapshot", "none") \o Call("extract", "none")
LatestSnapshot == Call("snapshot", "none") \o Call("clean", "none") \o Call("extract", "none")

\* The install functions: the configuration is written only by install.
Core(c) ==
  Get(PastelD) \o Call("chmod", PastelD) \o Call("chmod", "pastel-cli")
    \o When(c.op = "install", BaseEnvironment) \o When(c.snapshot, LatestSnapshot)
RaptorQ(c) ==
  Get(RQService) \o Call("chmod", RQService) \o Call("folder", "rqfiles")
    \o When(c.op = "install", Call("config", RQService))
One(c, t) == Get(t) \o Call("chmod", t) \o When(c.op = "install", Call("config", t))
SuperNodes(c) ==
  Get(SuperNode) \o Get(Hermes) \o Call("chmod", SuperNode) \o Call("chmod", Hermes)
    \o When(c.op = "install", Call("config", SuperNode) \o Call("config", Hermes))
    \o Call("folder", "p2pdata")
    \o When(c.op = "install", Call("package", "ports")
         \o [i \in DOMAIN SysFiles |-> [do |-> "system", of |-> SysFiles[i]]])
DupeDetection(c) ==
  Get(DDService) \o Call("package", "chrome") \o Call("package", "venv")
    \o Call("folder", "dd") \o Call("files", "dd support")
    \o When(c.op = "install", Call("config", DDService))

\* runServicesInstall
Installs(c) ==
  Call("dir", "exec") \o Call("packages", c.tool) \o
    CASE c.tool = PastelD   -> Core(c)
      [] c.tool = RQService -> RaptorQ(c)
      [] c.tool = WalletNode -> When(c.deps, Core(c) \o RaptorQ(c)) \o One(c, WalletNode)
           \o Call("7z", "none")
      [] c.tool = SuperNode ->
           When(c.deps, Core(c) \o RaptorQ(c)) \o SuperNodes(c) \o When(c.deps, DupeDetection(c))
      [] c.tool = DDService -> DupeDetection(c)
      [] c.tool = Hermes    -> One(c, Hermes)

PurgeOf(t) == Call("purge", t)
\* The runUninstall functions; the prompt for the data of the rq-service names the
\* dd-service, and the other way round.
Uninstalls(c) ==
  Call("ask", c.tool) \o
    CASE c.tool = PastelD -> Call("remove", PastelD) \o Call("remove", "pastel-cli")
      [] c.tool = WalletNode /\ c.deps ->
           Call("remove", PastelD) \o Call("remove", "pastel-cli") \o Call("remove", WalletNode)
             \o Call("remove", RQService)
             \o When(c.purge, Call("ask data", c.tool) \o PurgeOf(WalletNode) \o PurgeOf(RQService))
      [] c.tool = SuperNode /\ c.deps ->
           Call("ask", WalletNode) \o Call("remove", PastelD) \o Call("remove", "pastel-cli")
             \o Call("remove", SuperNode) \o Call("remove", RQService) \o Call("remove", Hermes)
             \o Call("remove", DDService)
             \o When(c.purge, Call("ask data", c.tool) \o PurgeOf(SuperNode) \o PurgeOf(RQService)
                  \o PurgeOf(Hermes) \o PurgeOf(DDService))
      [] c.tool = RQService ->
           Call("remove", RQService)
             \o When(c.purge, Call("ask data", DDService) \o PurgeOf(RQService))
      [] c.tool = DDService ->
           Call("remove", DDService)
             \o When(c.purge, Call("ask data", RQService) \o PurgeOf(DDService))
      [] OTHER ->
           Call("remove", c.tool)
             \o When(c.purge, Call("ask data", c.tool) \o PurgeOf(c.tool))

\* appToServiceMap; the supernode alone brings hermes.
Parts(c) ==
  {t \in Tool :
     \/ t = c.tool
     \/ c.tool = SuperNode /\ t = Hermes /\ c.op # "uninstall"
     \/ c.deps /\ \E i \in DOMAIN appToServiceMap[c.tool] : appToServiceMap[c.tool][i] = t}

-----------------------------------------------------------------------------
(* The steps of a command. *)
Skips(x) == cmd.op = "update" /\ x \in cmd.skip
SkipsSome == \E x \in Skippable : Skips(x)
Do(call) == result = "running" /\ todo # <<>> /\ Head(todo).do = call
Of == Head(todo).of
Skip(n) == todo' = SubSeq(todo, n + 1, Len(todo))
GoOn ==
  /\ Skip(1) /\ UNCHANGED <<cmd, force, asked, snap, begun, hadDir, result, runs>>
Ends(r) ==
  /\ todo' = <<>> /\ result' = r /\ UNCHANGED <<cmd, force, asked, snap, begun, hadDir, runs>>

Begin(c) ==
  /\ result # "running" /\ runs < MaxRuns
  /\ cmd' = c /\ todo' = IF c.op = "uninstall" THEN Uninstalls(c) ELSE Installs(c)
  /\ force' = c.force /\ asked' = {} /\ snap' = FALSE
  /\ begun' = release /\ hadDir' = ("exec" \in dirs)
  /\ result' = "running" /\ runs' = runs + 1
  /\ apps' = IF c.op = "install" THEN apps \ Parts(c) ELSE apps
  /\ halfway' = IF c.op = "uninstall" THEN halfway ELSE halfway \cup Parts(c)
  /\ UNCHANGED <<fileVars, packages, release>>

Returns ==
  /\ result = "running" /\ todo = <<>> /\ Ends("ok")
  /\ apps' = IF cmd.op = "install" THEN apps \cup Parts(cmd) ELSE apps
  /\ halfway' = IF cmd.op = "uninstall" THEN halfway
                ELSE halfway \ (IF SkipsSome THEN Parts(cmd) \ {DDService} ELSE Parts(cmd))
  /\ UNCHANGED <<fileVars, packages, release>>

\* Variant: the directory is taken without a question.
TakeInstallDir ==
  /\ Do("dir") /\ Skip(1) /\ force' = TRUE /\ dirs' = dirs \cup {"exec"}
  /\ UNCHANGED <<binVars, conf, checked, chain, sysVars, packages, release, history,
                 cmd, asked, snap, begun, hadDir, result, runs>>
\* Variant: a directory that is there does not count as force.
KeepForce ==
  /\ Do("dir") /\ dirs' = dirs \cup {"exec"} /\ GoOn
  /\ UNCHANGED <<binVars, conf, checked, chain, sysVars, packages, release, history>>
\* A user who agrees to overwrite the directory has agreed to --force.
checkInstallDir ==
  /\ Do("dir")
  /\ \/ /\ "exec" \in dirs /\ Skip(1) /\ force' = TRUE
        /\ asked' = IF force THEN asked ELSE Tool
        /\ UNCHANGED <<dirs, cmd, snap, begun, hadDir, result, runs>>
     \/ /\ "exec" \notin dirs /\ cmd.op = "install"
        /\ dirs' = dirs \cup {"exec"} /\ GoOn
     \/ "exec" \notin dirs /\ cmd.op = "update" /\ UNCHANGED dirs /\ Ends("error")
  /\ UNCHANGED <<binVars, conf, checked, chain, sysVars, packages, release, history>>

\* apt installs, or upgrades, one package after the other.
checkInstalledPackages ==
  /\ Do("packages")
  /\ LET required == Parts(cmd) \cap AptPackage
     IN \/ packages' = packages \cup required /\ GoOn
        \/ \E P \in SUBSET required : packages' = packages \cup P /\ Ends("error")
  /\ UNCHANGED <<fileVars, release, history>>
\* Chrome and the packages of python, which an update may be told to leave; the ports.
InstallPackage ==
  /\ Do("package") /\ GoOn
  /\ packages' = IF Skips(Of) THEN packages ELSE packages \cup {Of}
  /\ UNCHANGED <<fileVars, release, history>>
\* An error is only logged.
install7z ==
  /\ Do("7z") /\ GoOn /\ packages' \in {packages, packages \cup {"7z"}}
  /\ UNCHANGED <<fileVars, release, history>>

downloadComponents ==
  /\ \/ Do("download") /\ DownloadFile(Of, release) /\ GoOn
     \/ Do("unzip") /\ GoOn /\ \E t \in Zipped : (\E i \in DOMAIN Execs[t] : Execs[t][i] = Of)
                                              /\ Unzip(t, Of)
     \/ Do("unzip") /\ UnzipBreaks(Of) /\ Ends("error")
     \/ Do("delete") /\ DeleteArchive(Of) /\ GoOn
     \/ Do("chmod") /\ makeExecutable(Of) /\ GoOn
  /\ UNCHANGED <<dataVars, sysVars, packages, release, history>>

\* CreateFolder, setupComponentConfigFile.  The configuration of the dd-service comes
\* from a sample, over one that is there.
MayWrite(t) == force \/ t = DDService
SetsUp ==
  /\ \/ Do("folder") /\ CreateFolder(Of, force) /\ GoOn
     \/ Do("config") /\ CreateAndWrite(Of, MayWrite(Of)) /\ GoOn
     \/ Do("config") /\ CreateAndWriteBreaks(Of, MayWrite(Of)) /\ Ends("error")
     \/ Do("folder") /\ ~force /\ Of \in dirs /\ UNCHANGED dataVars /\ Ends("exists")
     \/ /\ Do("config") /\ ~MayWrite(Of) /\ conf[Of] # Missing
        /\ UNCHANGED dataVars /\ Ends("exists")
  /\ UNCHANGED <<binVars, sysVars, packages, release, history>>

\* Variant: a file that is there is taken for the right one.
downloadMissing ==
  /\ Do("files") /\ checked' = [checked EXCEPT ![Of] = IF @ = Missing THEN "good" ELSE @]
  /\ GoOn
  /\ UNCHANGED <<binVars, conf, dirs, chain, sysVars, packages, release, history>>
\* downloadZksnarkParams and the support files of the dd-service: what has the right
\* checksum stays, the rest is downloaded; the support files are unpacked in place.  A
\* failure may leave some of the files.  No checksum is taken of what has been
\* downloaded: the server is taken to send the right files.
downloadChecked ==
  /\ Do("files")
  /\ \/ /\ IF Of = "params" THEN force \/ checked[Of] = Missing ELSE ~Skips(Of)
        /\ \/ checked' = [checked EXCEPT ![Of] = "good"] /\ GoOn
           \/ /\ checked[Of] # "good"
              /\ checked' = [checked EXCEPT ![Of] = "bad"] /\ Ends("error")
     \/ Of = "params" /\ ~force /\ checked[Of] # Missing /\ UNCHANGED checked /\ Ends("exists")
     \/ Of = "dd support" /\ Skips(Of) /\ UNCHANGED checked /\ GoOn
  /\ UNCHANGED <<binVars, conf, dirs, chain, sysVars, packages, release, history>>

\* downloadLatestSnapshot: an error of any of its calls is logged and the installation
\* goes on "without snapshot".  A cleaning that fails may have removed the chain already.
Snapshot(n) ==
  Skip(n) /\ UNCHANGED <<cmd, force, asked, begun, hadDir, result, runs>>
downloadLatestSnapshot ==
  /\ \/ Do("snapshot") /\ Snapshot(1) /\ snap' = TRUE /\ UNCHANGED chain
     \/ Do("snapshot") /\ Snapshot(3) /\ UNCHANGED <<snap, chain>>
     \/ Do("clean") /\ Snapshot(1) /\ chain' = Missing /\ UNCHANGED snap
     \/ Do("clean") /\ Snapshot(2) /\ chain' \in {chain, Torn, Missing} /\ snap' = FALSE
     \/ Do("extract") /\ Snapshot(1) /\ chain' \in {Missing, Torn, "snapshot"} /\ snap' = FALSE
  /\ UNCHANGED <<binVars, conf, dirs, checked, sysVars, packages, release, history>>

\* increaseOpenFilesOnLinux goes on with the next file after an error.
increaseOpenFilesOnLinux ==
  /\ Do("system") /\ GoOn
  /\ writeToFile(Of) \/ writeToFileFails(Of)
  /\ UNCHANGED <<binVars, dataVars, packages, release, history>>

\* The errors of a removal are only logged; so is the stop of the services before it.
Agrees == \* config.Force, or the user's Yes
  /\ \/ Do("ask") /\ GoOn
     \/ /\ Do("ask data") /\ Skip(1)
        /\ asked' = asked \cup (IF cmd.deps THEN Parts(cmd) ELSE {Of})
        /\ UNCHANGED <<cmd, force, snap, begun, hadDir, result, runs>>
  /\ UNCHANGED <<fileVars, packages, release, history>>
\* The user's No ends an uninstall without an error; --force does not answer the first
\* question of an uninstall of the supernode.
Declines ==
  /\ Do("ask") \/ Do("ask data")
  /\ ~force \/ (Of = SuperNode /\ cmd.deps /\ Do("ask"))
  /\ Ends("none")
  /\ UNCHANGED <<fileVars, packages, release, history>>
Remove ==
  /\ Do("remove") /\ GoOn /\ removeFile(Of)
  /\ packages' \in {packages} \cup (IF Of = DDService THEN {packages \ {"venv"}} ELSE {})
  /\ apps' = apps \ {t \in Tool : \E i \in DOMAIN Execs[t] : Execs[t][i] = Of}
  /\ UNCHANGED <<dataVars, sysVars, release, halfway>>

\* The data of a tool: its configuration and its folder.
DataOf == [t \in Tool |-> CASE t = RQService -> {"rqfiles"}
                           [] t = SuperNode -> {"p2pdata"}
                           [] t = DDService -> {"dd"}
                           [] OTHER         -> {}]
Purge ==
  /\ Do("purge") /\ GoOn /\ apps' = apps \ {Of}
  /\ conf' \in {conf, [conf EXCEPT ![Of] = Missing]}
  /\ dirs' \in {dirs, dirs \ DataOf[Of]}
  /\ Of = DDService /\ dirs # dirs' => conf'[Of] = Missing
  /\ \/ Of # DDService /\ UNCHANGED checked
     \/ Of = DDService /\ dirs' # dirs /\ checked' = [checked EXCEPT !["dd support"] = Missing]
     \/ Of = DDService /\ dirs' = dirs /\ checked' \in {checked, [checked EXCEPT !["dd support"] = "bad"]}
  /\ UNCHANGED <<binVars, chain, sysVars, packages, release, halfway>>

\* Any call may fail before it has done anything; the user may say No, or Ctrl-C.
Fails ==
  /\ result = "running" /\ cmd.op # "uninstall" /\ todo # <<>>
  /\ Head(todo).do \notin {"7z", "snapshot", "clean", "extract", "system"} /\ Ends("error")
  /\ UNCHANGED <<fileVars, packages, release, history>>
Interrupted ==
  /\ result = "running" /\ Ends("none") /\ UNCHANGED <<fileVars, packages, release, history>>

Step ==
  \/ checkInstallDir \/ checkInstalledPackages \/ InstallPackage \/ install7z
  \/ downloadComponents \/ SetsUp \/ downloadChecked \/ downloadLatestSnapshot
  \/ increaseOpenFilesOnLinux
  \/ Agrees \/ Declines \/ Remove \/ Purge \/ Returns \/ Fails \/ Interrupted

-----------------------------------------------------------------------------
(* What happens beside the commands. *)
Publish ==
  /\ release < MaxRelease /\ release' = release + 1
  /\ UNCHANGED <<fileVars, packages, cmdVars, history>>
\* init supernode, or the user, puts settings of their own in a file.
UserSets(t) ==
  /\ result # "running" /\ conf[t] = "default" /\ conf' = [conf EXCEPT ![t] = "own"]
  /\ UNCHANGED <<binVars, dirs, checked, chain, sysVars, packages, release, cmdVars, history>>
NodeSyncs ==
  /\ result # "running" /\ PastelD \in apps /\ chain = Missing /\ chain' = "own"
  /\ UNCHANGED <<binVars, conf, dirs, checked, sysVars, packages, release, cmdVars, history>>

Next ==
  \/ \E c \in Commands : Begin(c)
  \/ Step \/ Publish \/ NodeSyncs \/ \E t \in {PastelD, SuperNode} : UserSets(t)

Spec == Init /\ [][Next]_vars

-----------------------------------------------------------------------------
\* What has been installed without an error is whole unless a command that concerns it
\* is under way or has failed: its executables are of a release, never a piece of one,
\* and may be run, its configuration is written, its packages and the files with a
\* checksum are there.  A command that has just succeeded has left nothing older than
\* the release that was the latest when it began.
Whole(t) ==
  /\ \A i \in DOMAIN Execs[t] :
       exec[Execs[t][i]] \in Release /\ (t = DDService \/ Execs[t][i] \in runnable)
  /\ conf[t] \in {"default", "own"} /\ {t} \cap AptPackage \subseteq packages
  /\ t = PastelD => checked["params"] = "good"
  /\ t = SuperNode => "ports" \in packages
  /\ t = DDService => checked["dd support"] = "good" /\ {"chrome", "venv"} \subseteq packages
InstalledIsWhole ==
  /\ \A t \in apps \ halfway : Whole(t)
  /\ result = "ok" /\ cmd.op # "uninstall" =>
       \A t \in Parts(cmd) : \A i \in DOMAIN Execs[t] : exec[Execs[t][i]] \in begun .. MaxRelease

\* A command that finds the installation directory does not stumble over what earlier
\* ones, failed or interrupted, have left there or in the other directories.
RerunWorks == result = "exists" => ~hadDir

\* The block chain is given up only for a snapshot that has been downloaded.
ChainGivenUpForSnapshot == [][chain = "own" /\ chain' # "own" => snap]_vars

\* The user's settings are only lost with --force or when the user has agreed to
\* something; of the data of the rq- and the dd-service each is lost for the other.
SettingsAskedFor ==
  [][\A t \in Tool : conf[t] = "own" /\ conf'[t] # "own" =>
       cmd.force \/ t \in asked \/ (t \in {RQService, DDService} /\ asked # {})]_vars
=============================================================================
