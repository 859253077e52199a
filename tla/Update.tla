-------------------------------- MODULE Update --------------------------------
(***************************************************************************)
(* `pastelup update` on one host: stop the node, archive the working          *)
(* directory, keep the newest archives, clean the working directory, replace  *)
(* the executables and, if asked, the chain by a snapshot.  The command makes *)
(* one call a step; meanwhile the node loads, writes its files and exits, and *)
(* the user may interrupt the command and run it again.                      *)
(*                                                                           *)
(* cmd/update.go, the parts of cmd/stop.go and cmd/install.go it calls, and   *)
(* utils.ClearDir.                                                           *)
(***************************************************************************)
EXTENDS Integers, FiniteSets, SequencesExt

CONSTANTS
  Item,              \* what the working directory may hold: <<subdirectory, name>>
  DDItem,            \* what the directory of the dup-detection service holds
  SubDir,            \* where the node keeps its files: "" or that of its network
  Commands,          \* the updates under study: <<target, set of flags>>
  archiveRetention,  \* 3 in the code
  Failures,          \* the kinds of call that may fail
  MaxTime            \* bound: half seconds until the last backup

Target == {"pasteld", "walletnode", "supernode", "dd-service"}
Flag == {"no-backup", "backup-all", "clean", "use-snapshot"}
FailureKind == {"stop", "mkdir", "copy", "prune", "clean", "unzip", "snapshot"}

ASSUME ItemAssumption == Item \subseteq {"", SubDir} \X STRING /\ SubDir \in STRING
                         /\ DDItem \cap Item = {}
ASSUME CommandAssumption == /\ Commands \subseteq Target \X SUBSET Flag
                            /\ Failures \subseteq FailureKind
ASSUME BoundAssumption == archiveRetention \in Nat \ {0} /\ MaxTime \in Nat

whatToBackUp == {"pastel.conf", "supernode.yml", "hermes.yml", "walletnode.yml",
                 "bridge.yml", "wallet.dat", "masternode.conf", "mncache.dat",
                 "mnpayments.dat", "blocks", "chainstate", "pastelkeys"}
\* Variant: the wallet is not in the list.
WalletForgotten == {"pastel.conf", "masternode.conf", "supernode.yml"}
filesToPreserve == {"pastel.conf", "wallet.dat", "masternode.conf", "supernode.yml",
                    "hermes.yml", "walletnode.yml", "bridge.yml"}
dirsToPreserve == {"pastelkeys"}
\* What cleanWorkingDir removes before a snapshot is extracted.
snapshotCleans == {"blocks", "chainstate", "db.log", "debug.log", "fee_estimates.dat",
                   "messages.dat", "mncache.dat", "mnpayments.dat", "netfulfilled.dat",
                   "peers.dat", "tickets"}
\* What a running pasteld writes again when it is missing.
nodeFiles == {"blocks", "chainstate", "debug.log", "mncache.dat", "peers.dat"}

Written == {i \in Item : i[1] = SubDir /\ i[2] \in nodeFiles}
Snapshot == {i \in Item : i[1] = "" /\ i[2] \in {"blocks", "chainstate"}}

VARIABLES
  node,      \* pasteld: "off", "loading" (does not answer RPC yet) or "ready"
  work,      \* what the working directory holds
  archives,  \* the archives of both directories, in the order of their ModTime
  now,       \* half seconds
  cmd,       \* the target and the flags of the last update
  at,        \* the call the update is about to make
  dir,       \* the directory backUpDir works on
  todo,      \* what it has still to copy; in which order makes no difference
  stopped,   \* the update took the node for running and had it stopped
  made,      \* the archive this update made of each directory, 0: none
  copied,    \* what this update has copied in full
  dirty,     \* the node ran while this update archived the working directory
  result     \* what the last update returned

vars == <<node, work, archives, now, cmd, at, dir, todo, stopped, made, copied, dirty, result>>
store == <<archives, now>>
memory == <<made, copied, dirty>>
local == <<cmd, dir, todo, stopped, made, copied, dirty>>

Dir == {"work", "dd"}
\* An archive is whole when everything backUpDir was to copy has been copied.
Archive == [dir : Dir, second : Nat, whole : BOOLEAN]

Step == {"idle", "confirm", "mkdir", "copy", "prune", "clean",
         "restop", "unzip", "fetch", "snapclean", "extract", "rest"}

TypeOK ==
  /\ node \in {"off", "loading", "ready"}
  /\ work \in SUBSET Item
  /\ archives \in Seq(Archive)
  /\ now \in Nat
  /\ cmd \in (Target \cup {"none"}) \X SUBSET Flag
  /\ at \in Step /\ dir \in Dir
  /\ todo \in SUBSET Item
  /\ stopped \in BOOLEAN
  /\ made \in [Dir -> Nat]
  /\ copied \in SUBSET (Item \cup DDItem) /\ dirty \in BOOLEAN
  /\ result \in {"none", "pending", "ok", "error", "interrupted"}

Init ==
  /\ node \in {"off", "loading", "ready"}
  /\ work = Item
  /\ archives = <<>>
  /\ now = 2
  /\ cmd = <<"none", {}>>
  /\ at = "idle" /\ dir = "work" /\ todo = {}
  /\ stopped = FALSE /\ made = [d \in Dir |-> 0]
  /\ copied = {} /\ dirty = FALSE
  /\ result = "none"

target == cmd[1]
flags == cmd[2]
WithNode == target \in {"pasteld", "walletnode", "supernode"}

\* backUpPastelWorkDir && !NoBackup, and backUpDDWorkDir && BackupAll.
BacksUp(d) == CASE d = "work" -> WithNode /\ "no-backup" \notin flags
                [] d = "dd"   -> target \in {"supernode", "dd-service"} /\ "backup-all" \in flags

Goto(step) == at' = step /\ UNCHANGED <<cmd, memory, result>>
\* The command returns, and what it knew is gone.
Finish(r) == /\ at' = "idle" /\ result' = r
             /\ cmd' = <<"none", {}>> /\ dir' = "work" /\ todo' = {}
             /\ stopped' = FALSE /\ made' = [d \in Dir |-> 0]
             /\ copied' = {} /\ dirty' = FALSE

\* The files and directories ClearDir leaves, at every level.
Preserved == {i \in Item : i[2] \in filesToPreserve \cup dirsToPreserve}

-----------------------------------------------------------------------------
(* Stopping the node: stopAndUpdateService, stopServicesWithConfirmation.     *)

\* --no-backup and --backup-all together are refused.
Update ==
  /\ at = "idle"
  /\ \E c \in Commands :
       IF {"no-backup", "backup-all"} \subseteq c[2] THEN Finish("error")
       ELSE /\ cmd' = c /\ at' = "confirm" /\ result' = "pending"
            /\ UNCHANGED <<dir, todo, stopped, memory>>
  /\ UNCHANGED <<node, work, store>>

\* Variants: the update does not wait for the end of pasteld.
StopRequested == {"stopping"}
StopUnawaited == {"off", node}
\* stopServices returns nil whether or not a service stopped.
StopOutcome == {"off"} \cup (IF "stop" \in Failures THEN {node} ELSE {})

\* Where the update goes on once the directories before d are dealt with.
Backup(d) == IF BacksUp(d) THEN Goto("mkdir") /\ dir' = d
             ELSE IF d = "work" /\ BacksUp("dd") THEN Goto("mkdir") /\ dir' = "dd"
             ELSE Goto("restop") /\ UNCHANGED dir

\* Only a pasteld that answers getinfo counts as running.
Confirm ==
  /\ at = "confirm" /\ WithNode /\ node = "ready"
  /\ node' \in StopOutcome /\ stopped' = TRUE
  /\ Backup("work")
  /\ UNCHANGED <<work, store, todo>>

NothingToStop ==
  /\ at = "confirm" /\ (~WithNode \/ node # "ready")
  /\ Backup("work")
  /\ UNCHANGED <<node, work, store, todo, stopped>>

\* The user refuses to have the services stopped that run, of an update of the
\* node itself only pasteld, or the process list cannot be read.
ConfirmFails ==
  /\ at = "confirm" /\ (target = "pasteld" => node = "ready")
  /\ Finish("error")
  /\ UNCHANGED <<node, work, store>>

-----------------------------------------------------------------------------
(* backUpDir.                                                                *)

\* What there is to be copied in dir.
Source == IF dir = "work" THEN work ELSE DDItem

All == dir = "work" /\ "backup-all" \in flags
\* The subdirectories archived on their own; that of regtest is not.
ArchivedSubDirs == {""} \cup ({SubDir} \cap {"testnet3", "devnet"})
Listed == {i \in Item : i[1] \in ArchivedSubDirs /\ i[2] \in whatToBackUp}
\* backUpDDDir asks for an empty list, not for nil, which would be everything.
ToCopy == CASE All -> work [] dir = "dd" -> {} [] OTHER -> Listed

IsNamed(a, d, s) == a.dir = d /\ a.second = s
Exists(d, s) == \E k \in DOMAIN archives : IsNamed(archives[k], d, s)
Mine(k) == IsNamed(archives[k], dir, made[dir])

\* Position k is written to: its directory becomes the one modified last.
Touch(k) == archives' = Append(RemoveAt(archives, k), archives[k])
Mark(k, whole) == archives' = [archives EXCEPT ![k].whole = whole]

\* A backup takes at least half a second; archives are named by the second.
\* The copy of the whole directory goes into an archive of the same second.
MakeArchive ==
  /\ at = "mkdir"
  /\ now' \in {now + 1, now + 2} /\ now' <= MaxTime
  /\ LET s == now' \div 2
     IN /\ \/ /\ ~Exists(dir, s)
              /\ archives' = Append(archives, [dir |-> dir, second |-> s, whole |-> FALSE])
           \/ /\ Exists(dir, s) /\ All
              /\ \E k \in DOMAIN archives : IsNamed(archives[k], dir, s) /\ Mark(k, FALSE)
        /\ made' = [made EXCEPT ![dir] = s]
  /\ todo' = ToCopy
  /\ dirty' = (dirty \/ (dir = "work" /\ node # "off"))
  /\ at' = "copy" /\ UNCHANGED <<node, work, cmd, dir, stopped, copied, result>>

\* os.Mkdir fails, for one because the last backup was made in this second.
MakeArchiveFails ==
  /\ at = "mkdir"
  /\ now' \in {now + 1, now + 2} /\ now' <= MaxTime
  /\ (Exists(dir, now' \div 2) /\ ~All) \/ "mkdir" \in Failures
  /\ Finish("error")
  /\ UNCHANGED <<node, work, archives>>

\* Copies the next one, or skips it when it does not exist.
Copy ==
  /\ at = "copy"
  /\ \E i \in todo :
       /\ \/ i \notin Source /\ UNCHANGED <<archives, copied>>
          \/ /\ i \in Source /\ copied' = copied \cup {i}
             /\ UNCHANGED archives \/ \E k \in DOMAIN archives : Mine(k) /\ Touch(k)
       /\ todo' = todo \ {i}
  /\ dirty' = (dirty \/ (dir = "work" /\ node # "off"))
  /\ UNCHANGED <<node, work, now, cmd, at, dir, stopped, made, result>>

CopyError == at = "copy" /\ todo \cap Source # {} /\ "copy" \in Failures
\* Variants: the error is only logged, and the copy goes on; or the update does.
CopyErrorIgnored ==
  /\ CopyError /\ \E i \in todo : todo' = todo \ {i}
  /\ Goto("copy")
  /\ UNCHANGED <<node, work, store, dir, stopped>>
CopyErrorEndsBackup ==
  /\ CopyError /\ Goto("restop")
  /\ UNCHANGED <<node, work, store, dir, todo, stopped>>
\* The error is returned at once: the partial archive stays.
CopyFails ==
  /\ CopyError
  /\ UNCHANGED archives \/ \E k \in DOMAIN archives : Mine(k) /\ Touch(k)
  /\ Finish("error")
  /\ UNCHANGED <<node, work, now>>

Copied ==
  /\ at = "copy" /\ todo = {}
  /\ \E k \in DOMAIN archives : Mine(k) /\ Mark(k, TRUE)
  /\ Goto("prune")
  /\ UNCHANGED <<node, work, now, dir, todo, stopped>>

-----------------------------------------------------------------------------
(* deleteOldArchives.                                                        *)

\* Variant: the name of an archive is not looked at.
AnyArchive == DOMAIN archives
\* The positions of the archives with the prefix of dir, the oldest first.
Matching == {k \in DOMAIN archives : archives[k].dir = dir}
\* Variant: one archive more is kept.
OneTooMany == Cardinality(Matching) > archiveRetention + 1
TooMany == Cardinality(Matching) > archiveRetention
\* Variant: sorted the other way round.
Newest(k) == k \in Matching /\ \A j \in Matching : k >= j
Oldest(k) == k \in Matching /\ \A j \in Matching : k <= j

\* The list is read once, but only this loop changes it.
Prune ==
  /\ at = "prune" /\ TooMany
  /\ \E k \in DOMAIN archives : Oldest(k) /\ archives' = RemoveAt(archives, k)
  /\ Goto("prune")
  /\ UNCHANGED <<node, work, now, dir, todo, stopped>>

\* os.RemoveAll stops in the middle, or the command is killed there: part of the
\* archive is left.  Removing an entry of the directory sets its ModTime, removing
\* one further down does not.
PruneFails ==
  /\ at = "prune" /\ TooMany /\ "prune" \in Failures
  /\ \E k \in DOMAIN archives :
       /\ Oldest(k)
       /\ \/ Mark(k, FALSE)
          \/ archives' = Append(RemoveAt(archives, k), [archives[k] EXCEPT !.whole = FALSE])
  /\ Finish("error")
  /\ UNCHANGED <<node, work, now>>

\* backUpDir returns nil.
Pruned ==
  /\ at = "prune" /\ ~TooMany
  /\ IF dir = "work" /\ "clean" \in flags THEN Goto("clean") /\ UNCHANGED dir
     ELSE IF dir = "work" THEN Backup("dd") ELSE Goto("restop") /\ UNCHANGED dir
  /\ UNCHANGED <<node, work, store, todo, stopped>>

\* ClearDir on the working directory.
Clean ==
  /\ at = "clean"
  /\ work' = work \cap Preserved
  /\ Backup("dd")
  /\ UNCHANGED <<node, store, todo, stopped>>

\* A file of the top directory that cannot be removed is only logged; what is
\* left in a subdirectory makes removing that directory fail.
CleanFails ==
  /\ at = "clean" /\ "clean" \in Failures
  /\ \E S \in SUBSET (work \ Preserved) :
       /\ S # {} /\ work' = (work \cap Preserved) \cup S
       /\ \/ Finish("error")
          \/ Backup("dd") /\ UNCHANGED <<todo, stopped>>
  /\ UNCHANGED <<node, store>>

-----------------------------------------------------------------------------
(* updateSolution: runServicesInstall, as far as it touches these files.      *)

\* As in Confirm, a pasteld that does not answer is left alone.
StopAgain ==
  /\ at = "restop"
  /\ IF WithNode /\ node = "ready" THEN node' \in StopOutcome ELSE UNCHANGED node
  /\ Goto("unzip")
  /\ UNCHANGED <<work, store, dir, todo, stopped>>

\* The user refuses to stop pasteld or to overwrite the installation, there is
\* no installation, or a package is missing.
InstallRefused ==
  /\ at \in {"restop", "unzip"}
  /\ Finish("error")
  /\ UNCHANGED <<node, work, store>>

Unzip ==
  /\ at = "unzip" /\ (WithNode => node = "off")
  /\ Goto(IF WithNode /\ "use-snapshot" \in flags THEN "fetch" ELSE "rest")
  /\ UNCHANGED <<node, work, store, dir, todo, stopped>>

\* The executable of a running process cannot be written ("text file busy").
UnzipFails ==
  /\ at = "unzip" /\ ((WithNode /\ node # "off") \/ "unzip" \in Failures)
  /\ Finish("error")
  /\ UNCHANGED <<node, work, store>>

\* downloadLatestSnapshot: whatever fails is logged, the update goes on.
FetchSnapshot ==
  /\ at = "fetch"
  /\ Goto("snapclean") \/ ("snapshot" \in Failures /\ Goto("rest"))
  /\ UNCHANGED <<node, work, store, dir, todo, stopped>>

Cleaned == {i \in Item : i[1] = "" /\ i[2] \in snapshotCleans}

CleanForSnapshot ==
  /\ at = "snapclean"
  /\ \/ work' = work \ Cleaned /\ Goto("extract")
     \/ /\ "snapshot" \in Failures
        /\ \E S \in SUBSET Cleaned : work' = work \ S
        /\ Goto("rest")
  /\ UNCHANGED <<node, store, dir, todo, stopped>>

ExtractSnapshot ==
  /\ at = "extract"
  /\ \/ work' = work \cup Snapshot
     \/ "snapshot" \in Failures /\ \E S \in SUBSET Snapshot : work' = work \cup S
  /\ Goto("rest")
  /\ UNCHANGED <<node, store, dir, todo, stopped>>

\* The other executables of the target.
InstallRest ==
  /\ at = "rest"
  /\ Finish("ok") \/ ("unzip" \in Failures /\ Finish("error"))
  /\ UNCHANGED <<node, work, store>>

-----------------------------------------------------------------------------
(* Meanwhile.                                                                *)

\* Nobody starts the node during an update, but systemd does restart one whose
\* unit could not be stopped.
NodeStarts ==
  /\ node = "off" /\ (at = "idle" \/ "stop" \in Failures)
  /\ node' = "loading"
  /\ UNCHANGED <<work, store, local, at, result>>

NodeLoads ==
  /\ node = "loading" /\ node' = "ready"
  /\ UNCHANGED <<work, store, local, at, result>>

NodeWrites ==
  /\ node # "off" /\ work' = work \cup Written /\ work' # work
  /\ UNCHANGED <<node, store, local, at, result>>

NodeExits ==
  /\ node # "off" /\ node' = "off"
  /\ UNCHANGED <<work, store, local, at, result>>

Interrupt ==
  /\ at # "idle" /\ Finish("interrupted")
  /\ UNCHANGED <<node, work, store>>

UpdateStep ==
  \/ Confirm \/ NothingToStop \/ ConfirmFails
  \/ MakeArchive \/ MakeArchiveFails \/ Copy \/ CopyFails \/ Copied
  \/ Prune \/ PruneFails \/ Pruned \/ Clean \/ CleanFails
  \/ StopAgain \/ InstallRefused \/ Unzip \/ UnzipFails
  \/ FetchSnapshot \/ CleanForSnapshot \/ ExtractSnapshot \/ InstallRest

Meanwhile == NodeStarts \/ NodeLoads \/ NodeWrites \/ NodeExits \/ Interrupt

Next == Update \/ UpdateStep \/ Meanwhile

Spec == Init /\ [][Next]_vars

-----------------------------------------------------------------------------
(* Properties.                                                               *)

Whole(d) == {archives[k].second : k \in {j \in DOMAIN archives :
                archives[j].dir = d /\ archives[j].whole}}

\* A directory that has a whole archive keeps its newest one until there is a
\* newer one, whatever fails and however often the update is run again: partial
\* and half-removed archives never push it out.  (One copy may ruin it: that of a
\* --backup-all in the same second, which goes into the same directory.)
NewestWholeKept ==
  [][\A d \in Dir : \A s \in Whole(d) :
       \/ \E t \in Whole(d)' : t >= s
       \/ made'[d] = s /\ at = "mkdir"]_vars

\* When deleteOldArchives is done with a directory, at most archiveRetention
\* archives of it are left and the one just made is among them, whole.
RetentionKeepsNewest ==
  at \in {"clean", "restop", "unzip"} =>
    \A d \in Dir : made[d] # 0 =>
      LET mine == {k \in DOMAIN archives : archives[k].dir = d}
      IN /\ Cardinality(mine) <= archiveRetention
         /\ \E k \in mine : archives[k].second = made[d] /\ archives[k].whole

\* A backup of one directory never removes or spoils an archive of the other.
OtherArchivesKept ==
  [][\A d \in Dir \ {dir} :
       {archives[k] : k \in {j \in DOMAIN archives : archives[j].dir = d}}
         \subseteq {archives'[k] : k \in DOMAIN archives'}]_vars

\* What --clean deletes and the backup was to copy is in the archive of the same
\* update, unless the node kept running because it did not answer.
CleanedIsSaved ==
  [][at = "clean" /\ ~dirty =>
       (work \ work') \cap ToCopy \subseteq copied]_vars

\* The wallet, the keys and the lists of masternodes stay, whatever the update
\* cleans and wherever it fails or is interrupted.
KeysSurvive ==
  [][{i \in work : i[2] \in {"wallet.dat", "pastelkeys", "masternode.conf"}} \subseteq work']_vars

\* An archive is made of a node that stands still, if the update had found the
\* node running.
BackupOfStoppedNode == stopped => ~dirty

\* No executable is replaced before everything the command line asks to be backed
\* up is in a whole archive.
BackupBeforeInstall ==
  at \in {"unzip", "fetch", "snapclean", "extract", "rest"} =>
    \A d \in Dir : BacksUp(d) =>
      \E k \in DOMAIN archives : IsNamed(archives[k], d, made[d]) /\ archives[k].whole

\* cmd/install.go:534, "need to stop pasteld else we'll get a text file busy
\* error": pasteld is stopped when its executable is written.
NeverBusy == at = "unzip" /\ WithNode => node = "off"
=============================================================================
