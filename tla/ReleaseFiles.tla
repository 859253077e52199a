------------------------------ MODULE ReleaseFiles ------------------------------
(***************************************************************************)
(* The files of an installation on one host, and what the installer does to   *)
(* them: download, unpack, make executable, create, write.  Each operation     *)
(* has an outcome when it works and one when it breaks off half-way.          *)
(*                                                                           *)
(* The file helpers of utils/utils.go and the ones at the end of              *)
(* cmd/install.go.  Contents are abstract: an executable is that of a release,  *)
(* a configuration is the installer's or one that the user has settings in.    *)
(***************************************************************************)
EXTENDS Integers, Tools

CONSTANTS
  Missing, Torn,   \* there is no such file; there is a piece of it
  SysFiles,        \* the system files with a limit: sysctl, limits, system and user.conf
  MaxRelease       \* bound: releases that come out

ASSUME ReleaseAssumption == MaxRelease \in Nat /\ SysFiles \in Seq(STRING)

Release == 0 .. MaxRelease
Tool == ToolType \ {DDImgService, Bridge}  \* these two are installed by no command

\* The executables of a tool; the dd-service is a folder of scripts.  Two tools come
\* in an archive, the others as the executable itself.
Execs == [t \in Tool |-> IF t = PastelD THEN <<PastelD, "pastel-cli">> ELSE <<t>>]
Exec == Tool \cup {"pastel-cli"}
Zipped == {PastelD, DDService}

\* pastel.conf, rqservice.toml, supernode.yml, ...: the installer's own, or one with
\* the user's settings: keys, a PastelID, a passphrase.
Settings == {Missing, Torn, "default", "own"}
Folder == {"exec", "work", "params", "rqfiles", "p2pdata", "dd"}
Checked == {"params", "dd support"}  \* what a checksum is known of
SysFile == {SysFiles[i] : i \in DOMAIN SysFiles}

\* A file that is not there, or a piece of one, is neither of a release nor settings.
ASSUME ContentsAssumption ==
  {Missing, Torn} \cap Release = {} /\ {Missing, Torn} \cap {"default", "own"} = {}

VARIABLES
  exec,      \* Exec -> the release it is of
  runnable,  \* the executables with the mode 755
  zip,       \* Zipped -> the archive in the installation directory
  conf,      \* Tool -> its configuration
  dirs,      \* the folders there are
  checked,   \* Checked -> the files whose checksum is known
  chain,     \* the block chain in the working directory
  sys,       \* SysFile -> the files whose text is in it
  temp       \* the files whose text is in /tmp/tempfile

binVars == <<exec, runnable, zip>>
dataVars == <<conf, dirs, checked, chain>>
sysVars == <<sys, temp>>
fileVars == <<binVars, dataVars, sysVars>>

FilesTypeOK ==
  /\ exec \in [Exec -> Release \cup {Missing, Torn}] /\ runnable \subseteq Exec
  /\ zip \in [Zipped -> Release \cup {Missing}]
  /\ conf \in [Tool -> Settings] /\ dirs \subseteq Folder
  /\ checked \in [Checked -> {"good", "bad", Missing}]
  /\ chain \in {Missing, Torn, "own", "snapshot"}
  /\ sys \in [SysFile -> SUBSET SysFile] /\ temp \subseteq SysFile

-----------------------------------------------------------------------------
(* Executables. *)

\* Variant: the file is written in place, and a piece of it stays.
DownloadInPlace(t, r) ==
  /\ \E got \in {r, Torn} :
       /\ zip' = IF t \in Zipped THEN [zip EXCEPT ![t] = got] ELSE zip
       /\ exec' = IF t \in Zipped THEN exec ELSE [exec EXCEPT ![t] = got]
  /\ UNCHANGED runnable
\* DownloadFile writes to a file of another name and renames it when it is whole: a
\* download that fails leaves what was there.  The new file is not executable.
DownloadFile(t, r) ==
  \/ /\ t \in Zipped /\ zip' = [zip EXCEPT ![t] = r] /\ UNCHANGED <<exec, runnable>>
  \/ /\ t \notin Zipped /\ exec' = [exec EXCEPT ![t] = r] /\ runnable' = runnable \ {t}
     /\ UNCHANGED zip

\* Unzip empties the files one by one and writes them; a new one has the mode
\* it has in the archive.
Unzip(t, f) ==
  /\ exec' = [exec EXCEPT ![f] = zip[t]]
  /\ runnable' \in IF exec[f] = Missing THEN {runnable \cup {f}, runnable \ {f}} ELSE {runnable}
  /\ UNCHANGED zip
UnzipBreaks(f) ==
  /\ exec' = [exec EXCEPT ![f] = Torn]
  /\ runnable' \in {runnable, runnable \cup {f}} /\ UNCHANGED zip
DeleteArchive(t) == zip' = [zip EXCEPT ![t] = Missing] /\ UNCHANGED <<exec, runnable>>
makeExecutable(f) == runnable' = runnable \cup {f} /\ UNCHANGED <<exec, zip>>

\* removeFile; removeDir of the folder of the dd-service may stop half-way.  An error
\* is only logged.
Removed(f) == {exec[f], Missing} \cup (IF f = DDService /\ exec[f] # Missing THEN {Torn} ELSE {})
removeFile(f) ==
  /\ \E r \in Removed(f) : /\ exec' = [exec EXCEPT ![f] = r]
                           /\ runnable' = IF r = Missing THEN runnable \ {f} ELSE runnable
  /\ UNCHANGED zip

-----------------------------------------------------------------------------
(* Folders and configurations.  What exists is an error without force. *)
CreateFolder(d, force) ==
  /\ force \/ d \notin dirs
  /\ dirs' = dirs \cup {d} /\ UNCHANGED <<conf, checked, chain>>

\* CreateFile empties the file, WriteFile fills it.
CreateAndWrite(t, force) ==
  /\ force \/ conf[t] = Missing
  /\ conf' = [conf EXCEPT ![t] = "default"] /\ UNCHANGED <<dirs, checked, chain>>
CreateAndWriteBreaks(t, force) ==
  /\ force \/ conf[t] = Missing
  /\ conf' = [conf EXCEPT ![t] = Torn] /\ UNCHANGED <<dirs, checked, chain>>

-----------------------------------------------------------------------------
(* writeToFile: the text of a system file and a line of ours go to the end of   *)
(* /tmp/tempfile, which is then moved to the place of the file.               *)
writeToFile(f) ==
  /\ sys' = [sys EXCEPT ![f] = temp \cup {f}] /\ temp' = {}
writeToFileFails(f) ==
  /\ temp' \in {temp, temp \cup {f}} /\ UNCHANGED sys
=============================================================================
