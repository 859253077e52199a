---------------------------- MODULE MasternodeConf ----------------------------
(***************************************************************************)
(* masternode.conf, which maps the names of masternodes to their addresses,   *)
(* private keys and PastelIDs.  pasteld reads it when it starts; init         *)
(* supernode and init supernode coldhot are all that write it.               *)
(*                                                                           *)
(* The masternode.conf helpers of cmd/init.go.                               *)
(***************************************************************************)
EXTENDS Integers

CONSTANTS
  Host, Local,   \* hosts, and the one the command is run on
  Addr,          \* WAN addresses
  Name,          \* names of masternodes
  Missing, Torn, \* there is no file; there is half of one
  Stamp,         \* what the names of backups may differ in
  Cases,         \* the cases beyond the usual ones that are studied
  MaxRuns        \* bound: commands that are run

CaseKind == {"same stamp",  \* a backup may get the name of an earlier one
             "loading",     \* a command may be run while the node loads
             "running",     \* start masternode may be run while the node is up
             "yml",         \* supernode.yml may be missing, or not be written
             "unit"}        \* pasteld may be a service

ASSUME HostAssumption == Local \in Host
ASSUME FileAssumption == Missing # Torn
ASSUME CaseAssumption == Cases \subseteq CaseKind /\ MaxRuns \in Nat

\* The keys and PastelIDs a user brings (0) and those the commands generate.
Key == 0 .. MaxRuns
masterNodeConf == [addr : Addr, key : Key, id : Key]
File == UNION {[N -> masterNodeConf] : N \in SUBSET Name}
Content == File \cup {Missing, Torn}
ASSUME ContentAssumption == {Missing, Torn} \cap File = {}

VARIABLES
  conf,      \* Host -> its masternode.conf
  backups,   \* Stamp -> the backup of that name
  draft      \* the map createOrUpdateMasternodeConf is about to write

confVars == <<conf, backups, draft>>

ConfTypeOK ==
  /\ conf \in [Host -> Content]
  /\ backups \in [Stamp -> Content]
  /\ draft \in File

EmptyFile == [n \in {} |-> CHOOSE e \in masterNodeConf : TRUE]

Readable(file) == file \notin {Missing, Torn}
With(file, n, e) == [m \in DOMAIN file \cup {n} |-> IF m = n THEN e ELSE file[m]]
Records(file) == IF Readable(file) THEN {<<n, file[n]>> : n \in DOMAIN file} ELSE {}

-----------------------------------------------------------------------------
\* createOrUpdateMasternodeConf starts from the file that is there (--add) or
\* from an empty map (--new).
Draft(add, n, e) ==
  /\ add => Readable(conf[Local])
  /\ draft' = With(IF add THEN conf[Local] ELSE EmptyFile, n, e)
  /\ UNCHANGED <<conf, backups>>

\* backupMasterNodeConfFile names the backup by a layout which Go reads as day,
\* month, hour of twelve and second: two backups of one day may share it.
Stamps == IF "same stamp" \in Cases THEN Stamp ELSE {s \in Stamp : backups[s] = Missing}

\* Variant: the old file is only removed.
RemoveOld ==
  /\ conf' = [conf EXCEPT ![Local] = Missing]
  /\ UNCHANGED <<backups, draft>>
backupMasterNodeConfFile ==
  /\ IF conf[Local] = Missing THEN UNCHANGED <<conf, backups>>
     ELSE \E s \in Stamps : /\ backups' = [backups EXCEPT ![s] = conf[Local]]
                            /\ conf' = [conf EXCEPT ![Local] = Missing]
  /\ UNCHANGED draft

WriteConf ==
  /\ conf' = [conf EXCEPT ![Local] = draft]
  /\ UNCHANGED <<backups, draft>>
WriteConfFails ==
  /\ conf' \in {conf, [conf EXCEPT ![Local] = Torn]}
  /\ UNCHANGED <<backups, draft>>

\* getMasternodeConfData: the record of the name, else any with the address.
getMasternodeConfData(n, ip) ==
  IF ~Readable(conf[Local]) THEN {}
  ELSE IF n \in DOMAIN conf[Local] THEN {conf[Local][n]}
  ELSE {e \in {conf[Local][m] : m \in DOMAIN conf[Local]} : e.addr = ip}

-----------------------------------------------------------------------------
\* No step takes a record away: every record that has been in masternode.conf is there or in a backup,
\* and with it the only copy of a private key.
Kept == Records(conf[Local]) \cup UNION {Records(backups[s]) : s \in Stamp}
ConfKept == [][Kept \subseteq Kept']_confVars
=============================================================================
