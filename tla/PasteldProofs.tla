----------------------------- MODULE PasteldProofs -----------------------------
(***************************************************************************)
(* What the proofs about init supernode and init supernode coldhot share: the  *)
(* types of masternode.conf and of the nodes, and that the steps keep them.    *)
(***************************************************************************)
EXTENDS Pasteld, TLAPS

\* Adding a record to a file gives a file, with the record under the name.
LEMMA WithType ==
  ASSUME NEW f \in File, NEW n \in Name, NEW e \in masterNodeConf
  PROVE  With(f, n, e) \in File
<1>1. PICK M \in SUBSET Name : f \in [M -> masterNodeConf]
  BY DEF File
<1>2. With(f, n, e) \in [M \cup {n} -> masterNodeConf]
  BY <1>1 DEF With
<1>3. M \cup {n} \in SUBSET Name
  BY <1>1
<1> QED
  BY <1>2, <1>3 DEF File

LEMMA EmptyFileType == EmptyFile \in File
<1>1. EmptyFile \in [{} -> masterNodeConf]
  BY DEF EmptyFile
<1> QED
  BY <1>1 DEF File

\* What getMasternodeConfData finds is a record.
LEMMA RecordFound ==
  ASSUME ConfTypeOK, NEW n, NEW ip, NEW e \in getMasternodeConfData(n, ip)
  PROVE  e \in masterNodeConf
<1>1. conf[Local] \in File
  BY HostAssumption DEF ConfTypeOK, Content, getMasternodeConfData, Readable
<1>2. PICK M \in SUBSET Name : conf[Local] \in [M -> masterNodeConf]
  BY <1>1 DEF File
<1> QED
  BY <1>2 DEF getMasternodeConfData

LEMMA KeyTypes == 0 \in Key /\ \A k \in 0 .. MaxRuns : k \in Key
  BY CaseAssumption DEF Key

\* The initial nodes are of the types, and every unit starts a node that is plain or
\* has a key the user brought.
LEMMA NodesInitType ==
  ASSUME ConfTypeOK, NodesInit
  PROVE  NodeTypeOK /\ \A h \in DOMAIN units : units[h] \in {0, Plain}
<1>1. PICK H \in SUBSET Host : units \in [H -> {0, Plain}]
  <2>1. CASE "unit" \in Cases
    BY <2>1 DEF NodesInit
  <2>2. CASE "unit" \notin Cases
    BY <2>2 DEF NodesInit
  <2> QED
    BY <2>1, <2>2
<1>2. units \in [H -> Role]
  BY <1>1, KeyTypes DEF Role
<1>3. UNION {{conf[h]} : h \in Host} \subseteq Content
  BY DEF ConfTypeOK
<1>4. node \in [Host -> [is : Status, as : Role, sees : Content]]
  <2>1. ASSUME NEW h \in Host PROVE node[h] \in [is : Status, as : Role, sees : Content]
    <3>1. node[h] \in [is : {"off", "ready"} \cup ({"loading"} \cap Cases),
                       as : {0, Plain}, sees : UNION {{conf[g]} : g \in Host}]
      BY DEF NodesInit
    <3> QED
      BY <3>1, <1>3, KeyTypes DEF Status, Role
  <2>2. node = [h \in Host |-> node[h]]
    BY DEF NodesInit
  <2> QED
    BY <2>1, <2>2
<1>5. managed \subseteq DOMAIN units /\ starting \in [Host -> SUBSET Role]
  BY DEF NodesInit
<1> QED
  BY <1>1, <1>2, <1>4, <1>5 DEF NodeTypeOK

\* The actions on masternode.conf keep its types.
LEMMA ConfStep ==
  ASSUME ConfTypeOK,
         \/ UNCHANGED confVars
         \/ \E add \in BOOLEAN : \E n \in Name, e \in masterNodeConf : Draft(add, n, e)
         \/ backupMasterNodeConfFile \/ WriteConf \/ WriteConfFails
  PROVE  ConfTypeOK'
<1>1. ASSUME NEW add \in BOOLEAN, NEW n \in Name, NEW e \in masterNodeConf, Draft(add, n, e)
      PROVE  ConfTypeOK'
  <2>1. (IF add THEN conf[Local] ELSE EmptyFile) \in File
    BY <1>1, HostAssumption, EmptyFileType DEF Draft, ConfTypeOK, Content, Readable
  <2>2. draft' \in File
    BY <1>1, <2>1, WithType DEF Draft
  <2> QED
    BY <1>1, <2>2 DEF Draft, ConfTypeOK
<1>2. CASE backupMasterNodeConfFile
  BY <1>2, HostAssumption DEF backupMasterNodeConfFile, ConfTypeOK, Content, Stamps
<1>3. CASE WriteConf
  BY <1>3, HostAssumption DEF WriteConf, ConfTypeOK, Content
<1>4. CASE WriteConfFails
  BY <1>4, HostAssumption DEF WriteConfFails, ConfTypeOK, Content
<1>5. CASE UNCHANGED confVars
  BY <1>5 DEF confVars, ConfTypeOK
<1> QED
  BY <1>1, <1>2, <1>3, <1>4, <1>5

\* The actions on the node keep its types.
LEMMA NodeStep ==
  ASSUME ConfTypeOK, NodeTypeOK,
         \/ UNCHANGED nodeVars
         \/ \E h \in Host : HostStep(h)
         \/ \E h \in Host : \E r \in Role : runPastelNode(h, r)
         \/ \E h \in Host : StopPastelDAndWait(h)
  PROVE  NodeTypeOK'
<1> USE HostAssumption
<1>1. ASSUME NEW h \in Host, NEW r \in Role, Boots(h, r)
      PROVE  node' \in [Host -> [is : Status, as : Role, sees : Content]]
  BY <1>1 DEF Boots, NodeTypeOK, ConfTypeOK, Status
<1>2. ASSUME NEW h \in Host, NEW r \in Role, PasteldStarts(h, r) PROVE NodeTypeOK'
  BY <1>1, <1>2 DEF PasteldStarts, NodeTypeOK
<1>3. ASSUME NEW h \in Host, UnitStarts(h) PROVE NodeTypeOK'
  <2>1. units[h] \in Role
    BY <1>3 DEF UnitStarts, NodeTypeOK
  <2> QED
    BY <1>1, <1>3, <2>1 DEF UnitStarts, NodeTypeOK
<1>4. ASSUME NEW h \in Host, Loads(h) \/ Exits(h) PROVE NodeTypeOK'
  BY <1>4 DEF Loads, Exits, NodeTypeOK, Status
<1>5. ASSUME NEW h \in Host, NEW r \in Role, runPastelNode(h, r) PROVE NodeTypeOK'
  BY <1>5 DEF runPastelNode, StartService, Launch, NodeTypeOK
<1>6. ASSUME NEW h \in Host, StopPastelDAndWait(h) PROVE NodeTypeOK'
  BY <1>6 DEF StopPastelDAndWait, NodeTypeOK, Status
<1>7. CASE UNCHANGED nodeVars
  BY <1>7 DEF nodeVars, NodeTypeOK
<1> QED
  BY <1>2, <1>3, <1>4, <1>5, <1>6, <1>7 DEF HostStep

\* A backup that gets a name of its own keeps every record.
LEMMA BackupKeeps ==
  ASSUME "same stamp" \notin Cases, ConfTypeOK, backupMasterNodeConfFile
  PROVE  Kept \subseteq Kept'
<1>0. conf \in [Host -> Content] /\ Local \in Host /\ backups \in [Stamp -> Content]
  BY HostAssumption DEF ConfTypeOK
<1>1. Records(Missing) = {}
  BY DEF Records, Readable
<1>2. Kept' = Records(conf'[Local]) \cup UNION {Records(backups'[s]) : s \in Stamp}
  BY DEF Kept, Records, Readable
<1>3. CASE conf[Local] = Missing
  BY <1>2, <1>3 DEF backupMasterNodeConfFile, Kept
<1>4. CASE conf[Local] # Missing
  <2>1. PICK s \in Stamp : /\ backups[s] = Missing
                           /\ backups' = [backups EXCEPT ![s] = conf[Local]]
    BY <1>4 DEF backupMasterNodeConfFile, Stamps
  <2>2. \A t \in Stamp : Records(backups[t]) # {} => backups'[t] = backups[t]
    BY <1>0, <1>1, <2>1
  <2>3. backups'[s] = conf[Local]
    BY <1>0, <2>1
  <2>4. Records(backups'[s]) = Records(conf[Local])
        /\ \A t \in Stamp : Records(backups[t]) \subseteq Records(backups'[t])
    BY <2>2, <2>3
  <2>5. UNION {Records(backups[t]) : t \in Stamp} \subseteq UNION {Records(backups'[t]) : t \in Stamp}
        /\ Records(conf[Local]) \subseteq UNION {Records(backups'[t]) : t \in Stamp}
    BY <2>1, <2>4
  <2> QED
    BY <1>2, <2>5 DEF Kept
<1> QED
  BY <1>3, <1>4

-----------------------------------------------------------------------------
(* What happens to the node of a host by itself.                             *)

Up(g) == node[g].is \in {"loading", "ready"}
Quiet(g) == starting[g] = {}

Effect(g) ==
  \/ node'[g] = node[g] /\ starting'[g] = starting[g]
  \/ /\ node'[g] = node[g] /\ (Up(g) \/ node[g].is = "stopping")
     /\ starting'[g] \subseteq starting[g]
  \/ /\ Down(g) /\ node'[g].is = "loading"
     /\ \E r \in starting[g] : /\ node'[g].as = r
                               /\ starting'[g] = starting[g] \ {r}
  \/ /\ node[g].is = "loading" /\ node'[g].is = "ready"
     /\ node'[g].as = node[g].as /\ starting'[g] = starting[g]
  \/ /\ node'[g].is = IF node[g].is = "stopping" THEN "off" ELSE "crashed"
     /\ ~Down(g) /\ node'[g].as = node[g].as /\ starting'[g] = starting[g]

\* When systemd does not manage a node nothing happens to it, or a process gets the
\* lock or exits, or the node gets ready, or it goes.
LEMMA HostEffect ==
  ASSUME NodeTypeOK, NEW g \in Host, g \notin managed, NEW h \in Host, HostStep(h)
  PROVE  UNCHANGED <<units, managed>> /\ Effect(g)
<1>1. node \in [Host -> [is : Status, as : Role, sees : Content]]
      /\ starting \in [Host -> SUBSET Role]
  BY DEF NodeTypeOK
<1>2. ASSUME NEW r \in Role, PasteldStarts(h, r), h = g
      PROVE  \/ /\ node'[g] = node[g] /\ (Up(g) \/ node[g].is = "stopping")
                /\ starting'[g] \subseteq starting[g]
             \/ /\ Down(g) /\ node'[g].is = "loading"
                /\ r \in starting[g] /\ node'[g].as = r
                /\ starting'[g] = starting[g] \ {r}
  BY <1>1, <1>2 DEF PasteldStarts, Boots, Down, Status, Up
<1>3. ASSUME NEW r \in Role, PasteldStarts(h, r), h # g
      PROVE  node'[g] = node[g] /\ starting'[g] = starting[g]
  BY <1>1, <1>3 DEF PasteldStarts, Boots
<1>4. CASE UnitStarts(h)
  BY <1>1, <1>4 DEF UnitStarts, Boots, Effect
<1>5. CASE Loads(h)
  BY <1>1, <1>5 DEF Loads, Effect
<1>6. CASE Exits(h)
  BY <1>1, <1>6 DEF Exits, Effect, Down
<1>7. UNCHANGED <<units, managed>>
  BY DEF HostStep, PasteldStarts, UnitStarts, Loads, Exits
<1> QED
  BY <1>2, <1>3, <1>4, <1>5, <1>6, <1>7 DEF HostStep, Effect

\* A node that comes up has read the masternode.conf that is there then, and it does not
\* read it again.
SeesConf(g) == Up(g) => node[g].sees = conf[g]

LEMMA HostSees ==
  ASSUME NodeTypeOK, NEW g \in Host, NEW h \in Host, HostStep(h), UNCHANGED conf, SeesConf(g)
  PROVE  SeesConf(g)'
<1>1. node \in [Host -> [is : Status, as : Role, sees : Content]]
  BY DEF NodeTypeOK
<1>2. ASSUME NEW r, Boots(h, r) PROVE SeesConf(g)'
  BY <1>1, <1>2 DEF Boots, SeesConf, Up
<1>3. CASE Loads(h)
  BY <1>1, <1>3 DEF Loads, SeesConf, Up
<1>4. CASE Exits(h)
  BY <1>1, <1>4 DEF Exits, SeesConf, Up, Down
<1>5. CASE UnitStarts(h)
  BY <1>2, <1>5 DEF UnitStarts
<1>6. ASSUME NEW r \in Role, PasteldStarts(h, r) PROVE SeesConf(g)'
  <2>1. CASE UNCHANGED node
    BY <2>1 DEF SeesConf, Up
  <2> QED
    BY <1>2, <1>6, <2>1 DEF PasteldStarts
<1> QED
  BY <1>3, <1>4, <1>5, <1>6 DEF HostStep
=============================================================================
