---------------------------- MODULE UpdateProofs ----------------------------
(***************************************************************************)
(* What holds of `pastelup update` for every set of files, every list of      *)
(* updates, every retention and whatever calls fail.                        *)
(***************************************************************************)
EXTENDS Update, SequenceTheorems, FiniteSetTheorems, TLAPS

-----------------------------------------------------------------------------
(* Type correctness.                                                         *)

\* Taking an archive out of the list leaves a list of archives.
LEMMA RemoveAtType ==
  ASSUME NEW S, NEW s \in Seq(S), NEW k \in DOMAIN s
  PROVE  RemoveAt(s, k) \in Seq(S)
<1>1. k \in 1..Len(s)
  BY LenProperties
<1>2. SubSeq(s, 1, k - 1) \in Seq(S) /\ SubSeq(s, k + 1, Len(s)) \in Seq(S)
  BY <1>1, LenProperties, SubSeqProperties, SMT
<1> QED
  BY <1>2, ConcatProperties DEF RemoveAt

\* Writing to an archive, moving it to the end and removing it keep the list typed.
LEMMA ArchivesTyped ==
  ASSUME archives \in Seq(Archive), NEW k \in DOMAIN archives, NEW b \in BOOLEAN,
         \/ Touch(k) \/ Mark(k, b)
         \/ archives' = RemoveAt(archives, k)
         \/ archives' = Append(RemoveAt(archives, k), [archives[k] EXCEPT !.whole = b])
  PROVE  archives' \in Seq(Archive)
<1>1. archives[k] \in Archive
  BY ElementOfSeq, LenProperties
<1>2. [archives[k] EXCEPT !.whole = b] \in Archive
  BY <1>1 DEF Archive
<1>3. RemoveAt(archives, k) \in Seq(Archive)
  BY RemoveAtType
<1>4. [archives EXCEPT ![k] = [archives[k] EXCEPT !.whole = b]] \in Seq(Archive)
  BY <1>2, ExceptSeq, LenProperties
<1>5. Mark(k, b) => archives' = [archives EXCEPT ![k] = [archives[k] EXCEPT !.whole = b]]
  BY DEF Mark
<1>6. Append(RemoveAt(archives, k), archives[k]) \in Seq(Archive)
  BY <1>1, <1>3, AppendProperties
<1>7. Append(RemoveAt(archives, k), [archives[k] EXCEPT !.whole = b]) \in Seq(Archive)
  BY <1>2, <1>3, AppendProperties
<1>8. CASE Touch(k)
  BY <1>6, <1>8 DEF Touch
<1>9. CASE Mark(k, b)
  BY <1>4, <1>5, <1>9
<1> QED
  BY <1>3, <1>7, <1>8, <1>9

\* The command's memory is typed after it returned.
LEMMA FinishTyped ==
  ASSUME NEW r \in {"ok", "error", "interrupted"}, Finish(r)
  PROVE  /\ cmd' \in (Target \cup {"none"}) \X SUBSET Flag
         /\ at' \in Step /\ dir' \in Dir /\ todo' \in SUBSET Item
         /\ stopped' \in BOOLEAN /\ made' \in [Dir -> Nat]
         /\ copied' \in SUBSET (Item \cup DDItem) /\ dirty' \in BOOLEAN
         /\ result' \in {"none", "pending", "ok", "error", "interrupted"}
BY DEF Finish, Step, Dir

\* So are the variables that Backup sets.
LEMMA BackupTyped ==
  ASSUME TypeOK, NEW d \in Dir, Backup(d)
  PROVE  /\ cmd' \in (Target \cup {"none"}) \X SUBSET Flag
         /\ at' \in Step /\ dir' \in Dir /\ made' \in [Dir -> Nat]
         /\ copied' \in SUBSET (Item \cup DDItem) /\ dirty' \in BOOLEAN
         /\ result' \in {"none", "pending", "ok", "error", "interrupted"}
BY DEF TypeOK, Backup, Goto, memory, Step, Dir

LEMMA TypeInit == Init => TypeOK
<1> SUFFICES ASSUME Init PROVE TypeOK
  OBVIOUS
<1>1. archives \in Seq(Archive)
  BY EmptySeq DEF Init
<1> QED
  BY <1>1 DEF Init, TypeOK, Dir, Step

LEMMA TypeNext == TypeOK /\ [Next]_vars => TypeOK'
<1> SUFFICES ASSUME TypeOK, [Next]_vars PROVE TypeOK'
  OBVIOUS
<1> USE DEF TypeOK
<1>1. CASE Update
  <2>1. CASE Finish("error") /\ UNCHANGED <<node, work, store>>
    BY <2>1, FinishTyped DEF store
  <2>2. CASE \E c \in Commands : /\ cmd' = c /\ at' = "confirm" /\ result' = "pending"
                                 /\ UNCHANGED <<dir, todo, stopped, memory, node, work, store>>
    BY <2>2, CommandAssumption DEF store, memory, Step
  <2> QED
    BY <1>1, <2>1, <2>2 DEF Update
<1>2. CASE Confirm
  BY <1>2, BackupTyped DEF Confirm, StopOutcome, store, Dir
<1>3. CASE NothingToStop
  BY <1>3, BackupTyped DEF NothingToStop, store, Dir
<1>4. CASE ConfirmFails \/ InstallRefused \/ UnzipFails \/ Interrupt
  BY <1>4, FinishTyped DEF ConfirmFails, InstallRefused, UnzipFails, Interrupt, store
<1>5. CASE MakeArchive
  <2>1. now' \in Nat /\ now' \div 2 \in Nat
    BY <1>5 DEF MakeArchive
  <2>2. archives' \in Seq(Archive)
    <3>1. [dir |-> dir, second |-> now' \div 2, whole |-> FALSE] \in Archive
      BY <2>1 DEF Archive
    <3>2. CASE archives' = Append(archives, [dir |-> dir, second |-> now' \div 2, whole |-> FALSE])
      BY <3>1, <3>2, AppendProperties
    <3>3. CASE \E k \in DOMAIN archives : Mark(k, FALSE)
      BY <3>3, ArchivesTyped
    <3> QED
      BY <1>5, <3>2, <3>3 DEF MakeArchive
  <2>3. todo' \in SUBSET Item
    BY <1>5 DEF MakeArchive, ToCopy, Listed, All
  <2> QED
    BY <1>5, <2>1, <2>2, <2>3 DEF MakeArchive, Step
<1>6. CASE MakeArchiveFails
  BY <1>6, FinishTyped DEF MakeArchiveFails
<1>7. CASE Copy
  <2>1. archives' \in Seq(Archive)
    BY <1>7, ArchivesTyped DEF Copy
  <2>2. copied' \in SUBSET (Item \cup DDItem)
    BY <1>7 DEF Copy
  <2> QED
    BY <1>7, <2>1, <2>2 DEF Copy
<1>8. CASE CopyFails
  <2>1. archives' \in Seq(Archive)
    BY <1>8, ArchivesTyped DEF CopyFails
  <2> QED
    BY <1>8, <2>1, FinishTyped DEF CopyFails
<1>9. CASE Copied
  BY <1>9, ArchivesTyped DEF Copied, Goto, memory, Step
<1>10. CASE Prune
  BY <1>10, ArchivesTyped DEF Prune, Goto, memory, Step
<1>11. CASE PruneFails
  <2>1. archives' \in Seq(Archive)
    BY <1>11, ArchivesTyped DEF PruneFails
  <2> QED
    BY <1>11, <2>1, FinishTyped DEF PruneFails
<1>12. CASE Pruned
  BY <1>12, BackupTyped DEF Pruned, Goto, memory, store, Step, Dir
<1>13. CASE Clean
  BY <1>13, BackupTyped DEF Clean, store, Dir
<1>14. CASE CleanFails
  <2>1. work' \in SUBSET Item /\ node' = node /\ archives' = archives /\ now' = now
    BY <1>14 DEF CleanFails, store
  <2> QED
    BY <1>14, <2>1, FinishTyped, BackupTyped DEF CleanFails, Dir
<1>15. CASE StopAgain
  BY <1>15 DEF StopAgain, StopOutcome, Goto, memory, store, Step
<1>16. CASE Unzip \/ FetchSnapshot
  BY <1>16 DEF Unzip, FetchSnapshot, Goto, memory, store, Step
<1>17. CASE CleanForSnapshot
  BY <1>17 DEF CleanForSnapshot, Goto, memory, store, Step
<1>18. CASE ExtractSnapshot
  BY <1>18 DEF ExtractSnapshot, Snapshot, Goto, memory, store, Step
<1>19. CASE InstallRest
  BY <1>19, FinishTyped DEF InstallRest, store
<1>20. CASE NodeStarts \/ NodeLoads \/ NodeWrites \/ NodeExits
  BY <1>20 DEF NodeStarts, NodeLoads, NodeWrites, NodeExits, Written, local, store
<1>21. CASE UNCHANGED vars
  BY <1>21 DEF vars
<1> QED
  BY <1>1, <1>2, <1>3, <1>4, <1>5, <1>6, <1>7, <1>8, <1>9, <1>10, <1>11, <1>12, <1>13,
     <1>14, <1>15, <1>16, <1>17, <1>18, <1>19, <1>20, <1>21
     DEF Next, UpdateStep, Meanwhile

\* Every reachable state of an update is of the declared type.
THEOREM UpdateTypeCorrect == Spec => []TypeOK
BY TypeInit, TypeNext, PTL DEF Spec
-----------------------------------------------------------------------------
(* The wallet and the keys.                                                  *)

\* What ClearDir skips covers them at every level, and what is cleared for a
\* snapshot does not contain them: no step takes one of them away.
LEMMA KeysStep ==
  ASSUME TypeOK, [Next]_vars
  PROVE  {i \in work : i[2] \in {"wallet.dat", "pastelkeys", "masternode.conf"}} \subseteq work'
<1> SUFFICES ASSUME NEW i \in work, i[2] \in {"wallet.dat", "pastelkeys", "masternode.conf"}
             PROVE  i \in work'
  OBVIOUS
<1>1. i \in Preserved
  BY DEF Preserved, filesToPreserve, dirsToPreserve, TypeOK
<1>2. i \notin Cleaned
  BY DEF Cleaned, snapshotCleans
<1>3. CASE Clean
  BY <1>1, <1>3 DEF Clean
<1>4. CASE CleanFails
  BY <1>1, <1>4 DEF CleanFails
<1>5. CASE CleanForSnapshot
  BY <1>2, <1>5 DEF CleanForSnapshot
<1>6. CASE ExtractSnapshot \/ NodeWrites
  BY <1>6 DEF ExtractSnapshot, NodeWrites
<1>7. CASE Update \/ Confirm \/ NothingToStop \/ ConfirmFails \/ MakeArchive \/ MakeArchiveFails
  BY <1>7 DEF Update, Confirm, NothingToStop, ConfirmFails, MakeArchive, MakeArchiveFails
<1>8. CASE Copy \/ CopyFails \/ Copied \/ Prune \/ PruneFails \/ Pruned
  BY <1>8 DEF Copy, CopyFails, Copied, Prune, PruneFails, Pruned
<1>9. CASE StopAgain \/ InstallRefused \/ Unzip \/ UnzipFails \/ FetchSnapshot \/ InstallRest
  BY <1>9 DEF StopAgain, InstallRefused, Unzip, UnzipFails, FetchSnapshot, InstallRest
<1>10. CASE NodeStarts \/ NodeLoads \/ NodeExits \/ Interrupt \/ UNCHANGED vars
  BY <1>10 DEF NodeStarts, NodeLoads, NodeExits, Interrupt, vars
<1> QED
  BY <1>3, <1>4, <1>5, <1>6, <1>7, <1>8, <1>9, <1>10 DEF Next, UpdateStep, Meanwhile

\* KeysSurvive: no step of an update, of a snapshot or of the node removes the
\* wallet, the keys or the list of masternodes from the working directory.
THEOREM KeysSurviveAlways == Spec => KeysSurvive
<1>1. TypeOK /\ [Next]_vars =>
        [{i \in work : i[2] \in {"wallet.dat", "pastelkeys", "masternode.conf"}} \subseteq work']_vars
  BY KeysStep
<1> QED
  BY <1>1, UpdateTypeCorrect, PTL DEF Spec, KeysSurvive

-----------------------------------------------------------------------------
(* Archives of a node that stands still.                                     *)

\* What is needed for it: a node that was stopped stays off until the update is
\* over, for nobody starts it meanwhile.
StoppedInv == /\ stopped => node = "off" /\ ~dirty
              /\ at \in {"idle", "confirm"} => ~stopped /\ ~dirty

\* A command that returned stopped nothing any more.
LEMMA FinishStopped == ASSUME NEW r, Finish(r) PROVE StoppedInv'
BY DEF Finish, StoppedInv

LEMMA StoppedNext ==
  ASSUME "stop" \notin Failures, TypeOK, StoppedInv, [Next]_vars
  PROVE  StoppedInv'
<1> USE DEF StoppedInv
<1>1. CASE Update
  BY <1>1, FinishStopped DEF Update, memory
<1>2. CASE Confirm
  BY <1>2 DEF Confirm, StopOutcome, Backup, Goto, memory
<1>3. CASE NothingToStop
  BY <1>3 DEF NothingToStop, Backup, Goto, memory
<1>4. CASE ConfirmFails \/ MakeArchiveFails \/ CopyFails \/ PruneFails \/ InstallRefused
           \/ UnzipFails \/ InstallRest \/ Interrupt
  BY <1>4, FinishStopped DEF ConfirmFails, MakeArchiveFails, CopyFails, PruneFails,
     InstallRefused, UnzipFails, InstallRest, Interrupt
<1>5. CASE MakeArchive
  BY <1>5 DEF MakeArchive
<1>6. CASE Copy
  BY <1>6 DEF Copy
<1>7. CASE Copied \/ Prune
  <2>1. at' = "prune" /\ UNCHANGED <<node, stopped, dirty>>
    BY <1>7 DEF Copied, Prune, Goto, memory
  <2> QED
    BY <2>1
<1>8. CASE Pruned \/ Clean
  BY <1>8 DEF Pruned, Clean, Backup, Goto, memory
<1>9. CASE CleanFails
  BY <1>9, FinishStopped DEF CleanFails, Backup, Goto, memory
<1>10. CASE StopAgain
  BY <1>10 DEF StopAgain, StopOutcome, Goto, memory
<1>11. CASE Unzip \/ FetchSnapshot \/ CleanForSnapshot \/ ExtractSnapshot
  BY <1>11 DEF Unzip, FetchSnapshot, CleanForSnapshot, ExtractSnapshot, Goto, memory
<1>12. CASE NodeStarts \/ NodeLoads \/ NodeWrites \/ NodeExits
  BY <1>12 DEF NodeStarts, NodeLoads, NodeWrites, NodeExits, local
<1>13. CASE UNCHANGED vars
  BY <1>13 DEF vars
<1> QED
  BY <1>1, <1>2, <1>3, <1>4, <1>5, <1>6, <1>7, <1>8, <1>9, <1>10, <1>11, <1>12, <1>13
     DEF Next, UpdateStep, Meanwhile

\* BackupOfStoppedNode: where stopping pasteld does not fail, no archive is made of
\* a running node that the update had found running.
THEOREM BackupOfStoppedNodeAlways ==
  ASSUME "stop" \notin Failures
  PROVE  Spec => []BackupOfStoppedNode
<1>1. Init => StoppedInv
  BY DEF Init, StoppedInv
<1>2. TypeOK /\ StoppedInv /\ [Next]_vars => StoppedInv'
  BY StoppedNext
<1>3. StoppedInv => BackupOfStoppedNode
  BY DEF StoppedInv, BackupOfStoppedNode
<1> QED
  BY <1>1, <1>2, <1>3, UpdateTypeCorrect, PTL DEF Spec
-----------------------------------------------------------------------------
(* The list of archives: what a call does to the order and to the other ones. *)

\* The position that comes to i when position k is taken out.
Skip(k, i) == IF i < k THEN i ELSE i + 1

LEMMA RemoveAtEntries ==
  ASSUME NEW S, NEW s \in Seq(S), NEW k \in 1..Len(s)
  PROVE  /\ Len(RemoveAt(s, k)) = Len(s) - 1
         /\ \A i \in 1..(Len(s) - 1) : RemoveAt(s, k)[i] = s[Skip(k, i)]
<1> DEFINE l == SubSeq(s, 1, k - 1)
           r == SubSeq(s, k + 1, Len(s))
<1>0. Len(s) \in Nat /\ k \in Int /\ \A i \in 1..Len(s) : s[i] \in S
  BY LenProperties, ElementOfSeq
<1>1. /\ l \in Seq(S) /\ Len(l) = k - 1
      /\ \A i \in 1..(k - 1) : l[i] = s[i]
  <2>1. \A i \in 1..(k - 1) : s[i] \in S
    BY <1>0
  <2>2. /\ l \in Seq(S) /\ Len(l) = IF 1 <= k - 1 THEN (k - 1) - 1 + 1 ELSE 0
        /\ \A i \in 1..((k - 1) - 1 + 1) : l[i] = s[1 + i - 1]
    BY <1>0, <2>1, SubSeqProperties
  <2> HIDE DEF l
  <2> QED
    BY <1>0, <2>2
<1>2. /\ r \in Seq(S) /\ Len(r) = Len(s) - k
      /\ \A i \in 1..(Len(s) - k) : r[i] = s[k + i]
  <2>1. \A i \in (k + 1)..Len(s) : s[i] \in S
    BY <1>0
  <2>2. /\ r \in Seq(S) /\ Len(r) = IF k + 1 <= Len(s) THEN Len(s) - (k + 1) + 1 ELSE 0
        /\ \A i \in 1..(Len(s) - (k + 1) + 1) : r[i] = s[(k + 1) + i - 1]
    BY <1>0, <2>1, SubSeqProperties
  <2> HIDE DEF r
  <2> QED
    BY <1>0, <2>2
<1>3. RemoveAt(s, k) = l \o r
  BY DEF RemoveAt
<1> HIDE DEF l, r
<1>4. /\ Len(l \o r) = Len(l) + Len(r)
      /\ \A i \in 1..(Len(l) + Len(r)) : (l \o r)[i] = IF i <= Len(l) THEN l[i] ELSE r[i - Len(l)]
  BY <1>1, <1>2, ConcatProperties
<1>5. Len(RemoveAt(s, k)) = Len(s) - 1
  BY <1>0, <1>1, <1>2, <1>3, <1>4
<1>6. ASSUME NEW i \in 1..(Len(s) - 1) PROVE RemoveAt(s, k)[i] = s[Skip(k, i)]
  <2>1. i \in 1..(Len(l) + Len(r))
    BY <1>0, <1>1, <1>2
  <2>2. CASE i < k
    <3>1. i <= Len(l) /\ i \in 1..(k - 1)
      BY <1>0, <1>1, <2>2
    <3> QED
      BY <1>1, <1>3, <1>4, <2>1, <2>2, <3>1 DEF Skip
  <2>3. CASE ~(i < k)
    <3>1. ~(i <= Len(l)) /\ i - Len(l) \in 1..(Len(s) - k) /\ k + (i - Len(l)) = i + 1
      BY <1>0, <1>1, <2>3
    <3> QED
      BY <1>2, <1>3, <1>4, <2>1, <2>3, <3>1 DEF Skip
  <2> QED
    BY <2>2, <2>3
<1> QED
  BY <1>5, <1>6

\* f tells where each archive of the next list was in this one: the order is kept
\* but for the one of position k, which is last.
SameName(a, b) == a.dir = b.dir /\ a.second = b.second
Carried(f, k) ==
  /\ f \in [DOMAIN archives' -> DOMAIN archives]
  /\ \A i \in DOMAIN archives' : SameName(archives'[i], archives[f[i]])
  /\ \A i, j \in DOMAIN archives' : i < j => f[i] # f[j] /\ (f[i] < f[j] \/ f[j] = k)
  /\ \A i \in DOMAIN archives' : f[i] = k => \A j \in DOMAIN archives' : j <= i

\* Nothing happens to the archives of other positions than k.
KeptBut(k) ==
  \A p \in DOMAIN archives \ {k} : \E i \in DOMAIN archives' : archives'[i] = archives[p]

LEMMA Positions ==
  ASSUME archives \in Seq(Archive)
  PROVE  /\ Len(archives) \in Nat /\ DOMAIN archives = 1..Len(archives)
         /\ \A k \in DOMAIN archives : archives[k] \in Archive
BY LenProperties, ElementOfSeq

LEMMA MarkCarries ==
  ASSUME archives \in Seq(Archive), NEW k \in DOMAIN archives, NEW b \in BOOLEAN, Mark(k, b)
  PROVE  /\ \E f : Carried(f, 0)
         /\ KeptBut(k)
         /\ k \in DOMAIN archives' /\ SameName(archives'[k], archives[k]) /\ archives'[k].whole = b
<1>1. /\ DOMAIN archives' = DOMAIN archives
      /\ \A i \in DOMAIN archives : i # k => archives'[i] = archives[i]
      /\ archives'[k] = [archives[k] EXCEPT !.whole = b]
  BY DEF Mark
<1>2. /\ archives'[k].dir = archives[k].dir /\ archives'[k].second = archives[k].second
      /\ archives'[k].whole = b
  BY <1>1, Positions DEF Archive
<1>3. Carried([i \in DOMAIN archives |-> i], 0)
  <2> DEFINE n == Len(archives)
             f == [i \in 1..n |-> i]
  <2>1. n \in Nat /\ DOMAIN archives = 1..n /\ DOMAIN archives' = 1..n
    BY <1>1, Positions
  <2> HIDE DEF n
  <2>2. f \in [DOMAIN archives' -> DOMAIN archives]
    BY <2>1
  <2>3. \A i \in 1..n : SameName(archives'[i], archives[f[i]])
    BY <1>1, <1>2, <2>1 DEF SameName
  <2>4. \A i, j \in 1..n : i < j => f[i] # f[j] /\ f[i] < f[j]
    BY <2>1
  <2>5. \A i \in 1..n : f[i] # 0
    BY <2>1
  <2> QED
    BY <2>1, <2>2, <2>3, <2>4, <2>5 DEF Carried
<1> QED
  BY <1>1, <1>2, <1>3 DEF KeptBut, SameName

LEMMA RemovalCarries ==
  ASSUME archives \in Seq(Archive), NEW k \in DOMAIN archives, archives' = RemoveAt(archives, k)
  PROVE  /\ \E f : Carried(f, 0)
         /\ KeptBut(k)
<1> DEFINE n == Len(archives)
           f == [i \in 1..(n - 1) |-> Skip(k, i)]
<1>1. n \in Nat /\ DOMAIN archives = 1..n /\ k \in 1..n
  BY Positions
<1>2. /\ Len(archives') = n - 1
      /\ \A i \in 1..(n - 1) : archives'[i] = archives[Skip(k, i)]
  BY <1>1, RemoveAtEntries
<1>3. DOMAIN archives' = 1..(n - 1)
  BY <1>2, RemoveAtType, LenProperties
<1> HIDE DEF n
<1>4. Carried(f, 0)
  <2>1. \A i \in 1..(n - 1) : Skip(k, i) \in 1..n
    BY <1>1 DEF Skip
  <2>2. f \in [DOMAIN archives' -> DOMAIN archives]
    BY <1>1, <1>3, <2>1
  <2>3. \A i \in 1..(n - 1) : SameName(archives'[i], archives[f[i]])
    BY <1>2 DEF SameName
  <2>4. \A i, j \in 1..(n - 1) : i < j => f[i] # f[j] /\ f[i] < f[j]
    BY <1>1 DEF Skip
  <2>5. \A i \in 1..(n - 1) : f[i] # 0
    BY <1>1, <2>1
  <2> QED
    BY <1>3, <2>2, <2>3, <2>4, <2>5 DEF Carried
<1>5. KeptBut(k)
  <2> SUFFICES ASSUME NEW p \in 1..n, p # k
               PROVE  \E i \in 1..(n - 1) : archives'[i] = archives[p]
    BY <1>1, <1>3 DEF KeptBut
  <2>1. CASE p < k
    <3>1. p \in 1..(n - 1) /\ Skip(k, p) = p
      BY <1>1, <2>1 DEF Skip
    <3> QED
      BY <1>2, <3>1
  <2>2. CASE p > k
    <3>1. p - 1 \in 1..(n - 1) /\ Skip(k, p - 1) = p
      BY <1>1, <2>2 DEF Skip
    <3> QED
      BY <1>2, <3>1
  <2>3. p < k \/ p > k
    BY <1>1
  <2> QED
    BY <2>1, <2>2, <2>3
<1> QED
  BY <1>4, <1>5

LEMMA MovingCarries ==
  ASSUME archives \in Seq(Archive), NEW k \in DOMAIN archives,
         NEW a \in Archive, SameName(a, archives[k]),
         archives' = Append(RemoveAt(archives, k), a)
  PROVE  /\ \E f : Carried(f, k)
         /\ KeptBut(k)
         /\ \E i \in DOMAIN archives' : archives'[i] = a
<1> DEFINE n == Len(archives)
           f == [i \in 1..n |-> IF i = n THEN k ELSE Skip(k, i)]
           r == RemoveAt(archives, k)
<1>1. n \in Nat /\ DOMAIN archives = 1..n /\ k \in 1..n
  BY Positions
<1>2. /\ r \in Seq(Archive) /\ Len(r) = n - 1
      /\ \A i \in 1..(n - 1) : r[i] = archives[Skip(k, i)]
  BY <1>1, RemoveAtEntries, RemoveAtType
<1> HIDE DEF n, r
<1>3. /\ archives' = Append(r, a) /\ archives' \in Seq(Archive)
      /\ Len(archives') = Len(r) + 1
      /\ \A i \in 1..Len(r) : archives'[i] = r[i]
      /\ archives'[Len(r) + 1] = a
  BY <1>2, AppendProperties DEF r
<1>4. /\ DOMAIN archives' = 1..n /\ archives'[n] = a
      /\ \A i \in 1..(n - 1) : archives'[i] = archives[Skip(k, i)]
  <2>1. Len(r) + 1 = n
    BY <1>1, <1>2
  <2>2. DOMAIN archives' = 1..n
    BY <1>3, <2>1, LenProperties
  <2> QED
    BY <1>2, <1>3, <2>1, <2>2
<1>5. Carried(f, k)
  <2>1. \A i \in 1..n : i # n => Skip(k, i) \in 1..n /\ Skip(k, i) # k
    BY <1>1 DEF Skip
  <2>2. f \in [DOMAIN archives' -> DOMAIN archives]
    BY <1>1, <1>4, <2>1
  <2>3. \A i \in 1..n : SameName(archives'[i], archives[f[i]])
    <3> SUFFICES ASSUME NEW i \in 1..n PROVE SameName(archives'[i], archives[f[i]])
      OBVIOUS
    <3>1. CASE i = n
      BY <1>4, <3>1
    <3>2. CASE i # n
      <4>1. i \in 1..(n - 1) /\ f[i] = Skip(k, i)
        BY <1>1, <3>2
      <4> QED
        BY <1>4, <4>1 DEF SameName
    <3> QED
      BY <3>1, <3>2
  <2>4. \A i, j \in 1..n : i < j => f[i] # f[j] /\ (f[i] < f[j] \/ f[j] = k)
    <3> SUFFICES ASSUME NEW i \in 1..n, NEW j \in 1..n, i < j
                 PROVE  f[i] # f[j] /\ (f[i] < f[j] \/ f[j] = k)
      OBVIOUS
    <3>1. f[i] = Skip(k, i) /\ i # n
      BY <1>1
    <3>2. CASE j = n
      BY <2>1, <3>1, <3>2
    <3>3. CASE j # n
      BY <1>1, <3>1, <3>3 DEF Skip
    <3> QED
      BY <3>2, <3>3
  <2>5. \A i \in 1..n : f[i] = k => \A j \in 1..n : j <= i
    BY <1>1, <2>1
  <2> QED
    BY <1>4, <2>2, <2>3, <2>4, <2>5 DEF Carried
<1>6. KeptBut(k)
  <2> SUFFICES ASSUME NEW p \in 1..n, p # k
               PROVE  \E i \in 1..n : archives'[i] = archives[p]
    BY <1>1, <1>4 DEF KeptBut
  <2>1. CASE p < k
    <3>1. p \in 1..(n - 1) /\ p \in 1..n /\ Skip(k, p) = p
      BY <1>1, <2>1 DEF Skip
    <3> QED
      BY <1>4, <3>1
  <2>2. CASE p > k
    <3>1. p - 1 \in 1..(n - 1) /\ p - 1 \in 1..n /\ Skip(k, p - 1) = p
      BY <1>1, <2>2 DEF Skip
    <3> QED
      BY <1>4, <3>1
  <2>3. p < k \/ p > k
    BY <1>1
  <2> QED
    BY <2>1, <2>2, <2>3
<1>7. n \in 1..n
  BY <1>1
<1> QED
  BY <1>4, <1>5, <1>6, <1>7

\* The archives of a directory, and those of them behind the one of position k.
Of(d) == {k \in DOMAIN archives : archives[k].dir = d}
Behind(k) == {j \in DOMAIN archives : j > k /\ archives[j].dir = archives[k].dir}

\* Rearranging adds no archive to a directory.
LEMMA CarriedFew ==
  ASSUME archives \in Seq(Archive), archives' \in Seq(Archive),
         NEW f, NEW k, Carried(f, k), NEW d
  PROVE  Cardinality(Of(d)') <= Cardinality(Of(d)) /\ IsFiniteSet(Of(d))
<1> DEFINE g == [i \in Of(d)' |-> f[i]]
<1>1. IsFiniteSet(Of(d))
  <2>1. IsFiniteSet(1..Len(archives))
    BY Positions, FS_Interval
  <2> QED
    BY <2>1, Positions, FS_Subset DEF Of
<1>2. g \in [Of(d)' -> Of(d)]
  BY DEF Carried, Of, SameName
<1>3. \A i, j \in Of(d)' : g[i] = g[j] => i = j
  <2> SUFFICES ASSUME NEW i \in Of(d)', NEW j \in Of(d)', f[i] = f[j], i # j PROVE FALSE
    OBVIOUS
  <2>1. i \in DOMAIN archives' /\ j \in DOMAIN archives'
    BY DEF Of
  <2>2. DOMAIN archives' \subseteq Int
    BY LenProperties
  <2>3. i < j \/ j < i
    BY <2>1, <2>2
  <2> QED
    BY <2>1, <2>3 DEF Carried
<1> HIDE DEF g
<1>4. g \in Injection(Of(d)', Of(d))
  BY <1>2, <1>3 DEF Injection, IsInjective
<1> QED
  BY <1>1, <1>4, FS_Injection

\* The list is kept by name and by time: no two archives of a directory have the same
\* second, and none is of a second to come.
ArchiveInv ==
  /\ now >= 2
  /\ \A j, k \in DOMAIN archives : SameName(archives[j], archives[k]) => j = k
  /\ \A k \in DOMAIN archives : archives[k].second <= now \div 2

LEMMA CarriedArchives ==
  ASSUME TypeOK, archives' \in Seq(Archive), ArchiveInv, UNCHANGED now,
         NEW f, NEW k, Carried(f, k)
  PROVE  ArchiveInv'
<1>1. \A i \in DOMAIN archives' : f[i] \in DOMAIN archives
  BY DEF Carried
<1>2. \A i \in DOMAIN archives' : archives'[i].second <= now \div 2
  BY <1>1 DEF Carried, SameName, ArchiveInv
<1>3. ASSUME NEW i \in DOMAIN archives', NEW j \in DOMAIN archives',
             SameName(archives'[i], archives'[j])
      PROVE  i = j
  <2>1. SameName(archives[f[i]], archives[f[j]])
    BY <1>3 DEF Carried, SameName
  <2>2. f[i] = f[j]
    BY <1>1, <2>1 DEF ArchiveInv
  <2>3. i \in Int /\ j \in Int
    BY LenProperties
  <2>4. ~(i < j) /\ ~(j < i)
    BY <2>2 DEF Carried
  <2> QED
    BY <2>3, <2>4
<1> QED
  BY <1>2, <1>3 DEF ArchiveInv

\* What is behind an archive was behind it, or is the one that moved to the end.
LEMMA CarriedBehind ==
  ASSUME archives' \in Seq(Archive), NEW f, NEW k, Carried(f, k),
         NEW i \in DOMAIN archives', NEW j \in Behind(i)'
  PROVE  /\ f[i] \in DOMAIN archives /\ f[i] # k
         /\ f[j] \in DOMAIN archives
         /\ f[j] = k \/ f[j] \in Behind(f[i])
<1>1. j \in DOMAIN archives' /\ j > i /\ archives'[j].dir = archives'[i].dir
  BY DEF Behind
<1>2. f[i] \in DOMAIN archives /\ f[j] \in DOMAIN archives
  BY <1>1 DEF Carried
<1>3. archives[f[j]].dir = archives[f[i]].dir
  BY <1>1 DEF Carried, SameName
<1>4. f[i] < f[j] \/ f[j] = k
  BY <1>1 DEF Carried
<1>5. f[i] # k
  <2>1. i \in Int /\ j \in Int
    BY <1>1, LenProperties
  <2>2. ~(j <= i)
    BY <1>1, <2>1
  <2> QED
    BY <1>1, <2>2 DEF Carried
<1> QED
  BY <1>2, <1>3, <1>4, <1>5 DEF Behind

\* The directory d is being archived or cleared of old archives.
Working(d) == at \in {"copy", "prune"} /\ dir = d

\* Where the archive of the present second stands among those of its directory: a
\* removal that broke off has put at most one behind it, and in the first half of
\* the second, when it was made, none before the removals are over.
AtMostOneBehind(k) == \A i, j \in Behind(k) : i = j
OrderInv ==
  \A k \in DOMAIN archives : archives[k].second = now \div 2 =>
    /\ (now % 2 = 0 \/ Working(archives[k].dir)) => AtMostOneBehind(k)
    /\ (now % 2 = 0 /\ Working(archives[k].dir)) => Behind(k) = {}

LEMMA CarriedApart ==
  ASSUME archives' \in Seq(Archive), NEW f, NEW k, Carried(f, k),
         NEW j \in DOMAIN archives', NEW l \in DOMAIN archives', f[j] = f[l]
  PROVE  j = l
<1>1. j \in Int /\ l \in Int
  BY LenProperties
<1>2. ~(j < l) /\ ~(l < j)
  BY DEF Carried
<1> QED
  BY <1>1, <1>2

\* Where the moved one does not come behind, no more is behind than was.
LEMMA CarriedEmbed ==
  ASSUME archives' \in Seq(Archive), NEW f, NEW k, Carried(f, k),
         NEW i \in DOMAIN archives', \A j \in Behind(i)' : f[j] # k
  PROVE  /\ AtMostOneBehind(f[i]) => AtMostOneBehind(i)'
         /\ Behind(f[i]) = {} => Behind(i)' = {}
<1>1. \A j \in Behind(i)' : j \in DOMAIN archives' /\ f[j] \in Behind(f[i])
  BY CarriedBehind DEF Behind
<1>2. \A j, l \in Behind(i)' : f[j] = f[l] => j = l
  BY <1>1, CarriedApart
<1> QED
  BY <1>1, <1>2 DEF AtMostOneBehind

\* Rearranging without moving any to the end.
LEMMA CarriedInPlace ==
  ASSUME TypeOK, archives' \in Seq(Archive), OrderInv, UNCHANGED now,
         \A d \in Dir : Working(d)' => Working(d),
         NEW f, Carried(f, 0)
  PROVE  OrderInv'
<1> SUFFICES ASSUME NEW i \in DOMAIN archives', archives'[i].second = now \div 2
             PROVE  /\ (now % 2 = 0 \/ Working(archives[i].dir)') => AtMostOneBehind(i)'
                    /\ (now % 2 = 0 /\ Working(archives[i].dir)') => Behind(i)' = {}
  BY DEF OrderInv
<1> DEFINE p == f[i]
<1>1. /\ p \in DOMAIN archives /\ archives[p].second = now \div 2
      /\ archives[p].dir = archives'[i].dir
  BY DEF Carried, SameName
<1>2. archives[p].dir \in Dir
  BY <1>1, Positions DEF TypeOK, Archive
<1>3. \A j \in Behind(i)' : f[j] # 0
  BY Positions DEF Carried, Behind, TypeOK
<1>4. /\ AtMostOneBehind(p) => AtMostOneBehind(i)'
      /\ Behind(p) = {} => Behind(i)' = {}
  BY <1>3, CarriedEmbed
<1> HIDE DEF p
<1> QED
  BY <1>1, <1>2, <1>4 DEF OrderInv

\* The archive in hand moves to the end while it is written.
LEMMA TouchOrder ==
  ASSUME TypeOK, archives' \in Seq(Archive), ArchiveInv, OrderInv, UNCHANGED now,
         \A d \in Dir : Working(d)' => Working(d),
         NEW k \in DOMAIN archives, IsNamed(archives[k], dir, now \div 2),
         NEW f, Carried(f, k)
  PROVE  OrderInv'
<1> SUFFICES ASSUME NEW i \in DOMAIN archives', archives'[i].second = now \div 2
             PROVE  /\ (now % 2 = 0 \/ Working(archives[i].dir)') => AtMostOneBehind(i)'
                    /\ (now % 2 = 0 /\ Working(archives[i].dir)') => Behind(i)' = {}
  BY DEF OrderInv
<1> DEFINE p == f[i]
<1>1. /\ p \in DOMAIN archives /\ archives[p].second = now \div 2
      /\ archives[p].dir = archives'[i].dir
  BY DEF Carried, SameName
<1>2. archives[p].dir \in Dir
  BY <1>1, Positions DEF TypeOK, Archive
<1>3. CASE archives'[i].dir = dir
  <2>1. p = k
    BY <1>1, <1>3 DEF ArchiveInv, SameName, IsNamed
  <2>2. Behind(i)' = {}
    BY <2>1, CarriedBehind
  <2> QED
    BY <2>2 DEF AtMostOneBehind
<1>4. CASE archives'[i].dir # dir
  <2>1. \A j \in Behind(i)' : f[j] # k
    BY <1>4 DEF Behind, Carried, SameName, IsNamed
  <2>2. /\ AtMostOneBehind(p) => AtMostOneBehind(i)'
        /\ Behind(p) = {} => Behind(i)' = {}
    BY <2>1, CarriedEmbed
  <2> HIDE DEF p
  <2> QED
    BY <1>1, <1>2, <2>2 DEF OrderInv
<1> QED
  BY <1>3, <1>4

\* A removal that breaks off moves an old archive to the end; the command is over.
LEMMA PruneOrder ==
  ASSUME TypeOK, archives' \in Seq(Archive), OrderInv, UNCHANGED now,
         Working(dir), \A d \in Dir : ~Working(d)',
         NEW k \in DOMAIN archives, archives[k].dir = dir,
         NEW f, Carried(f, k)
  PROVE  OrderInv'
<1> SUFFICES ASSUME NEW i \in DOMAIN archives', archives'[i].second = now \div 2, now % 2 = 0
             PROVE  AtMostOneBehind(i)'
  <2>1. \A i \in DOMAIN archives' : archives'[i] \in Archive
    BY LenProperties, ElementOfSeq
  <2>2. \A i \in DOMAIN archives' : archives'[i].dir \in Dir
    BY <2>1 DEF Archive
  <2>3. \A i \in DOMAIN archives' : ~Working(archives[i].dir)'
    BY <2>2
  <2> QED
    BY <2>3 DEF OrderInv
<1> DEFINE p == f[i]
<1>1. /\ p \in DOMAIN archives /\ archives[p].second = now \div 2
      /\ archives[p].dir = archives'[i].dir
  BY DEF Carried, SameName
<1>2. CASE archives'[i].dir = dir
  <2>1. Behind(p) = {}
    BY <1>1, <1>2 DEF OrderInv
  <2>2. \A j \in Behind(i)' : j \in DOMAIN archives' /\ f[j] = k
    BY <2>1, CarriedBehind DEF Behind
  <2>3. \A j, l \in Behind(i)' : j = l
    BY <2>2, CarriedApart
  <2> QED
    BY <2>3 DEF AtMostOneBehind
<1>3. CASE archives'[i].dir # dir
  <2>1. \A j \in Behind(i)' : f[j] # k
    BY <1>3 DEF Behind, Carried, SameName
  <2>2. AtMostOneBehind(p) => AtMostOneBehind(i)'
    BY <2>1, CarriedEmbed
  <2> HIDE DEF p
  <2> QED
    BY <1>1, <2>2 DEF OrderInv
<1> QED
  BY <1>2, <1>3

\* Half seconds and seconds.
LEMMA Clock ==
  ASSUME NEW n \in Nat, NEW m \in {n + 1, n + 2}
  PROVE  /\ m \in Nat /\ m \div 2 \in Nat /\ n \div 2 <= m \div 2
         /\ m % 2 = 0 => n \div 2 < m \div 2
         /\ m \div 2 = n \div 2 => n % 2 = 0 /\ m % 2 # 0
         /\ n >= 2 => m >= 2 /\ m \div 2 # 0
OBVIOUS

-----------------------------------------------------------------------------
(* The archives over the whole of a behaviour.                               *)

ArchiveActions == \/ MakeArchive \/ MakeArchiveFails \/ Copy \/ CopyFails \/ Copied
                  \/ Prune \/ PruneFails

\* Every other step leaves the archives and the clock alone and begins no archive.
LEMMA ArchiveFrame ==
  ASSUME [Next]_vars, ~ArchiveActions
  PROVE  /\ UNCHANGED <<archives, now>>
         /\ at' \in {"copy", "prune"} =>
              UNCHANGED <<at, dir, made, todo, archives, now, cmd, copied, dirty>>
<1>1. CASE Update \/ Confirm \/ NothingToStop \/ ConfirmFails \/ Pruned \/ Clean \/ CleanFails
  BY <1>1 DEF Update, Confirm, NothingToStop, ConfirmFails, Pruned, Clean, CleanFails,
     Backup, Goto, Finish, store
<1>2. CASE StopAgain \/ InstallRefused \/ Unzip \/ UnzipFails \/ FetchSnapshot
           \/ CleanForSnapshot \/ ExtractSnapshot \/ InstallRest \/ Interrupt
  BY <1>2 DEF StopAgain, InstallRefused, Unzip, UnzipFails, FetchSnapshot,
     CleanForSnapshot, ExtractSnapshot, InstallRest, Interrupt, Goto, Finish, store
<1>3. CASE NodeStarts \/ NodeLoads \/ NodeWrites \/ NodeExits \/ UNCHANGED vars
  BY <1>3 DEF NodeStarts, NodeLoads, NodeWrites, NodeExits, local, store, vars
<1> QED
  BY <1>1, <1>2, <1>3 DEF Next, UpdateStep, Meanwhile, ArchiveActions

\* What a call of backUpDir or of deleteOldArchives does to the list: k is the archive
\* it works on, one of its directory.
Touches(k, moved) ==
  /\ k \in DOMAIN archives /\ archives[k].dir = dir
  /\ KeptBut(k) /\ \E f : Carried(f, moved)

LEMMA CopyTouches ==
  ASSUME TypeOK, Copy \/ CopyFails, ~UNCHANGED archives
  PROVE  \E k \in DOMAIN archives :
           /\ Mine(k) /\ Touches(k, k) /\ \E i \in DOMAIN archives' : archives'[i] = archives[k]
<1>1. PICK k \in DOMAIN archives : Mine(k) /\ Touch(k)
  BY DEF Copy, CopyFails
<1>2. archives[k] \in Archive /\ archives[k].dir = dir
  BY <1>1, Positions DEF TypeOK, Mine, IsNamed
<1>3. archives' = Append(RemoveAt(archives, k), archives[k])
  BY <1>1 DEF Touch
<1>4. SameName(archives[k], archives[k])
  BY DEF SameName
<1>5. /\ \E f : Carried(f, k)
      /\ KeptBut(k)
      /\ \E i \in DOMAIN archives' : archives'[i] = archives[k]
  BY <1>2, <1>3, <1>4, MovingCarries DEF TypeOK
<1> QED
  BY <1>1, <1>2, <1>5 DEF Touches

LEMMA CopiedTouches ==
  ASSUME TypeOK, Copied
  PROVE  \E k \in DOMAIN archives :
           /\ Mine(k) /\ Touches(k, 0)
           /\ \E i \in DOMAIN archives' : SameName(archives'[i], archives[k]) /\ archives'[i].whole
<1>1. PICK k \in DOMAIN archives : Mine(k) /\ Mark(k, TRUE)
  BY DEF Copied
<1>2. /\ \E f : Carried(f, 0)
      /\ KeptBut(k)
      /\ k \in DOMAIN archives' /\ SameName(archives'[k], archives[k]) /\ archives'[k].whole = TRUE
  BY <1>1, MarkCarries DEF TypeOK
<1> QED
  BY <1>1, <1>2 DEF Touches, Mine, IsNamed

LEMMA PruneTouches ==
  ASSUME TypeOK, Prune
  PROVE  \E k \in DOMAIN archives : Oldest(k) /\ Touches(k, 0)
<1>1. PICK k \in DOMAIN archives : Oldest(k) /\ archives' = RemoveAt(archives, k)
  BY DEF Prune
<1>2. (\E f : Carried(f, 0)) /\ KeptBut(k)
  BY <1>1, RemovalCarries DEF TypeOK
<1> QED
  BY <1>1, <1>2 DEF Touches, Oldest, Matching

LEMMA PruneFailsTouches ==
  ASSUME TypeOK, PruneFails
  PROVE  \E k \in DOMAIN archives : Oldest(k) /\ (Touches(k, 0) \/ Touches(k, k))
<1>1. PICK k \in DOMAIN archives :
        /\ Oldest(k)
        /\ \/ Mark(k, FALSE)
           \/ archives' = Append(RemoveAt(archives, k), [archives[k] EXCEPT !.whole = FALSE])
  BY DEF PruneFails
<1>2. archives[k].dir = dir /\ archives[k] \in Archive
  BY <1>1, Positions DEF TypeOK, Oldest, Matching
<1>3. CASE Mark(k, FALSE)
  <2>1. (\E f : Carried(f, 0)) /\ KeptBut(k)
    BY <1>3, MarkCarries DEF TypeOK
  <2> QED
    BY <1>1, <1>2, <2>1 DEF Touches
<1>4. CASE archives' = Append(RemoveAt(archives, k), [archives[k] EXCEPT !.whole = FALSE])
  <2> DEFINE a == [archives[k] EXCEPT !.whole = FALSE]
  <2>1. a \in Archive /\ SameName(a, archives[k])
    BY <1>2 DEF Archive, SameName
  <2> HIDE DEF a
  <2>2. archives' = Append(RemoveAt(archives, k), a)
    BY <1>4 DEF a
  <2>3. (\E f : Carried(f, k)) /\ KeptBut(k)
    BY <2>1, <2>2, MovingCarries DEF TypeOK
  <2> QED
    BY <1>1, <1>2, <2>3 DEF Touches
<1> QED
  BY <1>1, <1>3, <1>4

\* A new archive goes to the end of the list; that of the present second is used again
\* for the copy of the whole directory only.
Appended(s) ==
  /\ \A k \in DOMAIN archives : ~IsNamed(archives[k], dir, s)
  /\ DOMAIN archives' = 1..(Len(archives) + 1)
  /\ \A i \in DOMAIN archives : archives'[i] = archives[i]
  /\ IsNamed(archives'[Len(archives) + 1], dir, s)
Reused(s) ==
  /\ \E k \in DOMAIN archives : IsNamed(archives[k], dir, s) /\ KeptBut(k)
  /\ DOMAIN archives' = DOMAIN archives
  /\ \A i \in DOMAIN archives : SameName(archives'[i], archives[i])

LEMMA MakeArchiveMakes ==
  ASSUME TypeOK, MakeArchive
  PROVE  /\ now' \in {now + 1, now + 2} /\ now' \in Nat /\ UNCHANGED dir /\ at' = "copy"
         /\ \E s \in Nat :
              /\ s = now' \div 2 /\ made' = [made EXCEPT ![dir] = s]
              /\ now \div 2 <= s /\ (s = now \div 2 => now % 2 = 0 /\ now' % 2 # 0)
              /\ now >= 2 => now' >= 2 /\ s # 0
              /\ Appended(s) \/ Reused(s)
<1> DEFINE s == now' \div 2
           a == [dir |-> dir, second |-> s, whole |-> FALSE]
<1>1. /\ now' \in {now + 1, now + 2} /\ made' = [made EXCEPT ![dir] = s] /\ at' = "copy"
      /\ UNCHANGED dir
  BY DEF MakeArchive
<1>2. /\ s \in Nat /\ now' \in Nat /\ now \div 2 <= s
      /\ s = now \div 2 => now % 2 = 0 /\ now' % 2 # 0
      /\ now >= 2 => now' >= 2 /\ s # 0
  BY <1>1, Clock DEF TypeOK
<1>3. ASSUME ~Exists(dir, s) /\ archives' = Append(archives, a) PROVE Appended(s)
  <2>1. a \in Archive /\ IsNamed(a, dir, s)
    BY <1>2 DEF Archive, IsNamed, TypeOK
  <2> HIDE DEF a, s
  <2>2. /\ archives' \in Seq(Archive) /\ Len(archives') = Len(archives) + 1
        /\ \A i \in 1..Len(archives) : archives'[i] = archives[i]
        /\ archives'[Len(archives) + 1] = a
    BY <1>3, <2>1, AppendProperties DEF TypeOK
  <2>3. DOMAIN archives' = 1..(Len(archives) + 1) /\ DOMAIN archives = 1..Len(archives)
    BY <2>2, LenProperties DEF TypeOK
  <2>4. \A k \in DOMAIN archives : ~IsNamed(archives[k], dir, s)
    BY <1>3 DEF Exists
  <2> QED
    BY <2>1, <2>2, <2>3, <2>4 DEF Appended
<1>4. ASSUME \E k \in DOMAIN archives : IsNamed(archives[k], dir, s) /\ Mark(k, FALSE)
      PROVE  Reused(s)
  <2>1. PICK k \in DOMAIN archives : IsNamed(archives[k], dir, s) /\ Mark(k, FALSE)
    BY <1>4
  <2> HIDE DEF s
  <2>2. /\ KeptBut(k) /\ SameName(archives'[k], archives[k])
        /\ DOMAIN archives' = DOMAIN archives
        /\ \A i \in DOMAIN archives : i # k => archives'[i] = archives[i]
    BY <2>1, MarkCarries DEF TypeOK, Mark
  <2>3. \A i \in DOMAIN archives : SameName(archives'[i], archives[i])
    BY <2>2 DEF SameName
  <2> QED
    BY <2>1, <2>2, <2>3 DEF Reused
<1>5. \/ ~Exists(dir, s) /\ archives' = Append(archives, a)
      \/ \E k \in DOMAIN archives : IsNamed(archives[k], dir, s) /\ Mark(k, FALSE)
  BY DEF MakeArchive
<1>6. Appended(s) \/ Reused(s)
  BY <1>3, <1>4, <1>5
<1>7. s = now' \div 2
  OBVIOUS
<1> HIDE DEF s
<1> QED
  BY <1>1, <1>2, <1>6, <1>7


LEMMA ArchiveInvNext ==
  ASSUME TypeOK, TypeOK', ArchiveInv, [Next]_vars
  PROVE  ArchiveInv'
<1>0. archives' \in Seq(Archive)
  BY DEF TypeOK
<1>1. CASE MakeArchive
  <2> DEFINE n == Len(archives)
  <2>0. PICK s \in Nat :
         /\ s = now' \div 2 /\ made' = [made EXCEPT ![dir] = s]
         /\ now \div 2 <= s /\ (s = now \div 2 => now % 2 = 0 /\ now' % 2 # 0)
         /\ now >= 2 => now' >= 2 /\ s # 0
         /\ Appended(s) \/ Reused(s)
    BY <1>1, MakeArchiveMakes
  <2>1. s = now' \div 2 /\ now \div 2 <= s /\ now' >= 2
    BY <2>0 DEF ArchiveInv
  <2>2. n \in Nat /\ DOMAIN archives = 1..n /\ \A k \in DOMAIN archives : archives[k].second \in Nat
    BY Positions DEF TypeOK, Archive
  <2>3. now \div 2 \in Int
    BY DEF TypeOK
  <2>4. CASE Appended(s)
    <3>0. /\ \A k \in 1..n : ~IsNamed(archives[k], dir, s)
          /\ DOMAIN archives' = 1..(n + 1)
          /\ \A i \in 1..n : archives'[i] = archives[i]
          /\ IsNamed(archives'[n + 1], dir, s)
      BY <2>2, <2>4 DEF Appended
    <3> HIDE DEF n
    <3>1. \A i \in 1..(n + 1) : i \in 1..n \/ i = n + 1
      BY <2>2
    <3>2. \A k \in 1..(n + 1) : archives'[k].second <= s
      <4>1. \A k \in 1..n : archives'[k].second <= s
        BY <2>1, <2>2, <2>3, <3>0 DEF ArchiveInv
      <4>2. archives'[n + 1].second <= s
        BY <2>1, <3>0 DEF IsNamed
      <4> QED
        BY <3>1, <4>1, <4>2
    <3>3. ASSUME NEW j \in 1..(n + 1), NEW k \in 1..(n + 1), SameName(archives'[j], archives'[k])
          PROVE  j = k
      <4>1. CASE j \in 1..n /\ k \in 1..n
        BY <2>2, <3>0, <3>3, <4>1 DEF ArchiveInv
      <4>2. CASE j = n + 1 /\ k \in 1..n
        BY <2>2, <3>0, <3>3, <4>2 DEF SameName, IsNamed
      <4>3. CASE j \in 1..n /\ k = n + 1
        BY <2>2, <3>0, <3>3, <4>3 DEF SameName, IsNamed
      <4> QED
        BY <3>1, <4>1, <4>2, <4>3
    <3> QED
      BY <2>1, <3>0, <3>2, <3>3 DEF ArchiveInv
  <2>5. CASE Reused(s)
    <3>0. /\ DOMAIN archives' = DOMAIN archives
          /\ \A i \in DOMAIN archives : SameName(archives'[i], archives[i])
      BY <2>5 DEF Reused
    <3>1. \A k \in DOMAIN archives : archives'[k].second <= s
      BY <2>1, <2>2, <2>3, <3>0 DEF ArchiveInv, SameName
    <3>2. \A j, k \in DOMAIN archives : SameName(archives'[j], archives'[k]) => j = k
      BY <3>0 DEF ArchiveInv, SameName
    <3> QED
      BY <2>1, <3>0, <3>1, <3>2 DEF ArchiveInv
  <2> QED
    BY <2>0, <2>4, <2>5
<1>2. CASE MakeArchiveFails
  <2>1. now' \in {now + 1, now + 2} /\ UNCHANGED archives
    BY <1>2 DEF MakeArchiveFails
  <2>0. now \in Nat /\ now >= 2
    BY DEF TypeOK, ArchiveInv
  <2>2. now' >= 2 /\ now \div 2 <= now' \div 2 /\ now \div 2 \in Int /\ now' \div 2 \in Int
    BY <2>0, <2>1, Clock
  <2>3. \A k \in DOMAIN archives : archives[k].second \in Nat
    BY Positions DEF TypeOK, Archive
  <2> QED
    BY <2>1, <2>2, <2>3 DEF ArchiveInv
<1>3. CASE (Copy \/ CopyFails) /\ ~UNCHANGED archives
  <2>1. UNCHANGED now
    BY <1>3 DEF Copy, CopyFails
  <2> QED
    BY <1>0, <1>3, <2>1, CopyTouches, CarriedArchives DEF Touches
<1>4. CASE (Copy \/ CopyFails) /\ UNCHANGED archives
  BY <1>4 DEF Copy, CopyFails, ArchiveInv
<1>5. CASE Copied
  BY <1>0, <1>5, CopiedTouches, CarriedArchives DEF Copied, Touches
<1>6. CASE Prune
  BY <1>0, <1>6, PruneTouches, CarriedArchives DEF Prune, Touches
<1>7. CASE PruneFails
  BY <1>0, <1>7, PruneFailsTouches, CarriedArchives DEF PruneFails, Touches
<1>8. CASE ~ArchiveActions
  BY <1>8, ArchiveFrame DEF ArchiveInv
<1> QED
  BY <1>1, <1>2, <1>3, <1>4, <1>5, <1>6, <1>7, <1>8 DEF ArchiveActions

\* The backup in hand: its archive is of the present second, everything is copied
\* when the old archives are looked at, and only the working directory is cleaned.
CopyInv ==
  /\ at \in {"copy", "prune"} => made[dir] = now \div 2
  /\ at \in {"prune", "clean"} => todo = {}
  /\ at = "clean" => dir = "work"
  /\ at \in {"idle", "confirm"} => \A d \in Dir : made[d] = 0

LEMMA OrderInvNext ==
  ASSUME TypeOK, TypeOK', ArchiveInv, CopyInv, OrderInv, [Next]_vars
  PROVE  OrderInv'
<1>0. archives' \in Seq(Archive) /\ dir \in Dir
  BY DEF TypeOK
<1>1. CASE MakeArchive
  <2>1. UNCHANGED dir /\ now \in Nat
    BY <1>1, MakeArchiveMakes DEF TypeOK
  <2>2. PICK s \in Nat :
         /\ s = now' \div 2 /\ made' = [made EXCEPT ![dir] = s]
         /\ now \div 2 <= s /\ (s = now \div 2 => now % 2 = 0 /\ now' % 2 # 0)
         /\ now >= 2 => now' >= 2 /\ s # 0
         /\ Appended(s) \/ Reused(s)
    BY <1>1, MakeArchiveMakes
  <2>3. PICK n \in Nat : /\ n = Len(archives) /\ DOMAIN archives = 1..n
                         /\ \A k \in DOMAIN archives : archives[k].second \in Nat
    BY Positions DEF TypeOK, Archive
  <2>4. now \div 2 \in Int
    BY <2>1
  <2>5. \A k \in DOMAIN archives : archives[k].second = s => s = now \div 2
    BY <2>2, <2>3, <2>4 DEF ArchiveInv
  <2>6. CASE Appended(s)
    <3>0. /\ \A k \in 1..n : ~IsNamed(archives[k], dir, s)
          /\ DOMAIN archives' = 1..(n + 1)
          /\ \A i \in 1..n : archives'[i] = archives[i]
      BY <2>3, <2>6 DEF Appended
    <3>1. \A j \in 1..(n + 1) : ~(j > n + 1)
      BY <2>3
    <3>2. Behind(n + 1)' = {}
      <4>1. \A j : j \notin Behind(n + 1)'
        BY <3>0, <3>1 DEF Behind
      <4> QED
        BY <4>1
    <3>3. \A k \in 1..n : archives'[k].second = s => now' % 2 # 0 /\ archives'[k].dir # dir
      BY <2>2, <2>3, <2>5, <3>0 DEF IsNamed
    <3>4. \A k \in 1..(n + 1) : k \in 1..n \/ k = n + 1
      BY <2>3
    <3>6. \A k \in 1..n : archives'[k].second = s => ~(Working(archives[k].dir)')
      BY <2>1, <3>0, <3>3 DEF Working
    <3>7. ASSUME NEW k \in DOMAIN archives', archives'[k].second = s
          PROVE  /\ (now' % 2 = 0 \/ Working(archives[k].dir)') => AtMostOneBehind(k)'
                 /\ (now' % 2 = 0 /\ Working(archives[k].dir)') => Behind(k)' = {}
      <4>1. CASE k = n + 1
        <5>1. Behind(k)' = {}
          BY <3>2, <4>1
        <5> QED
          BY <5>1 DEF AtMostOneBehind
      <4>2. CASE k \in 1..n
        BY <3>3, <3>6, <3>7, <4>2
      <4> QED
        BY <3>0, <3>4, <4>1, <4>2
    <3> QED
      BY <2>2, <3>7 DEF OrderInv
  <2>7. CASE Reused(s)
    <3>0. /\ DOMAIN archives' = DOMAIN archives
          /\ \A i \in DOMAIN archives : SameName(archives'[i], archives[i])
      BY <2>7 DEF Reused
    <3>1. \A k \in DOMAIN archives : Behind(k)' = Behind(k)
      BY <3>0 DEF Behind, SameName
    <3>2. \A k \in DOMAIN archives : AtMostOneBehind(k) => AtMostOneBehind(k)'
      BY <3>1 DEF AtMostOneBehind
    <3>3. ASSUME NEW k \in DOMAIN archives, archives'[k].second = s
          PROVE  AtMostOneBehind(k)' /\ now' % 2 # 0
      <4>1. archives[k].second = s
        BY <3>0, <3>3 DEF SameName
      <4>2. now % 2 = 0 /\ now' % 2 # 0 /\ archives[k].second = now \div 2
        BY <2>2, <2>5, <4>1
      <4>3. AtMostOneBehind(k)
        BY <4>2 DEF OrderInv
      <4> QED
        BY <3>2, <4>2, <4>3
    <3> QED
      BY <2>2, <3>0, <3>3 DEF OrderInv
  <2> QED
    BY <2>2, <2>6, <2>7
<1>2. CASE MakeArchiveFails
  <2>1. now' \in {now + 1, now + 2} /\ UNCHANGED archives /\ at' = "idle"
    BY <1>2 DEF MakeArchiveFails, Finish
  <2>0. now \in Nat
    BY DEF TypeOK
  <2>6. PICK m \in {now + 1, now + 2} : now' = m
    BY <2>1
  <2>7. /\ now \div 2 \in Nat /\ m \div 2 \in Nat
        /\ m % 2 = 0 => now \div 2 < m \div 2
    BY <2>0, Clock
  <2>2. /\ now \div 2 \in Nat /\ now' \div 2 \in Nat
        /\ now' % 2 = 0 => now \div 2 < now' \div 2
    BY <2>6, <2>7
  <2>3. \A k \in DOMAIN archives : archives[k].second \in Nat
    BY Positions DEF TypeOK, Archive
  <2>4. now' % 2 = 0 => \A k \in DOMAIN archives : archives[k].second # now' \div 2
    BY <2>2, <2>3 DEF ArchiveInv
  <2>5. \A d : ~Working(d)'
    BY <2>1 DEF Working
  <2> QED
    BY <2>1, <2>4, <2>5 DEF OrderInv
<1>3. CASE (Copy \/ CopyFails) /\ ~UNCHANGED archives
  <2>1. UNCHANGED now /\ \A d \in Dir : Working(d)' => Working(d)
    BY <1>3 DEF Copy, CopyFails, Finish, Working
  <2>2. PICK k \in DOMAIN archives : Mine(k) /\ \E f : Carried(f, k)
    BY <1>3, CopyTouches DEF Touches
  <2>3. IsNamed(archives[k], dir, now \div 2)
    BY <1>3, <2>2 DEF Copy, CopyFails, CopyError, CopyInv, Mine
  <2> QED
    BY <1>0, <2>1, <2>2, <2>3, TouchOrder
<1>4. CASE \/ (Copy \/ CopyFails) /\ UNCHANGED archives
           \/ ~ArchiveActions
  <2>1. UNCHANGED <<archives, now>>
    BY <1>4, ArchiveFrame DEF Copy, CopyFails
  <2>2. \A d : Working(d)' => Working(d)
    BY <1>4, ArchiveFrame DEF Copy, CopyFails, Finish, Working
  <2>3. \A k : Behind(k)' = Behind(k) /\ (AtMostOneBehind(k) => AtMostOneBehind(k)')
    BY <2>1 DEF Behind, AtMostOneBehind
  <2> QED
    BY <2>1, <2>2, <2>3 DEF OrderInv
<1>5. CASE Copied \/ Prune
  <2>1. UNCHANGED now /\ \A d \in Dir : Working(d)' => Working(d)
    BY <1>5 DEF Copied, Prune, Goto, Working
  <2>2. \E f : Carried(f, 0)
    BY <1>5, CopiedTouches, PruneTouches DEF Touches
  <2> QED
    BY <1>0, <2>1, <2>2, CarriedInPlace
<1>6. CASE PruneFails
  <2>1. UNCHANGED now /\ Working(dir) /\ \A d \in Dir : ~Working(d)'
    BY <1>6 DEF PruneFails, Finish, Working
  <2>2. PICK k \in DOMAIN archives : archives[k].dir = dir
                                     /\ \E f : Carried(f, 0) \/ Carried(f, k)
    BY <1>6, PruneFailsTouches DEF Touches
  <2>3. CASE \E f : Carried(f, 0)
    BY <1>0, <2>1, <2>3, CarriedInPlace
  <2>4. CASE \E f : Carried(f, k)
    BY <1>0, <2>1, <2>2, <2>4, PruneOrder
  <2> QED
    BY <2>2, <2>3, <2>4
<1> QED
  BY <1>1, <1>2, <1>3, <1>4, <1>5, <1>6 DEF ArchiveActions
\* Where the update goes on.
LEMMA BackupGoes ==
  ASSUME NEW d \in Dir, Backup(d)
  PROVE  /\ UNCHANGED <<cmd, made, copied, dirty, result>>
         /\ \/ at' = "mkdir" /\ dir' = d /\ BacksUp(d)
            \/ at' = "mkdir" /\ dir' = "dd" /\ ~BacksUp(d)
            \/ at' = "restop" /\ ~BacksUp(d) /\ (d = "work" => ~BacksUp("dd"))
BY DEF Backup, Goto, memory, Dir

LEMMA CopyInvNext ==
  ASSUME TypeOK, CopyInv, [Next]_vars
  PROVE  CopyInv'
<1> USE DEF CopyInv
<1>1. CASE Update
  <2>1. CASE Finish("error")
    BY <2>1 DEF Finish
  <2>2. CASE at' = "confirm" /\ UNCHANGED <<dir, todo, stopped, memory>>
    BY <1>1, <2>2 DEF Update, memory
  <2> QED
    BY <1>1, <2>1, <2>2 DEF Update
<1>2. CASE Confirm \/ NothingToStop
  <2>1. Backup("work")
    BY <1>2 DEF Confirm, NothingToStop
  <2>2. at' \in {"mkdir", "restop"}
    BY <2>1, BackupGoes DEF Dir
  <2> QED
    BY <2>2
<1>3. CASE MakeArchive
  <2>1. dir \in Dir /\ made \in [Dir -> Nat]
    BY DEF TypeOK
  <2>2. at' = "copy" /\ UNCHANGED dir /\ made' = [made EXCEPT ![dir] = now' \div 2]
    BY <1>3 DEF MakeArchive
  <2> QED
    BY <2>1, <2>2
<1>4. CASE ConfirmFails \/ MakeArchiveFails \/ CopyFails \/ PruneFails \/ InstallRefused
           \/ UnzipFails \/ InstallRest \/ Interrupt
  <2>1. at' = "idle" /\ made' = [d \in Dir |-> 0]
    BY <1>4 DEF ConfirmFails, MakeArchiveFails, CopyFails, PruneFails, InstallRefused,
       UnzipFails, InstallRest, Interrupt, Finish
  <2> QED
    BY <2>1
<1>5. CASE Copy
  BY <1>5 DEF Copy
<1>6. CASE Copied \/ Prune
  <2>1. at' = "prune" /\ UNCHANGED <<now, made, dir, todo>> /\ todo = {} /\ made[dir] = now \div 2
    BY <1>6 DEF Copied, Prune, Goto, memory
  <2> QED
    BY <2>1
<1>7. CASE Pruned
  <2>1. CASE dir = "work" /\ Goto("clean") /\ UNCHANGED dir
    BY <1>7, <2>1 DEF Pruned, Goto
  <2>2. CASE Backup("dd") \/ Goto("restop")
    <3>1. at' \in {"mkdir", "restop"}
      BY <2>2, BackupGoes DEF Dir, Goto
    <3> QED
      BY <3>1
  <2> QED
    BY <1>7, <2>1, <2>2 DEF Pruned
<1>8. CASE Clean \/ CleanFails
  <2>1. CASE Backup("dd")
    <3>1. at' \in {"mkdir", "restop"}
      BY <2>1, BackupGoes DEF Dir
    <3> QED
      BY <3>1
  <2>2. CASE Finish("error")
    BY <2>2 DEF Finish
  <2> QED
    BY <1>8, <2>1, <2>2 DEF Clean, CleanFails
<1>9. CASE StopAgain \/ Unzip \/ FetchSnapshot \/ CleanForSnapshot \/ ExtractSnapshot
  <2>1. at' \in {"unzip", "fetch", "rest", "snapclean", "extract"}
    BY <1>9 DEF StopAgain, Unzip, FetchSnapshot, CleanForSnapshot, ExtractSnapshot, Goto
  <2> QED
    BY <2>1
<1>10. CASE NodeStarts \/ NodeLoads \/ NodeWrites \/ NodeExits \/ UNCHANGED vars
  BY <1>10 DEF NodeStarts, NodeLoads, NodeWrites, NodeExits, local, store, vars
<1> QED
  BY <1>1, <1>2, <1>3, <1>4, <1>5, <1>6, <1>7, <1>8, <1>9, <1>10
     DEF Next, UpdateStep, Meanwhile

\* What deleteOldArchives removes first is never the archive just made: that one has
\* at most one other behind it, and more than two are there.
LEMMA OldestIsNotMine ==
  ASSUME archiveRetention > 1, TypeOK, OrderInv, at = "prune", TooMany,
         NEW k \in DOMAIN archives, Oldest(k)
  PROVE  archives[k].second # now \div 2
<1> SUFFICES ASSUME archives[k].second = now \div 2 PROVE FALSE
  OBVIOUS
<1>1. archives[k].dir = dir /\ \A j \in Matching : k <= j
  BY DEF Oldest, Matching
<1>2. AtMostOneBehind(k)
  BY <1>1 DEF OrderInv, Working
<1>3. Matching \subseteq Behind(k) \cup {k}
  <2> SUFFICES ASSUME NEW j \in Matching, j # k PROVE j \in Behind(k)
    OBVIOUS
  <2>1. j \in Int /\ k \in Int /\ j \in DOMAIN archives /\ archives[j].dir = dir
    BY Positions DEF TypeOK, Matching
  <2>2. j > k
    BY <1>1, <2>1
  <2> QED
    BY <1>1, <2>1, <2>2 DEF Behind
<1>4. \E b : Behind(k) \subseteq {b}
  <2>1. CASE Behind(k) = {}
    BY <2>1
  <2>2. CASE Behind(k) # {}
    <3>1. PICK b \in Behind(k) : TRUE
      BY <2>2
    <3>2. Behind(k) \subseteq {b}
      BY <1>2, <3>1 DEF AtMostOneBehind
    <3> QED
      BY <3>2
  <2> QED
    BY <2>1, <2>2
<1>5. PICK b : Behind(k) \subseteq {b}
  BY <1>4
<1>6. IsFiniteSet({b}) /\ Cardinality({b}) = 1
  BY FS_Singleton
<1>7. IsFiniteSet({b} \cup {k}) /\ Cardinality({b} \cup {k}) \in {1, 2}
  BY <1>6, FS_AddElement
<1>8. Matching \subseteq {b} \cup {k}
  BY <1>3, <1>5
<1>9. Cardinality(Matching) \in Nat /\ Cardinality(Matching) <= Cardinality({b} \cup {k})
  BY <1>7, <1>8, FS_Subset, FS_CardinalityType
<1>10. archiveRetention \in Nat /\ Cardinality(Matching) > archiveRetention
  BY BoundAssumption DEF TooMany
<1> QED
  BY <1>7, <1>9, <1>10

\* The archive that the update made of a directory is there and whole.
BackedUp(d) == \E k \in DOMAIN archives : IsNamed(archives[k], d, made[d]) /\ archives[k].whole
WholeInv == at = "prune" => BackedUp(dir)

LEMMA WholeInvNext ==
  ASSUME archiveRetention > 1, TypeOK, OrderInv, CopyInv, WholeInv, [Next]_vars
  PROVE  WholeInv'
<1> SUFFICES ASSUME at' = "prune"
             PROVE  \E i \in DOMAIN archives' : /\ IsNamed(archives'[i], dir', made'[dir'])
                                                /\ archives'[i].whole
  BY DEF WholeInv, BackedUp
<1>1. CASE Copied
  <2>1. PICK k \in DOMAIN archives :
          /\ Mine(k)
          /\ \E i \in DOMAIN archives' : SameName(archives'[i], archives[k]) /\ archives'[i].whole
    BY <1>1, CopiedTouches
  <2>2. UNCHANGED <<dir, made>>
    BY <1>1 DEF Copied, Goto, memory
  <2> QED
    BY <2>1, <2>2 DEF Mine, IsNamed, SameName
<1>2. CASE Prune
  <2>1. PICK k \in DOMAIN archives : Oldest(k) /\ KeptBut(k)
    BY <1>2, PruneTouches DEF Touches
  <2>2. UNCHANGED <<dir, made>> /\ at = "prune" /\ TooMany
    BY <1>2 DEF Prune, Goto, memory
  <2>3. PICK m \in DOMAIN archives : IsNamed(archives[m], dir, made[dir]) /\ archives[m].whole
    BY <2>2 DEF WholeInv, BackedUp
  <2>4. m # k
    BY <2>1, <2>2, <2>3, OldestIsNotMine DEF CopyInv, IsNamed
  <2>5. PICK i \in DOMAIN archives' : archives'[i] = archives[m]
    BY <2>1, <2>4 DEF KeptBut
  <2> QED
    BY <2>2, <2>3, <2>5
<1>3. CASE ~ArchiveActions
  <2>1. UNCHANGED <<at, dir, made, archives>>
    BY <1>3, ArchiveFrame
  <2> QED
    BY <2>1 DEF WholeInv, BackedUp
<1>4. CASE MakeArchive \/ MakeArchiveFails \/ Copy \/ CopyFails \/ PruneFails
  <2>1. at' \in {"copy", "idle"}
    BY <1>4 DEF MakeArchive, MakeArchiveFails, Copy, CopyFails, PruneFails, Finish
  <2> QED
    BY <2>1
<1> QED
  BY <1>1, <1>2, <1>3, <1>4 DEF ArchiveActions

-----------------------------------------------------------------------------
(* What an update does to the archives it did not make.                       *)

\* Whatever call works on the archives of one directory, those of the other stay.
LEMMA OthersStay ==
  ASSUME TypeOK, [Next]_vars, NEW d, d # dir, NEW j \in Of(d)
  PROVE  \E i \in DOMAIN archives' : archives'[i] = archives[j]
<1>1. j \in DOMAIN archives /\ archives[j].dir = d
  BY DEF Of
<1>2. ASSUME NEW k \in DOMAIN archives, archives[k].dir = dir, KeptBut(k)
      PROVE  \E i \in DOMAIN archives' : archives'[i] = archives[j]
  <2>1. j # k
    BY <1>1, <1>2
  <2> QED
    BY <1>1, <1>2, <2>1 DEF KeptBut
<1>3. CASE MakeArchive
  <2>1. PICK s \in Nat : Appended(s) \/ Reused(s)
    BY <1>3, MakeArchiveMakes
  <2>2. CASE Appended(s)
    <3>1. Len(archives) \in Nat /\ DOMAIN archives = 1..Len(archives)
      BY Positions DEF TypeOK
    <3>2. j \in DOMAIN archives' /\ archives'[j] = archives[j]
      BY <1>1, <2>2, <3>1 DEF Appended
    <3> QED
      BY <3>2
  <2>3. CASE Reused(s)
    BY <1>2, <2>3 DEF Reused, IsNamed
  <2> QED
    BY <2>1, <2>2, <2>3
<1>4. CASE (Copy \/ CopyFails) /\ ~UNCHANGED archives
  BY <1>2, <1>4, CopyTouches DEF Touches
<1>5. CASE (Copy \/ CopyFails) /\ UNCHANGED archives
  BY <1>1, <1>5
<1>6. CASE Copied
  BY <1>2, <1>6, CopiedTouches DEF Touches
<1>7. CASE Prune
  BY <1>2, <1>7, PruneTouches DEF Touches
<1>8. CASE PruneFails
  BY <1>2, <1>8, PruneFailsTouches DEF Touches
<1>9. CASE MakeArchiveFails \/ ~ArchiveActions
  <2>1. UNCHANGED archives
    BY <1>9, ArchiveFrame DEF MakeArchiveFails
  <2> QED
    BY <1>1, <2>1
<1> QED
  BY <1>3, <1>4, <1>5, <1>6, <1>7, <1>8, <1>9 DEF ArchiveActions

\* OtherArchivesKept: a backup of one directory never removes or spoils an archive of
\* the other, whatever calls fail.
THEOREM OtherArchivesKeptAlways == Spec => OtherArchivesKept
<1>1. ASSUME TypeOK, [Next]_vars
      PROVE  \A d \in Dir \ {dir} :
               {archives[k] : k \in {j \in DOMAIN archives : archives[j].dir = d}}
                 \subseteq {archives'[k] : k \in DOMAIN archives'}
  <2> SUFFICES ASSUME NEW d \in Dir \ {dir}, NEW j \in Of(d)
               PROVE  \E i \in DOMAIN archives' : archives'[i] = archives[j]
    BY DEF Of
  <2> QED
    BY <1>1, OthersStay
<1>2. TypeOK /\ [Next]_vars =>
        [\A d \in Dir \ {dir} :
               {archives[k] : k \in {j \in DOMAIN archives : archives[j].dir = d}}
                 \subseteq {archives'[k] : k \in DOMAIN archives'}]_vars
  BY <1>1
<1> QED
  BY <1>2, UpdateTypeCorrect, PTL DEF Spec, OtherArchivesKept

\* The archives in good order: with more than one archive kept, an invariant.
BackupInv == ArchiveInv /\ CopyInv /\ OrderInv /\ WholeInv

LEMMA BackupInvAlways ==
  ASSUME archiveRetention > 1
  PROVE  Spec => [](TypeOK /\ BackupInv)
<1>1. Init => TypeOK /\ BackupInv
  <2> SUFFICES ASSUME Init PROVE BackupInv
    BY TypeInit
  <2>1. now = 2 /\ at = "idle" /\ \A k \in DOMAIN archives : FALSE
    BY DEF Init
  <2>2. \A d \in Dir : made[d] = 0
    BY DEF Init
  <2> QED
    BY <2>1, <2>2 DEF BackupInv, ArchiveInv, CopyInv, OrderInv, WholeInv
<1>2. (TypeOK /\ BackupInv) /\ [Next]_vars => (TypeOK /\ BackupInv)'
  <2> SUFFICES ASSUME TypeOK, BackupInv, [Next]_vars PROVE TypeOK' /\ BackupInv'
    OBVIOUS
  <2>1. TypeOK'
    BY TypeNext
  <2>2. ArchiveInv' /\ CopyInv' /\ OrderInv' /\ WholeInv'
    BY <2>1, ArchiveInvNext, CopyInvNext, OrderInvNext, WholeInvNext DEF BackupInv
  <2> QED
    BY <2>1, <2>2 DEF BackupInv
<1> QED
  BY <1>1, <1>2, PTL DEF Spec

\* The step that NewestWholeKept speaks of.
LEMMA NewestStep ==
  ASSUME archiveRetention > 1, TypeOK, BackupInv, [Next]_vars,
         NEW d \in Dir, NEW j \in Of(d), archives[j].whole
  PROVE  \/ \E i \in DOMAIN archives' :
              archives'[i].dir = d /\ archives'[i].whole /\ archives'[i].second >= archives[j].second
         \/ made'[d] = archives[j].second /\ at = "mkdir"
<1>1. /\ j \in DOMAIN archives /\ archives[j].dir = d /\ archives[j].second \in Nat
      /\ archives[j].second >= archives[j].second
  BY Positions DEF Of, TypeOK, Archive
<1>2. ASSUME \E i \in DOMAIN archives' : archives'[i] = archives[j]
      PROVE  \E i \in DOMAIN archives' :
               archives'[i].dir = d /\ archives'[i].whole /\ archives'[i].second >= archives[j].second
  BY <1>1, <1>2
<1>3. ASSUME NEW k \in DOMAIN archives, KeptBut(k), Oldest(k), at = "prune", TooMany
      PROVE  \E i \in DOMAIN archives' :
               archives'[i].dir = d /\ archives'[i].whole /\ archives'[i].second >= archives[j].second
  <2>1. CASE j # k
    BY <1>1, <1>2, <1>3, <2>1 DEF KeptBut
  <2>2. CASE j = k
    <3>1. PICK m \in DOMAIN archives : IsNamed(archives[m], dir, made[dir]) /\ archives[m].whole
      BY <1>3 DEF BackupInv, WholeInv, BackedUp
    <3>2. m # k
      BY <1>3, <3>1, OldestIsNotMine DEF BackupInv, CopyInv, IsNamed
    <3>3. PICK i \in DOMAIN archives' : archives'[i] = archives[m]
      BY <1>3, <3>1, <3>2 DEF KeptBut
    <3>4. archives[m].dir = d
      BY <1>1, <1>3, <2>2, <3>1 DEF Oldest, Matching, IsNamed
    <3>5. archives[m].second = now \div 2 /\ archives[j].second <= now \div 2
      BY <1>1, <1>3, <3>1 DEF BackupInv, CopyInv, ArchiveInv, IsNamed
    <3>6. archives[m].second \in Nat
      BY <3>1, Positions DEF TypeOK, Archive
    <3>7. archives[m].second >= archives[j].second
      BY <1>1, <3>5, <3>6
    <3> QED
      BY <3>1, <3>3, <3>4, <3>7
  <2> QED
    BY <2>1, <2>2
<1>4. CASE MakeArchive
  <2>1. PICK s \in Nat : made' = [made EXCEPT ![dir] = s] /\ (Appended(s) \/ Reused(s))
    BY <1>4, MakeArchiveMakes
  <2>2. CASE Appended(s)
    <3>1. Len(archives) \in Nat /\ DOMAIN archives = 1..Len(archives)
      BY Positions DEF TypeOK
    <3>2. j \in DOMAIN archives' /\ archives'[j] = archives[j]
      BY <1>1, <2>2, <3>1 DEF Appended
    <3> QED
      BY <1>2, <3>2
  <2>3. CASE Reused(s)
    <3>1. PICK k \in DOMAIN archives : IsNamed(archives[k], dir, s) /\ KeptBut(k)
      BY <2>3 DEF Reused
    <3>2. CASE j # k
      BY <1>1, <1>2, <3>1, <3>2 DEF KeptBut
    <3>3. CASE j = k
      <4>1. d = dir /\ s = archives[j].second
        BY <1>1, <3>1, <3>3 DEF IsNamed
      <4>2. made'[d] = s
        BY <2>1, <4>1 DEF TypeOK
      <4> QED
        BY <1>4, <4>1, <4>2 DEF MakeArchive
    <3> QED
      BY <3>2, <3>3
  <2> QED
    BY <2>1, <2>2, <2>3
<1>5. CASE (Copy \/ CopyFails) /\ ~UNCHANGED archives
  <2>1. PICK k \in DOMAIN archives : KeptBut(k) /\ \E i \in DOMAIN archives' : archives'[i] = archives[k]
    BY <1>5, CopyTouches DEF Touches
  <2> QED
    BY <1>1, <1>2, <2>1 DEF KeptBut
<1>6. CASE (Copy \/ CopyFails) /\ UNCHANGED archives
  BY <1>1, <1>2, <1>6
<1>7. CASE Copied
  <2>1. PICK k \in DOMAIN archives :
          /\ KeptBut(k)
          /\ \E i \in DOMAIN archives' : SameName(archives'[i], archives[k]) /\ archives'[i].whole
    BY <1>7, CopiedTouches DEF Touches
  <2>2. CASE j # k
    BY <1>1, <1>2, <2>1, <2>2 DEF KeptBut
  <2>3. CASE j = k
    BY <1>1, <2>1, <2>3 DEF SameName
  <2> QED
    BY <2>2, <2>3
<1>8. CASE Prune
  BY <1>3, <1>8, PruneTouches DEF Prune, Touches
<1>9. CASE PruneFails
  BY <1>3, <1>9, PruneFailsTouches DEF PruneFails, Touches
<1>10. CASE MakeArchiveFails \/ ~ArchiveActions
  <2>1. UNCHANGED archives
    BY <1>10, ArchiveFrame DEF MakeArchiveFails
  <2> QED
    BY <1>1, <1>2, <2>1
<1> QED
  BY <1>4, <1>5, <1>6, <1>7, <1>8, <1>9, <1>10 DEF ArchiveActions

\* NewestWholeKept: where more than one archive is kept, a directory that has a whole
\* archive keeps its newest until there is a newer one, whatever calls fail and however
\* often the update is broken off and run again.
THEOREM NewestWholeKeptAlways ==
  ASSUME archiveRetention > 1
  PROVE  Spec => NewestWholeKept
<1>1. ASSUME TypeOK, BackupInv, [Next]_vars
      PROVE  \A d \in Dir : \A s \in Whole(d) :
               \/ \E t \in Whole(d)' : t >= s
               \/ made'[d] = s /\ at = "mkdir"
  <2> SUFFICES ASSUME NEW d \in Dir, NEW s \in Whole(d)
               PROVE  \/ \E t \in Whole(d)' : t >= s
                      \/ made'[d] = s /\ at = "mkdir"
    OBVIOUS
  <2>1. PICK j \in Of(d) : archives[j].whole /\ s = archives[j].second
    BY DEF Whole, Of
  <2>2. CASE made'[d] = archives[j].second /\ at = "mkdir"
    BY <2>1, <2>2
  <2>3. CASE \E i \in DOMAIN archives' :
               archives'[i].dir = d /\ archives'[i].whole /\ archives'[i].second >= archives[j].second
    <3>1. PICK i \in DOMAIN archives' :
            archives'[i].dir = d /\ archives'[i].whole /\ archives'[i].second >= archives[j].second
      BY <2>3
    <3>2. archives'[i].second \in Whole(d)'
      BY <3>1 DEF Whole
    <3> QED
      BY <2>1, <3>1, <3>2
  <2> QED
    BY <1>1, <2>1, <2>2, <2>3, NewestStep
<1>2. TypeOK /\ BackupInv /\ [Next]_vars =>
        [\A d \in Dir : \A s \in Whole(d) :
           \/ \E t \in Whole(d)' : t >= s
           \/ made'[d] = s /\ at = "mkdir"]_vars
  BY <1>1
<1> QED
  BY <1>2, BackupInvAlways, PTL DEF Spec, NewestWholeKept

-----------------------------------------------------------------------------
(* What is archived before the executables are replaced.                     *)

\* The backup of d is over.
Later == {"restop", "unzip", "fetch", "snapclean", "extract", "rest"}
Over(d) == \/ at \in Later
           \/ d = "work" /\ (at = "clean" \/ (at \in {"mkdir", "copy", "prune"} /\ dir = "dd"))
Few(d) == Cardinality(Of(d)) <= archiveRetention

\* When it is, the archive asked for is made, whole and one of few; before, there is none.
DoneInv ==
  \A d \in Dir :
    /\ Over(d) /\ BacksUp(d) => made[d] # 0
    /\ ~Over(d) => made[d] = 0 \/ Working(d)
    /\ Over(d) /\ made[d] # 0 => BackedUp(d) /\ Few(d)

\* The archives of a directory are not touched by the backup of the other.
LEMMA OthersBackedUp ==
  ASSUME TypeOK, [Next]_vars, NEW d, d # dir, BackedUp(d), made'[d] = made[d]
  PROVE  BackedUp(d)'
<1>1. PICK k \in DOMAIN archives : IsNamed(archives[k], d, made[d]) /\ archives[k].whole
  BY DEF BackedUp
<1>2. k \in Of(d)
  BY <1>1 DEF Of, IsNamed
<1>3. PICK i \in DOMAIN archives' : archives'[i] = archives[k]
  BY <1>2, OthersStay
<1> QED
  BY <1>1, <1>3 DEF BackedUp

LEMMA OthersFew ==
  ASSUME TypeOK, TypeOK', MakeArchive \/ Copy \/ Copied \/ Prune, NEW d, d # dir, Few(d)
  PROVE  Few(d)'
<1>0. archives' \in Seq(Archive) /\ archives \in Seq(Archive)
  BY DEF TypeOK
<1>1. ASSUME NEW f, NEW k, Carried(f, k) PROVE Few(d)'
  <2>1. IsFiniteSet(Of(d)) /\ Cardinality(Of(d)') <= Cardinality(Of(d))
    BY <1>0, <1>1, CarriedFew
  <2>2. IsFiniteSet(Of(d)')
    <3>1. IsFiniteSet(1..Len(archives'))
      BY <1>0, LenProperties, FS_Interval
    <3> QED
      BY <1>0, <3>1, LenProperties, FS_Subset DEF Of
  <2>3. Cardinality(Of(d)') \in Nat /\ Cardinality(Of(d)) \in Nat
    BY <2>1, <2>2, FS_CardinalityType
  <2> QED
    BY <2>1, <2>3, BoundAssumption DEF Few
<1>2. ASSUME Of(d)' = Of(d) PROVE Few(d)'
  BY <1>2 DEF Few
<1>3. CASE MakeArchive
  <2>1. PICK s \in Nat : Appended(s) \/ Reused(s)
    BY <1>3, MakeArchiveMakes
  <2>2. CASE Appended(s)
    <3>1. Len(archives) \in Nat /\ DOMAIN archives = 1..Len(archives)
      BY Positions DEF TypeOK
    <3>2. Of(d)' = Of(d)
      BY <2>2, <3>1 DEF Appended, Of, IsNamed
    <3> QED
      BY <1>2, <3>2
  <2>3. CASE Reused(s)
    <3>1. Of(d)' = Of(d)
      BY <2>3 DEF Reused, Of, SameName
    <3> QED
      BY <1>2, <3>1
  <2> QED
    BY <2>1, <2>2, <2>3
<1>4. CASE Copy /\ ~UNCHANGED archives
  BY <1>1, <1>4, CopyTouches DEF Touches
<1>5. CASE Copy /\ UNCHANGED archives
  BY <1>2, <1>5 DEF Of
<1>6. CASE Copied \/ Prune
  BY <1>1, <1>6, CopiedTouches, PruneTouches DEF Touches
<1> QED
  BY <1>3, <1>4, <1>5, <1>6

\* What BacksUp says depends on the command line only.
LEMMA BacksUpStays == ASSUME UNCHANGED cmd, NEW d PROVE BacksUp(d)' = BacksUp(d)
BY DEF BacksUp, WithNode, target, flags

LEMMA DoneInvNext ==
  ASSUME TypeOK, TypeOK', ArchiveInv, CopyInv, CopyInv', WholeInv, DoneInv, [Next]_vars
  PROVE  DoneInv'
<1>0. dir \in Dir /\ dir' \in Dir /\ \A d \in Dir : made[d] \in Nat
  BY DEF TypeOK
<1>1. CASE at' \in {"idle", "confirm"}
  <2>1. \A d \in Dir : made'[d] = 0 /\ ~(Over(d)')
    BY <1>1 DEF CopyInv, Over, Later
  <2> QED
    BY <2>1 DEF DoneInv
<1>2. ASSUME at' = at, UNCHANGED <<dir, made, archives, cmd>> PROVE DoneInv'
  <2>1. ASSUME NEW d \in Dir
        PROVE  /\ Over(d)' = Over(d) /\ Working(d)' = Working(d) /\ BackedUp(d)' = BackedUp(d)
               /\ Few(d)' = Few(d) /\ made'[d] = made[d]
    BY <1>2 DEF Over, Working, BackedUp, Few, Of
  <2>2. ASSUME NEW d \in Dir PROVE BacksUp(d)' = BacksUp(d)
    BY <1>2, BacksUpStays
  <2> QED
    BY <2>1, <2>2 DEF DoneInv
<1>3. CASE Confirm \/ NothingToStop
  <2>1. Backup("work") /\ at = "confirm"
    BY <1>3 DEF Confirm, NothingToStop
  <2>2. \A d \in Dir : made'[d] = 0
    BY <2>1, BackupGoes DEF CopyInv, Dir
  <2>3. UNCHANGED cmd
    BY <2>1, BackupGoes DEF Dir
  <2>4. ASSUME NEW d \in Dir, Over(d)' PROVE ~(BacksUp(d)')
    <3>1. /\ "work" \in Dir /\ d \in {"work", "dd"}
      BY DEF Dir
    <3>2. \/ at' = "mkdir" /\ dir' = "work"
          \/ at' = "mkdir" /\ dir' = "dd" /\ ~BacksUp("work")
          \/ at' = "restop" /\ ~BacksUp("work") /\ ~BacksUp("dd")
      BY <2>1, <3>1, BackupGoes
    <3>3. ~BacksUp(d)
      BY <2>4, <3>1, <3>2 DEF Over, Later
    <3> QED
      BY <2>3, <3>3, BacksUpStays
  <2> QED
    BY <2>2, <2>4 DEF DoneInv
<1>4. CASE MakeArchive \/ ((Copy \/ Copied \/ Prune) /\ UNCHANGED made)
  <2>1. /\ at \in {"mkdir", "copy", "prune"} /\ at' \in {"copy", "prune"} /\ UNCHANGED <<dir, cmd>>
        /\ \A d \in Dir : d # dir => made'[d] = made[d]
    <3>1. CASE MakeArchive
      BY <3>1 DEF MakeArchive, TypeOK
    <3>2. CASE (Copy \/ Copied \/ Prune) /\ UNCHANGED made
      BY <3>2 DEF Copy, Copied, Prune, Goto
    <3> QED
      BY <1>4, <3>1, <3>2
  <2>2. SUFFICES ASSUME NEW d \in Dir
                 PROVE  /\ Over(d)' /\ BacksUp(d)' => made'[d] # 0
                        /\ ~(Over(d)') => made'[d] = 0 \/ Working(d)'
                        /\ Over(d)' /\ made'[d] # 0 => BackedUp(d)' /\ Few(d)'
    BY DEF DoneInv
  <2>3. /\ Over(d)' = Over(d)
        /\ Over(d) => d # dir
        /\ d = dir => Working(d)'
    BY <2>1 DEF Over, Later, Working, Dir
  <2>4. BacksUp(d)' = BacksUp(d)
    BY <2>1, BacksUpStays
  <2>5. CASE d = dir
    BY <2>3, <2>5
  <2>6. CASE d # dir
    <3>1. made'[d] = made[d] /\ ~Working(d)
      BY <2>1, <2>6 DEF Working
    <3>2. BackedUp(d) => BackedUp(d)'
      BY <2>6, <3>1, OthersBackedUp
    <3>3. Few(d) => Few(d)'
      BY <1>4, <2>6, OthersFew
    <3> QED
      BY <2>3, <2>4, <3>1, <3>2, <3>3 DEF DoneInv
  <2> QED
    BY <2>5, <2>6
<1>5. ASSUME Pruned PROVE made[dir] # 0 /\ BackedUp(dir) /\ Few(dir)
  <2>1. at = "prune" /\ ~TooMany
    BY <1>5 DEF Pruned
  <2>2. made[dir] # 0
    <3>1. made[dir] = now \div 2 /\ now \in Nat /\ now >= 2
      BY <2>1 DEF CopyInv, ArchiveInv, TypeOK
    <3>2. now \div 2 # 0
      BY <3>1
    <3> QED
      BY <3>1, <3>2
  <2>3. Matching = Of(dir)
    BY DEF Matching, Of
  <2>4. IsFiniteSet(Of(dir))
    <3>1. IsFiniteSet(1..Len(archives))
      BY Positions, FS_Interval DEF TypeOK
    <3> QED
      BY <3>1, Positions, FS_Subset DEF Of, TypeOK
  <2>5. Cardinality(Of(dir)) \in Nat /\ archiveRetention \in Nat
    BY <2>4, FS_CardinalityType, BoundAssumption
  <2>6. Few(dir)
    BY <2>1, <2>3, <2>5 DEF TooMany, Few
  <2> QED
    BY <2>1, <2>2, <2>6 DEF WholeInv
<1>6. CASE Pruned \/ ((Clean \/ CleanFails) /\ at' # "idle")
  <2>1. /\ at \in {"prune", "clean"} /\ UNCHANGED archives /\ (at = "clean" => dir = "work")
        /\ \/ at' = "clean" /\ dir' = dir /\ dir = "work" /\ UNCHANGED <<cmd, made>> /\ at = "prune"
           \/ Backup("dd") /\ dir = "work"
           \/ at' = "restop" /\ dir' = dir /\ dir = "dd" /\ UNCHANGED <<cmd, made>> /\ at = "prune"
    <3>1. CASE Pruned
      BY <1>0, <3>1 DEF Pruned, Goto, memory, store, Dir
    <3>2. CASE (Clean \/ CleanFails) /\ at' # "idle"
      BY <3>2 DEF Clean, CleanFails, Finish, store, CopyInv
    <3> QED
      BY <1>6, <3>1, <3>2
  <2>2. UNCHANGED <<cmd, made>>
    BY <2>1, BackupGoes DEF Dir
  <2>3. SUFFICES ASSUME NEW d \in Dir
                 PROVE  /\ Over(d)' /\ BacksUp(d) => made[d] # 0
                        /\ ~(Over(d)') => made[d] = 0
                        /\ Over(d)' /\ made[d] # 0 => BackedUp(d) /\ Few(d)
    <3>1. ASSUME NEW d \in Dir
          PROVE  BacksUp(d)' = BacksUp(d) /\ made'[d] = made[d]
      BY <2>2, BacksUpStays
    <3>2. ASSUME NEW d \in Dir
          PROVE  BackedUp(d)' = BackedUp(d) /\ Few(d)' = Few(d)
      BY <2>1, <2>2 DEF BackedUp, Few, Of
    <3> QED
      BY <2>3, <3>1, <3>2 DEF DoneInv
  <2>4. \/ at' = "clean" /\ dir = "work"
        \/ at' = "mkdir" /\ dir' = "dd" /\ dir = "work"
        \/ at' = "restop" /\ dir = "work" /\ ~BacksUp("dd")
        \/ at' = "restop" /\ dir = "dd"
    BY <2>1, BackupGoes DEF Dir
  <2>5. dir \in {"work", "dd"} /\ d \in {"work", "dd"}
    BY <1>0 DEF Dir
  <2>6. /\ Over(d)' /\ BacksUp(d) /\ d = "dd" => dir = "dd"
        /\ ~(Over(d)') => d = "dd" /\ dir = "work"
    BY <2>4, <2>5 DEF Over, Later
  <2>7. Over("work") \/ (at = "prune" /\ dir = "work")
    BY <2>1, <2>5 DEF Over
  <2>8. /\ dir = "dd" => at = "prune"
        /\ dir = "work" => ~Over("dd") /\ ~Working("dd")
    BY <2>1 DEF Over, Working, Later
  <2>9. at = "prune" => made[dir] # 0 /\ BackedUp(dir) /\ Few(dir)
    <3>1. at = "prune" => Pruned
      BY <1>6 DEF Clean, CleanFails
    <3> QED
      BY <1>5, <3>1
  <2>10. CASE d = "work"
    <3>1. BacksUp(d) => made[d] # 0
      BY <2>7, <2>9, <2>10 DEF DoneInv
    <3>2. made[d] # 0 => BackedUp(d) /\ Few(d)
      BY <2>7, <2>9, <2>10 DEF DoneInv
    <3> QED
      BY <2>6, <2>10, <3>1, <3>2
  <2>11. CASE d = "dd" /\ dir = "dd"
    <3>1. made[d] # 0 /\ BackedUp(d) /\ Few(d)
      BY <2>8, <2>9, <2>11
    <3> QED
      BY <2>6, <2>11, <3>1
  <2>12. CASE d = "dd" /\ dir = "work"
    <3>1. made[d] = 0
      BY <2>8, <2>12 DEF DoneInv
    <3> QED
      BY <2>6, <2>12, <3>1
  <2> QED
    BY <2>5, <2>10, <2>11, <2>12
<1>7. CASE StopAgain \/ Unzip \/ FetchSnapshot \/ CleanForSnapshot \/ ExtractSnapshot
  <2>1. at \in Later /\ at' \in Later /\ UNCHANGED <<made, archives, cmd>>
    BY <1>7 DEF StopAgain, Unzip, FetchSnapshot, CleanForSnapshot, ExtractSnapshot, Goto,
       memory, store, Later
  <2>2. ASSUME NEW d \in Dir
        PROVE  /\ Over(d)' /\ Over(d) /\ BackedUp(d)' = BackedUp(d) /\ Few(d)' = Few(d)
               /\ made'[d] = made[d]
    BY <2>1 DEF Over, BackedUp, Few, Of
  <2>3. ASSUME NEW d \in Dir PROVE BacksUp(d)' = BacksUp(d)
    BY <2>1, BacksUpStays
  <2> QED
    BY <2>2, <2>3 DEF DoneInv
<1>8. CASE Update \/ ConfirmFails \/ MakeArchiveFails \/ CopyFails \/ PruneFails
           \/ InstallRefused \/ UnzipFails \/ InstallRest \/ Interrupt
  <2>1. at' \in {"idle", "confirm"}
    BY <1>8 DEF Update, ConfirmFails, MakeArchiveFails, CopyFails, PruneFails,
       InstallRefused, UnzipFails, InstallRest, Interrupt, Finish
  <2> QED
    BY <1>1, <2>1
<1>9. CASE NodeStarts \/ NodeLoads \/ NodeWrites \/ NodeExits \/ UNCHANGED vars
  <2>1. UNCHANGED <<at, dir, made, archives, cmd>>
    BY <1>9 DEF NodeStarts, NodeLoads, NodeWrites, NodeExits, local, memory, store, vars
  <2> QED
    BY <1>2, <2>1
<1>10. Copy \/ Copied \/ Prune => UNCHANGED made
  BY DEF Copy, Copied, Prune, Goto, memory
<1>11. (Clean \/ CleanFails) /\ at' = "idle" => DoneInv'
  BY <1>1
<1> QED
  BY <1>3, <1>4, <1>6, <1>7, <1>8, <1>9, <1>10, <1>11 DEF Next, UpdateStep, Meanwhile

LEMMA DoneInvAlways ==
  ASSUME archiveRetention > 1
  PROVE  Spec => [](TypeOK /\ DoneInv)
<1>1. Init => DoneInv
  <2> SUFFICES ASSUME Init PROVE DoneInv
    OBVIOUS
  <2>1. \A d \in Dir : made[d] = 0 /\ ~Over(d)
    BY DEF Init, Over, Later
  <2> QED
    BY <2>1 DEF DoneInv
<1>2. (TypeOK /\ BackupInv) /\ (TypeOK /\ BackupInv)' /\ DoneInv /\ [Next]_vars => DoneInv'
  BY DoneInvNext DEF BackupInv
<1>3. Spec => [](TypeOK /\ BackupInv)
  BY BackupInvAlways
<1> QED
  BY <1>1, <1>2, <1>3, PTL DEF Spec

\* RetentionKeepsNewest: where more than one archive is kept, deleteOldArchives leaves
\* at most archiveRetention archives of a directory, and the one just made is among them,
\* whole.
THEOREM RetentionKeepsNewestAlways ==
  ASSUME archiveRetention > 1
  PROVE  Spec => []RetentionKeepsNewest
<1>1. TypeOK /\ DoneInv => RetentionKeepsNewest
  <2> SUFFICES ASSUME DoneInv, at \in {"clean", "restop", "unzip"}, NEW d \in Dir, made[d] # 0
               PROVE  /\ Cardinality(Of(d)) <= archiveRetention
                      /\ \E k \in Of(d) : archives[k].second = made[d] /\ archives[k].whole
    BY DEF RetentionKeepsNewest, Of
  <2>1. d \in {"work", "dd"} /\ ~Working(d)
    BY DEF Dir, Working
  <2>2. Over(d)
    BY <2>1 DEF DoneInv
  <2>3. BackedUp(d) /\ Few(d)
    BY <2>2 DEF DoneInv
  <2> QED
    BY <2>3 DEF BackedUp, Few, IsNamed, Of
<1> QED
  BY <1>1, DoneInvAlways, PTL

\* BackupBeforeInstall: where more than one archive is kept, no executable is replaced
\* before everything the command line asks to be backed up is in a whole archive.
THEOREM BackupBeforeInstallAlways ==
  ASSUME archiveRetention > 1
  PROVE  Spec => []BackupBeforeInstall
<1>1. TypeOK /\ DoneInv => BackupBeforeInstall
  <2> SUFFICES ASSUME DoneInv, at \in {"unzip", "fetch", "snapclean", "extract", "rest"},
                      NEW d \in Dir, BacksUp(d)
               PROVE  \E k \in DOMAIN archives : IsNamed(archives[k], d, made[d]) /\ archives[k].whole
    BY DEF BackupBeforeInstall
  <2>1. Over(d)
    BY DEF Over, Later
  <2>2. BackedUp(d)
    BY <2>1 DEF DoneInv
  <2> QED
    BY <2>2 DEF BackedUp
<1> QED
  BY <1>1, DoneInvAlways, PTL

-----------------------------------------------------------------------------
(* What --clean deletes.                                                     *)

\* While the working directory is archived and until it is cleaned, a node that stood
\* still keeps to be off, and what is to be copied is copied or on the list.
SavedInv == at \in {"copy", "prune", "clean"} /\ dir = "work" /\ ~dirty =>
              node = "off" /\ ToCopy \cap work \subseteq todo \cup copied

\* What is to be copied depends on the directory and on the command line.
LEMMA ToCopyStays ==
  ASSUME UNCHANGED <<work, dir, cmd>>
  PROVE  ToCopy' = ToCopy /\ Source' = Source
BY DEF ToCopy, All, Listed, ArchivedSubDirs, flags, Source

LEMMA SavedInvNext ==
  ASSUME "stop" \notin Failures, TypeOK, SavedInv, [Next]_vars
  PROVE  SavedInv'
<1> SUFFICES ASSUME at' \in {"copy", "prune", "clean"}, dir' = "work", ~(dirty')
             PROVE  node' = "off" /\ (ToCopy \cap work)' \subseteq todo' \cup copied'
  BY DEF SavedInv
<1>1. CASE MakeArchive
  <2>1. UNCHANGED <<work, dir, cmd, node>> /\ todo' = ToCopy /\ node = "off"
    BY <1>1 DEF MakeArchive
  <2> QED
    BY <2>1, ToCopyStays
<1>2. CASE Copy
  <2>1. UNCHANGED <<work, dir, cmd, node>> /\ at = "copy" /\ ~dirty
    BY <1>2 DEF Copy
  <2>2. node = "off" /\ ToCopy \cap work \subseteq todo \cup copied
    BY <2>1 DEF SavedInv
  <2>3. PICK i \in todo : todo' = todo \ {i} /\ ((i \notin Source /\ UNCHANGED copied)
                                                 \/ copied' = copied \cup {i})
    BY <1>2 DEF Copy
  <2>4. Source = work
    BY <2>1 DEF Source
  <2> QED
    BY <2>1, <2>2, <2>3, <2>4, ToCopyStays
<1>3. CASE Copied \/ Prune \/ Pruned
  <2>2. at \in {"copy", "prune"} /\ UNCHANGED <<node, work, todo, dir, cmd, copied, dirty>>
    <3>1. CASE Copied \/ Prune
      BY <3>1 DEF Copied, Prune, Goto, memory
    <3>2. CASE Pruned
      <4>1. ~Backup("dd")
        BY BackupGoes DEF Dir
      <4> QED
        BY <3>2, <4>1 DEF Pruned, Goto, memory
    <3> QED
      BY <1>3, <3>1, <3>2
  <2> QED
    BY <2>2, ToCopyStays DEF SavedInv
<1>4. CASE Update \/ Confirm \/ NothingToStop \/ ConfirmFails \/ MakeArchiveFails \/ CopyFails
           \/ PruneFails \/ Clean \/ CleanFails
  <2>1. at' \in {"idle", "confirm", "mkdir", "restop"}
    <3>1. \A d \in Dir : Backup(d) => at' \in {"mkdir", "restop"}
      BY BackupGoes
    <3>2. CASE Confirm \/ NothingToStop \/ Clean
      BY <3>1, <3>2 DEF Confirm, NothingToStop, Clean, Dir
    <3>3. CASE CleanFails
      BY <3>1, <3>3 DEF CleanFails, Finish, Dir
    <3>4. CASE Update \/ ConfirmFails \/ MakeArchiveFails \/ CopyFails \/ PruneFails
      BY <3>4 DEF Update, ConfirmFails, MakeArchiveFails, CopyFails, PruneFails, Finish
    <3> QED
      BY <1>4, <3>2, <3>3, <3>4
  <2> QED
    BY <2>1
<1>5. CASE StopAgain \/ InstallRefused \/ Unzip \/ UnzipFails \/ FetchSnapshot
           \/ CleanForSnapshot \/ ExtractSnapshot \/ InstallRest \/ Interrupt
  BY <1>5 DEF StopAgain, InstallRefused, Unzip, UnzipFails, FetchSnapshot,
     CleanForSnapshot, ExtractSnapshot, InstallRest, Interrupt, Goto, Finish
<1>6. CASE NodeStarts \/ NodeLoads \/ NodeWrites \/ NodeExits
  <2>1. UNCHANGED <<at, dir, dirty>>
    BY <1>6 DEF NodeStarts, NodeLoads, NodeWrites, NodeExits, local, memory
  <2>2. node = "off"
    BY <2>1 DEF SavedInv
  <2> QED
    BY <1>6, <2>1, <2>2 DEF NodeStarts, NodeLoads, NodeWrites, NodeExits
<1>7. CASE UNCHANGED vars
  BY <1>7, ToCopyStays DEF vars, SavedInv
<1> QED
  BY <1>1, <1>2, <1>3, <1>4, <1>5, <1>6, <1>7 DEF Next, UpdateStep, Meanwhile

\* CleanedIsSaved: where stopping pasteld does not fail, what --clean deletes of what the
\* backup was to copy has been copied by the same update.
THEOREM CleanedIsSavedAlways ==
  ASSUME "stop" \notin Failures
  PROVE  Spec => CleanedIsSaved
<1>1. Init => CopyInv /\ SavedInv
  BY DEF Init, CopyInv, SavedInv
<1>2. TypeOK /\ CopyInv /\ SavedInv /\ [Next]_vars => (CopyInv /\ SavedInv)'
  BY CopyInvNext, SavedInvNext
<1>3. TypeOK /\ CopyInv /\ SavedInv /\ [Next]_vars =>
        [at = "clean" /\ ~dirty => (work \ work') \cap ToCopy \subseteq copied]_vars
  BY DEF CopyInv, SavedInv
<1> QED
  BY <1>1, <1>2, <1>3, UpdateTypeCorrect, PTL DEF Spec, CleanedIsSaved
=============================================================================
