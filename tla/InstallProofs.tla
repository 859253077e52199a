----------------------------- MODULE InstallProofs -----------------------------
(***************************************************************************)
(* What install, update and uninstall keep to on a host, for any commands and  *)
(* any number of them, wherever they fail or are interrupted.                 *)
(*                                                                           *)
(* The lists of calls are concatenations; what is proved of them is kept by     *)
(* concatenation, and by dropping calls from the front.                       *)
(***************************************************************************)
EXTENDS Install, SequenceTheorems, TLAPS

-----------------------------------------------------------------------------
(* The lists of calls.                                                       *)

\* A call is about something of its kind.
PlannedCall ==
  [do : {"download", "delete", "config", "ask", "ask data", "purge", "packages"}, of : Tool]
    \cup [do : {"unzip", "chmod", "remove"}, of : Exec]
    \cup [do : {"folder"}, of : Folder] \cup [do : {"files"}, of : Checked]
    \cup [do : {"package"}, of : Package] \cup [do : {"system"}, of : SysFile]
    \cup [do : {"dir"}, of : {"exec"}]
    \cup [do : {"7z", "snapshot", "clean", "extract"}, of : {"none"}]

\* The working directory is cleaned after the snapshot was downloaded, and the snapshot
\* extracted after that; at the head of a list only if the snapshot is there (here).
Placed(s, here) ==
  \A i \in 1 .. Len(s) :
    /\ s[i].do = "clean" => IF i = 1 THEN here ELSE s[i-1].do = "snapshot"
    /\ s[i].do = "extract" => IF i = 1 THEN here ELSE s[i-1].do = "clean"
    /\ s[i].do = "snapshot" => i + 2 <= Len(s) /\ s[i+2].do = "extract"
    /\ s[i].do = "clean" => i + 1 <= Len(s) /\ s[i+1].do = "extract"

Plan(s) == s \in Seq(PlannedCall) /\ Placed(s, FALSE)

\* Two plans, one after the other, are a plan.
LEMMA ConcatPlan == \A s, t : Plan(s) /\ Plan(t) => Plan(s \o t)
<1> SUFFICES ASSUME NEW s, NEW t, Plan(s), Plan(t) PROVE Plan(s \o t)
  OBVIOUS
<1>1. s \in Seq(PlannedCall) /\ t \in Seq(PlannedCall)
  BY DEF Plan
<1>2. /\ s \o t \in Seq(PlannedCall) /\ Len(s \o t) = Len(s) + Len(t)
      /\ \A i \in 1 .. Len(s) + Len(t) : (s \o t)[i] = IF i <= Len(s) THEN s[i] ELSE t[i - Len(s)]
  BY <1>1, ConcatProperties
<1>3. Len(s) \in Nat /\ Len(t) \in Nat
  BY <1>1, LenProperties
<1> DEFINE u == s \o t
<1>4. ASSUME NEW i \in 1 .. Len(u)
      PROVE  /\ u[i].do = "clean" => i # 1 /\ u[i-1].do = "snapshot"
             /\ u[i].do = "extract" => i # 1 /\ u[i-1].do = "clean"
             /\ u[i].do = "snapshot" => i + 2 <= Len(u) /\ u[i+2].do = "extract"
             /\ u[i].do = "clean" => i + 1 <= Len(u) /\ u[i+1].do = "extract"
  <2>1. CASE i <= Len(s)
    <3>1. u[i] = s[i] /\ i \in 1 .. Len(s)
      BY <1>2, <1>3, <2>1
    <3>2. /\ s[i].do = "clean" => i # 1 /\ s[i-1].do = "snapshot"
          /\ s[i].do = "extract" => i # 1 /\ s[i-1].do = "clean"
          /\ s[i].do = "snapshot" => i + 2 <= Len(s) /\ s[i+2].do = "extract"
          /\ s[i].do = "clean" => i + 1 <= Len(s) /\ s[i+1].do = "extract"
      BY <3>1 DEF Plan, Placed
    <3>3. \A j \in 1 .. Len(s) : u[j] = s[j] /\ j <= Len(u)
      BY <1>2, <1>3
    <3> HIDE DEF u
    <3> QED
      BY <1>3, <3>1, <3>2, <3>3
  <2>2. CASE i > Len(s)
    <3> DEFINE j == i - Len(s)
    <3>1. u[i] = t[j] /\ j \in 1 .. Len(t)
      BY <1>2, <1>3, <2>2
    <3>2. /\ t[j].do = "clean" => j # 1 /\ t[j-1].do = "snapshot"
          /\ t[j].do = "extract" => j # 1 /\ t[j-1].do = "clean"
          /\ t[j].do = "snapshot" => j + 2 <= Len(t) /\ t[j+2].do = "extract"
          /\ t[j].do = "clean" => j + 1 <= Len(t) /\ t[j+1].do = "extract"
      BY <3>1 DEF Plan, Placed
    <3>3. \A k \in 1 .. Len(t) : u[k + Len(s)] = t[k] /\ k + Len(s) <= Len(u)
      BY <1>2, <1>3
    <3>4. (j - 1) + Len(s) = i - 1 /\ (j + 1) + Len(s) = i + 1 /\ (j + 2) + Len(s) = i + 2
      BY <1>3
    <3>5. ASSUME j # 1 PROVE u[i-1] = t[j-1]
      <4>1. j - 1 \in 1 .. Len(t)
        BY <1>3, <3>1, <3>5
      <4>2. u[(j - 1) + Len(s)] = t[j-1]
        BY <3>3, <4>1
      <4> QED
        BY <3>4, <4>2
    <3>6. j + 1 <= Len(t) => u[i+1] = t[j+1] /\ i + 1 <= Len(u)
      <4>1. ASSUME j + 1 <= Len(t) PROVE j + 1 \in 1 .. Len(t)
        BY <1>3, <3>1, <4>1
      <4> HIDE DEF u, j
      <4>2. ASSUME j + 1 <= Len(t)
            PROVE  u[(j + 1) + Len(s)] = t[j+1] /\ (j + 1) + Len(s) <= Len(u)
        BY <3>3, <4>1, <4>2
      <4> QED
        BY <3>4, <4>2
    <3>7. j + 2 <= Len(t) => u[i+2] = t[j+2] /\ i + 2 <= Len(u)
      <4>1. ASSUME j + 2 <= Len(t) PROVE j + 2 \in 1 .. Len(t)
        BY <1>3, <3>1, <4>1
      <4> HIDE DEF u, j
      <4>2. ASSUME j + 2 <= Len(t)
            PROVE  u[(j + 2) + Len(s)] = t[j+2] /\ (j + 2) + Len(s) <= Len(u)
        BY <3>3, <4>1, <4>2
      <4> QED
        BY <3>4, <4>2
    <3>8. j # 1 => i # 1
      BY <1>3, <2>2, <3>1
    <3> HIDE DEF u, j
    <3> QED
      BY <3>1, <3>2, <3>5, <3>6, <3>7, <3>8
  <2> QED
    BY <1>2, <1>3, <2>1, <2>2
<1> QED
  BY <1>2, <1>4 DEF Plan, Placed

LEMMA EmptyPlan == Plan(<<>>)
BY DEF Plan, Placed

\* One call that has nothing to do with the snapshot is a plan.
LEMMA OnePlan ==
  ASSUME NEW do, NEW of, [do |-> do, of |-> of] \in PlannedCall,
         do \notin {"snapshot", "clean", "extract"}
  PROVE  Plan(Call(do, of))
<1>1. Call(do, of) \in Seq(PlannedCall) /\ Len(Call(do, of)) = 1
      /\ Call(do, of)[1] = [do |-> do, of |-> of]
  BY DEF Call
<1> QED
  BY <1>1 DEF Plan, Placed

LEMMA WhenPlan == \A c, s : Plan(s) => Plan(When(c, s))
BY EmptyPlan DEF When

\* What is left of a list when its first calls are done.
LEMMA SkipPlaced ==
  ASSUME NEW s \in Seq(PlannedCall), NEW n \in 1 .. 3, NEW b, NEW c, Placed(s, b),
         n < Len(s) /\ s[n+1].do \in {"clean", "extract"} => c
  PROVE  SubSeq(s, n + 1, Len(s)) \in Seq(PlannedCall) /\ Placed(SubSeq(s, n + 1, Len(s)), c)
<1> DEFINE t == SubSeq(s, n + 1, Len(s))
<1>1. Len(s) \in Nat /\ \A i \in 1 .. Len(s) : s[i] \in PlannedCall
  BY LenProperties, ElementOfSeq
<1>2. /\ t \in Seq(PlannedCall)
      /\ Len(t) = IF n + 1 <= Len(s) THEN Len(s) - n ELSE 0
      /\ \A i \in 1 .. Len(s) - n : t[i] = s[n + i]
  <2>1. /\ t \in Seq(PlannedCall)
        /\ Len(t) = IF n + 1 <= Len(s) THEN Len(s) - (n + 1) + 1 ELSE 0
        /\ \A i \in 1 .. Len(s) - (n + 1) + 1 : t[i] = s[(n + 1) + i - 1]
    BY <1>1, SubSeqProperties
  <2>2. \A i \in Int : (n + 1) + i - 1 = n + i
    OBVIOUS
  <2> HIDE DEF t
  <2> QED
    BY <1>1, <2>1, <2>2
<1>3. ASSUME NEW i \in 1 .. Len(t)
      PROVE  /\ t[i].do = "clean" => IF i = 1 THEN c ELSE t[i-1].do = "snapshot"
             /\ t[i].do = "extract" => IF i = 1 THEN c ELSE t[i-1].do = "clean"
             /\ t[i].do = "snapshot" => i + 2 <= Len(t) /\ t[i+2].do = "extract"
             /\ t[i].do = "clean" => i + 1 <= Len(t) /\ t[i+1].do = "extract"
  <2> DEFINE k == n + i
  <2>0. Len(t) = Len(s) - n /\ n < Len(s) /\ i \in 1 .. Len(s) - n
    <3> HIDE DEF t
    <3> QED
      BY <1>1, <1>2
  <2>1. /\ k \in 2 .. Len(s) /\ t[i] = s[k] /\ Len(t) = Len(s) - n /\ n < Len(s)
        /\ i # 1 => t[i-1] = s[k-1]
        /\ i + 1 <= Len(t) <=> k + 1 <= Len(s)
        /\ i + 2 <= Len(t) <=> k + 2 <= Len(s)
    <3> HIDE DEF t
    <3>1. t[i] = s[k]
      BY <1>2, <2>0
    <3>2. ASSUME i # 1 PROVE t[i-1] = s[k-1]
      <4>1. i - 1 \in 1 .. Len(s) - n /\ n + (i - 1) = k - 1
        BY <1>1, <2>0, <3>2
      <4> QED
        BY <1>2, <4>1
    <3>3. /\ k \in 2 .. Len(s)
          /\ i + 1 <= Len(t) <=> k + 1 <= Len(s)
          /\ i + 2 <= Len(t) <=> k + 2 <= Len(s)
      BY <1>1, <2>0
    <3> QED
      BY <2>0, <3>1, <3>2, <3>3
  <2>2. /\ k + 1 <= Len(s) => t[i+1] = s[k+1]
        /\ k + 2 <= Len(s) => t[i+2] = s[k+2]
    <3> HIDE DEF t
    <3> QED
      BY <1>1, <1>2, <2>1
  <2>3. /\ s[k].do = "clean" => s[k-1].do = "snapshot"
        /\ s[k].do = "extract" => s[k-1].do = "clean"
        /\ s[k].do = "snapshot" => k + 2 <= Len(s) /\ s[k+2].do = "extract"
        /\ s[k].do = "clean" => k + 1 <= Len(s) /\ s[k+1].do = "extract"
    <3>1. k \in 1 .. Len(s) /\ k # 1
      <4> HIDE DEF k
      <4> QED
        BY <1>1, <2>1
    <3> QED
      BY <3>1 DEF Placed
  <2>4. i = 1 => k = n + 1
    OBVIOUS
  <2> HIDE DEF t, k
  <2> QED
    BY <2>1, <2>2, <2>3, <2>4
<1> QED
  BY <1>2, <1>3 DEF Placed

-----------------------------------------------------------------------------
(* What the commands plan.                                                   *)

\* The calls by themselves.
LEMMA Calls1 ==
  /\ \A t \in Tool : /\ Plan(Call("download", t)) /\ Plan(Call("delete", t))
                      /\ Plan(Call("config", t)) /\ Plan(Call("packages", t))
                      /\ Plan(Call("ask", t)) /\ Plan(Call("ask data", t))
                      /\ Plan(Call("purge", t)) /\ Plan(PurgeOf(t))
  /\ \A f \in Exec : Plan(Call("chmod", f)) /\ Plan(Call("remove", f))
  /\ \A d \in Folder : Plan(Call("folder", d))
  /\ \A f \in Checked : Plan(Call("files", f))
  /\ \A q \in Package : Plan(Call("package", q))
  /\ Plan(Call("dir", "exec")) /\ Plan(Call("7z", "none"))
<1>1. ASSUME NEW t \in Tool,
             NEW do \in {"download", "delete", "config", "packages", "ask", "ask data", "purge"}
      PROVE  Plan(Call(do, t))
  <2>1. [do |-> do, of |-> t] \in PlannedCall
    BY DEF PlannedCall
  <2> QED
    BY <2>1, OnePlan
<1>2. ASSUME NEW f \in Exec, NEW do \in {"chmod", "remove"} PROVE Plan(Call(do, f))
  <2>1. [do |-> do, of |-> f] \in PlannedCall
    BY DEF PlannedCall
  <2> QED
    BY <2>1, OnePlan
<1>3. ASSUME NEW d \in Folder PROVE Plan(Call("folder", d))
  BY OnePlan DEF PlannedCall
<1>4. ASSUME NEW f \in Checked PROVE Plan(Call("files", f))
  BY OnePlan DEF PlannedCall
<1>5. ASSUME NEW q \in Package PROVE Plan(Call("package", q))
  BY OnePlan DEF PlannedCall
<1>6. Plan(Call("dir", "exec")) /\ Plan(Call("7z", "none"))
  BY OnePlan DEF PlannedCall
<1> QED
  BY <1>1, <1>2, <1>3, <1>4, <1>5, <1>6 DEF PurgeOf

\* The tools, folders and files the plans name.
LEMMA Named ==
  /\ {PastelD, RQService, DDService, SuperNode, WalletNode, Hermes} = Tool
  /\ Tool \cup {"pastel-cli"} = Exec
  /\ {"work", "params", "rqfiles", "p2pdata", "dd"} \subseteq Folder
  /\ {"params", "dd support"} \subseteq Checked
  /\ {"chrome", "venv", "ports"} \subseteq Package
BY DEF Tool, ToolType, PastelD, RQService, DDService, DDImgService, SuperNode, WalletNode, Hermes,
       Bridge, Exec, Folder, Checked, Package

\* The archive of a tool is unpacked file by file.
LEMMA GetPlan == ASSUME NEW t \in Tool PROVE Plan(Get(t))
<1> DEFINE unzips == [i \in 1 .. Len(Execs[t]) |-> [do |-> "unzip", of |-> Execs[t][i]]]
<1>1. /\ Len(Execs[t]) \in Nat /\ \A i \in 1 .. Len(Execs[t]) : Execs[t][i] \in Exec
  <2>1. CASE t = PastelD
    <3>1. Execs[t] = <<PastelD, "pastel-cli">>
      BY <2>1 DEF Execs
    <3> DEFINE x == <<PastelD, "pastel-cli">>
    <3>2. Len(x) = 2 /\ x[1] = PastelD /\ x[2] = "pastel-cli"
      OBVIOUS
    <3>3. PastelD \in Exec /\ "pastel-cli" \in Exec
      BY Named
    <3> HIDE DEF x
    <3>4. Len(x) \in Nat /\ \A i \in 1 .. Len(x) : x[i] \in Exec
      BY <3>2, <3>3
    <3> QED
      BY <3>1, <3>4 DEF x
  <2>2. CASE t # PastelD
    <3>1. Execs[t] = <<t>>
      BY <2>2 DEF Execs
    <3>2. t \in Exec
      BY Named
    <3>3. Len(<<t>>) \in Nat /\ \A i \in 1 .. Len(<<t>>) : <<t>>[i] \in Exec
      BY <3>2
    <3> QED
      BY <3>1, <3>3
  <2> QED
    BY <2>1, <2>2
<1>2. \A i \in 1 .. Len(Execs[t]) : [do |-> "unzip", of |-> Execs[t][i]] \in PlannedCall
  BY <1>1 DEF PlannedCall
<1>3. unzips \in Seq(PlannedCall) /\ Len(unzips) = Len(Execs[t])
  BY <1>1, <1>2, SeqDef
<1>4. Plan(unzips)
  BY <1>1, <1>3 DEF Plan, Placed
<1> HIDE DEF unzips
<1>5. Plan(Call("download", t)) /\ Plan(unzips \o Call("delete", t))
  BY <1>4, Calls1, ConcatPlan
<1> QED
  BY <1>5, WhenPlan, ConcatPlan DEF Get, unzips

LEMMA SnapshotPlan == Plan(LatestSnapshot)
<1> DEFINE a == Call("snapshot", "none")
           b == Call("clean", "none")
           e == Call("extract", "none")
<1>1. /\ a \in Seq(PlannedCall) /\ Len(a) = 1 /\ a[1].do = "snapshot"
      /\ b \in Seq(PlannedCall) /\ Len(b) = 1 /\ b[1].do = "clean"
      /\ e \in Seq(PlannedCall) /\ Len(e) = 1 /\ e[1].do = "extract"
  BY DEF Call, PlannedCall
<1> HIDE DEF a, b, e
<1>2. a \o b \in Seq(PlannedCall) /\ Len(a \o b) = 2 /\ (a \o b)[1] = a[1] /\ (a \o b)[2] = b[1]
  <2>1. /\ a \o b \in Seq(PlannedCall) /\ Len(a \o b) = Len(a) + Len(b)
        /\ \A i \in 1 .. Len(a) + Len(b) : (a \o b)[i] = IF i <= Len(a) THEN a[i] ELSE b[i - Len(a)]
    BY <1>1, ConcatProperties
  <2> QED
    BY <1>1, <2>1
<1> DEFINE ab == a \o b
<1> HIDE DEF ab
<1>3. /\ ab \o e \in Seq(PlannedCall) /\ Len(ab \o e) = 3
      /\ (ab \o e)[1] = ab[1] /\ (ab \o e)[2] = ab[2] /\ (ab \o e)[3] = e[1]
  BY <1>1, <1>2, ConcatProperties DEF ab
<1>4. Plan(ab \o e)
  BY <1>1, <1>2, <1>3 DEF Plan, Placed, ab
<1> QED
  BY <1>4 DEF LatestSnapshot, ab, a, b, e

LEMMA CorePlan == ASSUME NEW c PROVE Plan(Core(c))
<1>1. Plan(BaseEnvironment)
  BY Calls1, Named, ConcatPlan DEF BaseEnvironment
<1>2. Plan(Get(PastelD)) /\ Plan(Call("chmod", PastelD)) /\ Plan(Call("chmod", "pastel-cli"))
  BY GetPlan, Calls1, Named
<1> QED
  BY <1>1, <1>2, SnapshotPlan, WhenPlan, ConcatPlan DEF Core

LEMMA RaptorQPlan == ASSUME NEW c PROVE Plan(RaptorQ(c))
<1>1. /\ Plan(Get(RQService)) /\ Plan(Call("chmod", RQService)) /\ Plan(Call("folder", "rqfiles"))
      /\ Plan(Call("config", RQService))
  BY GetPlan, Calls1, Named
<1> QED
  BY <1>1, WhenPlan, ConcatPlan DEF RaptorQ

LEMMA OneToolPlan == ASSUME NEW c, NEW t \in Tool PROVE Plan(One(c, t))
<1>1. Plan(Get(t)) /\ Plan(Call("chmod", t)) /\ Plan(Call("config", t))
  BY GetPlan, Calls1, Named
<1> QED
  BY <1>1, WhenPlan, ConcatPlan DEF One

LEMMA SuperNodesPlan == ASSUME NEW c PROVE Plan(SuperNodes(c))
<1> DEFINE limits == [i \in DOMAIN SysFiles |-> [do |-> "system", of |-> SysFiles[i]]]
<1>1. DOMAIN SysFiles = 1 .. Len(SysFiles) /\ Len(SysFiles) \in Nat
  BY ReleaseAssumption, LenProperties
<1>2. \A i \in DOMAIN SysFiles : [do |-> "system", of |-> SysFiles[i]] \in PlannedCall
  BY DEF PlannedCall, SysFile
<1>3. limits \in Seq(PlannedCall) /\ Len(limits) = Len(SysFiles)
  BY <1>1, <1>2, SeqDef
<1>4. Plan(limits)
  BY <1>1, <1>3 DEF Plan, Placed
<1> HIDE DEF limits
<1>5. /\ Plan(Get(SuperNode)) /\ Plan(Get(Hermes)) /\ Plan(Call("chmod", SuperNode))
      /\ Plan(Call("chmod", Hermes)) /\ Plan(Call("config", SuperNode) \o Call("config", Hermes))
      /\ Plan(Call("folder", "p2pdata"))
  BY GetPlan, Calls1, Named, ConcatPlan
<1>6. Plan(Call("package", "ports") \o limits)
  BY <1>4, Calls1, Named, ConcatPlan
<1> QED
  BY <1>5, <1>6, WhenPlan, ConcatPlan DEF SuperNodes, limits

LEMMA DupeDetectionPlan == ASSUME NEW c PROVE Plan(DupeDetection(c))
<1>1. /\ Plan(Get(DDService)) /\ Plan(Call("package", "chrome")) /\ Plan(Call("package", "venv"))
      /\ Plan(Call("folder", "dd")) /\ Plan(Call("files", "dd support"))
      /\ Plan(Call("config", DDService))
  BY GetPlan, Calls1, Named
<1> QED
  BY <1>1, WhenPlan, ConcatPlan DEF DupeDetection

\* Every list of an installation is a plan that begins with the look at the directory.
LEMMA InstallsPlan ==
  ASSUME NEW c \in Command
  PROVE  Plan(Installs(c)) /\ Installs(c) # <<>> /\ Head(Installs(c)) = [do |-> "dir", of |-> "exec"]
<1> DEFINE rest ==
      CASE c.tool = PastelD   -> Core(c)
        [] c.tool = RQService -> RaptorQ(c)
        [] c.tool = WalletNode -> When(c.deps, Core(c) \o RaptorQ(c)) \o One(c, WalletNode)
             \o Call("7z", "none")
        [] c.tool = SuperNode ->
             When(c.deps, Core(c) \o RaptorQ(c)) \o SuperNodes(c) \o When(c.deps, DupeDetection(c))
        [] c.tool = DDService -> DupeDetection(c)
        [] c.tool = Hermes    -> One(c, Hermes)
<1>1. c.tool \in Tool
  BY DEF Command
<1>2. Plan(Core(c) \o RaptorQ(c)) /\ Plan(Core(c)) /\ Plan(RaptorQ(c))
  BY CorePlan, RaptorQPlan, ConcatPlan
<1>3. /\ Plan(When(c.deps, Core(c) \o RaptorQ(c)) \o One(c, WalletNode) \o Call("7z", "none"))
      /\ Plan(When(c.deps, Core(c) \o RaptorQ(c)) \o SuperNodes(c) \o When(c.deps, DupeDetection(c)))
      /\ Plan(DupeDetection(c)) /\ Plan(One(c, Hermes))
  <2>1. Plan(When(c.deps, Core(c) \o RaptorQ(c))) /\ Plan(When(c.deps, DupeDetection(c)))
    BY <1>2, DupeDetectionPlan, WhenPlan
  <2> QED
    BY <2>1, OneToolPlan, SuperNodesPlan, DupeDetectionPlan, Calls1, Named, ConcatPlan
<1>4. Plan(rest)
  <2>1. CASE c.tool = PastelD
    BY <1>2, <2>1 DEF PastelD, RQService, WalletNode, SuperNode, DDService, Hermes
  <2>2. CASE c.tool = RQService
    BY <1>2, <2>2 DEF PastelD, RQService, WalletNode, SuperNode, DDService, Hermes
  <2>3. CASE c.tool = WalletNode
    BY <1>3, <2>3 DEF PastelD, RQService, WalletNode, SuperNode, DDService, Hermes
  <2>4. CASE c.tool = SuperNode
    BY <1>3, <2>4 DEF PastelD, RQService, WalletNode, SuperNode, DDService, Hermes
  <2>5. CASE c.tool = DDService
    BY <1>3, <2>5 DEF PastelD, RQService, WalletNode, SuperNode, DDService, Hermes
  <2>6. CASE c.tool = Hermes
    BY <1>3, <2>6 DEF PastelD, RQService, WalletNode, SuperNode, DDService, Hermes
  <2> QED
    BY <1>1, <2>1, <2>2, <2>3, <2>4, <2>5, <2>6, Named
<1> HIDE DEF rest
<1>5. Installs(c) = (Call("dir", "exec") \o Call("packages", c.tool)) \o rest
  BY DEF Installs, rest
<1>6. Plan(Call("dir", "exec") \o Call("packages", c.tool))
  BY <1>1, Calls1, ConcatPlan
<1>7. Len(Call("dir", "exec") \o Call("packages", c.tool)) = 2
      /\ (Call("dir", "exec") \o Call("packages", c.tool))[1] = [do |-> "dir", of |-> "exec"]
  <2>1. Call("dir", "exec") \in Seq(PlannedCall) /\ Call("packages", c.tool) \in Seq(PlannedCall)
    BY <1>1, Calls1 DEF Plan
  <2>2. Len(Call("dir", "exec")) = 1 /\ Len(Call("packages", c.tool)) = 1
        /\ Call("dir", "exec")[1] = [do |-> "dir", of |-> "exec"]
    BY DEF Call
  <2> QED
    BY <2>1, <2>2, ConcatProperties
<1>8. Plan(Installs(c))
  BY <1>4, <1>5, <1>6, ConcatPlan
<1>9. Installs(c) # <<>> /\ Installs(c)[1] = [do |-> "dir", of |-> "exec"]
  <2>1. (Call("dir", "exec") \o Call("packages", c.tool)) \in Seq(PlannedCall) /\ rest \in Seq(PlannedCall)
    BY <1>4, <1>6 DEF Plan
  <2>2. Len(Call("dir", "exec") \o Call("packages", c.tool)) = 2
        /\ (Call("dir", "exec") \o Call("packages", c.tool))[1] = [do |-> "dir", of |-> "exec"]
    BY <1>7
  <2>3. Len(rest) \in Nat
    BY <2>1, LenProperties
  <2>4. Len(Installs(c)) = 2 + Len(rest) /\ Installs(c)[1] = [do |-> "dir", of |-> "exec"]
    BY <1>5, <2>1, <2>2, <2>3, ConcatProperties
  <2> QED
    BY <2>3, <2>4, EmptySeq
<1> QED
  BY <1>8, <1>9

\* An uninstallation only asks and removes.
UninstallCall == [do : {"ask", "ask data", "purge"}, of : Tool] \cup [do : {"remove"}, of : Exec]
Removal(s) == s \in Seq(UninstallCall)

LEMMA ConcatRemoval == \A s, t : Removal(s) /\ Removal(t) => Removal(s \o t)
BY ConcatProperties DEF Removal

LEMMA OneRemoval ==
  /\ \A t \in Tool : /\ Removal(Call("ask", t)) /\ Removal(Call("ask data", t))
                      /\ Removal(PurgeOf(t))
  /\ \A f \in Exec : Removal(Call("remove", f))
  /\ Removal(<<>>)
BY DEF Removal, UninstallCall, Call, PurgeOf

LEMMA UninstallsPlan == ASSUME NEW c \in Command PROVE Removal(Uninstalls(c))
<1>0. c.tool \in Tool
  BY DEF Command
<1>1. \A b, s : Removal(s) => Removal(When(b, s))
  BY OneRemoval DEF When
<1>2. Removal(Call("ask", c.tool)) /\ Removal(Call("ask data", c.tool))
  BY <1>0, OneRemoval
<1>3. /\ \A t \in Tool : Removal(PurgeOf(t)) /\ Removal(Call("remove", t)) /\ Removal(Call("ask", t))
                         /\ Removal(Call("ask data", t))
      /\ Removal(Call("remove", "pastel-cli"))
  BY OneRemoval, Named DEF Exec
<1>4. Removal(Call("remove", PastelD) \o Call("remove", "pastel-cli"))
  BY <1>3, Named, ConcatRemoval
<1>5. Removal(Call("remove", PastelD) \o Call("remove", "pastel-cli") \o Call("remove", WalletNode)
             \o Call("remove", RQService)
             \o When(c.purge, Call("ask data", c.tool) \o PurgeOf(WalletNode) \o PurgeOf(RQService)))
  <2>1. Removal(Call("ask data", c.tool) \o PurgeOf(WalletNode) \o PurgeOf(RQService))
    BY <1>2, <1>3, Named, ConcatRemoval
  <2> QED
    BY <1>1, <1>3, <2>1, Named, ConcatRemoval
<1>6. Removal(Call("ask", WalletNode) \o Call("remove", PastelD) \o Call("remove", "pastel-cli")
             \o Call("remove", SuperNode) \o Call("remove", RQService) \o Call("remove", Hermes)
             \o Call("remove", DDService)
             \o When(c.purge, Call("ask data", c.tool) \o PurgeOf(SuperNode) \o PurgeOf(RQService)
                  \o PurgeOf(Hermes) \o PurgeOf(DDService)))
  <2>1. Removal(Call("ask data", c.tool) \o PurgeOf(SuperNode) \o PurgeOf(RQService)
                  \o PurgeOf(Hermes) \o PurgeOf(DDService))
    BY <1>2, <1>3, Named, ConcatRemoval
  <2> QED
    BY <1>1, <1>3, <2>1, Named, ConcatRemoval
<1>7. Removal(Call("remove", RQService)
             \o When(c.purge, Call("ask data", DDService) \o PurgeOf(RQService)))
  BY <1>1, <1>3, Named, ConcatRemoval
<1>8. Removal(Call("remove", DDService)
             \o When(c.purge, Call("ask data", RQService) \o PurgeOf(DDService)))
  BY <1>1, <1>3, Named, ConcatRemoval
<1>9. Removal(Call("remove", c.tool)
             \o When(c.purge, Call("ask data", c.tool) \o PurgeOf(c.tool)))
  BY <1>0, <1>1, <1>3, ConcatRemoval
<1>10. \E s : Removal(s) /\ Uninstalls(c) = Call("ask", c.tool) \o s
  <2>1. CASE c.tool = PastelD
    BY <1>4, <2>1 DEF Uninstalls, PastelD, RQService, WalletNode, SuperNode, DDService
  <2>2. CASE c.tool = WalletNode /\ c.deps
    BY <1>5, <2>2 DEF Uninstalls, PastelD, RQService, WalletNode, SuperNode, DDService
  <2>3. CASE c.tool = SuperNode /\ c.deps
    BY <1>6, <2>3 DEF Uninstalls, PastelD, RQService, WalletNode, SuperNode, DDService
  <2>4. CASE c.tool = RQService
    BY <1>7, <2>4 DEF Uninstalls, PastelD, RQService, WalletNode, SuperNode, DDService
  <2>5. CASE c.tool = DDService
    BY <1>8, <2>5 DEF Uninstalls, PastelD, RQService, WalletNode, SuperNode, DDService
  <2>6. CASE /\ c.tool # PastelD /\ ~(c.tool = WalletNode /\ c.deps)
             /\ ~(c.tool = SuperNode /\ c.deps) /\ c.tool # RQService /\ c.tool # DDService
    BY <1>9, <2>6 DEF Uninstalls
  <2> QED
    BY <2>1, <2>2, <2>3, <2>4, <2>5, <2>6
<1> QED
  BY <1>2, <1>10, ConcatRemoval

-----------------------------------------------------------------------------
(* The calls that are left, and types.                                       *)

TodoInv ==
  /\ todo \in Seq(PlannedCall) /\ Placed(todo, snap)
  /\ cmd.op = "uninstall" => todo \in Seq(UninstallCall)
  /\ result # "running" => todo = <<>>

\* The next call, and what it is about.
LEMMA NextCall ==
  ASSUME TodoInv, NEW do, Do(do)
  PROVE  /\ todo # <<>> /\ Len(todo) \in Nat \ {0} /\ todo[1].do = do /\ Of = todo[1].of
         /\ todo[1] \in PlannedCall
         /\ cmd.op = "uninstall" => do \in {"ask", "ask data", "remove", "purge"}
<1>1. todo # <<>> /\ todo \in Seq(PlannedCall) /\ todo[1].do = do
  BY DEF TodoInv, Do
<1>2. Len(todo) \in Nat \ {0}
  BY <1>1, EmptySeq
<1>3. todo[1] \in PlannedCall
  BY <1>1, <1>2, ElementOfSeq
<1>4. cmd.op = "uninstall" => todo[1] \in UninstallCall
  BY <1>2, ElementOfSeq DEF TodoInv
<1>5. \A u \in UninstallCall : u.do \in {"ask", "ask data", "remove", "purge"}
  BY DEF UninstallCall
<1>6. Of = todo[1].of
  BY <1>1 DEF Of
<1> QED
  BY <1>1, <1>2, <1>3, <1>4, <1>5, <1>6

LEMMA CallKinds ==
  ASSUME NEW c \in PlannedCall
  PROVE  /\ c.do \in {"download", "delete", "config", "ask", "ask data", "purge", "packages"} => c.of \in Tool
         /\ c.do \in {"unzip", "chmod", "remove"} => c.of \in Exec
         /\ c.do = "folder" => c.of \in Folder
         /\ c.do = "files" => c.of \in Checked
         /\ c.do = "package" => c.of \in Package
         /\ c.do = "system" => c.of \in SysFile
         /\ c \in [do : Calls, of : Items]
<1>1. CASE c \in [do : {"download", "delete", "config", "ask", "ask data", "purge", "packages"}, of : Tool]
  BY <1>1 DEF Calls, Items
<1>2. CASE c \in [do : {"unzip", "chmod", "remove"}, of : Exec]
  BY <1>2 DEF Calls, Items
<1>3. CASE c \in [do : {"folder"}, of : Folder] \cup [do : {"files"}, of : Checked]
  BY <1>3 DEF Calls, Items
<1>4. CASE c \in [do : {"package"}, of : Package] \cup [do : {"system"}, of : SysFile]
  BY <1>4 DEF Calls, Items
<1>5. CASE c \in [do : {"dir"}, of : {"exec"}]
  BY <1>5 DEF Calls, Items, Folder
<1>6. CASE c \in [do : {"7z", "snapshot", "clean", "extract"}, of : {"none"}]
  BY <1>6 DEF Calls, Items
<1> QED
  BY <1>1, <1>2, <1>3, <1>4, <1>5, <1>6 DEF PlannedCall

\* A step that drops calls from the front leaves the rest as planned.
LEMMA SkipKeeps ==
  ASSUME TodoInv, NEW n \in 1 .. 3, Skip(n), result = "running",
         n < Len(todo) /\ todo[n+1].do \in {"clean", "extract"} => snap', UNCHANGED cmd
  PROVE  /\ todo' \in Seq(PlannedCall) /\ Placed(todo', snap')
         /\ cmd'.op = "uninstall" => todo' \in Seq(UninstallCall)
<1>1. todo' = SubSeq(todo, n + 1, Len(todo)) /\ todo \in Seq(PlannedCall) /\ Placed(todo, snap)
  BY DEF Skip, TodoInv
<1>2. todo' \in Seq(PlannedCall) /\ Placed(todo', snap')
  BY <1>1, SkipPlaced
<1>3. ASSUME cmd.op = "uninstall" PROVE todo' \in Seq(UninstallCall)
  <2>1. todo \in Seq(UninstallCall) /\ Len(todo) \in Nat
    BY <1>3, LenProperties DEF TodoInv
  <2>2. \A i \in n + 1 .. Len(todo) : todo[i] \in UninstallCall
    BY <2>1, ElementOfSeq
  <2> QED
    BY <1>1, <2>1, <2>2, SubSeqProperties
<1> QED
  BY <1>2, <1>3

\* The first call is done, and it was none of the snapshot.
LEMMA GoOnKeeps ==
  ASSUME TodoInv, NEW do, Do(do), do \notin {"snapshot", "clean", "extract"}, Skip(1),
         UNCHANGED <<cmd, snap, result>>
  PROVE  TodoInv'
<1>1. Len(todo) \in Nat \ {0} /\ todo[1].do = do
  BY NextCall
<1>2. ASSUME 1 < Len(todo), todo[2].do \in {"clean", "extract"} PROVE FALSE
  <2>1. 2 \in 1 .. Len(todo) /\ Placed(todo, snap)
    BY <1>1, <1>2 DEF TodoInv
  <2>2. todo[2-1].do \in {"snapshot", "clean"}
    BY <1>2, <2>1 DEF Placed
  <2> QED
    BY <1>1, <2>2
<1>3. result = "running"
  BY DEF Do
<1> QED
  BY <1>2, <1>3, SkipKeeps DEF TodoInv

\* A command that returns has nothing left to do.
LEMMA EndsKeeps ==
  ASSUME NEW r, Ends(r) PROVE TodoInv'
<1>1. <<>> \in Seq(PlannedCall) /\ <<>> \in Seq(UninstallCall) /\ \A b : Placed(<<>>, b)
  BY DEF Placed
<1> QED
  BY <1>1 DEF Ends, TodoInv

LEMMA BeginKeepsTodo ==
  ASSUME NEW c \in Commands, Begin(c) PROVE TodoInv'
<1>0. c \in Command
  BY CommandsAssumption
<1>1. CASE c.op = "uninstall"
  <2>1. todo' = Uninstalls(c) /\ cmd' = c /\ result' = "running"
    BY <1>1 DEF Begin
  <2>2. Uninstalls(c) \in Seq(UninstallCall)
    BY <1>0, UninstallsPlan DEF Removal
  <2>3. UninstallCall \subseteq PlannedCall
    BY DEF UninstallCall, PlannedCall
  <2>4. \A i \in 1 .. Len(Uninstalls(c)) :
          Uninstalls(c)[i].do \in {"ask", "ask data", "purge", "remove"}
    <3>1. ASSUME NEW i \in 1 .. Len(Uninstalls(c)) PROVE Uninstalls(c)[i] \in UninstallCall
      BY <2>2, ElementOfSeq
    <3> QED
      BY <3>1 DEF UninstallCall
  <2>5. Placed(Uninstalls(c), snap')
    BY <2>4 DEF Placed
  <2>6. Uninstalls(c) \in Seq(PlannedCall)
    BY <2>2, <2>3, SeqMonotonic
  <2> QED
    BY <2>1, <2>2, <2>5, <2>6 DEF TodoInv
<1>2. CASE c.op # "uninstall"
  <2>1. todo' = Installs(c) /\ cmd' = c /\ result' = "running" /\ snap' = FALSE
    BY <1>2 DEF Begin
  <2> QED
    BY <1>0, <1>2, <2>1, InstallsPlan DEF Plan, TodoInv
<1> QED
  BY <1>1, <1>2

LEMMA SnapshotKeepsTodo ==
  ASSUME TodoInv, downloadLatestSnapshot PROVE TodoInv'
<1>0. /\ result = "running" /\ UNCHANGED <<cmd, result>>
      /\ \E do \in {"snapshot", "clean", "extract"} : Do(do)
  BY DEF downloadLatestSnapshot, Snapshot, Do
<1>1. /\ Len(todo) \in Nat \ {0} /\ todo[1].do \in {"snapshot", "clean", "extract"}
      /\ Placed(todo, snap) /\ 1 \in 1 .. Len(todo)
  <2>1. PICK do \in {"snapshot", "clean", "extract"} : Do(do)
    BY <1>0
  <2>2. Len(todo) \in Nat \ {0} /\ todo[1].do = do
    BY <2>1, NextCall
  <2> QED
    BY <2>2 DEF TodoInv
<1>2. PICK n \in 1 .. 3 :
        /\ Skip(n)
        /\ \/ todo[1].do = "snapshot" /\ n = 1 /\ snap'
           \/ todo[1].do = "snapshot" /\ n = 3
           \/ todo[1].do = "clean" /\ n = 1 /\ snap' = snap
           \/ todo[1].do = "clean" /\ n = 2
           \/ todo[1].do = "extract" /\ n = 1
  BY DEF downloadLatestSnapshot, Snapshot, Do
<1>3. ASSUME n < Len(todo), todo[n+1].do \in {"clean", "extract"} PROVE snap'
  <2>1. n + 1 \in 1 .. Len(todo) /\ n + 1 # 1 /\ (n + 1) - 1 = n
    BY <1>1, <1>3
  <2>2. \/ todo[n+1].do = "clean" /\ todo[n].do = "snapshot"
        \/ todo[n+1].do = "extract" /\ todo[n].do = "clean"
    BY <1>1, <1>3, <2>1 DEF Placed
  <2>3. CASE n = 1
    BY <1>1, <1>2, <2>2, <2>3 DEF Placed
  <2>4. CASE n = 2
    BY <1>1, <1>2, <2>2, <2>4 DEF Placed
  <2>5. CASE n = 3
    BY <1>1, <1>2, <2>2, <2>5 DEF Placed
  <2> QED
    BY <2>3, <2>4, <2>5
<1> QED
  BY <1>0, <1>2, <1>3, SkipKeeps DEF TodoInv

\* Every step leaves the rest of the plan, or nothing, to do.
LEMMA TodoKept == TodoInv /\ [Next]_vars => TodoInv'
<1> SUFFICES ASSUME TodoInv, [Next]_vars PROVE TodoInv'
  OBVIOUS
<1>1. CASE \E r : Ends(r)
  BY <1>1, EndsKeeps
<1>2. CASE \E do : /\ Do(do) /\ do \notin {"snapshot", "clean", "extract"}
                  /\ Skip(1) /\ UNCHANGED <<cmd, snap, result>>
  BY <1>2, GoOnKeeps
<1>3. CASE UNCHANGED cmdVars
  BY <1>3 DEF cmdVars, TodoInv
<1>4. CASE Step /\ ~downloadLatestSnapshot
  <2>1. \/ \E r : Ends(r)
        \/ \E do : /\ Do(do) /\ do \notin {"snapshot", "clean", "extract"}
                   /\ Skip(1) /\ UNCHANGED <<cmd, snap, result>>
    BY <1>4, Zenon
    DEF Step, checkInstallDir, checkInstalledPackages, InstallPackage, install7z, downloadComponents,
        SetsUp, downloadChecked, increaseOpenFilesOnLinux, Agrees, Declines, Remove, Purge, Returns,
        Fails, Interrupted, GoOn
  <2> QED
    BY <2>1, <1>1, <1>2
<1>5. CASE Publish \/ NodeSyncs \/ \E t \in {PastelD, SuperNode} : UserSets(t)
  BY <1>3, <1>5 DEF Publish, NodeSyncs, UserSets
<1> QED
  BY <1>3, <1>4, <1>5, BeginKeepsTodo, SnapshotKeepsTodo DEF Next, vars

\* The variables of the command, but for the list.
CmdTypeOK ==
  /\ cmd \in Command /\ force \in BOOLEAN /\ asked \subseteq Tool /\ snap \in BOOLEAN
  /\ begun \in Release /\ hadDir \in BOOLEAN
  /\ result \in {"none", "running", "ok", "error", "exists"}
  /\ runs \in 0 .. MaxRuns
OtherTypes ==
  FilesTypeOK /\ packages \subseteq Package /\ release \in Release /\ CmdTypeOK
    /\ apps \cup halfway \subseteq Tool

LEMMA TypesMeet == TodoInv /\ OtherTypes => TypeOK
<1> SUFFICES ASSUME TodoInv PROVE todo \in Seq([do : Calls, of : Items])
  BY DEF OtherTypes, CmdTypeOK, TypeOK
<1> QED
  BY CallKinds, SeqMonotonic DEF TodoInv

LEMMA InitType == Init => TodoInv /\ OtherTypes
<1> SUFFICES ASSUME Init PROVE TodoInv /\ OtherTypes
  OBVIOUS
<1>1. TodoInv
  BY DEF Init, TodoInv, Placed
<1>2. FilesTypeOK
  <2>1. sys \in [SysFile -> SUBSET SysFile]
    BY DEF Init
  <2>2. conf \in [Tool -> Settings] /\ dirs \subseteq Folder /\ chain \in {Missing, Torn, "own", "snapshot"}
        /\ checked \in [Checked -> {"good", "bad", Missing}]
    BY DEF Init, Settings, Folder
  <2> QED
    BY <2>1, <2>2 DEF Init, FilesTypeOK
<1>3. 0 \in Release /\ 0 \in 0 .. MaxRuns
  BY ReleaseAssumption, CommandsAssumption DEF Release
<1> QED
  BY <1>1, <1>2, <1>3, CommandsAssumption DEF Init, OtherTypes, CmdTypeOK

LEMMA GoOnType ==
  ASSUME CmdTypeOK, GoOn \/ (\E r \in {"none", "ok", "error", "exists"} : Ends(r)) \/ UNCHANGED cmdVars
  PROVE  CmdTypeOK'
BY DEF CmdTypeOK, GoOn, Ends, cmdVars

LEMMA StepType ==
  ASSUME TodoInv, OtherTypes, Step PROVE OtherTypes'
<1> USE DEF OtherTypes
<1>0. /\ \A do : Do(do) => /\ do \in {"download", "delete", "config", "ask", "ask data", "purge", "packages"}
                                 => Of \in Tool
                           /\ do \in {"unzip", "chmod", "remove"} => Of \in Exec
                           /\ do = "folder" => Of \in Folder
                           /\ do = "files" => Of \in Checked
                           /\ do = "package" => Of \in Package
                           /\ do = "system" => Of \in SysFile
  <2> SUFFICES ASSUME NEW do, Do(do)
               PROVE  /\ do \in {"download", "delete", "config", "ask", "ask data", "purge", "packages"}
                                 => Of \in Tool
                      /\ do \in {"unzip", "chmod", "remove"} => Of \in Exec
                      /\ do = "folder" => Of \in Folder
                      /\ do = "files" => Of \in Checked
                      /\ do = "package" => Of \in Package
                      /\ do = "system" => Of \in SysFile
    OBVIOUS
  <2>1. todo[1] \in PlannedCall /\ todo[1].do = do /\ Of = todo[1].of
    BY NextCall
  <2> QED
    BY <2>1, CallKinds
<1>p. Parts(cmd) \subseteq Tool
  BY DEF Parts
<1>1. CASE checkInstallDir
  <2>1. dirs' \subseteq Folder
    BY <1>1 DEF checkInstallDir, FilesTypeOK, dataVars, Folder
  <2>2. CmdTypeOK'
    BY <1>1, GoOnType DEF checkInstallDir, CmdTypeOK
  <2> QED
    BY <1>1, <2>1, <2>2 DEF checkInstallDir, FilesTypeOK, binVars, sysVars, history
<1>2. CASE checkInstalledPackages
  BY <1>2, <1>p, GoOnType
  DEF checkInstalledPackages, AptPackage, Package, fileVars, binVars, dataVars, sysVars, FilesTypeOK, history
<1>3. CASE InstallPackage \/ install7z
  BY <1>0, <1>3, GoOnType
  DEF InstallPackage, install7z, Package, fileVars, binVars, dataVars, sysVars, FilesTypeOK, history
<1>4. CASE downloadComponents
  <2>1. /\ exec' \in [Exec -> Release \cup {Missing, Torn}] /\ runnable' \subseteq Exec
        /\ zip' \in [Zipped -> Release \cup {Missing}]
    <3>1. CASE Do("download") /\ DownloadFile(Of, release)
      BY <3>1 DEF DownloadFile, FilesTypeOK
    <3>2. CASE Do("unzip") /\ \E t \in Zipped : Unzip(t, Of)
      BY <1>0, <3>2 DEF Unzip, FilesTypeOK
    <3>3. CASE Do("unzip") /\ UnzipBreaks(Of)
      BY <1>0, <3>3 DEF UnzipBreaks, FilesTypeOK
    <3>4. CASE Do("delete") /\ DeleteArchive(Of)
      BY <3>4 DEF DeleteArchive, FilesTypeOK
    <3>5. CASE Do("chmod") /\ makeExecutable(Of)
      BY <1>0, <3>5 DEF makeExecutable, FilesTypeOK
    <3> QED
      BY <1>4, <3>1, <3>2, <3>3, <3>4, <3>5 DEF downloadComponents
  <2>2. CmdTypeOK'
    BY <1>4, GoOnType DEF downloadComponents
  <2> QED
    BY <1>4, <2>1, <2>2 DEF downloadComponents, FilesTypeOK, dataVars, sysVars, history
<1>5. CASE SetsUp
  <2>1. conf' \in [Tool -> Settings] /\ dirs' \subseteq Folder /\ UNCHANGED <<checked, chain>>
    BY <1>0, <1>5
    DEF SetsUp, CreateFolder, CreateAndWrite, CreateAndWriteBreaks, FilesTypeOK, Settings, dataVars
  <2>2. CmdTypeOK'
    BY <1>5, GoOnType DEF SetsUp
  <2> QED
    BY <1>5, <2>1, <2>2 DEF SetsUp, FilesTypeOK, binVars, sysVars, history
<1>6. CASE downloadChecked
  <2>1. checked' \in [Checked -> {"good", "bad", Missing}]
    BY <1>6 DEF downloadChecked, FilesTypeOK
  <2>2. CmdTypeOK'
    BY <1>6, GoOnType DEF downloadChecked
  <2> QED
    BY <1>6, <2>1, <2>2 DEF downloadChecked, FilesTypeOK, binVars, sysVars, history
<1>7. CASE downloadLatestSnapshot
  <2>1. chain' \in {Missing, Torn, "own", "snapshot"} /\ CmdTypeOK'
    BY <1>7 DEF downloadLatestSnapshot, Snapshot, FilesTypeOK, CmdTypeOK
  <2> QED
    BY <1>7, <2>1 DEF downloadLatestSnapshot, FilesTypeOK, binVars, sysVars, history
<1>8. CASE increaseOpenFilesOnLinux
  <2>1. sys' \in [SysFile -> SUBSET SysFile] /\ temp' \subseteq SysFile
    BY <1>0, <1>8 DEF increaseOpenFilesOnLinux, writeToFile, writeToFileFails, FilesTypeOK
  <2>2. CmdTypeOK'
    BY <1>8, GoOnType DEF increaseOpenFilesOnLinux
  <2> QED
    BY <1>8, <2>1, <2>2 DEF increaseOpenFilesOnLinux, FilesTypeOK, binVars, dataVars, history
<1>9. CASE Agrees \/ Declines
  <2>1. CmdTypeOK'
    BY <1>0, <1>9, <1>p, GoOnType DEF Agrees, Declines, CmdTypeOK
  <2> QED
    BY <1>9, <2>1 DEF Agrees, Declines, fileVars, binVars, dataVars, sysVars, FilesTypeOK, history
<1>10. CASE Remove
  <2>1. exec' \in [Exec -> Release \cup {Missing, Torn}] /\ runnable' \subseteq Exec /\ UNCHANGED zip
    <3>1. Of \in Exec
      BY <1>0, <1>10 DEF Remove
    <3> QED
      BY <1>10, <3>1 DEF Remove, removeFile, Removed, FilesTypeOK
  <2>2. CmdTypeOK'
    BY <1>10, GoOnType DEF Remove
  <2> QED
    BY <1>10, <2>1, <2>2 DEF Remove, FilesTypeOK, dataVars, sysVars
<1>11. CASE Purge
  <2>1. conf' \in [Tool -> Settings] /\ dirs' \subseteq Folder
        /\ checked' \in [Checked -> {"good", "bad", Missing}]
    <3>1. conf' \in [Tool -> Settings] /\ dirs' \subseteq Folder
      BY <1>11 DEF Purge, FilesTypeOK, Settings
    <3>2. checked' \in {checked, [checked EXCEPT !["dd support"] = Missing],
                        [checked EXCEPT !["dd support"] = "bad"]}
      <4>1. CASE Of # DDService
        BY <1>11, <4>1 DEF Purge
      <4>2. CASE Of = DDService /\ dirs' # dirs
        BY <1>11, <4>2 DEF Purge
      <4>3. CASE Of = DDService /\ dirs' = dirs
        BY <1>11, <4>3 DEF Purge
      <4> QED
        BY <4>1, <4>2, <4>3
    <3> QED
      BY <3>1, <3>2 DEF FilesTypeOK
  <2>2. CmdTypeOK'
    BY <1>11, GoOnType DEF Purge
  <2> QED
    BY <1>11, <2>1, <2>2 DEF Purge, FilesTypeOK, binVars, sysVars
<1>12. CASE Returns \/ Fails \/ Interrupted
  <2>1. CmdTypeOK' /\ UNCHANGED <<fileVars, packages, release>>
    BY <1>12, GoOnType DEF Returns, Fails, Interrupted
  <2>2. apps' \cup halfway' \subseteq Tool
    BY <1>12, <1>p DEF Returns, Fails, Interrupted, history
  <2> QED
    BY <2>1, <2>2 DEF fileVars, binVars, dataVars, sysVars, FilesTypeOK
<1> QED
  BY <1>1, <1>2, <1>3, <1>4, <1>5, <1>6, <1>7, <1>8, <1>9, <1>10, <1>11, <1>12 DEF Step

LEMMA NextType == TodoInv /\ OtherTypes /\ [Next]_vars => OtherTypes'
<1> SUFFICES ASSUME TodoInv, OtherTypes, [Next]_vars PROVE OtherTypes'
  OBVIOUS
<1> USE DEF OtherTypes
<1>1. ASSUME NEW c \in Commands, Begin(c) PROVE OtherTypes'
  <2>1. CmdTypeOK'
    <3>1. ("exec" \in dirs) \in BOOLEAN
      OBVIOUS
    <3>2. hadDir' = ("exec" \in dirs)
      BY <1>1, Zenon DEF Begin
    <3>3. hadDir' \in BOOLEAN
      BY <3>1, <3>2, Zenon
    <3>4. c \in Command /\ c.force \in BOOLEAN
      BY CommandsAssumption DEF Command
    <3>5. /\ cmd' \in Command /\ force' \in BOOLEAN /\ asked' \subseteq Tool
          /\ snap' \in BOOLEAN /\ begun' \in Release
      BY <1>1, <3>4 DEF Begin, CmdTypeOK
    <3>6. result' = "running" /\ runs' \in 0 .. MaxRuns
      BY <1>1, CommandsAssumption DEF Begin, CmdTypeOK
    <3> QED
      BY <3>3, <3>5, <3>6 DEF CmdTypeOK
  <2>2. apps' \cup halfway' \subseteq Tool
    BY <1>1 DEF Begin, Parts
  <2> QED
    BY <1>1, <2>1, <2>2 DEF Begin, fileVars, binVars, dataVars, sysVars, FilesTypeOK
<1>2. CASE Publish
  <2>1. release' \in Release
    BY <1>2, ReleaseAssumption DEF Publish, Release
  <2> QED
    BY <1>2, <2>1, GoOnType DEF Publish, fileVars, binVars, dataVars, sysVars, FilesTypeOK, history
<1>3. ASSUME NEW t \in {PastelD, SuperNode}, UserSets(t) PROVE OtherTypes'
  BY <1>3, GoOnType DEF UserSets, FilesTypeOK, Settings, binVars, sysVars, history
<1>4. CASE NodeSyncs
  BY <1>4, GoOnType DEF NodeSyncs, FilesTypeOK, binVars, sysVars, history
<1>5. CASE UNCHANGED vars
  BY <1>5, GoOnType DEF vars, fileVars, binVars, dataVars, sysVars, FilesTypeOK, history
<1> QED
  BY <1>1, <1>2, <1>3, <1>4, <1>5, StepType DEF Next

\* The variables keep to their types, whatever the commands and however they fail: the
\* calls a command has left to make are about things of their kinds.
THEOREM TypeCorrect == Spec => []TypeOK
<1>1. TodoInv /\ OtherTypes /\ [Next]_vars => (TodoInv /\ OtherTypes)'
  BY TodoKept, NextType
<1> QED
  BY <1>1, InitType, TypesMeet, PTL DEF Spec

-----------------------------------------------------------------------------
(* The block chain.                                                          *)

\* The block chain is given up only for a snapshot that has been downloaded: the working
\* directory is cleaned by the second call of three, whatever was skipped before.
THEOREM ChainGivenUpForSnapshotAlways == Spec => ChainGivenUpForSnapshot
<1>1. TodoInv /\ OtherTypes /\ [Next]_vars => (TodoInv /\ OtherTypes)'
  BY TodoKept, NextType
<1>2. TodoInv /\ [Next]_vars => [chain = "own" /\ chain' # "own" => snap]_vars
  <2> SUFFICES ASSUME TodoInv, Next, chain = "own", chain' # "own" PROVE snap
    OBVIOUS
  <2>1. CASE downloadLatestSnapshot
    <3>1. CASE Do("clean") \/ Do("extract")
      <4>1. PICK do \in {"clean", "extract"} : Do(do)
        BY <3>1
      <4>2. Len(todo) \in Nat \ {0} /\ todo[1].do = do
        BY <4>1, NextCall
      <4>3. 1 \in 1 .. Len(todo) /\ Placed(todo, snap)
        BY <4>2 DEF TodoInv
      <4> QED
        BY <4>2, <4>3 DEF Placed
    <3> QED
      BY <2>1, <3>1 DEF downloadLatestSnapshot
  <2>2. CASE Step /\ ~downloadLatestSnapshot
    BY <2>2
    DEF Step, checkInstallDir, checkInstalledPackages, InstallPackage, install7z, downloadComponents,
        SetsUp, downloadChecked, increaseOpenFilesOnLinux, Agrees, Declines, Remove, Purge, Returns,
        Fails, Interrupted, CreateFolder, CreateAndWrite, CreateAndWriteBreaks, fileVars, dataVars
  <2>3. CASE \/ \E c \in Commands : Begin(c)
             \/ Publish \/ NodeSyncs \/ \E t \in {PastelD, SuperNode} : UserSets(t)
    BY <2>3 DEF Begin, Publish, NodeSyncs, UserSets, fileVars, dataVars
  <2> QED
    BY <2>1, <2>2, <2>3 DEF Next
<1> QED
  BY <1>1, <1>2, InitType, PTL DEF Spec, ChainGivenUpForSnapshot

-----------------------------------------------------------------------------
(* A command that finds the installation directory.                          *)

\* It keeps the directory, and has --force once it has looked at it.
DirInv ==
  /\ result = "running" /\ cmd.op # "uninstall" /\ hadDir =>
       "exec" \in dirs /\ (force \/ Do("dir"))
  /\ RerunWorks

\* The first call of an installation is the look at the directory.
LEMMA BeginKeepsDir ==
  ASSUME NEW c \in Commands, Begin(c) PROVE DirInv'
<1>0. c \in Command
  BY CommandsAssumption
<1>1. hadDir' = ("exec" \in dirs)
  BY Zenon DEF Begin
<1>2. result' = "running" /\ cmd' = c /\ dirs' = dirs
  BY DEF Begin, fileVars, dataVars
<1>3. RerunWorks'
  BY <1>2 DEF RerunWorks
<1>4. ASSUME c.op # "uninstall" PROVE Do("dir")'
  <2>1. todo' = Installs(c)
    BY <1>4 DEF Begin
  <2> QED
    BY <1>0, <1>2, <2>1, InstallsPlan DEF Do
<1>5. hadDir' => "exec" \in dirs'
  BY <1>1, <1>2, Zenon
<1> QED
  BY <1>2, <1>3, <1>4, <1>5 DEF DirInv

\* A command stops at what exists only without --force, and never as its first call.
LEMMA ExistsWithoutForce ==
  ASSUME SetsUp \/ downloadChecked, Ends("exists")
  PROVE  ~force /\ result = "running" /\ \E do \in {"folder", "config", "files"} : Do(do)
<1>1. result' = "exists" /\ "exists" # "error"
  BY DEF Ends
<1>2. CASE SetsUp
  <2>1. ~GoOn
    BY <1>1, <1>2 DEF SetsUp, GoOn, Do
  <2> QED
    BY <1>1, <1>2, <2>1 DEF SetsUp, MayWrite, Ends, Do
<1>3. CASE downloadChecked
  <2>1. ~GoOn
    BY <1>1, <1>3 DEF downloadChecked, GoOn, Do
  <2> QED
    BY <1>1, <1>3, <2>1 DEF downloadChecked, Ends, Do
<1> QED
  BY <1>2, <1>3

LEMMA StepKeepsDir ==
  ASSUME TodoInv, DirInv, Step PROVE DirInv'
<1>r. result = "running"
  BY DEF Step, checkInstallDir, checkInstalledPackages, InstallPackage, install7z, downloadComponents,
         SetsUp, downloadChecked, downloadLatestSnapshot, increaseOpenFilesOnLinux, Agrees, Declines,
         Remove, Purge, Returns, Fails, Interrupted, Do
<1>1. CASE \E r \in {"none", "ok", "error"} : Ends(r)
  BY <1>1 DEF Ends, DirInv, RerunWorks
<1>2. CASE (SetsUp \/ downloadChecked) /\ Ends("exists")
  <2>1. ~force /\ \E do \in {"folder", "config", "files"} : Do(do)
    BY <1>2, ExistsWithoutForce
  <2>2. cmd.op # "uninstall"
    BY <2>1, NextCall
  <2>3. ~Do("dir")
    BY <2>1 DEF Do
  <2>4. ~hadDir
    BY <1>r, <2>1, <2>2, <2>3 DEF DirInv
  <2> QED
    BY <1>2, <2>4 DEF Ends, DirInv, RerunWorks
<1>3. ASSUME result' = "running", UNCHANGED <<cmd, hadDir>>, dirs \subseteq dirs', ~Do("dir"), force => force'
      PROVE  DirInv'
  BY <1>r, <1>3 DEF DirInv, RerunWorks
<1>4. CASE checkInstallDir
  BY <1>1, <1>4, <1>r DEF checkInstallDir, Ends, GoOn, DirInv, RerunWorks
<1>5. CASE SetsUp \/ downloadChecked
  <2>1. CASE GoOn
    BY <1>3, <1>5, <1>r, <2>1
    DEF SetsUp, downloadChecked, GoOn, CreateFolder, CreateAndWrite, CreateAndWriteBreaks, Do, dataVars
  <2>2. CASE ~GoOn
    BY <1>1, <1>2, <1>5, <2>2 DEF SetsUp, downloadChecked
  <2> QED
    BY <2>1, <2>2
<1>6. CASE downloadLatestSnapshot
  BY <1>3, <1>6, <1>r DEF downloadLatestSnapshot, Snapshot, Do
<1>7. CASE Agrees \/ Declines \/ Remove \/ Purge
  <2>1. \E do \in {"ask", "ask data", "remove", "purge"} : Do(do)
    BY <1>7 DEF Agrees, Declines, Remove, Purge
  <2>2. ~Do("dir")
    BY <2>1 DEF Do
  <2>3. CASE Declines
    BY <1>1, <2>3 DEF Declines
  <2>4. CASE Agrees \/ Remove
    BY <1>3, <1>r, <2>2, <2>4 DEF Agrees, Remove, GoOn, fileVars, dataVars
  <2>5. CASE Purge
    <3>1. "exec" \notin DataOf[Of]
      <4>1. Of \in Tool
        BY <2>5, NextCall, CallKinds DEF Purge
      <4> QED
        BY <4>1 DEF DataOf
    <3>2. UNCHANGED <<cmd, force, hadDir, result>> /\ ("exec" \in dirs => "exec" \in dirs')
      BY <2>5, <3>1 DEF Purge, GoOn
    <3> QED
      BY <1>r, <2>2, <3>2 DEF DirInv, RerunWorks
  <2> QED
    BY <1>7, <2>3, <2>4, <2>5
<1>8. CASE checkInstalledPackages \/ InstallPackage \/ install7z \/ downloadComponents
           \/ increaseOpenFilesOnLinux
  <2>1. CASE GoOn
    BY <1>3, <1>8, <1>r, <2>1
    DEF checkInstalledPackages, InstallPackage, install7z, downloadComponents,
        increaseOpenFilesOnLinux, GoOn, Do, fileVars, dataVars
  <2>2. CASE ~GoOn
    BY <1>1, <1>8, <2>2
    DEF checkInstalledPackages, InstallPackage, install7z, downloadComponents, increaseOpenFilesOnLinux
  <2> QED
    BY <2>1, <2>2
<1>9. CASE Returns \/ Fails \/ Interrupted
  BY <1>1, <1>9 DEF Returns, Fails, Interrupted
<1> QED
  BY <1>4, <1>5, <1>6, <1>7, <1>8, <1>9 DEF Step

\* A command that finds the installation directory does not stumble over what earlier
\* ones have left, however they ended.
THEOREM RerunWorksAlways == Spec => []RerunWorks
<1>1. Init => DirInv
  BY DEF Init, DirInv, RerunWorks
<1>2. TodoInv /\ DirInv /\ [Next]_vars => DirInv'
  <2> SUFFICES ASSUME TodoInv, DirInv, [Next]_vars PROVE DirInv'
    OBVIOUS
  <2>1. CASE Publish \/ NodeSyncs \/ (\E t \in {PastelD, SuperNode} : UserSets(t)) \/ UNCHANGED vars
    BY <2>1 DEF Publish, NodeSyncs, UserSets, vars, cmdVars, fileVars, dataVars, DirInv, RerunWorks, Do
  <2> QED
    BY <2>1, BeginKeepsDir, StepKeepsDir DEF Next
<1>3. TodoInv /\ [Next]_vars => TodoInv'
  BY TodoKept
<1>4. DirInv => RerunWorks
  BY DEF DirInv
<1> QED
  BY <1>1, <1>2, <1>3, <1>4, InitType, PTL DEF Spec
=============================================================================
