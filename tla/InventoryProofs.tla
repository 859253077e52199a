--------------------------- MODULE InventoryProofs ---------------------------
(***************************************************************************)
(* What holds of a command on an inventory for every inventory, every filter *)
(* and every interleaving of the goroutines.                                 *)
(***************************************************************************)
EXTENDS Inventory, FiniteSetTheorems, FunctionTheorems, SequenceTheorems, TLAPS

-----------------------------------------------------------------------------
(* Sequences without repetition.                                             *)

Distinct(q) == \A i, j \in DOMAIN q : q[i] = q[j] => i = j

\* Sending an answer of a new attempt.
LEMMA AppendDistinct ==
  ASSUME NEW S, NEW q \in Seq(S), NEW s \in S, Distinct(q), s \notin Range(q)
  PROVE  /\ Append(q, s) \in Seq(S)
         /\ Range(Append(q, s)) = Range(q) \cup {s}
         /\ Distinct(Append(q, s))
<1> DEFINE r == Append(q, s)
<1>1. /\ r \in Seq(S) /\ Len(r) = Len(q) + 1 /\ Len(q) \in Nat
      /\ DOMAIN q = 1..Len(q) /\ DOMAIN r = 1..(Len(q) + 1)
      /\ \A i \in 1..Len(q) : r[i] = q[i]
      /\ r[Len(q) + 1] = s
  BY AppendProperties, LenProperties
<1> HIDE DEF r
<1>2. Range(r) = Range(q) \cup {s}
  BY <1>1, SMT DEF Range
<1>3. Distinct(r)
  BY <1>1, SMT DEF Distinct, Range
<1> QED
  BY <1>1, <1>2, <1>3 DEF r

\* Receiving the oldest answer.
LEMMA TailDistinct ==
  ASSUME NEW S, NEW q \in Seq(S), q # <<>>, Distinct(q)
  PROVE  /\ Head(q) \in S /\ Head(q) \in Range(q)
         /\ Tail(q) \in Seq(S) /\ Range(Tail(q)) = Range(q) \ {Head(q)}
         /\ Distinct(Tail(q))
<1> DEFINE r == Tail(q)
<1>1. /\ r \in Seq(S) /\ Len(r) = Len(q) - 1 /\ Len(q) \in Nat \ {0}
      /\ DOMAIN q = 1..Len(q) /\ DOMAIN r = 1..(Len(q) - 1)
      /\ \A i \in 1..(Len(q) - 1) : r[i] = q[i + 1]
      /\ Head(q) = q[1] /\ q[1] \in S
  BY HeadTailProperties, LenProperties, EmptySeq, ElementOfSeq, SMT
<1> HIDE DEF r
<1>2. Range(r) = Range(q) \ {q[1]}
  <2>1. ASSUME NEW x \in Range(r) PROVE x \in Range(q) /\ x # q[1]
    BY <1>1, SMT DEF Range, Distinct
  <2>2. ASSUME NEW x \in Range(q), x # q[1] PROVE x \in Range(r)
    <3>1. PICK i \in 1..Len(q) : q[i] = x
      BY <1>1 DEF Range
    <3>2. i - 1 \in 1..(Len(q) - 1) /\ r[i - 1] = x
      BY <1>1, <2>2, <3>1, SMT
    <3> QED
      BY <1>1, <3>2 DEF Range
  <2> QED
    BY <2>1, <2>2
<1>3. Distinct(r)
  BY <1>1, SMT DEF Distinct
<1>4. q[1] \in Range(q)
  BY <1>1 DEF Range
<1> QED
  BY <1>1, <1>2, <1>3, <1>4 DEF r

\* As many answers as attempts.
LEMMA DistinctCount ==
  ASSUME NEW S, NEW q \in Seq(S), Distinct(q)
  PROVE  Cardinality(Range(q)) = Len(q)
<1>1. Len(q) \in Nat /\ DOMAIN q = 1..Len(q) /\ q \in [1..Len(q) -> S]
  BY LenProperties
<1>2. q \in Injection(1..Len(q), S)
  BY <1>1 DEF Injection, IsInjective, Distinct
<1>3. q \in Bijection(1..Len(q), Range(q))
  BY <1>2, Fun_InjMeansBijImage
<1>4. ExistsBijection(1..Len(q), Range(q))
  BY <1>3, Fun_ExistsBij
<1> QED
  BY <1>1, <1>4, FS_CountingElements

-----------------------------------------------------------------------------
(* Every answer is kept.                                                     *)

\* The servers whose turn is still to come, and the attempts that are under way,
\* on their way through the channel or received.
Waiting == serversLeft \cup {s \in servers : cmd.groupOf[s] \in groupsLeft}
Accounted == running \cup Range(chan) \cup Range(outs)

LoopInv ==
  /\ cmd \in Commands
  /\ loop \in {"read", "group", "server", "wait", "collect", "end", "crashed"}
  /\ mode = "single" => loop \in {"read", "wait", "end", "crashed"} /\ serversLeft = {}
  /\ mode = "parallel" => loop # "wait"
  /\ loop = "collect" => mode = "parallel"
  /\ loop \notin {"end", "crashed"} => result = "none"
  /\ groupsLeft \in SUBSET groups
  /\ serversLeft \in SUBSET Selected
  /\ \A s \in serversLeft : cmd.groupOf[s] \notin groupsLeft
  /\ loop \in {"group", "collect", "end"} => serversLeft = {}
  /\ loop = "collect" => groupsLeft = {}

\* An attempt is in one place at a time; one after the other there is at most one.
PlaceInv ==
  /\ running \in SUBSET servers
  /\ chan \in Seq(Server) /\ outs \in Seq(Server)
  /\ Distinct(chan) /\ Distinct(outs)
  /\ running \cap Range(chan) = {}
  /\ running \cap Range(outs) = {}
  /\ Range(chan) \cap Range(outs) = {}
  /\ closed => running = {} /\ loop \in {"collect", "end", "crashed"}
  /\ mode # "parallel" => chan = <<>>
  /\ mode # "parallel" /\ loop # "wait" => running = {}
  /\ mode # "parallel" => \A s, t \in running : s = t

AccountInv ==
  /\ loop = "read" => running = {} /\ chan = <<>> /\ outs = <<>> /\ serversLeft = {}
  /\ mode # "single" /\ loop \notin {"read", "crashed"} /\ result # "error" =>
       Accounted = Selected \ Waiting
  /\ loop = "end" /\ result = "ok" /\ mode # "single" =>
       groupsLeft = {} /\ serversLeft = {} /\ running = {} /\ chan = <<>>

AnswerInv == LoopInv /\ PlaceInv /\ AccountInv

LEMMA AnswerInit == ASSUME Init PROVE AnswerInv
<1> USE DEF Init
<1>1. Range(<<>>) = {} /\ Distinct(<<>>) /\ <<>> \in Seq(Server)
  BY SMT DEF Range, Distinct
<1>2. LoopInv
  BY CommandAssumption DEF LoopInv, mode, groups, Selected, Mode
<1>3. PlaceInv
  BY <1>1 DEF PlaceInv
<1>4. AccountInv
  BY DEF AccountInv
<1> QED
  BY <1>2, <1>3, <1>4 DEF AnswerInv

\* What a step needs to know of the command.
LEMMA CommandFacts ==
  ASSUME cmd \in Commands
  PROVE  /\ mode \in {"single", "serial", "parallel"}
         /\ servers \in SUBSET Server
         /\ \A s \in servers : cmd.groupOf[s] \in groups
         /\ Selected \in SUBSET servers
  BY CommandAssumption DEF mode, servers, groups, Mode, Selected

\* The accesses to config and the execution of the commands move no attempt.
LEMMA AnswerLocal ==
  ASSUME AnswerInv, UNCHANGED <<cmd, loop, plan, running, channel, outs, result>>
  PROVE  AnswerInv'
  BY DEF AnswerInv, LoopInv, PlaceInv, AccountInv, plan, channel, mode, groups, servers,
         Selected, Passes, Waiting, Accounted

LEMMA AnswerCrash ==
  ASSUME AnswerInv, NEW s \in Server, Crash(s)
  PROVE  AnswerInv'
<1> USE DEF Crash
<1>1. Range(<<>>) = {} /\ Distinct(<<>>) /\ <<>> \in Seq(Server)
  BY SMT DEF Range, Distinct
<1>2. LoopInv'
  BY DEF AnswerInv, LoopInv, mode, groups, Selected, servers, Passes
<1>3. PlaceInv'
  BY <1>1 DEF AnswerInv, PlaceInv, mode, servers
<1>4. AccountInv'
  BY DEF AccountInv
<1> QED
  BY <1>2, <1>3, <1>4 DEF AnswerInv

\* The loop takes up a group or a server, or is through.
LEMMA AnswerLoop ==
  ASSUME AnswerInv,
         Single \/ ReadAnsibleYamlInventory \/ NextGroup \/ NextServer \/ GroupDone \/ GroupsDone
  PROVE  AnswerInv'
<1>0. /\ mode \in {"single", "serial", "parallel"}
      /\ servers \in SUBSET Server
      /\ \A s \in servers : cmd.groupOf[s] \in groups
      /\ Selected \in SUBSET servers
  BY CommandFacts DEF AnswerInv, LoopInv
<1>1. UNCHANGED <<mode, groups, servers, Selected, chan, closed, outs, cmd>>
  BY DEF Single, ReadAnsibleYamlInventory, NextGroup, NextServer, GroupDone, GroupsDone,
         mode, groups, servers, Selected, Passes, channel
<1>2. CASE Single
  <2>1. LoopInv'
    BY <1>1, <1>2 DEF Single, AnswerInv, LoopInv, plan
  <2>2. PlaceInv'
    BY <1>0, <1>1, <1>2 DEF Single, AnswerInv, PlaceInv, AccountInv, Range
  <2>3. AccountInv'
    BY <1>1, <1>2 DEF Single, AccountInv
  <2> QED
    BY <2>1, <2>2, <2>3 DEF AnswerInv
<1>3. CASE ReadAnsibleYamlInventory
  <2>1. LoopInv'
    BY <1>1, <1>3 DEF ReadAnsibleYamlInventory, AnswerInv, LoopInv, AccountInv
  <2>2. PlaceInv'
    BY <1>1, <1>3 DEF ReadAnsibleYamlInventory, AnswerInv, PlaceInv, AccountInv
  <2>3. AccountInv'
    BY <1>0, <1>1, <1>3 DEF ReadAnsibleYamlInventory, AnswerInv, AccountInv, Accounted, Waiting, Range
  <2> QED
    BY <2>1, <2>2, <2>3 DEF AnswerInv
<1>4. CASE NextGroup
  <2>1. PICK g \in groupsLeft :
          /\ groupsLeft' = groupsLeft \ {g}
          /\ IF ~Passes(g) THEN UNCHANGED <<loop, serversLeft>>
                           ELSE loop' = "server" /\ serversLeft' = In(g)
    BY <1>4 DEF NextGroup
  <2>2. loop = "group" /\ UNCHANGED <<running, result>> /\ serversLeft = {} /\ g \in groups
    BY <1>4, <2>1 DEF NextGroup, AnswerInv, LoopInv
  <2>3. In(g) = {s \in servers : cmd.groupOf[s] = g}
    BY DEF In
  <2>4. Selected = {s \in servers : Passes(cmd.groupOf[s])}
    BY DEF Selected
  <2>5. LoopInv'
    BY <1>1, <2>1, <2>2, <2>3, <2>4 DEF AnswerInv, LoopInv
  <2>6. PlaceInv'
    BY <1>1, <2>1, <2>2 DEF AnswerInv, PlaceInv
  <2>7. Selected \ Waiting' = Selected \ Waiting
    BY <1>1, <2>1, <2>2, <2>3, <2>4 DEF Waiting
  <2>8. AccountInv'
    BY <1>1, <2>1, <2>2, <2>7 DEF AnswerInv, AccountInv, Accounted
  <2> QED
    BY <2>5, <2>6, <2>8 DEF AnswerInv
<1>5. CASE NextServer
  <2>1. PICK s \in serversLeft : serversLeft' = serversLeft \ {s} /\ running' = running \cup {s}
    BY <1>5 DEF NextServer
  <2>2. /\ loop = "server" /\ UNCHANGED <<groupsLeft, result>>
        /\ loop' = IF mode = "parallel" THEN "server" ELSE "wait"
    BY <1>5 DEF NextServer
  <2>3. mode # "single" /\ result = "none"
    BY <2>2 DEF AnswerInv, LoopInv
  <2>4. Accounted = Selected \ Waiting
    BY <2>2, <2>3 DEF AnswerInv, AccountInv
  <2>5. s \in Selected /\ s \in Waiting /\ cmd.groupOf[s] \notin groupsLeft
    BY <2>1 DEF AnswerInv, LoopInv, Waiting
  <2>6. s \notin Accounted
    BY <2>4, <2>5
  <2>7. LoopInv'
    BY <1>1, <2>1, <2>2, <2>3 DEF AnswerInv, LoopInv
  <2>8. PlaceInv'
    BY <1>0, <1>1, <2>1, <2>2, <2>3, <2>5, <2>6 DEF AnswerInv, PlaceInv, Accounted
  <2>9. Waiting' = Waiting \ {s}
    BY <1>1, <2>1, <2>2, <2>5 DEF Waiting
  <2>10. Accounted' = Accounted \cup {s}
    BY <1>1, <2>1 DEF Accounted
  <2>11. AccountInv'
    BY <1>1, <2>2, <2>3, <2>4, <2>5, <2>9, <2>10 DEF AccountInv
  <2> QED
    BY <2>7, <2>8, <2>11 DEF AnswerInv
<1>6. CASE GroupDone
  <2>1. LoopInv'
    BY <1>1, <1>6 DEF GroupDone, AnswerInv, LoopInv, plan
  <2>2. PlaceInv'
    BY <1>1, <1>6 DEF GroupDone, AnswerInv, PlaceInv, channel
  <2>3. AccountInv'
    BY <1>1, <1>6 DEF GroupDone, AnswerInv, AccountInv, Accounted, Waiting, plan
  <2> QED
    BY <2>1, <2>2, <2>3 DEF AnswerInv
<1>7. CASE GroupsDone
  <2>1. LoopInv'
    BY <1>0, <1>1, <1>7 DEF GroupsDone, AnswerInv, LoopInv, plan
  <2>2. PlaceInv'
    BY <1>0, <1>1, <1>7 DEF GroupsDone, AnswerInv, PlaceInv, channel
  <2>3. AccountInv'
    <3>1. mode # "single" /\ result = "none"
      BY <1>7 DEF GroupsDone, AnswerInv, LoopInv
    <3> QED
      BY <1>0, <1>1, <1>7, <3>1
      DEF GroupsDone, AnswerInv, LoopInv, PlaceInv, AccountInv, Accounted, Waiting, plan
  <2> QED
    BY <2>1, <2>2, <2>3 DEF AnswerInv
<1> QED
  BY <1>2, <1>3, <1>4, <1>5, <1>6, <1>7

\* An answer moves from the attempt to the loop.
LEMMA AnswerMoves ==
  ASSUME AnswerInv, NEW s \in Server, Answer(s) \/ Send(s)
  PROVE  AnswerInv'
<1>0. servers \in SUBSET Server /\ Selected \in SUBSET servers
  BY CommandFacts DEF AnswerInv, LoopInv
<1>1. UNCHANGED <<mode, groups, servers, Selected, closed, cmd, groupsLeft, serversLeft>>
  BY DEF Answer, Send, mode, groups, servers, Selected, Passes, channel, plan
<1>2. s \in running /\ running' = running \ {s} /\ s \notin Range(chan) /\ s \notin Range(outs)
  BY DEF Answer, Send, AnswerInv, PlaceInv
<1>3. CASE Answer(s)
  <2>1. loop = "wait" /\ mode # "parallel" /\ result = "none" /\ UNCHANGED chan
    BY <1>3 DEF Answer, AnswerInv, LoopInv, channel
  <2>2. running = {s} /\ running' = {} /\ chan = <<>>
    BY <1>2, <2>1 DEF AnswerInv, PlaceInv
  <2>3. ~closed
    BY <2>1 DEF AnswerInv, PlaceInv
  <2>4. CASE mode = "single"
    <3>1. loop' = "end" /\ outs' \in {<<s>>, <<>>} /\ result' \in {"ok", "error"}
      BY <1>3, <2>4 DEF Answer
    <3>2. outs' \in Seq(Server) /\ Distinct(outs')
      <4>1. <<s>> \in Seq(Server) /\ <<>> \in Seq(Server)
        OBVIOUS
      <4>2. DOMAIN <<s>> = {1}
        BY SMT
      <4>3. DOMAIN <<>> = {}
        BY SMT
      <4>4. Distinct(<<s>>) /\ Distinct(<<>>)
        BY <4>2, <4>3 DEF Distinct
      <4> QED
        BY <3>1, <4>1, <4>4
    <3>3. Range(chan) = {}
      BY <2>2, SMT DEF Range
    <3>4. PlaceInv'
      BY <1>1, <2>1, <2>2, <2>3, <3>1, <3>2, <3>3, SMT DEF PlaceInv, AnswerInv
    <3>5. LoopInv' /\ AccountInv'
      BY <1>1, <2>1, <2>4, <3>1 DEF AnswerInv, LoopInv, AccountInv
    <3> QED
      BY <3>4, <3>5 DEF AnswerInv
  <2>5. CASE mode # "single"
    <3>1. loop' = "server" /\ outs' = Append(outs, s) /\ result' = result
      BY <1>3, <2>5 DEF Answer
    <3>2. outs' \in Seq(Server) /\ Range(outs') = Range(outs) \cup {s} /\ Distinct(outs')
      BY <1>2, <3>1, AppendDistinct DEF AnswerInv, PlaceInv
    <3>3. LoopInv'
      BY <1>1, <2>1, <2>5, <3>1 DEF AnswerInv, LoopInv
    <3>4. Range(chan) = {}
      BY <2>2, SMT DEF Range
    <3>5. PlaceInv'
      BY <1>1, <2>1, <2>2, <2>3, <3>1, <3>2, <3>4 DEF AnswerInv, PlaceInv
    <3>6. Accounted' = Accounted /\ Waiting' = Waiting
      BY <1>1, <2>1, <2>2, <3>2 DEF Accounted, Waiting
    <3>7. AccountInv'
      BY <1>1, <2>1, <2>5, <3>1, <3>6 DEF AnswerInv, AccountInv
    <3> QED
      BY <3>3, <3>5, <3>7 DEF AnswerInv
  <2> QED
    BY <2>4, <2>5
<1>4. CASE Send(s)
  <2>1. chan' = Append(chan, s) /\ UNCHANGED <<loop, outs, result>> /\ mode = "parallel"
    BY <1>4 DEF Send
  <2>2. chan' \in Seq(Server) /\ Range(chan') = Range(chan) \cup {s} /\ Distinct(chan')
    BY <1>2, <2>1, AppendDistinct DEF AnswerInv, PlaceInv
  <2>4. LoopInv'
    BY <1>1, <2>1 DEF AnswerInv, LoopInv
  <2>5. PlaceInv'
    BY <1>1, <1>2, <2>1, <2>2 DEF AnswerInv, PlaceInv
  <2>6. Accounted' = Accounted /\ Waiting' = Waiting
    BY <1>1, <1>2, <2>1, <2>2 DEF Accounted, Waiting
  <2>7. AccountInv'
    BY <1>1, <1>2, <2>1, <2>6 DEF AnswerInv, AccountInv
  <2> QED
    BY <2>4, <2>5, <2>7 DEF AnswerInv
<1> QED
  BY <1>3, <1>4

\* The loop receives what there is, until the channel is closed and empty.
LEMMA AnswerCollect ==
  ASSUME AnswerInv, Receive \/ Close \/ Collected
  PROVE  AnswerInv'
<1>1. UNCHANGED <<mode, groups, servers, Selected, cmd, groupsLeft, serversLeft, running>>
  BY DEF Receive, Close, Collected, mode, groups, servers, Selected, Passes, channel, plan
<1>2. loop = "collect" /\ mode = "parallel" /\ result = "none"
  BY DEF Receive, Close, AllDone, Collected, AnswerInv, LoopInv
<1>3. CASE Receive
  <2>1. /\ chan # <<>> /\ chan' = Tail(chan) /\ outs' = Append(outs, Head(chan))
        /\ UNCHANGED <<loop, closed, result>>
    BY <1>3 DEF Receive, MayReceive
  <2>2. /\ Head(chan) \in Server /\ Head(chan) \in Range(chan)
        /\ Tail(chan) \in Seq(Server) /\ Range(Tail(chan)) = Range(chan) \ {Head(chan)}
        /\ Distinct(Tail(chan))
    BY <2>1, TailDistinct DEF AnswerInv, PlaceInv
  <2>3. Head(chan) \notin Range(outs) /\ Head(chan) \notin running
    BY <2>2 DEF AnswerInv, PlaceInv
  <2>4. /\ outs' \in Seq(Server) /\ Range(outs') = Range(outs) \cup {Head(chan)}
        /\ Distinct(outs')
    BY <2>1, <2>2, <2>3, AppendDistinct DEF AnswerInv, PlaceInv
  <2>5. LoopInv'
    BY <1>1, <2>1 DEF AnswerInv, LoopInv
  <2>6. PlaceInv'
    BY <1>1, <1>2, <2>1, <2>2, <2>3, <2>4 DEF AnswerInv, PlaceInv
  <2>7. Accounted' = Accounted /\ Waiting' = Waiting
    BY <1>1, <2>1, <2>2, <2>4 DEF Accounted, Waiting
  <2>8. AccountInv'
    BY <1>1, <1>2, <2>1, <2>7 DEF AnswerInv, AccountInv
  <2> QED
    BY <2>5, <2>6, <2>8 DEF AnswerInv
<1>4. CASE Close
  <2>1. running = {} /\ closed' = TRUE /\ UNCHANGED <<loop, chan, outs, result>>
    BY <1>4 DEF Close, AllDone
  <2> QED
    BY <1>1, <1>2, <2>1 DEF AnswerInv, LoopInv, PlaceInv, AccountInv, Accounted, Waiting
<1>5. CASE Collected
  <2>1. closed /\ chan = <<>> /\ loop' = "end" /\ result' = "ok" /\ UNCHANGED <<chan, closed, outs>>
    BY <1>5 DEF Collected, channel
  <2>2. running = {} /\ groupsLeft = {} /\ serversLeft = {}
    BY <1>2, <2>1 DEF AnswerInv, PlaceInv, LoopInv
  <2> QED
    BY <1>1, <1>2, <2>1, <2>2 DEF AnswerInv, LoopInv, PlaceInv, AccountInv, Accounted, Waiting
<1> QED
  BY <1>3, <1>4, <1>5

LEMMA AnswerStep == ASSUME AnswerInv, [Next]_vars PROVE AnswerInv'
<1>1. CASE UNCHANGED vars
  BY <1>1, AnswerLocal DEF vars, plan, channel
<1>2. CASE Set(Main)
  BY <1>2, AnswerLocal DEF Set
<1>3. CASE Single \/ ReadAnsibleYamlInventory \/ NextGroup \/ NextServer \/ GroupDone \/ GroupsDone
  BY <1>3, AnswerLoop
<1>4. CASE Receive \/ Collected \/ Close
  BY <1>4, AnswerCollect
<1>5. ASSUME NEW s \in Server, Answer(s) \/ Send(s) PROVE AnswerInv'
  BY <1>5, AnswerMoves
<1>6. ASSUME NEW s \in Server, Set(s) \/ Default(s) \/ Get(s) \/ Execute(s) PROVE AnswerInv'
  BY <1>6, AnswerLocal DEF Set, Default, Get, Execute
<1>7. ASSUME NEW s \in Server, Crash(s) PROVE AnswerInv'
  BY <1>7, AnswerCrash
<1>8. CASE Ended
  BY <1>8, AnswerLocal DEF Ended, vars, plan, channel
<1> QED
  BY <1>1, <1>2, <1>3, <1>4, <1>5, <1>6, <1>7, <1>8 DEF Next, LoopStep, AttemptStep

LEMMA AnswersAreKept == AnswerInv => AnswersKept
<1> SUFFICES ASSUME AnswerInv, loop = "end", result = "ok", mode # "single"
             PROVE  Range(outs) = Selected /\ Len(outs) = Cardinality(Selected)
  BY DEF AnswersKept
<1>1. Accounted = Selected \ Waiting /\ Waiting = {} /\ running = {} /\ chan = <<>>
  BY DEF AnswerInv, AccountInv, Waiting
<1>2. Range(chan) = {}
  BY <1>1, SMT DEF Range
<1>3. Range(outs) = Selected
  BY <1>1, <1>2 DEF Accounted
<1> QED
  BY <1>3, DistinctCount DEF AnswerInv, PlaceInv

\* Whatever the interleaving, the command returns one answer of each attempt it was
\* to make (cmd/inventory.go:191-269: the wait group, outChan and its closing).
THEOREM AnswersKeptAlways == Spec => []AnswersKept
<1>1. AnswerInv /\ [Next]_vars => AnswerInv'
  BY AnswerStep
<1> QED
  BY <1>1, AnswersAreKept, AnswerInit, PTL DEF Spec

-----------------------------------------------------------------------------
(* Types.                                                                    *)

\* What a command is given stays what it is.
LEMMA SameCommand ==
  ASSUME UNCHANGED cmd
  PROVE  /\ UNCHANGED <<mode, groups, servers, common, own, Value, Access, Selected>>
         /\ \A g : In(g)' = In(g)
BY DEF mode, groups, servers, common, own, Value, Access, Selected, Passes, In

LEMMA CommandKept == [Next]_vars => UNCHANGED cmd
BY DEF Next, vars, LoopStep, AttemptStep, Set, Default, Single, ReadAnsibleYamlInventory, NextGroup,
       NextServer, GroupDone, GroupsDone, Receive, Collected, Answer, Get, Crash, Execute, Send,
       Close, Ended

LEMMA ValueFacts ==
  ASSUME cmd \in Commands
  PROVE  /\ None \in Value /\ Torn \in Value /\ defaultPort \in Value
         /\ \A s \in servers, f \in Field : own[s][f] \in Value
         /\ \A g \in groups, f \in Field : common[g][f] \in Value
         /\ \A f \in Field, v \in Value, op \in {"set", "default", "get"} : <<op, f, v>> \in Access
         /\ Field = {"user", "ip", "port", "key"}
BY DEF Value, Access, Field

\* The parameters that are given, and no others, are copied.
LEMMA CopyEffect ==
  ASSUME NEW op, NEW from, NEW Q,
         \A f \in {"user", "port", "key"} : from[f] # None => <<op, f, from[f]>> \in Q
  PROVE  /\ Copy(op, from) \in Seq(Q)
         /\ \A f \in {"user", "port", "key"} :
              from[f] # None => <<op, f, from[f]>> \in Range(Copy(op, from))
<1>1. ASSUME NEW f \in {"user", "port", "key"}
      PROVE  /\ If(op, f, from[f]) \in Seq(Q)
             /\ from[f] # None => <<op, f, from[f]>> \in Range(If(op, f, from[f]))
  <2>1. CASE from[f] = None
    BY <2>1 DEF If
  <2>2. CASE from[f] # None
    <3>1. If(op, f, from[f]) = <<<<op, f, from[f]>>>> /\ <<op, f, from[f]>> \in Q
      BY <2>2 DEF If
    <3>2. <<<<op, f, from[f]>>>> \in Seq(Q) /\ <<op, f, from[f]>> \in Range(<<<<op, f, from[f]>>>>)
      BY <3>1 DEF Range
    <3> QED
      BY <3>1, <3>2
  <2> QED
    BY <2>1, <2>2
<1>2. /\ If(op, "user", from.user) \in Seq(Q) /\ If(op, "port", from.port) \in Seq(Q)
      /\ If(op, "key", from.key) \in Seq(Q)
  BY <1>1
<1> DEFINE u == If(op, "user", from.user) p == If(op, "port", from.port) k == If(op, "key", from.key)
        w == u \o p
<1>3. Copy(op, from) = w \o k
  BY DEF Copy
<1>4. u \in Seq(Q) /\ p \in Seq(Q) /\ k \in Seq(Q)
  BY <1>2
<1>5. /\ from.user # None => <<op, "user", from.user>> \in Range(u)
      /\ from.port # None => <<op, "port", from.port>> \in Range(p)
      /\ from.key # None => <<op, "key", from.key>> \in Range(k)
  BY <1>1
<1> HIDE DEF u, p, k
<1>6. w \in Seq(Q) /\ Range(w) = Range(u) \cup Range(p)
  BY <1>4, RangeConcatenation, ConcatProperties
<1> HIDE DEF w
<1>7. w \o k \in Seq(Q) /\ Range(w \o k) = Range(w) \cup Range(k)
  BY <1>4, <1>6, RangeConcatenation, ConcatProperties
<1> QED
  BY <1>3, <1>5, <1>6, <1>7

LEMMA SessionType ==
  ASSUME cmd \in Commands PROVE Session \in Seq(Access)
<1>1. get("ip") \in Access /\ get("key") \in Access /\ get("user") \in Access /\ get("port") \in Access
  BY ValueFacts DEF get
<1> QED
  BY <1>1 DEF Session

LEMMA AttemptType ==
  ASSUME cmd \in Commands, NEW s \in servers PROVE Attempt(s) \in Seq(Access)
<1>1. Copy("set", own[s]) \in Seq(Access)
  BY ValueFacts, CopyEffect
<1>2. set("ip", own[s].ip) \in Access /\ <<"default", "port", defaultPort>> \in Access
  BY ValueFacts DEF set
<1>3. <<set("ip", own[s].ip), <<"default", "port", defaultPort>>>> \in Seq(Access)
  BY <1>2
<1> QED
  BY <1>1, <1>3, SessionType, ConcatProperties DEF Attempt

LEMMA EnterGroupType ==
  ASSUME cmd \in Commands, NEW g \in groups PROVE EnterGroup(g) \in Seq(Access)
<1>1. Copy("set", common[g]) \in Seq(Access)
  BY ValueFacts, CopyEffect
<1>2. \A f \in Field : set(f, None) \in Access
  BY ValueFacts DEF set
<1>3. <<set("user", None), set("ip", None), set("port", None), set("key", None)>> \in Seq(Access)
  BY <1>2 DEF Field
<1> QED
  BY <1>1, <1>3, ConcatProperties DEF EnterGroup

LEMMA InventoryInitType == Init => TypeOK
<1> SUFFICES ASSUME Init PROVE TypeOK
  OBVIOUS
<1>1. None \in Value
  BY DEF Value
<1>2. <<>> \in Seq(Access) /\ <<>> \in Seq(Server)
  OBVIOUS
<1>3. Pending \in Pending..numCommands
  BY ServerAssumption DEF Pending
<1> QED
  BY <1>1, <1>2, <1>3 DEF Init, TypeOK

\* An access of a thread is one of its code.
LEMMA AccessStep ==
  ASSUME TypeOK, NEW t \in Thread, Busy(t)
  PROVE  /\ Head(code[t]) \in Access /\ Tail(code[t]) \in Seq(Access)
         /\ \A v : After(code[t], v) \in Seq(Access)
<1>1. code[t] \in Seq(Access) /\ code[t] # <<>>
  BY DEF TypeOK, Busy
<1>2. Head(code[t]) \in Access /\ Tail(code[t]) \in Seq(Access)
  BY <1>1
<1>3. Len(code[t]) = 5 => SubSeq(code[t], 2, 4) \in Seq(Access)
  BY <1>1
<1>4. ASSUME NEW v PROVE After(code[t], v) \in Seq(Access)
  <2>1. CASE Len(code[t]) = 6 /\ v = None
    BY <2>1 DEF After
  <2>2. CASE Len(code[t]) = 5 /\ v = None
    BY <1>3, <2>2 DEF After
  <2>3. CASE Len(code[t]) \notin {5, 6} \/ v # None
    BY <1>2, <2>3 DEF After
  <2> QED
    BY <2>1, <2>2, <2>3
<1> QED
  BY <1>2, <1>4

LEMMA AccessType ==
  ASSUME TypeOK, UNCHANGED cmd, NEW t \in Thread, Set(t) \/ (t \in Server /\ (Default(t) \/ Get(t) \/ Crash(t) \/ Execute(t)))
  PROVE  TypeOK'
<1>0. /\ cmd \in Commands /\ Value' = Value /\ Access' = Access
      /\ config \in [Field -> Value] /\ code \in [Thread -> Seq(Access)]
      /\ login \in [Server -> [Field -> Value]] /\ ran \in [Server -> Pending..numCommands]
  BY SameCommand DEF TypeOK
<1>1. None \in Value /\ Torn \in Value
  BY <1>0, ValueFacts
<1>2. 0 \in Pending..numCommands
  BY ServerAssumption DEF Pending
<1>3. CASE Set(t)
  <2>1. PICK a \in Access : a = Head(code[t])
    BY <1>3, AccessStep DEF Set
  <2>2. a[2] \in Field /\ a[3] \in Value
    BY DEF Access
  <2>3. Seen(t, a[2], a[3]) \subseteq Value
    BY <1>1, <2>2 DEF Seen
  <2>4. config' \in [Field -> Value]
    BY <1>0, <1>3, <2>1, <2>2, <2>3 DEF Set
  <2>5. code' \in [Thread -> Seq(Access)]
    BY <1>0, <1>3, AccessStep DEF Set
  <2>6. UNCHANGED <<loop, groupsLeft, serversLeft, login, ran, running, chan, closed, outs, result>>
    BY <1>3 DEF Set, plan, channel
  <2> QED
    BY <1>0, <2>4, <2>5, <2>6 DEF TypeOK
<1>4. CASE t \in Server /\ Get(t)
  <2>1. PICK a \in Access : a = Head(code[t])
    BY <1>4, AccessStep DEF Get
  <2>2. PICK v \in Seen(t, a[2], config[a[2]]) :
          /\ login' = [login EXCEPT ![t][a[2]] = v]
          /\ code' = [code EXCEPT ![t] = After(@, v)]
          /\ ran' = IF Len(code[t]) = 6 /\ v = None THEN [ran EXCEPT ![t] = 0] ELSE ran
    BY <1>4, <2>1 DEF Get
  <2>3. a[2] \in Field
    BY DEF Access
  <2>4. v \in Value
    BY <1>0, <1>1, <2>3 DEF Seen
  <2>5. login' \in [Server -> [Field -> Value]]
    BY <1>0, <2>2, <2>3, <2>4
  <2>6. After(code[t], v) \in Seq(Access)
    BY <1>4, AccessStep DEF Get
  <2>7. code' \in [Thread -> Seq(Access)]
    BY <1>0, <2>2, <2>6
  <2>8. ran' \in [Server -> Pending..numCommands]
    BY <1>0, <1>2, <2>2
  <2>9. UNCHANGED <<loop, groupsLeft, serversLeft, config, running, chan, closed, outs, result>>
    BY <1>4 DEF Get, plan, channel
  <2> QED
    BY <1>0, <2>5, <2>7, <2>8, <2>9 DEF TypeOK
<1>5. CASE t \in Server /\ Crash(t)
  <2>1. <<>> \in Seq(Access) /\ <<>> \in Seq(Server)
    OBVIOUS
  <2>2. /\ config' \in [Field -> Value] /\ code' \in [Thread -> Seq(Access)]
        /\ login' \in [Server -> [Field -> Value]]
    BY <1>1, <1>5, <2>1 DEF Crash
  <2>3. /\ groupsLeft' = {} /\ serversLeft' = {} /\ running' = {} /\ chan' = <<>> /\ closed' = FALSE
        /\ outs' = <<>> /\ loop' = "crashed" /\ UNCHANGED <<ran, result>>
    BY <1>5 DEF Crash
  <2> QED
    BY <1>0, <2>1, <2>2, <2>3 DEF TypeOK
<1>6. CASE t \in Server /\ Execute(t)
  <2>1. Outcomes \subseteq Pending..numCommands
    BY ServerAssumption DEF Outcomes, Pending
  <2>2. ran' \in [Server -> Pending..numCommands]
    BY <1>0, <1>6, <2>1 DEF Execute
  <2>3. UNCHANGED <<loop, groupsLeft, serversLeft, config, code, login, running, chan, closed, outs, result>>
    BY <1>6 DEF Execute, plan, channel
  <2> QED
    BY <1>0, <2>2, <2>3 DEF TypeOK
<1>7. CASE t \in Server /\ Default(t)
  <2>1. PICK a \in Access : a = Head(code[t])
    BY <1>7, AccessStep DEF Default
  <2>2. set(a[2], a[3]) \in Access
    BY DEF Access, set
  <2>3. Tail(code[t]) \in Seq(Access)
    BY <1>7, AccessStep DEF Default
  <2>4. <<set(a[2], a[3])>> \o Tail(code[t]) \in Seq(Access)
    BY <2>2, <2>3
  <2>5. code' \in {[code EXCEPT ![t] = <<set(a[2], a[3])>> \o Tail(code[t])], [code EXCEPT ![t] = Tail(code[t])]}
    BY <1>7, <2>1 DEF Default
  <2>6. code' \in [Thread -> Seq(Access)]
    BY <1>0, <2>3, <2>4, <2>5
  <2>7. UNCHANGED <<loop, groupsLeft, serversLeft, config, login, ran, running, chan, closed, outs, result>>
    BY <1>7 DEF Default, plan, channel
  <2> QED
    BY <1>0, <2>6, <2>7 DEF TypeOK
<1> QED
  BY <1>3, <1>4, <1>5, <1>6, <1>7

\* What the loop takes up are groups and servers of the inventory.
LEMMA LoopType ==
  ASSUME TypeOK, UNCHANGED cmd,
         Single \/ ReadAnsibleYamlInventory \/ NextGroup \/ NextServer \/ GroupDone \/ GroupsDone,
         serversLeft \subseteq servers, groupsLeft \subseteq groups
  PROVE  TypeOK'
<1>0. /\ cmd \in Commands /\ Value' = Value /\ Access' = Access
      /\ config \in [Field -> Value] /\ code \in [Thread -> Seq(Access)]
  BY SameCommand DEF TypeOK
<1>1. groups \subseteq Group /\ servers \subseteq Server /\ Server \subseteq Thread /\ Main \in Thread
  BY <1>0, CommandAssumption DEF groups, servers, Thread
<1>2. CASE Single
  <2>1. PICK s \in servers :
          /\ config' = [f \in Field |-> IF f = "port" /\ own[s][f] = None THEN defaultPort ELSE own[s][f]]
          /\ code' = [code EXCEPT ![s] = Session]
          /\ running' = {s}
    BY <1>2 DEF Single
  <2>2. config' \in [Field -> Value]
    BY <1>0, <2>1, ValueFacts
  <2>3. code' \in [Thread -> Seq(Access)]
    BY <1>0, <2>1, SessionType
  <2>4. loop' = "wait" /\ UNCHANGED <<groupsLeft, serversLeft, login, ran, chan, closed, outs, result>>
    BY <1>2 DEF Single, plan, channel
  <2> QED
    BY <1>0, <1>1, <2>1, <2>2, <2>3, <2>4 DEF TypeOK
<1>3. CASE ReadAnsibleYamlInventory
  BY <1>0, <1>1, <1>3 DEF ReadAnsibleYamlInventory, TypeOK, channel
<1>4. CASE NextGroup
  <2>1. PICK g \in groupsLeft :
       /\ groupsLeft' = groupsLeft \ {g}
       /\ IF ~Passes(g)
          THEN UNCHANGED <<loop, serversLeft, code>>
          ELSE /\ loop' = "server"
               /\ serversLeft' = In(g)
               /\ code' = [code EXCEPT ![Main] = EnterGroup(g)]
    BY <1>4 DEF NextGroup
  <2>2. In(g) \subseteq servers
    BY DEF In
  <2>3. code' \in [Thread -> Seq(Access)]
    BY <1>0, <2>1, EnterGroupType
  <2>4. serversLeft' \in SUBSET Server /\ groupsLeft' \in SUBSET Group
    BY <1>1, <2>1, <2>2 DEF TypeOK
  <2>5. loop' \in {loop, "server"} /\ UNCHANGED <<config, login, ran, running, chan, closed, outs, result>>
    BY <1>4, <2>1 DEF NextGroup, channel
  <2> QED
    BY <1>0, <2>3, <2>4, <2>5 DEF TypeOK
<1>5. CASE NextServer
  <2>1. PICK s \in serversLeft :
       /\ serversLeft' = serversLeft \ {s}
       /\ code' = [code EXCEPT ![s] = Attempt(s)]
       /\ running' = running \cup {s}
    BY <1>5 DEF NextServer
  <2>2. code' \in [Thread -> Seq(Access)]
    BY <1>0, <2>1, AttemptType
  <2>3. serversLeft' \in SUBSET Server /\ running' \in SUBSET Server
    BY <1>1, <2>1 DEF TypeOK
  <2>4. /\ loop' \in {"server", "wait"}
        /\ UNCHANGED <<groupsLeft, config, login, ran, chan, closed, outs, result>>
    BY <1>5 DEF NextServer, channel
  <2> QED
    BY <1>0, <2>2, <2>3, <2>4 DEF TypeOK
<1>6. CASE GroupDone \/ GroupsDone
  BY <1>0, <1>6 DEF GroupDone, GroupsDone, TypeOK, plan, channel
<1> QED
  BY <1>2, <1>3, <1>4, <1>5, <1>6

LEMMA AnswersType ==
  ASSUME TypeOK, UNCHANGED cmd, Receive \/ Collected \/ Close \/ \E s \in Server : Answer(s) \/ Send(s)
  PROVE  TypeOK'
<1>0. /\ cmd \in Commands /\ Value' = Value /\ Access' = Access
      /\ chan \in Seq(Server) /\ outs \in Seq(Server) /\ running \in SUBSET Server
  BY SameCommand DEF TypeOK
<1>1. UNCHANGED <<groupsLeft, serversLeft, config, code, login, ran>>
  BY DEF Receive, Collected, Close, Answer, Send, plan
<1>2. chan' \in Seq(Server) /\ outs' \in Seq(Server) /\ running' \in SUBSET Server
  <2>1. CASE Receive
    <3>1. Head(chan) \in Server /\ Tail(chan) \in Seq(Server)
      BY <1>0, <2>1 DEF Receive, MayReceive
    <3> QED
      BY <1>0, <2>1, <3>1 DEF Receive
  <2>2. ASSUME NEW s \in Server, Answer(s) PROVE chan' \in Seq(Server) /\ outs' \in Seq(Server) /\ running' \in SUBSET Server
    <3>1. <<s>> \in Seq(Server) /\ <<>> \in Seq(Server) /\ Append(outs, s) \in Seq(Server)
      BY <1>0
    <3>2. outs' \in {<<s>>, <<>>, Append(outs, s)} /\ UNCHANGED chan /\ running' = running \ {s}
      BY <2>2 DEF Answer, channel
    <3> QED
      BY <1>0, <3>1, <3>2
  <2>3. ASSUME NEW s \in Server, Send(s) PROVE chan' \in Seq(Server) /\ outs' \in Seq(Server) /\ running' \in SUBSET Server
    BY <1>0, <2>3 DEF Send
  <2>4. CASE Collected \/ Close
    BY <1>0, <2>4 DEF Collected, Close, channel
  <2> QED
    BY <2>1, <2>2, <2>3, <2>4
<1>3. /\ loop' \in {loop, "end", "server"} /\ closed' \in {closed, TRUE} /\ result' \in {result, "ok", "error"}
  BY DEF Receive, Collected, Close, Answer, Send, channel
<1> QED
  BY <1>0, <1>1, <1>2, <1>3 DEF TypeOK

LEMMA InventoryNextType == TypeOK /\ AnswerInv /\ [Next]_vars => TypeOK'
<1> SUFFICES ASSUME TypeOK, AnswerInv, [Next]_vars PROVE TypeOK'
  OBVIOUS
<1>0. UNCHANGED cmd
  BY CommandKept
<1>1. serversLeft \subseteq servers /\ groupsLeft \subseteq groups
  BY DEF AnswerInv, LoopInv, Selected
<1>2. Main \in Thread /\ Server \subseteq Thread
  BY DEF Thread
<1>3. CASE UNCHANGED vars
  <2>1. Value' = Value /\ Access' = Access
    BY <1>0, SameCommand
  <2> QED
    BY <1>3, <2>1 DEF vars, plan, channel, TypeOK
<1>4. CASE Set(Main)
  BY <1>0, <1>2, <1>4, AccessType
<1>5. ASSUME NEW s \in Server, Set(s) \/ Default(s) \/ Get(s) \/ Crash(s) \/ Execute(s) PROVE TypeOK'
  BY <1>0, <1>2, <1>5, AccessType
<1>6. CASE Single \/ ReadAnsibleYamlInventory \/ NextGroup \/ NextServer \/ GroupDone \/ GroupsDone
  BY <1>0, <1>1, <1>6, LoopType
<1>7. CASE Receive \/ Collected \/ Close \/ \E s \in Server : Answer(s) \/ Send(s)
  BY <1>0, <1>7, AnswersType
<1> QED
  BY <1>3, <1>4, <1>5, <1>6, <1>7 DEF Next, LoopStep, AttemptStep, Ended

\* The variables keep to their types for every inventory and every interleaving: what an
\* attempt reads is a value of the inventory, the default or torn.
THEOREM InventoryTypeCorrect == Spec => []TypeOK
BY AnswerInit, AnswerStep, InventoryInitType, InventoryNextType, PTL DEF Spec

-----------------------------------------------------------------------------
(* One after the other.                                                      *)

\* The parameters an attempt has of its own, among which always an address, and what it
\* writes into config of them; then the port, if there is none; and what it then reads.
Given(s, f) == f = "ip" \/ own[s][f] # None
Writes(s) == {set(f, own[s][f]) : f \in {h \in Field : Given(s, h)}}
InConfig(s, f) == Given(s, f) => config[f] = own[s][f]
HasRead(s, F) == \A f \in F : Given(s, f) => login[s][f] = own[s][f]
Reached(s) ==
  /\ login[s].ip = own[s].ip
  /\ own[s].ip # None => \A f \in Field : own[s][f] # None => login[s][f] = own[s][f]

\* What is left once the parameters are written, and once the port is found missing.
Rest == <<<<"default", "port", defaultPort>>>> \o Session
NoPort == <<set("port", defaultPort)>> \o Session
\* The reads that are left, with a key and without.
Key5 == <<get("key"), get("user"), get("ip"), get("port"), get("key")>>
Key4 == <<get("user"), get("ip"), get("port"), get("key")>>
Key3 == <<get("ip"), get("port"), get("key")>>
Key2 == <<get("port"), get("key")>>
Key1 == <<get("key")>>
Pass3 == <<get("user"), get("ip"), get("port")>>
Pass2 == <<get("ip"), get("port")>>
Pass1 == <<get("port")>>

Writing(s) ==
  \E w \in Seq(Writes(s)) :
    /\ code[s] = w \o Rest
    /\ \A f \in Field : Given(s, f) => config[f] = own[s][f] \/ set(f, own[s][f]) \in Range(w)
Defaulting(s) == code[s] = NoPort /\ ~Given(s, "port") /\ \A f \in Field : InConfig(s, f)
Reads(s) ==
  \/ code[s] = Session
  \/ code[s] = Key5 /\ HasRead(s, {"ip"})
  \/ code[s] \in {Key4, Pass3} /\ HasRead(s, {"ip", "key"})
  \/ code[s] \in {Key3, Key2, Pass2, Pass1} /\ HasRead(s, {"ip", "key", "user"})
  \/ code[s] = Key1 /\ HasRead(s, Field)
Reading(s) == Reads(s) /\ \A f \in Field : InConfig(s, f)
AttemptInv(s) == Writing(s) \/ Defaulting(s) \/ Reading(s) \/ (code[s] = <<>> /\ Reached(s))

\* Only one thread has accesses to make, the loop or the one attempt it waits for; an
\* attempt that is over has read what it was to read.
TurnInv ==
  /\ loop # "crashed"
  /\ loop # "wait" => \A s \in Server : code[s] = <<>>
  /\ loop = "wait" => \A s \in Server \ running : code[s] = <<>>
  /\ loop # "server" => code[Main] = <<>>
TriedInv ==
  /\ \A s \in Server : ran[s] # Pending => code[s] = <<>> /\ Reached(s) /\ s \in running \cup Range(outs)
  /\ \A s \in Range(outs) : ran[s] # Pending
SerialInv == mode = "serial" => TurnInv /\ (\A s \in running : AttemptInv(s)) /\ TriedInv

\* The first of a sequence of accesses, when others come after them.
LEMMA FirstOf ==
  ASSUME NEW Q, NEW R, NEW w \in Seq(Q), NEW t \in Seq(R), w # <<>>
  PROVE  /\ Head(w \o t) = Head(w) /\ Tail(w \o t) = Tail(w) \o t /\ w \o t # <<>>
         /\ Head(w) \in Q /\ Tail(w) \in Seq(Q) /\ Range(w) = {Head(w)} \cup Range(Tail(w))
<1> DEFINE r == Tail(w)
<1>1. /\ r \in Seq(Q) /\ Len(r) = Len(w) - 1 /\ Len(w) \in Nat \ {0} /\ Head(w) = w[1] /\ w[1] \in Q
      /\ \A i \in 1..Len(r) : r[i] = w[i + 1]
      /\ DOMAIN w = 1..Len(w) /\ DOMAIN r = 1..Len(r)
  BY HeadTailProperties, LenProperties, EmptySeq, ElementOfSeq, SMT
<1>2. Head(w \o t) = Head(w) /\ w \o t # <<>>
  BY <1>1
<1>3. Tail(w \o t) = r \o t
  <2> DEFINE a == Tail(w \o t) b == r \o t
  <2>1. /\ a \in Seq(Q \cup R) /\ b \in Seq(Q \cup R) /\ Len(t) \in Nat
        /\ Len(a) = Len(w) + Len(t) - 1 /\ Len(b) = Len(r) + Len(t)
    BY <1>1
  <2>2. \A i \in 1..Len(a) : a[i] = (w \o t)[i + 1]
    BY <1>1
  <2>3. \A i \in 1..Len(a) : (w \o t)[i + 1] = b[i]
    BY <1>1, <2>1
  <2> HIDE DEF a, b
  <2>4. Len(a) = Len(b)
    BY <1>1, <2>1
  <2>5. \A i \in 1..Len(a) : a[i] = b[i]
    BY <2>2, <2>3
  <2>6. a = b
    BY <2>1, <2>4, <2>5, SeqEqual
  <2> QED
    BY <2>6 DEF a, b
<1> HIDE DEF r
<1>4. Range(w) = {Head(w)} \cup Range(r)
  <2>1. ASSUME NEW x \in Range(w), x # Head(w) PROVE x \in Range(r)
    <3>1. PICK i \in 1..Len(w) : w[i] = x
      BY <1>1 DEF Range
    <3>2. i - 1 \in 1..Len(r) /\ r[i - 1] = x
      BY <1>1, <2>1, <3>1, SMT
    <3> QED
      BY <1>1, <3>2 DEF Range
  <2>2. ASSUME NEW x \in Range(r) PROVE x \in Range(w)
    <3>1. PICK i \in 1..Len(r) : r[i] = x
      BY <1>1 DEF Range
    <3>2. i + 1 \in 1..Len(w) /\ w[i + 1] = x
      BY <1>1, <3>1, SMT
    <3> QED
      BY <1>1, <3>2 DEF Range
  <2>3. Head(w) \in Range(w)
    BY <1>1 DEF Range
  <2> QED
    BY <2>1, <2>2, <2>3
<1> QED
  BY <1>1, <1>2, <1>3, <1>4 DEF r

\* The parameters with the address, and the default with the reads.
LEMMA PairSplit == ASSUME NEW S, NEW i \in S, NEW d \in S PROVE <<i, d>> = <<i>> \o <<d>>
<1> DEFINE l == <<i, d>> r == <<i>> \o <<d>>
<1>1. l \in Seq(S) /\ r \in Seq(S) /\ Len(l) = 2 /\ Len(r) = 2
  OBVIOUS
<1>2. l[1] = r[1] /\ l[2] = r[2]
  OBVIOUS
<1> HIDE DEF l, r
<1>3. l = r
  BY <1>1, <1>2, SeqEqual
<1> QED
  BY <1>3 DEF l, r

LEMMA AttemptShape ==
  ASSUME cmd \in Commands, NEW s \in servers
  PROVE  \E w \in Seq(Writes(s)) :
           /\ Attempt(s) = w \o Rest
           /\ \A f \in Field : Given(s, f) => set(f, own[s][f]) \in Range(w)
<1> DEFINE Q == Writes(s) c == Copy("set", own[s]) i == set("ip", own[s].ip)
        d == <<"default", "port", defaultPort>>
<1>1. \A f \in {"user", "port", "key"} : own[s][f] # None => <<"set", f, own[s][f]>> \in Q
  BY DEF Writes, Given, set, Field
<1>2. i \in Q
  BY DEF Writes, Given, Field
<1>3. Attempt(s) = (c \o <<i, d>>) \o Session
  BY DEF Attempt
<1>4. Session \in Seq(Access)
  BY SessionType
<1> HIDE DEF Q
<1>5. /\ c \in Seq(Q)
      /\ \A f \in {"user", "port", "key"} : own[s][f] # None => <<"set", f, own[s][f]>> \in Range(c)
  BY <1>1, CopyEffect
<1> DEFINE w == c \o <<i>> t == Session
<1>6. i \in Range(<<i>>) /\ <<i>> \in Seq(Q)
  BY <1>2 DEF Range
<1>7. w \in Seq(Q) /\ Range(w) = Range(c) \cup Range(<<i>>)
  BY <1>5, <1>6, RangeConcatenation, ConcatProperties
<1>8. \A f \in Field : Given(s, f) => set(f, own[s][f]) \in Range(w)
  BY <1>5, <1>6, <1>7 DEF Given, set, Field
<1>9. Attempt(s) = w \o Rest
  <2> DEFINE I == <<i>> E == <<d>> T == <<i, d>>
  <2>1. i \in Access /\ d \in Access /\ c \in Seq(Access) /\ t \in Seq(Access)
    BY <1>4, ValueFacts, CopyEffect DEF set
  <2>2. I \in Seq(Access) /\ E \in Seq(Access)
    BY <2>1
  <2>3. Rest = E \o t /\ Attempt(s) = (c \o T) \o t /\ w = c \o I
    BY <1>3 DEF Rest
  <2> HIDE DEF c, i, d, t
  <2>4. T = I \o E
    BY <2>1, PairSplit
  <2> HIDE DEF w, I, E, T
  <2> DEFINE l == (c \o (I \o E)) \o t r == (c \o I) \o (E \o t)
  <2>5. l \in Seq(Access) /\ r \in Seq(Access) /\ Len(l) = Len(r)
    BY <2>1, <2>2, ConcatProperties
  <2>6. \A k \in 1..Len(l) : l[k] = r[k]
    BY <2>1, <2>2
  <2> HIDE DEF l, r
  <2>7. l = r
    BY <2>5, <2>6, SeqEqual
  <2> QED
    BY <2>3, <2>4, <2>7 DEF l, r
<1> QED
  BY <1>7, <1>8, <1>9 DEF Q

\* What comes before the reads, and where the port was missing.
LEMMA RestFacts ==
  ASSUME cmd \in Commands
  PROVE  /\ Rest \in Seq(Access) /\ Head(Rest) = <<"default", "port", defaultPort>> /\ Tail(Rest) = Session
         /\ Head(NoPort) = set("port", defaultPort) /\ Tail(NoPort) = Session
         /\ Rest # <<>> /\ NoPort # <<>>
<1> DEFINE t == Session d == <<"default", "port", defaultPort>> e == set("port", defaultPort)
        A == <<d>> B == <<e>>
<1>1. t \in Seq(Access) /\ d \in Access /\ e \in Access
  BY SessionType, ValueFacts DEF set
<1>2. Rest = A \o t /\ NoPort = B \o t
  BY DEF Rest, NoPort
<1> HIDE DEF t, d, e
<1>3. A \in Seq(Access) /\ B \in Seq(Access) /\ A # <<>> /\ B # <<>> /\ Head(A) = d /\ Head(B) = e
      /\ Tail(A) = <<>> /\ Tail(B) = <<>>
  BY <1>1
<1>4. <<>> \o t = t
  BY <1>1, ConcatEmptySeq
<1> HIDE DEF A, B
<1>5. /\ Head(A \o t) = d /\ Tail(A \o t) = t /\ A \o t # <<>>
      /\ Head(B \o t) = e /\ Tail(B \o t) = t /\ B \o t # <<>>
  <2>1. Head(A \o t) = Head(A) /\ Tail(A \o t) = Tail(A) \o t /\ A \o t # <<>>
    BY <1>1, <1>3, FirstOf
  <2>2. Head(B \o t) = Head(B) /\ Tail(B \o t) = Tail(B) \o t /\ B \o t # <<>>
    BY <1>1, <1>3, FirstOf
  <2> QED
    BY <1>3, <1>4, <2>1, <2>2
<1>6. A \o t \in Seq(Access)
  BY <1>1, <1>3, ConcatProperties
<1> QED
  BY <1>2, <1>5, <1>6 DEF t, d, e

\* What is left after a read: nothing without an address, no second read of the key
\* without one.
LEMMA AfterRead ==
  ASSUME NEW v
  PROVE  /\ After(Session, v) \in {<<>>, Key5} /\ (v # None => After(Session, v) = Key5)
         /\ (v = None => After(Session, v) = <<>>)
         /\ After(Key5, v) \in {Pass3, Key4}
         /\ After(Key4, v) = Key3 /\ After(Key3, v) = Key2 /\ After(Key2, v) = Key1
         /\ After(Key1, v) = <<>>
         /\ After(Pass3, v) = Pass2 /\ After(Pass2, v) = Pass1 /\ After(Pass1, v) = <<>>
<1>1. /\ Len(Session) = 6 /\ Len(Key5) = 5 /\ Len(Key4) = 4 /\ Len(Key3) = 3 /\ Len(Key2) = 2
      /\ Len(Key1) = 1 /\ Len(Pass3) = 3 /\ Len(Pass2) = 2 /\ Len(Pass1) = 1
  BY DEF Session, Key5, Key4, Key3, Key2, Key1, Pass3, Pass2, Pass1
<1>2. Tail(Session) = Key5 /\ Tail(Key5) = Key4 /\ Tail(Key4) = Key3
  BY DEF Session, Key5, Key4, Key3
<1>3. Tail(Key3) = Key2 /\ Tail(Key2) = Key1 /\ Tail(Key1) = <<>>
  BY DEF Key3, Key2, Key1
<1>4. Tail(Pass3) = Pass2 /\ Tail(Pass2) = Pass1 /\ Tail(Pass1) = <<>>
  BY DEF Pass3, Pass2, Pass1
<1>5. SubSeq(Key5, 2, 4) = Pass3
  <2> DEFINE q == SubSeq(Key5, 2, 4) G == {get("key"), get("user"), get("ip"), get("port")}
  <2>1. Key5 \in Seq(G) /\ Pass3 \in Seq(G)
    BY DEF Key5, Pass3
  <2> HIDE DEF G
  <2>2. q \in Seq(G) /\ Len(q) = 3 /\ q[1] = Key5[2] /\ q[2] = Key5[3] /\ q[3] = Key5[4]
    <3>1. \A i \in 2..4 : Key5[i] \in G
      BY DEF Key5, G
    <3>2. q \in Seq(G) /\ Len(q) = 3 /\ \A i \in 1..3 : q[i] = Key5[2 + i - 1]
      BY <3>1, SubSeqProperties
    <3> QED
      BY <3>2
  <2>3. Key5[2] = Pass3[1] /\ Key5[3] = Pass3[2] /\ Key5[4] = Pass3[3]
    BY DEF Key5, Pass3
  <2> HIDE DEF q
  <2>4. \A i \in 1..Len(q) : q[i] = Pass3[i]
    BY <2>2, <2>3
  <2>5. q = Pass3
    BY <1>1, <2>1, <2>2, <2>4, SeqEqual
  <2> QED
    BY <2>5 DEF q
<1>6. After(Session, v) = IF v = None THEN <<>> ELSE Tail(Session)
  BY <1>1 DEF After
<1>7. After(Key5, v) = IF v = None THEN SubSeq(Key5, 2, 4) ELSE Tail(Key5)
  BY <1>1 DEF After
<1> QED
  <2>1. After(Key4, v) = Key3 /\ After(Key3, v) = Key2 /\ After(Key2, v) = Key1 /\ After(Key1, v) = <<>>
    <3>1. After(Key4, v) = Tail(Key4)
      BY <1>1 DEF After
    <3>2. After(Key3, v) = Tail(Key3)
      BY <1>1 DEF After
    <3>3. After(Key2, v) = Tail(Key2)
      BY <1>1 DEF After
    <3>4. After(Key1, v) = Tail(Key1)
      BY <1>1 DEF After
    <3> QED
      BY <1>2, <1>3, <3>1, <3>2, <3>3, <3>4
  <2>2. After(Pass3, v) = Pass2 /\ After(Pass2, v) = Pass1 /\ After(Pass1, v) = <<>>
    <3>1. After(Pass3, v) = Tail(Pass3)
      BY <1>1 DEF After
    <3>2. After(Pass2, v) = Tail(Pass2)
      BY <1>1 DEF After
    <3>3. After(Pass1, v) = Tail(Pass1)
      BY <1>1 DEF After
    <3> QED
      BY <1>4, <3>1, <3>2, <3>3
  <2>3. After(Key5, v) \in {Pass3, Key4}
    BY <1>2, <1>5, <1>7
  <2>4. v = None => After(Session, v) = <<>>
    BY <1>6
  <2>5. v # None => After(Session, v) = Key5
    BY <1>2, <1>6
  <2> QED
    BY <2>1, <2>2, <2>3, <2>4, <2>5

LEMMA ReadFirst ==
  /\ Head(Session) = get("ip") /\ Head(Key5) = get("key") /\ Head(Key4) = get("user")
  /\ Head(Key3) = get("ip") /\ Head(Key2) = get("port") /\ Head(Key1) = get("key")
  /\ Head(Pass3) = get("user") /\ Head(Pass2) = get("ip") /\ Head(Pass1) = get("port")
  /\ <<>> \notin {Session, Key5, Key4, Key3, Key2, Key1, Pass3, Pass2, Pass1}
<1>1. /\ Head(Session) = get("ip") /\ Head(Key5) = get("key") /\ Head(Key4) = get("user")
      /\ Head(Key3) = get("ip") /\ Head(Key2) = get("port") /\ Head(Key1) = get("key")
  BY DEF Session, Key5, Key4, Key3, Key2, Key1
<1>2. Head(Pass3) = get("user") /\ Head(Pass2) = get("ip") /\ Head(Pass1) = get("port")
  BY DEF Pass3, Pass2, Pass1
<1>3. Session # <<>> /\ Key5 # <<>> /\ Key4 # <<>> /\ Key3 # <<>> /\ Key2 # <<>> /\ Key1 # <<>>
  BY DEF Session, Key5, Key4, Key3, Key2, Key1
<1>4. Pass3 # <<>> /\ Pass2 # <<>> /\ Pass1 # <<>>
  BY DEF Pass3, Pass2, Pass1
<1> QED
  BY <1>1, <1>2, <1>3, <1>4

\* Nobody else has an access to make, so that nothing is torn.
LEMMA Alone ==
  ASSUME TypeOK, AnswerInv, SerialInv, mode = "serial", NEW t \in Thread, Busy(t)
  PROVE  /\ t = Main => loop = "server"
         /\ t \in Server => loop = "wait" /\ t \in running
         /\ \A u \in Thread \ {t} : code[u] = <<>>
         /\ \A f : ~Contended(t, f)
         /\ \A f, v : Seen(t, f, v) = {v}
<1>0. TurnInv /\ code[t] # <<>> /\ Main \notin Server
  BY ServerAssumption DEF SerialInv, Busy
<1>1. t = Main => loop = "server"
  BY <1>0 DEF TurnInv
<1>2. t \in Server => loop = "wait" /\ t \in running
  BY <1>0 DEF TurnInv
<1>3. \A r, s \in running : r = s
  BY DEF AnswerInv, PlaceInv
<1>4. ASSUME NEW u \in Thread \ {t} PROVE code[u] = <<>>
  BY <1>0, <1>1, <1>2, <1>3 DEF TurnInv, Thread
<1>5. \A f : ~Contended(t, f)
  BY <1>4 DEF Contended
<1>6. \A f, v : Seen(t, f, v) = {v}
  BY <1>5 DEF Seen
<1> QED
  BY <1>1, <1>2, <1>4, <1>5, <1>6

\* Alone, a thread writes what it was to write.
LEMMA SetWrites ==
  ASSUME NEW t, Set(t), \A f, v : Seen(t, f, v) = {v}
  PROVE  config' = [config EXCEPT ![Head(code[t])[2]] = Head(code[t])[3]]
<1> DEFINE a == Head(code[t])
<1>1. \E v \in Seen(t, a[2], a[3]) : config' = [config EXCEPT ![a[2]] = v]
  BY DEF Set
<1>2. Seen(t, a[2], a[3]) = {a[3]}
  OBVIOUS
<1> HIDE DEF a
<1>3. config' = [config EXCEPT ![a[2]] = a[3]]
  BY <1>1, <1>2
<1> QED
  BY <1>3 DEF a

\* What an attempt writes is its own, the accesses that come before its reads, or the
\* default of a port it has not.
LEMMA OwnWrite ==
  ASSUME TypeOK, AnswerInv, SerialInv, mode = "serial", NEW s \in Server, Set(s)
  PROVE  /\ \A f, v : Seen(s, f, v) = {v}
         /\ \/ /\ Head(code[s]) \in Writes(s)
               /\ \E w \in Seq(Writes(s)) :
                    /\ \A f \in Field : Given(s, f) => config[f] = own[s][f] \/ set(f, own[s][f]) \in Range(w)
                    /\ Tail(code[s]) = Tail(w) \o Rest /\ Tail(w) \in Seq(Writes(s))
                    /\ Range(w) = {Head(code[s])} \cup Range(Tail(w))
            \/ /\ Defaulting(s) /\ Head(code[s]) = set("port", defaultPort) /\ Tail(code[s]) = Session
<1> DEFINE a == Head(code[s])
<1>0. /\ s \in Thread /\ Busy(s) /\ UNCHANGED cmd /\ a[1] = "set"
      /\ cmd \in Commands /\ config \in [Field -> Value] /\ code \in [Thread -> Seq(Access)]
  BY DEF Set, TypeOK, Thread
<1>1. s \in running /\ (\A f, v : Seen(s, f, v) = {v}) /\ AttemptInv(s)
  BY <1>0, Alone DEF SerialInv
<1>2. code[s] # <<>>
  BY <1>0 DEF Busy
<1>3. ~Reading(s)
  <2>1. \A f : get(f)[1] = "get"
    BY DEF get
  <2> QED
    BY <1>0, <2>1, ReadFirst DEF Reading, Reads
<1>4. CASE Writing(s)
  <2>1. PICK w \in Seq(Writes(s)) :
          /\ code[s] = w \o Rest
          /\ \A f \in Field : Given(s, f) => config[f] = own[s][f] \/ set(f, own[s][f]) \in Range(w)
    BY <1>4 DEF Writing
  <2>2. Rest \in Seq(Access)
    BY <1>0, RestFacts
  <2>3. w # <<>>
    <3>1. SUFFICES ASSUME w = <<>> PROVE FALSE
      OBVIOUS
    <3>2. code[s] = Rest
      BY <2>1, <2>2, <3>1, ConcatEmptySeq
    <3> QED
      BY <1>0, <3>2, RestFacts
  <2>4. /\ a = Head(w) /\ a \in Writes(s) /\ Tail(code[s]) = Tail(w) \o Rest
        /\ Tail(w) \in Seq(Writes(s)) /\ Range(w) = {a} \cup Range(Tail(w))
    BY <2>1, <2>2, <2>3, FirstOf
  <2> QED
    BY <1>1, <2>1, <2>4
<1>5. CASE Defaulting(s)
  BY <1>0, <1>1, <1>5, RestFacts DEF Defaulting
<1> QED
  BY <1>1, <1>2, <1>3, <1>4, <1>5 DEF AttemptInv

\* An attempt writes its own parameters, as far as it has them.
LEMMA SetKeeps ==
  ASSUME TypeOK, AnswerInv, SerialInv, mode = "serial", NEW s \in Server, Set(s)
  PROVE  AttemptInv(s)'
<1> DEFINE a == Head(code[s])
<1>0. /\ s \in Thread /\ UNCHANGED cmd /\ code'[s] = Tail(code[s])
      /\ cmd \in Commands /\ config \in [Field -> Value] /\ code \in [Thread -> Seq(Access)]
  BY DEF Set, TypeOK, Thread
<1>1. \A f, v : Seen(s, f, v) = {v}
  BY OwnWrite
<1>2. UNCHANGED own /\ Writes(s)' = Writes(s) /\ \A f : Given(s, f)' <=> Given(s, f)
  BY <1>0 DEF own, Writes, Given
<1>3. config' = [config EXCEPT ![a[2]] = a[3]]
  BY <1>1, SetWrites
<1>4. ASSUME NEW w \in Seq(Writes(s)), a \in Writes(s),
             \A f \in Field : Given(s, f) => config[f] = own[s][f] \/ set(f, own[s][f]) \in Range(w),
             Tail(code[s]) = Tail(w) \o Rest, Tail(w) \in Seq(Writes(s)),
             Range(w) = {a} \cup Range(Tail(w))
      PROVE  AttemptInv(s)'
  <2>1. ASSUME NEW f \in Field, Given(s, f)
        PROVE  config'[f] = own[s][f] \/ set(f, own[s][f]) \in Range(Tail(w))
    <3>1. PICK h \in Field : a = set(h, own[s][h])
      BY <1>4 DEF Writes
    <3>2. a[2] = h /\ a[3] = own[s][h]
      BY <3>1 DEF set
    <3>3. config' = [config EXCEPT ![h] = own[s][h]]
      BY <1>3, <3>2
    <3>4. CASE f = h
      BY <1>0, <3>3, <3>4
    <3>5. CASE f # h
      <4>1. set(f, own[s][f]) # a
        BY <3>1, <3>5 DEF set
      <4>2. config'[f] = config[f]
        BY <1>0, <3>3, <3>5
      <4> QED
        BY <1>4, <2>1, <4>1, <4>2
    <3> QED
      BY <3>4, <3>5
  <2>2. \A f \in Field : Given(s, f)' => config'[f] = own'[s][f] \/ set(f, own[s][f])' \in Range(Tail(w))
    BY <1>2, <2>1 DEF set
  <2>3. Writing(s)'
    BY <1>0, <1>2, <1>4, <2>2 DEF Writing, set, Rest, Session, get
  <2> QED
    BY <2>3 DEF AttemptInv
<1>5. ASSUME Defaulting(s), a = set("port", defaultPort), Tail(code[s]) = Session PROVE AttemptInv(s)'
  <2>1. config' = [config EXCEPT !["port"] = defaultPort]
    <3>1. a[2] = "port" /\ a[3] = defaultPort
      BY <1>5 DEF set
    <3> QED
      BY <1>3, <3>1
  <2>2. \A f \in Field : InConfig(s, f)'
    BY <1>0, <1>2, <1>5, <2>1 DEF Defaulting, InConfig
  <2>3. code'[s] = Session'
    BY <1>0, <1>5 DEF Session, get
  <2> QED
    BY <2>2, <2>3 DEF AttemptInv, Reading, Reads
<1> QED
  BY <1>4, <1>5, OwnWrite

\* Once the parameters are written, the port is missing only where the attempt has none.
LEMMA DefaultKeeps ==
  ASSUME TypeOK, AnswerInv, SerialInv, mode = "serial", NEW s \in Server, Default(s)
  PROVE  AttemptInv(s)' /\ s \in running /\ code[s] # <<>>
<1> DEFINE a == Head(code[s])
<1>0. /\ s \in Thread /\ Busy(s) /\ UNCHANGED <<cmd, config>> /\ a[1] = "default"
      /\ code'[s] \in {<<set(a[2], a[3])>> \o Tail(code[s]), Tail(code[s])}
      /\ code'[s] = Tail(code[s]) \/ config[a[2]] = None
      /\ cmd \in Commands /\ config \in [Field -> Value] /\ code \in [Thread -> Seq(Access)]
  BY DEF Default, TypeOK, Thread
<1>1. s \in running /\ AttemptInv(s) /\ code[s] # <<>>
  BY <1>0, Alone DEF SerialInv, Busy
<1>2. ~Reading(s) /\ ~Defaulting(s)
  <2>1. \A f : get(f)[1] = "get"
    BY DEF get
  <2>2. set("port", defaultPort)[1] = "set"
    BY DEF set
  <2>3. ~Reading(s)
    BY <1>0, <2>1, ReadFirst DEF Reading, Reads
  <2>4. ~Defaulting(s)
    BY <1>0, <2>2, RestFacts DEF Defaulting
  <2> QED
    BY <2>3, <2>4
<1>3. PICK w \in Seq(Writes(s)) :
        /\ code[s] = w \o Rest
        /\ \A f \in Field : Given(s, f) => config[f] = own[s][f] \/ set(f, own[s][f]) \in Range(w)
  BY <1>1, <1>2 DEF AttemptInv, Writing
<1>4. Rest \in Seq(Access)
  BY <1>0, RestFacts
<1>5. w = <<>>
  <2>1. SUFFICES ASSUME w # <<>> PROVE FALSE
    OBVIOUS
  <2>2. a \in Writes(s)
    BY <1>3, <1>4, <2>1, FirstOf
  <2> QED
    BY <1>0, <2>2 DEF Writes, set
<1>6. code[s] = Rest /\ Range(w) = {}
  <2>1. Range(<<>>) = {}
    BY SMT DEF Range
  <2> QED
    BY <1>3, <1>4, <1>5, <2>1, ConcatEmptySeq
<1>7. a[2] = "port" /\ a[3] = defaultPort /\ Tail(code[s]) = Session
  BY <1>0, <1>6, RestFacts
<1>8. UNCHANGED own /\ \A f : Given(s, f)' <=> Given(s, f)
  BY <1>0 DEF own, Given
<1>9. \A f \in Field : InConfig(s, f) /\ InConfig(s, f)'
  BY <1>0, <1>3, <1>6, <1>8 DEF InConfig
<1>10. Session' = Session /\ NoPort' = NoPort /\ NoPort = <<set(a[2], a[3])>> \o Session
  BY <1>7 DEF Session, get, NoPort, set
<1>11. CASE code'[s] = Session
  BY <1>1, <1>9, <1>10, <1>11 DEF AttemptInv, Reading, Reads
<1>12. CASE code'[s] # Session
  <2>1. config["port"] = None /\ code'[s] = NoPort
    BY <1>0, <1>7, <1>10, <1>12
  <2>2. ~Given(s, "port")
    BY <1>9, <2>1 DEF InConfig, Given, Field
  <2>3. Defaulting(s)'
    BY <1>8, <1>9, <1>10, <2>1, <2>2 DEF Defaulting
  <2> QED
    BY <1>1, <2>3 DEF AttemptInv
<1> QED
  BY <1>11, <1>12

\* What is read of config is what the attempt has written.
LEMMA GetReads ==
  ASSUME TypeOK, UNCHANGED cmd, NEW s \in Server, NEW f \in Field, NEW F \in SUBSET Field,
         login' = [login EXCEPT ![s][f] = config[f]], InConfig(s, f), HasRead(s, F)
  PROVE  HasRead(s, F \cup {f})'
<1>1. login \in [Server -> [Field -> Value]]
  BY DEF TypeOK
<1>2. own' = own /\ \A h : Given(s, h)' <=> Given(s, h)
  BY DEF own, Given
<1>3. login'[s][f] = config[f] /\ \A h \in Field \ {f} : login'[s][h] = login[s][h]
  BY <1>1
<1> QED
  BY <1>2, <1>3 DEF HasRead, InConfig

LEMMA GetKeeps ==
  ASSUME TypeOK, AnswerInv, SerialInv, mode = "serial", NEW s \in Server, Get(s)
  PROVE  /\ AttemptInv(s)' /\ s \in running
         /\ ran'[s] # Pending => code'[s] = <<>> /\ Reached(s)'
<1>0. /\ s \in Thread /\ Busy(s) /\ UNCHANGED <<cmd, config>>
      /\ cmd \in Commands /\ config \in [Field -> Value] /\ code \in [Thread -> Seq(Access)]
      /\ login \in [Server -> [Field -> Value]] /\ ran \in [Server -> Pending..numCommands]
      /\ Field = {"user", "ip", "port", "key"}
  BY DEF Get, TypeOK, Thread, Field
<1>1. s \in running /\ (\A f, v : Seen(s, f, v) = {v}) /\ AttemptInv(s) /\ TriedInv
  BY <1>0, Alone DEF SerialInv
<1>2. code[s] # <<>> /\ ran[s] = Pending
  BY <1>0, <1>1 DEF Busy, TriedInv
<1> DEFINE f == Head(code[s])[2]
<1>3. /\ login' = [login EXCEPT ![s][f] = config[f]]
      /\ code'[s] = After(code[s], config[f])
      /\ ran' = IF Len(code[s]) = 6 /\ config[f] = None THEN [ran EXCEPT ![s] = 0] ELSE ran
  <2>1. PICK v \in Seen(s, f, config[f]) :
          /\ login' = [login EXCEPT ![s][f] = v]
          /\ code' = [code EXCEPT ![s] = After(@, v)]
          /\ ran' = IF Len(code[s]) = 6 /\ v = None THEN [ran EXCEPT ![s] = 0] ELSE ran
    BY Zenon DEF Get
  <2>2. v = config[f]
    BY <1>1
  <2>3. code'[s] = After(code[s], v)
    BY <1>0, <2>1
  <2> QED
    BY <2>1, <2>2, <2>3
<1>4. \A h : get(h)[1] = "get" /\ get(h)[2] = h
  BY DEF get
<1>5. UNCHANGED own /\ \A h : /\ Given(s, h)' <=> Given(s, h)
                              /\ InConfig(s, h)' <=> InConfig(s, h)
  BY <1>0 DEF own, Given, InConfig
<1>6. ~Writing(s) /\ ~Defaulting(s)
  <2>1. Head(code[s])[1] = "get"
    BY DEF Get
  <2>2. ~Defaulting(s)
    BY <1>0, <2>1, RestFacts DEF Defaulting, set
  <2>3. ASSUME NEW w \in Seq(Writes(s)), code[s] = w \o Rest PROVE FALSE
    <3>1. Rest \in Seq(Access)
      BY <1>0, RestFacts
    <3>2. CASE w = <<>>
      <4>1. code[s] = Rest
        BY <2>3, <3>1, <3>2, ConcatEmptySeq
      <4> QED
        BY <1>0, <2>1, <4>1, RestFacts
    <3>3. CASE w # <<>>
      <4>1. Head(code[s]) \in Writes(s)
        BY <2>3, <3>1, <3>3, FirstOf
      <4> QED
        BY <2>1, <4>1 DEF Writes, set
    <3> QED
      BY <3>2, <3>3
  <2> QED
    BY <2>2, <2>3 DEF Writing
<1>7. CASE Reading(s) /\ code[s] = Session
  <2>4. code[s] = Session
    BY <1>7
  <2>5. \A h \in Field : InConfig(s, h)
    BY <1>7 DEF Reading
  <2>6. f = "ip" /\ config["ip"] = own[s].ip
    BY <1>4, <2>4, <2>5, ReadFirst DEF InConfig, Given, Field
  <2>7. login'[s].ip = own[s].ip
    BY <1>0, <1>3, <2>6
  <2>8. CASE own[s].ip = None
    <3>1. code'[s] = <<>>
      BY <1>3, <2>4, <2>6, <2>8, AfterRead
    <3>2. Reached(s)'
      BY <1>5, <2>7, <2>8 DEF Reached
    <3> QED
      BY <1>1, <3>1, <3>2 DEF AttemptInv
  <2>9. CASE own[s].ip # None
    <3>1. code'[s] = Key5
      BY <1>3, <2>4, <2>6, <2>9, AfterRead
    <3>2. HasRead(s, {"ip"})'
      BY <1>5, <2>7 DEF HasRead
    <3>3. Reading(s)'
      BY <1>5, <2>5, <3>1, <3>2 DEF Reading, Reads
    <3>4. ran' = ran
      BY <1>3, <2>6, <2>9
    <3> QED
      BY <1>1, <1>2, <3>3, <3>4 DEF AttemptInv
  <2> QED
    BY <2>8, <2>9
<1>8. CASE Reading(s) /\ code[s] # Session
  <2>0. \A h \in Field : InConfig(s, h) /\ InConfig(s, h)'
    BY <1>5, <1>8 DEF Reading
  <2>1. ASSUME NEW h \in Field, h = f, NEW F \in SUBSET Field, HasRead(s, F) PROVE HasRead(s, F \cup {h})'
    BY <1>0, <1>3, <2>0, <2>1, GetReads
  <2>2. ran' = ran
    <3>1. Len(code[s]) # 6
      <4>1. /\ Len(Key5) = 5 /\ Len(Key4) = 4 /\ Len(Key3) = 3 /\ Len(Key2) = 2
            /\ Len(Key1) = 1 /\ Len(Pass3) = 3 /\ Len(Pass2) = 2 /\ Len(Pass1) = 1
        BY DEF Key5, Key4, Key3, Key2, Key1, Pass3, Pass2, Pass1
      <4> QED
        BY <1>8, <4>1 DEF Reading, Reads
    <3> QED
      BY <1>3, <3>1
  <2>3. CASE code[s] = Key5 /\ HasRead(s, {"ip"})
    <3>1. f = "key" /\ code'[s] \in {Key4, Pass3}
      BY <1>3, <1>4, <2>3, ReadFirst, AfterRead
    <3>2. HasRead(s, {"ip", "key"})'
      <4>1. HasRead(s, {"ip"} \cup {"key"})'
        BY <1>0, <2>1, <2>3, <3>1
      <4> QED
        BY <4>1 DEF HasRead
    <3>3. Reading(s)'
      BY <2>0, <3>1, <3>2 DEF Reading, Reads
    <3> QED
      BY <1>1, <1>2, <2>2, <3>3 DEF AttemptInv
  <2>4. CASE code[s] \in {Key4, Pass3} /\ HasRead(s, {"ip", "key"})
    <3>1. f = "user" /\ code'[s] \in {Key3, Pass2}
      BY <1>3, <1>4, <2>4, ReadFirst, AfterRead
    <3>2. HasRead(s, {"ip", "key", "user"})'
      <4>1. HasRead(s, {"ip", "key"} \cup {"user"})'
        BY <1>0, <2>1, <2>4, <3>1
      <4> QED
        BY <4>1 DEF HasRead
    <3>3. Reading(s)'
      BY <2>0, <3>1, <3>2 DEF Reading, Reads
    <3> QED
      BY <1>1, <1>2, <2>2, <3>3 DEF AttemptInv
  <2>5. CASE code[s] \in {Key3, Pass2} /\ HasRead(s, {"ip", "key", "user"})
    <3>1. f = "ip" /\ code'[s] \in {Key2, Pass1}
      BY <1>3, <1>4, <2>5, ReadFirst, AfterRead
    <3>2. HasRead(s, {"ip", "key", "user"})'
      <4>1. HasRead(s, {"ip", "key", "user"} \cup {"ip"})'
        BY <1>0, <2>1, <2>5, <3>1
      <4> QED
        BY <4>1 DEF HasRead
    <3>3. Reading(s)'
      BY <2>0, <3>1, <3>2 DEF Reading, Reads
    <3> QED
      BY <1>1, <1>2, <2>2, <3>3 DEF AttemptInv
  <2>6. CASE code[s] \in {Key2, Pass1} /\ HasRead(s, {"ip", "key", "user"})
    <3>1. /\ f = "port" /\ (code[s] = Key2 => code'[s] = Key1)
          /\ (code[s] = Pass1 => code'[s] = <<>>)
      BY <1>3, <1>4, <2>6, ReadFirst, AfterRead
    <3>2. HasRead(s, Field)'
      <4>1. HasRead(s, {"ip", "key", "user"} \cup {"port"})'
        BY <1>0, <2>1, <2>6, <3>1
      <4> QED
        BY <4>1 DEF HasRead, Field
    <3>3. CASE code[s] = Key2
      <4>1. Reading(s)'
        BY <2>0, <3>1, <3>2, <3>3 DEF Reading, Reads
      <4> QED
        BY <1>1, <1>2, <2>2, <4>1 DEF AttemptInv
    <3>4. CASE code[s] = Pass1
      <4>1. Reached(s)'
        BY <1>0, <3>2 DEF HasRead, Reached, Given
      <4> QED
        BY <1>1, <3>1, <3>4, <4>1 DEF AttemptInv
    <3> QED
      BY <2>6, <3>3, <3>4
  <2>7. CASE code[s] = Key1 /\ HasRead(s, Field)
    <3>1. f = "key" /\ code'[s] = <<>>
      BY <1>3, <1>4, <2>7, ReadFirst, AfterRead
    <3>2. HasRead(s, Field \cup {"key"})'
      BY <1>0, <2>1, <2>7, <3>1
    <3>3. Reached(s)'
      BY <1>0, <3>2 DEF HasRead, Reached, Given
    <3> QED
      BY <1>1, <3>1, <3>3 DEF AttemptInv
  <2> QED
    BY <1>8, <2>3, <2>4, <2>5, <2>6, <2>7 DEF Reading, Reads
<1> QED
  BY <1>1, <1>2, <1>6, <1>7, <1>8 DEF AttemptInv

\* Nothing has changed for an attempt.
LEMMA AttemptStays ==
  ASSUME UNCHANGED cmd, NEW s, code'[s] = code[s], login'[s] = login[s]
  PROVE  /\ Reached(s) => Reached(s)'
         /\ UNCHANGED config /\ AttemptInv(s) => AttemptInv(s)'
<1>1. own' = own /\ (\A f : Given(s, f)' <=> Given(s, f)) /\ Writes(s)' = Writes(s)
      /\ (\A f : set(f, own[s][f])' = set(f, own[s][f]))
  BY DEF own, Given, Writes, set
<1>2. Reached(s) => Reached(s)'
  BY <1>1 DEF Reached
<1>3. ASSUME UNCHANGED config, Writing(s) PROVE Writing(s)'
  BY <1>1, <1>3 DEF Writing, Rest, Session, get
<1>4. ASSUME UNCHANGED config, Reading(s) PROVE Reading(s)'
  <2>1. Session' = Session
    BY DEF Session, get
  <2> QED
    BY <1>1, <1>4, <2>1 DEF Reading, Reads, HasRead, InConfig
<1>5. ASSUME UNCHANGED config, Defaulting(s) PROVE Defaulting(s)'
  <2>1. NoPort' = NoPort
    BY DEF NoPort, Session, get, set
  <2> QED
    BY <1>1, <1>5, <2>1 DEF Defaulting, InConfig
<1> QED
  BY <1>2, <1>3, <1>4, <1>5 DEF AttemptInv

LEMMA AttemptOver ==
  ASSUME cmd \in Commands, NEW s, AttemptInv(s), code[s] = <<>> PROVE Reached(s)
<1>1. ~Reading(s)
  BY ReadFirst DEF Reading, Reads
<1>2. ~Writing(s)
  <2>1. SUFFICES ASSUME NEW w \in Seq(Writes(s)), code[s] = w \o Rest PROVE FALSE
    BY DEF Writing
  <2>2. Rest \in Seq(Access) /\ Rest # <<>>
    BY RestFacts
  <2>3. CASE w = <<>>
    BY <2>1, <2>2, <2>3, ConcatEmptySeq
  <2>4. CASE w # <<>>
    BY <2>1, <2>2, <2>4, FirstOf
  <2> QED
    BY <2>3, <2>4
<1>3. ~Defaulting(s)
  BY RestFacts DEF Defaulting
<1> QED
  BY <1>1, <1>2, <1>3 DEF AttemptInv

LEMMA SerialLocal ==
  ASSUME TypeOK, AnswerInv, SerialInv, UNCHANGED cmd, mode = "serial",
         Set(Main) \/ \E s \in Server : Set(s) \/ Default(s) \/ Get(s) \/ Crash(s) \/ Execute(s)
  PROVE  SerialInv'
<1>0. /\ cmd \in Commands /\ Main \notin Server /\ code \in [Thread -> Seq(Access)]
      /\ login \in [Server -> [Field -> Value]] /\ ran \in [Server -> Pending..numCommands]
      /\ Thread = Server \cup {Main} /\ running \subseteq Server
  BY ServerAssumption DEF TypeOK, Thread
<1>1. TurnInv /\ (\A s \in running : AttemptInv(s)) /\ TriedInv
  BY DEF SerialInv
<1>2. CASE Set(Main)
  <2>1. loop = "server" /\ running = {}
    <3>1. loop = "server"
      BY <1>0, <1>2, Alone DEF Set
    <3> QED
      BY <3>1 DEF AnswerInv, PlaceInv
  <2>2. /\ \A s \in Server : code'[s] = code[s]
        /\ UNCHANGED <<loop, login, ran, running, outs>>
    BY <1>0, <1>2 DEF Set
  <2>3. TurnInv'
    BY <1>1, <2>1, <2>2 DEF TurnInv
  <2>4. \A s \in Server : Reached(s) => Reached(s)'
    BY <2>2, AttemptStays
  <2>5. TriedInv'
    BY <1>1, <2>2, <2>4 DEF TriedInv
  <2> QED
    BY <2>1, <2>2, <2>3, <2>5 DEF SerialInv
<1>3. ASSUME NEW s \in Server, Set(s) \/ Default(s) \/ Get(s) PROVE SerialInv'
  <2>1. s \in running /\ loop = "wait"
    BY <1>0, <1>3, Alone DEF Set, Default, Get
  <2>2. /\ \A t \in Thread \ {s} : code'[t] = code[t]
        /\ \A t \in Server \ {s} : login'[t] = login[t] /\ ran'[t] = ran[t]
        /\ UNCHANGED <<loop, running, outs>>
    <3>1. CASE Set(s)
      BY <1>0, <3>1 DEF Set
    <3>2. CASE Get(s)
      <4>1. /\ \E f, v : login' = [login EXCEPT ![s][f] = v]
            /\ \E v : code' = [code EXCEPT ![s] = After(@, v)]
            /\ ran' \in {[ran EXCEPT ![s] = 0], ran} /\ UNCHANGED <<loop, running, outs>>
        BY <3>2 DEF Get
      <4> QED
        BY <1>0, <4>1
    <3>3. CASE Default(s)
      BY <1>0, <3>3 DEF Default
    <3> QED
      BY <1>3, <3>1, <3>2, <3>3
  <2>3. running = {s}
    BY <2>1 DEF AnswerInv, PlaceInv
  <2>4. TurnInv'
    BY <1>0, <1>1, <2>1, <2>2, <2>3 DEF TurnInv
  <2>5. AttemptInv(s)' /\ (ran'[s] # Pending => code'[s] = <<>> /\ Reached(s)')
    <3>1. CASE Set(s)
      <4>1. ran' = ran /\ code[s] # <<>>
        BY <3>1 DEF Set, Busy
      <4> QED
        BY <1>1, <3>1, <4>1, SetKeeps DEF TriedInv
    <3>2. CASE Get(s)
      BY <3>2, GetKeeps
    <3>3. CASE Default(s)
      <4>1. ran' = ran /\ code[s] # <<>>
        BY <3>3 DEF Default, Busy
      <4> QED
        BY <1>1, <3>3, <4>1, DefaultKeeps DEF TriedInv
    <3> QED
      BY <1>3, <3>1, <3>2, <3>3
  <2>6. TriedInv'
    <3>1. \A t \in Server \ {s} : Reached(t) => Reached(t)'
      BY <1>0, <2>2, AttemptStays
    <3>2. \A t \in Server \ {s} : ran'[t] # Pending => code'[t] = <<>> /\ Reached(t)' /\ t \in running' \cup Range(outs')
      BY <1>0, <1>1, <2>2, <3>1 DEF TriedInv
    <3>3. s \notin Range(outs)
      BY <2>1 DEF AnswerInv, PlaceInv
    <3>4. \A t \in Range(outs') : ran'[t] # Pending
      <4>1. outs \in Seq(Server)
        BY DEF TypeOK
      <4>2. Range(outs) \subseteq Server
        BY <4>1, RangeOfSeq
      <4> QED
        BY <1>1, <2>2, <3>3, <4>2 DEF TriedInv
    <3> QED
      BY <2>1, <2>2, <2>5, <3>2, <3>4 DEF TriedInv
  <2> QED
    BY <2>2, <2>3, <2>4, <2>5, <2>6 DEF SerialInv
<1>4. ASSUME NEW s \in Server, Crash(s) PROVE FALSE
  BY <1>0, <1>4, Alone DEF Crash
<1>5. ASSUME NEW s \in Server, Execute(s) PROVE SerialInv'
  <2>1. s \in running /\ code[s] = <<>> /\ ran[s] = Pending
        /\ UNCHANGED <<loop, code, login, config, running, outs>>
    BY <1>5 DEF Execute
  <2>2. \A t \in Server \ {s} : ran'[t] = ran[t]
    BY <1>0, <1>5 DEF Execute
  <2>3. \A t : (Reached(t) => Reached(t)') /\ (AttemptInv(t) => AttemptInv(t)')
    BY <2>1, AttemptStays
  <2>4. Reached(s)
    BY <1>0, <1>1, <2>1, AttemptOver
  <2>5. TurnInv'
    BY <1>1, <2>1 DEF TurnInv
  <2>6. TriedInv'
    <3>1. Range(outs) \subseteq Server /\ s \notin Range(outs)
      BY <2>1, RangeOfSeq DEF AnswerInv, PlaceInv
    <3> QED
      BY <1>1, <2>1, <2>2, <2>3, <2>4, <3>1 DEF TriedInv
  <2> QED
    BY <1>1, <2>1, <2>3, <2>5, <2>6 DEF SerialInv
<1> QED
  BY <1>2, <1>3, <1>4, <1>5

\* The loop starts an attempt when the one before has answered.
LEMMA SerialLoop ==
  ASSUME TypeOK, AnswerInv, SerialInv, UNCHANGED cmd, mode = "serial",
         \/ ReadAnsibleYamlInventory \/ NextGroup \/ NextServer \/ GroupDone \/ GroupsDone
         \/ \E s \in Server : Answer(s)
  PROVE  SerialInv'
<1>0. /\ cmd \in Commands /\ Main \notin Server /\ code \in [Thread -> Seq(Access)]
      /\ Thread = Server \cup {Main} /\ outs \in Seq(Server) /\ UNCHANGED <<mode, own>>
  BY ServerAssumption, SameCommand DEF TypeOK, Thread
<1>1. TurnInv /\ (\A s \in running : AttemptInv(s)) /\ TriedInv
  BY DEF SerialInv
<1>2. UNCHANGED <<config, login, ran>>
  BY DEF ReadAnsibleYamlInventory, NextGroup, NextServer, GroupDone, GroupsDone, Answer
<1>3. CASE ReadAnsibleYamlInventory \/ NextGroup \/ GroupDone \/ GroupsDone
  <2>1. /\ loop # "wait" /\ loop' \notin {"wait", "crashed"} /\ UNCHANGED <<running, outs>>
        /\ \A s \in Server : code'[s] = code[s]
        /\ loop' # "server" => code'[Main] = <<>>
    <3>1. CASE NextGroup
      BY <1>0, <1>1, <3>1 DEF NextGroup, TurnInv
    <3>2. CASE ReadAnsibleYamlInventory \/ GroupDone \/ GroupsDone
      BY <1>0, <1>1, <3>2 DEF ReadAnsibleYamlInventory, GroupDone, GroupsDone, TurnInv
    <3> QED
      BY <1>3, <3>1, <3>2
  <2>2. running = {}
    BY <2>1 DEF AnswerInv, PlaceInv
  <2>3. \A s \in Server : Reached(s) => Reached(s)'
    BY <1>2, <2>1, AttemptStays
  <2>4. TurnInv'
    BY <1>1, <2>1 DEF TurnInv
  <2>5. TriedInv'
    BY <1>1, <1>2, <2>1, <2>3 DEF TriedInv
  <2> QED
    BY <2>1, <2>2, <2>4, <2>5 DEF SerialInv
<1>4. CASE NextServer
  <2>1. PICK s \in serversLeft :
       /\ serversLeft' = serversLeft \ {s}
       /\ code' = [code EXCEPT ![s] = Attempt(s)]
       /\ running' = running \cup {s}
    BY <1>4 DEF NextServer
  <2>2. loop = "server" /\ code[Main] = <<>> /\ loop' = "wait" /\ UNCHANGED outs
    BY <1>4 DEF NextServer
  <2>3. running = {} /\ s \in Selected /\ s \in servers /\ s \in Server
    BY <1>0, <2>1, <2>2, CommandFacts DEF AnswerInv, PlaceInv, LoopInv
  <2>4. s \notin running \cup Range(outs)
    <3>1. Accounted = Selected \ Waiting
      BY <2>2 DEF AnswerInv, LoopInv, AccountInv
    <3> QED
      BY <2>1, <3>1 DEF Accounted, Waiting
  <2>5. ran[s] = Pending
    BY <1>1, <2>3, <2>4 DEF TriedInv
  <2>6. \A t \in Thread \ {s} : code'[t] = code[t]
    BY <1>0, <2>1
  <2>7. code'[s] = Attempt(s) /\ running' = {s}
    BY <1>0, <2>1, <2>3
  <2>8. TurnInv'
    BY <1>0, <1>1, <2>2, <2>3, <2>6, <2>7 DEF TurnInv
  <2>9. AttemptInv(s)'
    <3>1. PICK w \in Seq(Writes(s)) :
           /\ Attempt(s) = w \o Rest
           /\ \A f \in Field : Given(s, f) => set(f, own[s][f]) \in Range(w)
      BY <1>0, <2>3, AttemptShape
    <3>2. Writes(s)' = Writes(s) /\ (\A f : Given(s, f)' <=> Given(s, f))
      BY <1>0 DEF Writes, Given
    <3>3. code'[s] = w \o Rest
      BY <2>7, <3>1
    <3>4. \A f \in Field : Given(s, f)' => set(f, own[s][f])' \in Range(w)
      BY <1>0, <3>1, <3>2 DEF set
    <3>5. Writing(s)'
      BY <3>2, <3>3, <3>4 DEF Writing, Rest, Session, get
    <3> QED
      BY <3>5 DEF AttemptInv
  <2>10. \A t \in Server \ {s} : Reached(t) => Reached(t)'
    BY <1>0, <1>2, <2>6, AttemptStays
  <2>11. TriedInv'
    <3>1. Range(outs) \subseteq Server
      BY <1>0, RangeOfSeq
    <3>2. ASSUME NEW t \in Server, ran'[t] # Pending
          PROVE  code'[t] = <<>> /\ Reached(t)' /\ t \in running' \cup Range(outs')
      <4>1. ran[t] # Pending /\ t # s
        BY <1>2, <2>5, <3>2
      <4>2. code[t] = <<>> /\ Reached(t) /\ t \in running \cup Range(outs)
        BY <1>1, <4>1 DEF TriedInv
      <4>3. code'[t] = <<>> /\ Reached(t)'
        BY <1>0, <2>6, <2>10, <4>1, <4>2
      <4> QED
        BY <2>2, <2>3, <4>2, <4>3
    <3>3. \A t \in Range(outs') : ran'[t] # Pending
      BY <1>1, <1>2, <2>2 DEF TriedInv
    <3> QED
      BY <3>2, <3>3 DEF TriedInv
  <2> QED
    BY <2>7, <2>8, <2>9, <2>11 DEF SerialInv
<1>5. ASSUME NEW s \in Server, Answer(s) PROVE SerialInv'
  <2>1. /\ loop = "wait" /\ s \in running /\ ran[s] # Pending /\ loop' = "server"
        /\ running' = running \ {s} /\ outs' = Append(outs, s) /\ UNCHANGED code
    BY <1>5 DEF Answer
  <2>2. running = {s}
    BY <2>1 DEF AnswerInv, PlaceInv
  <2>3. Range(outs') = Range(outs) \cup {s}
    BY <1>0, <2>1, AppendDistinct DEF AnswerInv, PlaceInv
  <2>4. TurnInv'
    BY <1>1, <2>1, <2>2 DEF TurnInv, TriedInv
  <2>5. \A t \in Server : Reached(t) => Reached(t)'
    BY <1>2, <2>1, AttemptStays
  <2>6. TriedInv'
    BY <1>1, <1>2, <2>1, <2>2, <2>3, <2>5 DEF TriedInv
  <2> QED
    BY <2>1, <2>2, <2>4, <2>6 DEF SerialInv
<1> QED
  BY <1>3, <1>4, <1>5

LEMMA SerialInit == Init => SerialInv
<1> SUFFICES ASSUME Init PROVE SerialInv
  OBVIOUS
<1>1. Range(<<>>) = {}
  BY SMT DEF Range
<1>2. TurnInv /\ TriedInv /\ running = {}
  BY <1>1, ServerAssumption DEF Init, TurnInv, TriedInv, Thread
<1> QED
  BY <1>2 DEF SerialInv

LEMMA SerialStep == TypeOK /\ AnswerInv /\ SerialInv /\ [Next]_vars => SerialInv'
<1> SUFFICES ASSUME TypeOK, AnswerInv, SerialInv, [Next]_vars, mode = "serial" PROVE SerialInv'
  BY CommandKept, SameCommand DEF SerialInv
<1>0. UNCHANGED cmd
  BY CommandKept
<1>1. CASE UNCHANGED vars
  <2>1. UNCHANGED <<loop, config, code, login, ran, running, outs>>
    BY <1>1 DEF vars
  <2>2. \A s : (Reached(s) => Reached(s)') /\ (AttemptInv(s) => AttemptInv(s)')
    BY <1>0, <2>1, AttemptStays
  <2> QED
    BY <2>1, <2>2 DEF SerialInv, TurnInv, TriedInv
<1>2. CASE \/ Set(Main) \/ \E s \in Server : Set(s) \/ Default(s) \/ Get(s) \/ Crash(s) \/ Execute(s)
  BY <1>0, <1>2, SerialLocal
<1>3. CASE \/ ReadAnsibleYamlInventory \/ NextGroup \/ NextServer \/ GroupDone \/ GroupsDone
           \/ \E s \in Server : Answer(s)
  BY <1>0, <1>3, SerialLoop
<1>4. ~Single /\ ~Receive /\ ~Collected /\ ~Close /\ \A s \in Server : ~Send(s)
  BY DEF Single, Receive, Collected, Close, AllDone, Send, AnswerInv, LoopInv
<1> QED
  BY <1>1, <1>2, <1>3, <1>4 DEF Next, LoopStep, AttemptStep, Ended

\* For every inventory: one after the other, every server of the selected groups is tried
\* at its own address with the parameters it has, whatever happened to those before.
THEOREM SerialReachesEachAlways == Spec => []SerialReachesEach
<1>1. TypeOK /\ AnswerInv /\ SerialInv => SerialReachesEach
  <2> SUFFICES ASSUME TypeOK, AnswerInv, SerialInv, loop = "end", result = "ok", mode = "serial",
                      NEW s \in Selected
               PROVE  /\ ran[s] # Pending /\ login[s].ip = own[s].ip
                      /\ own[s].ip # None =>
                           \A f \in Field : own[s][f] # None => login[s][f] = own[s][f]
    BY DEF SerialReachesEach
  <2>1. s \in Range(outs) /\ s \in Server
    BY AnswersAreKept, CommandFacts DEF AnswersKept, TypeOK
  <2>2. ran[s] # Pending /\ Reached(s)
    BY <2>1 DEF SerialInv, TriedInv
  <2> QED
    BY <2>2 DEF Reached
<1> QED
  BY <1>1, AnswerInit, AnswerStep, InventoryInitType, InventoryNextType, SerialInit, SerialStep, PTL
  DEF Spec
-----------------------------------------------------------------------------
(***************************************************************************)
(* The groups are kept apart.  While the loop is in a group, what config has  *)
(* of the fields is of that group, or is about to be reset.                  *)
(***************************************************************************)
Shared == {"user", "port", "key"}
Enters(g) == {set(f, None) : f \in Field} \cup {set(f, common[g][f]) : f \in Field}
Legit(g, f) == {None, defaultPort, common[g][f]} \cup {own[t][f] : t \in In(g)}
ApartAt(g) ==
  /\ serversLeft \subseteq In(g) /\ running \subseteq In(g) /\ code[Main] \in Seq(Enters(g))
  /\ \A f \in Shared : config[f] \in Legit(g, f) \/ set(f, None) \in Range(code[Main])
LoginsApart == \A g \in groups, f \in Shared : \A s \in In(g) : login[s][f] \in Legit(g, f)
ApartInv ==
  mode = "serial" =>
    LoginsApart /\ (loop \in {"server", "wait"} => \E g \in groups : ApartAt(g))

LEMMA ApartIsApart == ApartInv => GroupsKeptApart
BY DEF ApartInv, LoginsApart, GroupsKeptApart, Legit, Shared

LEMMA SameLegit ==
  ASSUME UNCHANGED cmd
  PROVE  \A g : /\ In(g)' = In(g) /\ Enters(g)' = Enters(g)
                /\ \A f : Legit(g, f)' = Legit(g, f)
BY DEF In, Enters, Legit, set, servers, own, common

LEMMA EnterShape ==
  ASSUME cmd \in Commands, NEW g \in groups
  PROVE  /\ EnterGroup(g) \in Seq(Enters(g))
         /\ \A f \in Shared : set(f, None) \in Range(EnterGroup(g))
<1> DEFINE Q == Enters(g) c == Copy("set", common[g])
        d == <<set("user", None), set("ip", None), set("port", None), set("key", None)>>
<1>1. \A f \in {"user", "port", "key"} : <<"set", f, common[g][f]>> \in Q
  BY DEF Enters, set, Field
<1>2. \A f \in Field : set(f, None) \in Q
  BY DEF Enters
<1>3. d \in Seq(Q)
  BY <1>2 DEF Field
<1>4. \A f \in Shared : set(f, None) \in Range(d)
  <2>1. d[1] = set("user", None) /\ d[3] = set("port", None) /\ d[4] = set("key", None)
    OBVIOUS
  <2>2. DOMAIN d = 1..4
    OBVIOUS
  <2> HIDE DEF d
  <2> QED
    BY <2>1, <2>2 DEF Range, Shared
<1>5. EnterGroup(g) = d \o c
  BY DEF EnterGroup
<1> HIDE DEF Q
<1>6. c \in Seq(Q)
  BY <1>1, CopyEffect
<1> HIDE DEF c, d
<1>7. d \o c \in Seq(Q) /\ Range(d \o c) = Range(d) \cup Range(c)
  BY <1>3, <1>6, RangeConcatenation, ConcatProperties
<1> QED
  BY <1>4, <1>5, <1>7 DEF Q

\* Where a group stays, and nobody writes.
LEMMA ApartStays ==
  ASSUME UNCHANGED <<cmd, config>>, NEW g, ApartAt(g), code'[Main] = code[Main],
         serversLeft' \subseteq In(g), running' \subseteq In(g)
  PROVE  ApartAt(g)'
BY SameLegit DEF ApartAt

LEMMA LoginsStay ==
  ASSUME UNCHANGED <<cmd, login>>, LoginsApart PROVE LoginsApart'
BY SameCommand, SameLegit DEF LoginsApart

LEMMA ApartWrite ==
  ASSUME TypeOK, AnswerInv, SerialInv, ApartInv, UNCHANGED cmd, mode = "serial",
         Set(Main) \/ \E s \in Server : Set(s)
  PROVE  ApartInv'
<1>0. /\ Main \in Thread /\ Main \notin Server /\ config \in [Field -> Value]
      /\ code \in [Thread -> Seq(Access)] /\ Server \subseteq Thread /\ Shared \subseteq Field
  BY ServerAssumption DEF TypeOK, Thread, Shared, Field
<1>1. UNCHANGED <<loop, login, serversLeft, running>> /\ LoginsApart'
  BY LoginsStay DEF Set, ApartInv, plan
<1>2. CASE Set(Main)
  <2> DEFINE a == Head(code[Main]) r == Tail(code[Main])
  <2>1. loop = "server" /\ (\A f, v : Seen(Main, f, v) = {v})
    BY <1>0, <1>2, Alone DEF Set
  <2>2. PICK g \in groups : ApartAt(g)
    BY <2>1 DEF ApartInv
  <2>3. /\ code[Main] \in Seq(Enters(g)) /\ code[Main] # <<>>
    BY <1>2, <2>2 DEF Set, Busy, ApartAt
  <2>4. /\ a \in Enters(g) /\ r \in Seq(Enters(g)) /\ Range(code[Main]) = {a} \cup Range(r)
    <3>1. code[Main] \o <<>> = code[Main] /\ <<>> \in Seq(Enters(g))
      BY <2>3, ConcatEmptySeq
    <3> QED
      BY <2>3, <3>1, FirstOf
  <2>5. PICK h \in Field : a = set(h, None) \/ a = set(h, common[g][h])
    BY <2>4 DEF Enters
  <2>6. a[1] = "set" /\ a[2] = h /\ a[3] \in {None, common[g][h]}
    BY <2>5 DEF set
  <2>7. config' = [config EXCEPT ![h] = a[3]] /\ code'[Main] = r
    <3>1. config' = [config EXCEPT ![a[2]] = a[3]]
      BY <1>2, <2>1, SetWrites
    <3>2. code'[Main] = r
      BY <1>0, <1>2 DEF Set
    <3> HIDE DEF a, r
    <3> QED
      BY <2>6, <3>1, <3>2
  <2> HIDE DEF a, r
  <2>8. ASSUME NEW f \in Shared PROVE config'[f] \in Legit(g, f) \/ set(f, None) \in Range(r)
    <3>1. CASE f = h
      BY <1>0, <2>6, <2>7, <3>1 DEF Legit
    <3>2. CASE f # h
      <4>1. set(f, None) # a
        BY <2>6, <3>2 DEF set
      <4>2. config'[f] = config[f]
        BY <1>0, <2>7, <3>2
      <4>3. config[f] \in Legit(g, f) \/ set(f, None) \in Range(code[Main])
        BY <2>2 DEF ApartAt
      <4> QED
        BY <2>4, <4>1, <4>2, <4>3
    <3> QED
      BY <3>1, <3>2
  <2>9. \A f : set(f, None)' = set(f, None)
    BY DEF set
  <2>10. ApartAt(g)'
    BY <1>1, <2>2, <2>4, <2>7, <2>8, <2>9, SameLegit DEF ApartAt
  <2>11. g \in groups'
    BY SameCommand
  <2> QED
    BY <1>1, <2>10, <2>11 DEF ApartInv
<1>3. ASSUME NEW s \in Server, Set(s) PROVE ApartInv'
  <2> DEFINE a == Head(code[s])
  <2>1. loop = "wait" /\ s \in running
    BY <1>0, <1>3, Alone DEF Set
  <2>2. code[Main] = <<>>
    BY <2>1 DEF SerialInv, TurnInv
  <2>3. PICK g \in groups : ApartAt(g)
    BY <2>1 DEF ApartInv
  <2>4. s \in In(g)
    BY <2>1, <2>3 DEF ApartAt
  <2>5. (\A f, v : Seen(s, f, v) = {v}) /\ (a \in Writes(s) \/ a = set("port", defaultPort))
    BY <1>3, OwnWrite
  <2>6. \E h \in Field : \E v : config' = [config EXCEPT ![h] = v] /\ v \in {own[s][h], defaultPort}
    <3>0. PICK h \in Field : a \in {set(h, own[s][h]), set(h, defaultPort)}
      BY <2>5 DEF Writes, Field
    <3>1. PICK v \in {own[s][h], defaultPort} : a = set(h, v)
      BY <3>0
    <3>2. a[2] = h /\ a[3] = v
      BY <3>1 DEF set
    <3>3. config' = [config EXCEPT ![h] = v]
      <4>1. config' = [config EXCEPT ![a[2]] = a[3]]
        BY <1>3, <2>5, SetWrites
      <4> QED
        BY <3>2, <4>1
    <3> QED
      BY <3>1, <3>3
  <2>7. \A f \in Shared : config[f] \in Legit(g, f)
    <3>1. Range(code[Main]) = {}
      BY <2>2 DEF Range
    <3> QED
      BY <2>3, <3>1 DEF ApartAt
  <2>8. \A f \in Shared : config'[f] \in Legit(g, f)
    <3>1. SUFFICES ASSUME NEW f \in Shared PROVE config'[f] \in Legit(g, f)
      OBVIOUS
    <3>2. config[f] \in Legit(g, f) /\ own[s][f] \in Legit(g, f) /\ defaultPort \in Legit(g, f)
      BY <2>4, <2>7 DEF Legit
    <3>3. config'[f] \in {own[s][f], defaultPort, config[f]}
      BY <1>0, <2>6
    <3> QED
      BY <3>2, <3>3
  <2>9. code'[Main] = code[Main]
    BY <1>0, <1>3 DEF Set
  <2>10. ApartAt(g)'
    BY <1>1, <2>3, <2>8, <2>9, SameLegit DEF ApartAt
  <2>11. g \in groups'
    BY SameCommand
  <2> QED
    BY <1>1, <2>10, <2>11 DEF ApartInv
<1> QED
  BY <1>2, <1>3

\* A session is given what config has.
LEMMA ApartRead ==
  ASSUME TypeOK, AnswerInv, SerialInv, ApartInv, UNCHANGED cmd, mode = "serial",
         NEW s \in Server, Get(s)
  PROVE  ApartInv'
<1> DEFINE f == Head(code[s])[2]
<1>0. /\ Main \notin Server /\ code \in [Thread -> Seq(Access)] /\ s \in Thread /\ Main \in Thread
      /\ login \in [Server -> [Field -> Value]] /\ Busy(s)
  BY ServerAssumption DEF TypeOK, Thread, Get
<1>1. loop = "wait" /\ s \in running /\ (\A h, v : Seen(s, h, v) = {v})
  BY <1>0, Alone
<1>2. /\ UNCHANGED <<loop, config, serversLeft, running>>
      /\ login' = [login EXCEPT ![s][f] = config[f]] /\ code'[Main] = code[Main]
  <2>1. UNCHANGED <<loop, config, serversLeft, running>>
    BY DEF Get, plan
  <2>2. login' = [login EXCEPT ![s][f] = config[f]]
    <3>1. \E v \in Seen(s, f, config[f]) : login' = [login EXCEPT ![s][f] = v]
      BY DEF Get
    <3>2. Seen(s, f, config[f]) = {config[f]}
      BY <1>1
    <3> HIDE DEF f
    <3> QED
      BY <3>1, <3>2
  <2>3. \E v : code' = [code EXCEPT ![s] = After(@, v)]
    BY DEF Get
  <2> QED
    BY <1>0, <2>1, <2>2, <2>3
<1> HIDE DEF f
<1>3. PICK g \in groups : ApartAt(g)
  BY <1>1 DEF ApartInv
<1>4. s \in In(g)
  BY <1>1, <1>3 DEF ApartAt
<1>5. \A h \in Shared : config[h] \in Legit(g, h)
  <2>1. code[Main] = <<>>
    BY <1>1 DEF SerialInv, TurnInv
  <2>2. Range(code[Main]) = {}
    BY <2>1 DEF Range
  <2> QED
    BY <1>3, <2>2 DEF ApartAt
<1>6. ASSUME NEW k \in groups, NEW h \in Shared, NEW t \in In(k) PROVE login'[t][h] \in Legit(k, h)
  <2>1. t \in Server /\ h \in Field
    <3>1. servers \subseteq Server
      BY CommandFacts DEF TypeOK
    <3> QED
      BY <3>1 DEF In, Shared, Field
  <2>2. login[t][h] \in Legit(k, h)
    BY DEF ApartInv, LoginsApart
  <2>3. CASE t = s /\ h = f
    <3>1. k = g
      BY <1>4, <2>3 DEF In
    <3>2. login'[t][h] = config[h]
      BY <1>0, <1>2, <2>1, <2>3
    <3> QED
      BY <1>5, <3>1, <3>2
  <2>4. CASE ~(t = s /\ h = f)
    <3>1. login'[t][h] = login[t][h]
      BY <1>0, <1>2, <2>1, <2>4
    <3> QED
      BY <2>2, <3>1
  <2> QED
    BY <2>3, <2>4
<1>7. LoginsApart'
  BY <1>6, SameCommand, SameLegit DEF LoginsApart
<1>8. ApartAt(g)' /\ g \in groups'
  <2>1. serversLeft' \subseteq In(g) /\ running' \subseteq In(g)
    BY <1>2, <1>3 DEF ApartAt
  <2> QED
    BY <1>2, <1>3, <2>1, ApartStays, SameCommand
<1> QED
  BY <1>7, <1>8 DEF ApartInv

LEMMA ApartLoop ==
  ASSUME TypeOK, AnswerInv, SerialInv, ApartInv, UNCHANGED cmd, mode = "serial",
         \/ ReadAnsibleYamlInventory \/ NextGroup \/ NextServer \/ GroupDone \/ GroupsDone
         \/ \E s \in Server : Answer(s) \/ Default(s) \/ Execute(s)
  PROVE  ApartInv'
<1>0. /\ cmd \in Commands /\ Main \notin Server /\ code \in [Thread -> Seq(Access)]
      /\ Main \in Thread /\ groups' = groups
  BY ServerAssumption, SameCommand DEF TypeOK, Thread
<1>1. UNCHANGED <<config, login>> /\ LoginsApart'
  <2>1. UNCHANGED <<config, login>>
    BY DEF ReadAnsibleYamlInventory, NextGroup, NextServer, GroupDone, GroupsDone, Answer, Default, Execute
  <2> QED
    BY <2>1, LoginsStay DEF ApartInv
<1>2. CASE ReadAnsibleYamlInventory \/ GroupDone \/ GroupsDone
  <2>1. loop' \notin {"server", "wait"}
    BY <1>2 DEF ReadAnsibleYamlInventory, GroupDone, GroupsDone
  <2> QED
    BY <1>1, <2>1 DEF ApartInv
<1>3. CASE NextGroup
  <2>1. loop = "group" /\ UNCHANGED running
    BY <1>3 DEF NextGroup
  <2>2. running = {}
    BY <2>1 DEF AnswerInv, PlaceInv
  <2>3. PICK g \in groupsLeft :
          IF ~Passes(g) THEN UNCHANGED loop
          ELSE serversLeft' = In(g) /\ code' = [code EXCEPT ![Main] = EnterGroup(g)]
    BY <1>3 DEF NextGroup
  <2>4. g \in groups
    BY DEF AnswerInv, LoopInv
  <2>5. CASE ~Passes(g)
    BY <1>1, <2>1, <2>3, <2>5 DEF ApartInv
  <2>6. CASE Passes(g)
    <3>1. serversLeft' = In(g) /\ code'[Main] = EnterGroup(g) /\ running' = {}
      BY <1>0, <2>1, <2>2, <2>3, <2>6
    <3>2. \A f \in Shared : set(f, None)' \in Range(code'[Main])
      BY <1>0, <2>4, <3>1, EnterShape DEF set
    <3>3. code'[Main] \in Seq(Enters(g)) 
      BY <1>0, <2>4, <3>1, EnterShape
    <3>4. ApartAt(g)'
      BY <3>1, <3>2, <3>3, SameLegit DEF ApartAt
    <3> QED
      BY <1>0, <1>1, <2>4, <3>4 DEF ApartInv
  <2> QED
    BY <2>5, <2>6
<1>4. CASE NextServer \/ \E s \in Server : Answer(s) \/ Default(s) \/ Execute(s)
  <2>1. /\ loop \in {"server", "wait"} \/ running # {}
        /\ code'[Main] = code[Main] /\ serversLeft' \subseteq serversLeft
        /\ running' \subseteq running \cup serversLeft
    <3>1. CASE NextServer
      BY <1>0, <3>1, CommandFacts DEF NextServer, AnswerInv, LoopInv, Selected
    <3>2. CASE \E s \in Server : Answer(s) \/ Default(s) \/ Execute(s)
      <4>1. CASE \E s \in Server : Answer(s) \/ Execute(s)
        BY <4>1 DEF Answer, Execute, plan
      <4>2. ASSUME NEW s \in Server, Default(s)
            PROVE  /\ s \in running /\ code'[Main] = code[Main]
                   /\ UNCHANGED <<serversLeft, running>>
        <5>1. (\E q : code' = [code EXCEPT ![s] = q]) /\ UNCHANGED <<serversLeft, running>>
          BY <4>2 DEF Default, plan
        <5> QED
          BY <1>0, <4>2, <5>1, DefaultKeeps
      <4> QED
        BY <3>2, <4>1, <4>2
    <3> QED
      BY <1>4, <3>1, <3>2
  <2>2. loop \in {"server", "wait"}
    BY <2>1 DEF AnswerInv, PlaceInv
  <2>3. PICK g \in groups : ApartAt(g)
    BY <2>2 DEF ApartInv
  <2>4. serversLeft' \subseteq In(g) /\ running' \subseteq In(g)
    BY <2>1, <2>3 DEF ApartAt
  <2>5. ApartAt(g)'
    BY <1>1, <2>1, <2>3, <2>4, ApartStays
  <2> QED
    BY <1>0, <1>1, <2>5 DEF ApartInv
<1> QED
  BY <1>2, <1>3, <1>4

LEMMA ApartInit == Init => ApartInv
<1>1. ASSUME Init PROVE LoginsApart /\ loop \notin {"server", "wait"}
  <2>1. servers \subseteq Server /\ login = [s \in Server |-> [f \in Field |-> None]] /\ loop = "read"
    BY <1>1, CommandFacts DEF Init
  <2> QED
    BY <2>1 DEF LoginsApart, In, Legit, Shared, Field
<1> QED
  BY <1>1 DEF ApartInv

LEMMA ApartStep == TypeOK /\ AnswerInv /\ SerialInv /\ ApartInv /\ [Next]_vars => ApartInv'
<1> SUFFICES ASSUME TypeOK, AnswerInv, SerialInv, ApartInv, [Next]_vars, mode = "serial"
             PROVE  ApartInv'
  BY CommandKept, SameCommand DEF ApartInv
<1>0. UNCHANGED cmd
  BY CommandKept
<1>1. CASE UNCHANGED vars
  <2>1. UNCHANGED <<loop, config, code, login, running, serversLeft>>
    BY <1>1 DEF vars, plan
  <2>2. LoginsApart' /\ groups' = groups
    BY <1>0, <2>1, LoginsStay, SameCommand DEF ApartInv
  <2>3. \A g \in groups : ApartAt(g) => ApartAt(g)'
    <3>1. SUFFICES ASSUME NEW g \in groups, ApartAt(g) PROVE ApartAt(g)'
      OBVIOUS
    <3>2. serversLeft' \subseteq In(g) /\ running' \subseteq In(g)
      BY <2>1, <3>1 DEF ApartAt
    <3> QED
      BY <1>0, <2>1, <3>1, <3>2, ApartStays
  <2> QED
    BY <2>1, <2>2, <2>3 DEF ApartInv
<1>2. CASE Set(Main) \/ \E s \in Server : Set(s)
  BY <1>0, <1>2, ApartWrite
<1>3. CASE \E s \in Server : Get(s)
  BY <1>0, <1>3, ApartRead
<1>4. CASE \/ ReadAnsibleYamlInventory \/ NextGroup \/ NextServer \/ GroupDone \/ GroupsDone
           \/ \E s \in Server : Answer(s) \/ Default(s) \/ Execute(s)
  BY <1>0, <1>4, ApartLoop
<1>5. \A s \in Server : ~Crash(s)
  <2>1. SUFFICES ASSUME NEW s \in Server, Crash(s) PROVE FALSE
    OBVIOUS
  <2>2. Busy(s) /\ Contended(s, Head(code[s])[2]) /\ s \in Thread
    BY <2>1 DEF Crash, Thread
  <2> QED
    BY <2>2, Alone
<1>6. ~Single /\ ~Receive /\ ~Collected /\ ~Close /\ \A s \in Server : ~Send(s)
  BY DEF Single, Receive, Collected, Close, AllDone, Send, AnswerInv, LoopInv
<1> QED
  BY <1>1, <1>2, <1>3, <1>4, <1>5, <1>6 DEF Next, LoopStep, AttemptStep, Ended

\* For every inventory: one after the other, a session never uses the user, the key or
\* the port of another group.
THEOREM GroupsKeptApartAlways == Spec => []GroupsKeptApart
BY AnswerInit, AnswerStep, InventoryInitType, InventoryNextType, SerialInit, SerialStep,
   ApartInit, ApartStep, ApartIsApart, PTL DEF Spec
-----------------------------------------------------------------------------
(***************************************************************************)
(* Nobody is stuck: wherever the command stands, the guard of a step of the   *)
(* loop, of an attempt or of the closing goroutine is met.                   *)
(***************************************************************************)
LoopMayStep ==
  \/ loop = "read" /\ (mode = "single" => servers # {})
  \/ loop = "group"
  \/ loop = "server" /\ (code[Main] = <<>> \/ Head(code[Main])[1] = "set")
  \/ loop = "wait" /\ \E s \in running : ran[s] # Pending
  \/ loop = "collect" /\ (chan # <<>> \/ closed)
AttemptMayStep(s) ==
  \/ code[s] # <<>> /\ Head(code[s])[1] \in {"set", "default", "get"}
  \/ s \in running /\ code[s] = <<>> /\ ran[s] = Pending
  \/ mode = "parallel" /\ s \in running /\ ran[s] # Pending /\ Len(chan) < Cardinality(groups)
CloseMayStep == loop = "collect" /\ running = {} /\ ~closed

NobodyStuck ==
  loop \notin {"end", "crashed"} =>
    LoopMayStep \/ (\E s \in Server : AttemptMayStep(s)) \/ CloseMayStep

\* The loop only writes to config; there is an attempt that it waits for.
Resets == {"set"} \X Field \X Value
WaitInv == code[Main] \in Seq(Resets) /\ (loop = "wait" => running # {})

LEMMA WaitLoop ==
  ASSUME TypeOK, AnswerInv, WaitInv, UNCHANGED cmd,
         \/ Single \/ ReadAnsibleYamlInventory \/ NextGroup \/ NextServer \/ GroupDone \/ GroupsDone
         \/ Receive \/ Collected \/ Close \/ \E s \in Server : Answer(s)
  PROVE  code'[Main] \in Seq(Resets) /\ (loop' = "wait" => running' # {})
<1>0. /\ cmd \in Commands /\ Main \notin Server /\ code \in [Thread -> Seq(Access)]
      /\ Main \in Thread /\ servers \subseteq Server
  BY ServerAssumption, CommandFacts DEF TypeOK, Thread
<1>1. CASE Single
  <2>1. \E s \in servers : code' = [code EXCEPT ![s] = Session] /\ running' = {s}
    BY <1>1 DEF Single
  <2> QED
    BY <1>0, <2>1 DEF WaitInv
<1>2. CASE NextGroup
  <2>1. PICK g \in groupsLeft :
          IF ~Passes(g) THEN UNCHANGED <<loop, code>>
          ELSE loop' = "server" /\ code' = [code EXCEPT ![Main] = EnterGroup(g)]
    BY <1>2 DEF NextGroup
  <2>2. g \in groups /\ loop = "group"
    BY <1>2 DEF NextGroup, AnswerInv, LoopInv
  <2>3. Enters(g) \subseteq Resets
    BY <1>0, <2>2, ValueFacts DEF Enters, set, Resets
  <2>4. EnterGroup(g) \in Seq(Resets)
    <3>1. EnterGroup(g) \in Seq(Enters(g))
      BY <1>0, <2>2, EnterShape
    <3> QED
      BY <2>3, <3>1
  <2> QED
    BY <1>0, <2>1, <2>2, <2>4 DEF WaitInv
<1>3. CASE NextServer
  <2>1. \E s \in serversLeft : code' = [code EXCEPT ![s] = Attempt(s)] /\ running' = running \cup {s}
    BY <1>3 DEF NextServer
  <2>2. serversLeft \subseteq Server
    BY DEF TypeOK
  <2> QED
    BY <1>0, <2>1, <2>2 DEF WaitInv
<1>4. CASE ReadAnsibleYamlInventory \/ GroupDone \/ GroupsDone \/ Receive \/ Collected
  <2>1. UNCHANGED code /\ loop' # "wait"
    BY <1>4 DEF ReadAnsibleYamlInventory, GroupDone, GroupsDone, Receive, Collected
  <2> QED
    BY <2>1 DEF WaitInv
<1>5. CASE Close \/ \E s \in Server : Answer(s)
  <2>1. UNCHANGED code /\ loop' # "wait"
    BY <1>5 DEF Close, AllDone, Answer
  <2> QED
    BY <2>1 DEF WaitInv
<1> QED
  BY <1>1, <1>2, <1>3, <1>4, <1>5

LEMMA WaitLocal ==
  ASSUME TypeOK, AnswerInv, WaitInv,
         Set(Main) \/ \E s \in Server : AttemptStep(s)
  PROVE  code'[Main] \in Seq(Resets) /\ (loop' = "wait" => running' # {})
<1>0. /\ Main \notin Server /\ code \in [Thread -> Seq(Access)] /\ Main \in Thread
  BY ServerAssumption DEF TypeOK, Thread
<1>1. CASE Set(Main)
  <2>1. code[Main] # <<>> /\ code'[Main] = Tail(code[Main]) /\ UNCHANGED <<loop, running>>
    BY <1>0, <1>1 DEF Set, Busy
  <2>2. Tail(code[Main]) \in Seq(Resets)
    BY <2>1, HeadTailProperties DEF WaitInv
  <2> QED
    BY <2>1, <2>2 DEF WaitInv
<1>2. ASSUME NEW s \in Server, Set(s) \/ Default(s) \/ Get(s)
      PROVE  code'[Main] \in Seq(Resets) /\ (loop' = "wait" => running' # {})
  <2>1. \E q : code' = [code EXCEPT ![s] = q]
    <3>1. CASE Set(s)
      BY <3>1 DEF Set
    <3>2. CASE Get(s)
      BY <3>2 DEF Get
    <3>3. CASE Default(s)
      BY <3>3 DEF Default
    <3> QED
      BY <1>2, <3>1, <3>2, <3>3
  <2>2. UNCHANGED <<loop, running>>
    BY <1>2 DEF Set, Default, Get
  <2> QED
    BY <1>0, <2>1, <2>2 DEF WaitInv
<1>3. ASSUME NEW s \in Server, Crash(s)
      PROVE  code'[Main] \in Seq(Resets) /\ (loop' = "wait" => running' # {})
  BY <1>0, <1>3 DEF Crash
<1>4. ASSUME NEW s \in Server, Execute(s) \/ Send(s)
      PROVE  code'[Main] \in Seq(Resets) /\ (loop' = "wait" => running' # {})
  BY <1>4 DEF Execute, Send, WaitInv, AnswerInv, LoopInv
<1> QED
  BY <1>1, <1>2, <1>3, <1>4 DEF AttemptStep

LEMMA WaitStep == TypeOK /\ AnswerInv /\ WaitInv /\ [Next]_vars => WaitInv'
<1> SUFFICES ASSUME TypeOK, AnswerInv, WaitInv, [Next]_vars PROVE WaitInv'
  OBVIOUS
<1>1. UNCHANGED cmd /\ Resets' = Resets
  BY CommandKept, SameCommand DEF Resets
<1>2. code'[Main] \in Seq(Resets) /\ (loop' = "wait" => running' # {})
  <2>1. CASE UNCHANGED vars
    BY <2>1 DEF vars, WaitInv
  <2>2. CASE Set(Main) \/ \E s \in Server : AttemptStep(s)
    BY <2>2, WaitLocal
  <2>3. CASE \/ Single \/ ReadAnsibleYamlInventory \/ NextGroup \/ NextServer \/ GroupDone
             \/ GroupsDone \/ Receive \/ Collected \/ Close \/ \E s \in Server : Answer(s)
    BY <1>1, <2>3, WaitLoop
  <2> QED
    BY <2>1, <2>2, <2>3 DEF Next, LoopStep, Ended
<1> QED
  BY <1>1, <1>2 DEF WaitInv

\* An attempt that is not over may go on, whatever the others do.
LEMMA AttemptGoesOn ==
  ASSUME TypeOK, NEW s \in running, code[s] # <<>> \/ ran[s] = Pending
  PROVE  AttemptMayStep(s)
<1>1. s \in Thread /\ code \in [Thread -> Seq(Access)]
  BY DEF TypeOK, Thread
<1>2. CASE code[s] # <<>>
  <2>1. Head(code[s]) \in Access
    BY <1>1, <1>2, HeadTailProperties
  <2> QED
    BY <1>2, <2>1 DEF Access, AttemptMayStep
<1> QED
  BY <1>2 DEF AttemptMayStep

\* For every inventory: no state of a command is one where all wait for each other, for
\* a place in outChan, which has fewer than there are servers, for the wait group or for the
\* closing of the channel.
THEOREM NobodyStuckAlways == Spec => []NobodyStuck
<1>1. TypeOK /\ AnswerInv /\ WaitInv => NobodyStuck
  <2> SUFFICES ASSUME TypeOK, AnswerInv, WaitInv, loop \notin {"end", "crashed"}
               PROVE  LoopMayStep \/ (\E s \in Server : AttemptMayStep(s)) \/ CloseMayStep
    BY DEF NobodyStuck
  <2>0. running \subseteq Server /\ running \subseteq servers /\ cmd \in Commands
    BY DEF TypeOK, AnswerInv, PlaceInv
  <2>1. CASE loop = "read"
    BY <2>0, <2>1, CommandAssumption DEF LoopMayStep, mode, servers, own
  <2>2. CASE loop = "group"
    BY <2>2 DEF LoopMayStep
  <2>3. CASE loop = "server"
    <3>1. code[Main] # <<>> => Head(code[Main])[1] = "set"
      BY HeadTailProperties DEF WaitInv, Resets
    <3> QED
      BY <2>3, <3>1 DEF LoopMayStep
  <2>4. CASE loop = "wait"
    <3>1. PICK s \in running : TRUE
      BY <2>4 DEF WaitInv
    <3>2. AttemptMayStep(s) \/ ran[s] # Pending
      BY AttemptGoesOn
    <3> QED
      BY <2>0, <2>4, <3>2 DEF LoopMayStep
  <2>5. CASE loop = "collect"
    <3>1. SUFFICES ASSUME chan = <<>>, ~closed, running # {} PROVE \E s \in running : AttemptMayStep(s)
      BY <2>0, <2>5 DEF LoopMayStep, CloseMayStep
    <3>2. PICK s \in running : TRUE
      BY <3>1
    <3>3. 0 < Cardinality(groups)
      <4>1. groups \subseteq Group /\ cmd.groupOf[s] \in groups
        BY <2>0, CommandAssumption DEF groups, common, servers, own
      <4>2. IsFiniteSet(groups)
        BY <4>1, ServerAssumption, FS_Subset
      <4>3. Cardinality(groups) \in Nat /\ Cardinality(groups) # 0
        BY <4>1, <4>2, FS_CardinalityType, FS_EmptySet
      <4> QED
        BY <4>3
    <3>4. Len(chan) = 0 /\ mode = "parallel"
      BY <2>5, <3>1 DEF AnswerInv, LoopInv
    <3>5. ran[s] # Pending => AttemptMayStep(s)
      BY <3>3, <3>4 DEF AttemptMayStep
    <3> QED
      BY <3>5, AttemptGoesOn
  <2> QED
    BY <2>1, <2>2, <2>3, <2>4, <2>5 DEF TypeOK
<1>2. Init => WaitInv
  BY DEF Init, WaitInv, Thread
<1> QED
  BY <1>1, <1>2, AnswerInit, AnswerStep, InventoryInitType, InventoryNextType, WaitStep, PTL DEF Spec
=============================================================================
