--------------------------- MODULE InstallPlanProofs ---------------------------
(***************************************************************************)
(* That what is installed without an error is whole, and that nobody loses     *)
(* settings unasked, for any commands and any number of them, wherever they     *)
(* fail or are interrupted.                                                   *)
(*                                                                           *)
(* Both rest on the order of the calls in a list: what has to come, what comes   *)
(* before it and what after.  Each kind of order is kept when lists are          *)
(* concatenated and when calls are dropped from the front.                     *)
(***************************************************************************)
EXTENDS InstallProofs

-----------------------------------------------------------------------------
(* The order of calls in a list.                                             *)

\* The call x is in the list; every one of A is followed by y.
Has(s, x) == \E i \in 1 .. Len(s) : s[i] = x
Followed(s, A, y) ==
  \A i \in 1 .. Len(s) : s[i] \in A => \E j \in 1 .. Len(s) : j > i /\ s[j] = y

\* Before every call of A there is one of B with none of N in between; or b holds, and
\* there is none of N before.
Led(s, A, B, N, b) ==
  \A i \in 1 .. Len(s) : s[i] \in A =>
    \/ \E j \in 1 .. Len(s) : j < i /\ s[j] \in B /\ \A k \in j .. i : s[k] \notin N
    \/ b /\ \A k \in 1 .. i : s[k] \notin N

\* The entries of two lists, one after the other.
LEMMA Joined ==
  ASSUME NEW S, NEW s \in Seq(S), NEW t \in Seq(S)
  PROVE  /\ s \o t \in Seq(S) /\ Len(s \o t) = Len(s) + Len(t) /\ Len(s) \in Nat /\ Len(t) \in Nat
         /\ \A i \in 1 .. Len(s) : i \in 1 .. Len(s \o t) /\ (s \o t)[i] = s[i]
         /\ \A i \in 1 .. Len(t) : Len(s) + i \in 1 .. Len(s \o t) /\ (s \o t)[Len(s) + i] = t[i]
         /\ \A i \in 1 .. Len(s \o t) : i \in 1 .. Len(s) \/ \E j \in 1 .. Len(t) : i = Len(s) + j
<1> DEFINE u == s \o t
<1>1. Len(s) \in Nat /\ Len(t) \in Nat
  BY LenProperties
<1>2. /\ u \in Seq(S) /\ Len(u) = Len(s) + Len(t)
      /\ \A i \in 1 .. Len(s) + Len(t) : u[i] = IF i <= Len(s) THEN s[i] ELSE t[i - Len(s)]
  BY ConcatProperties
<1> HIDE DEF u
<1>3. ASSUME NEW i \in 1 .. Len(s) PROVE i \in 1 .. Len(u) /\ u[i] = s[i]
  BY <1>1, <1>2
<1>4. ASSUME NEW i \in 1 .. Len(t) PROVE Len(s) + i \in 1 .. Len(u) /\ u[Len(s) + i] = t[i]
  <2>1. Len(s) + i \in 1 .. Len(u) /\ ~(Len(s) + i <= Len(s)) /\ (Len(s) + i) - Len(s) = i
    BY <1>1, <1>2
  <2> QED
    BY <1>2, <2>1
<1>5. ASSUME NEW i \in 1 .. Len(u), i \notin 1 .. Len(s) PROVE \E j \in 1 .. Len(t) : i = Len(s) + j
  <2>1. i - Len(s) \in 1 .. Len(t) /\ i = Len(s) + (i - Len(s))
    BY <1>1, <1>2, <1>5
  <2> QED
    BY <2>1
<1> QED
  BY <1>1, <1>2, <1>3, <1>4, <1>5 DEF u

LEMMA HasJoined ==
  ASSUME NEW S, NEW s \in Seq(S), NEW t \in Seq(S), NEW x
  PROVE  Has(s \o t, x) <=> Has(s, x) \/ Has(t, x)
<1>1. /\ \A i \in 1 .. Len(s) : i \in 1 .. Len(s \o t) /\ (s \o t)[i] = s[i]
      /\ \A i \in 1 .. Len(t) : Len(s) + i \in 1 .. Len(s \o t) /\ (s \o t)[Len(s) + i] = t[i]
      /\ \A i \in 1 .. Len(s \o t) : i \in 1 .. Len(s) \/ \E j \in 1 .. Len(t) : i = Len(s) + j
  BY Joined
<1>2. Has(s, x) => Has(s \o t, x)
  BY <1>1 DEF Has
<1>3. Has(t, x) => Has(s \o t, x)
  BY <1>1 DEF Has
<1>4. Has(s \o t, x) => Has(s, x) \/ Has(t, x)
  BY <1>1 DEF Has
<1> QED
  BY <1>2, <1>3, <1>4

\* What disturbs is followed by y, or comes before a list that has y.
LEMMA FollowedJoined ==
  ASSUME NEW S, NEW s \in Seq(S), NEW t \in Seq(S), NEW A, NEW y,
         Followed(s, A, y) \/ Has(t, y), Followed(t, A, y)
  PROVE  Followed(s \o t, A, y)
<1> DEFINE u == s \o t
<1>1. /\ Len(s) \in Nat /\ Len(t) \in Nat
      /\ \A i \in 1 .. Len(s) : i \in 1 .. Len(u) /\ u[i] = s[i]
      /\ \A i \in 1 .. Len(t) : Len(s) + i \in 1 .. Len(u) /\ u[Len(s) + i] = t[i]
      /\ \A i \in 1 .. Len(u) : i \in 1 .. Len(s) \/ \E j \in 1 .. Len(t) : i = Len(s) + j
  BY Joined
<1> HIDE DEF u
<1> SUFFICES ASSUME NEW i \in 1 .. Len(u), u[i] \in A
             PROVE  \E j \in 1 .. Len(u) : j > i /\ u[j] = y
  BY DEF Followed, u
<1>2. CASE i \in 1 .. Len(s) /\ Followed(s, A, y)
  BY <1>1, <1>2 DEF Followed
<1>3. CASE i \in 1 .. Len(s) /\ Has(t, y)
  <2>1. PICK j \in 1 .. Len(t) : t[j] = y
    BY <1>3 DEF Has
  <2>2. Len(s) + j > i
    BY <1>1, <1>3, <2>1
  <2> QED
    BY <1>1, <2>1, <2>2
<1>4. CASE \E k \in 1 .. Len(t) : i = Len(s) + k
  <2>1. PICK k \in 1 .. Len(t) : i = Len(s) + k
    BY <1>4
  <2>2. PICK j \in 1 .. Len(t) : j > k /\ t[j] = y
    BY <1>1, <2>1 DEF Followed
  <2>3. Len(s) + j > i
    BY <1>1, <2>1, <2>2
  <2> QED
    BY <1>1, <2>2, <2>3
<1> QED
  BY <1>1, <1>2, <1>3, <1>4

LEMMA LedJoined ==
  ASSUME NEW S, NEW s \in Seq(S), NEW t \in Seq(S), NEW A, NEW B, NEW N,
         Led(s, A, B, N, FALSE), Led(t, A, B, N, FALSE)
  PROVE  Led(s \o t, A, B, N, FALSE)
<1> DEFINE u == s \o t
<1>1. /\ Len(s) \in Nat /\ Len(t) \in Nat
      /\ \A i \in 1 .. Len(s) : i \in 1 .. Len(u) /\ u[i] = s[i]
      /\ \A i \in 1 .. Len(t) : Len(s) + i \in 1 .. Len(u) /\ u[Len(s) + i] = t[i]
      /\ \A i \in 1 .. Len(u) : i \in 1 .. Len(s) \/ \E j \in 1 .. Len(t) : i = Len(s) + j
  BY Joined
<1> HIDE DEF u
<1> SUFFICES ASSUME NEW i \in 1 .. Len(u), u[i] \in A
             PROVE  \E j \in 1 .. Len(u) : j < i /\ u[j] \in B /\ \A k \in j .. i : u[k] \notin N
  BY DEF Led, u
<1>2. CASE i \in 1 .. Len(s)
  <2>1. PICK j \in 1 .. Len(s) : j < i /\ s[j] \in B /\ \A k \in j .. i : s[k] \notin N
    BY <1>1, <1>2 DEF Led
  <2>2. \A k \in j .. i : k \in 1 .. Len(s)
    BY <1>1, <1>2
  <2> QED
    BY <1>1, <1>2, <2>1, <2>2
<1>3. CASE \E k \in 1 .. Len(t) : i = Len(s) + k
  <2>1. PICK m \in 1 .. Len(t) : i = Len(s) + m
    BY <1>3
  <2>2. PICK j \in 1 .. Len(t) : j < m /\ t[j] \in B /\ \A k \in j .. m : t[k] \notin N
    BY <1>1, <2>1 DEF Led
  <2>3. ASSUME NEW k \in Len(s) + j .. i PROVE u[k] \notin N
    <3>1. k - Len(s) \in j .. m /\ k - Len(s) \in 1 .. Len(t) /\ k = Len(s) + (k - Len(s))
      BY <1>1, <2>1, <2>2
    <3> QED
      BY <1>1, <2>2, <3>1
  <2>4. Len(s) + j < i
    BY <1>1, <2>1, <2>2
  <2> QED
    BY <1>1, <2>2, <2>3, <2>4
<1> QED
  BY <1>1, <1>2, <1>3

\* What is left when the first n calls are done.
LEMMA Dropped ==
  ASSUME NEW S, NEW s \in Seq(S), NEW n \in Nat
  PROVE  LET t == SubSeq(s, n + 1, Len(s)) IN
         /\ t \in Seq(S) /\ Len(s) \in Nat /\ Len(t) \in Nat
         /\ \A i \in 1 .. Len(t) : n + i \in 1 .. Len(s) /\ t[i] = s[n + i]
         /\ \A i \in 1 .. Len(s) : i > n => i - n \in 1 .. Len(t) /\ t[i - n] = s[i]
<1> DEFINE t == SubSeq(s, n + 1, Len(s))
<1>1. Len(s) \in Nat /\ \A i \in 1 .. Len(s) : s[i] \in S
  BY LenProperties, ElementOfSeq
<1>2. /\ t \in Seq(S)
      /\ Len(t) = IF n + 1 <= Len(s) THEN Len(s) - (n + 1) + 1 ELSE 0
      /\ \A i \in 1 .. Len(s) - (n + 1) + 1 : t[i] = s[(n + 1) + i - 1]
  BY <1>1, SubSeqProperties
<1> HIDE DEF t
<1>3. Len(t) \in Nat
  BY <1>1, <1>2
<1>4. ASSUME NEW i \in 1 .. Len(t) PROVE n + i \in 1 .. Len(s) /\ t[i] = s[n + i]
  <2>1. i \in 1 .. Len(s) - (n + 1) + 1 /\ n + i \in 1 .. Len(s) /\ (n + 1) + i - 1 = n + i
    BY <1>1, <1>2
  <2> QED
    BY <1>2, <2>1
<1>5. ASSUME NEW i \in 1 .. Len(s), i > n PROVE i - n \in 1 .. Len(t) /\ t[i - n] = s[i]
  <2>1. i - n \in 1 .. Len(t) /\ i - n \in 1 .. Len(s) - (n + 1) + 1 /\ (n + 1) + (i - n) - 1 = i
    BY <1>1, <1>2, <1>5
  <2> QED
    BY <1>2, <2>1
<1> QED
  BY <1>1, <1>2, <1>3, <1>4, <1>5 DEF t

LEMMA HasDropped ==
  ASSUME NEW S, NEW s \in Seq(S), NEW n \in Nat, NEW x, Has(s, x),
         \A k \in 1 .. Len(s) : k <= n => s[k] # x
  PROVE  Has(SubSeq(s, n + 1, Len(s)), x)
<1> DEFINE t == SubSeq(s, n + 1, Len(s))
<1>1. /\ Len(s) \in Nat
      /\ \A i \in 1 .. Len(s) : i > n => i - n \in 1 .. Len(t) /\ t[i - n] = s[i]
  BY Dropped
<1> HIDE DEF t
<1>2. PICK i \in 1 .. Len(s) : s[i] = x
  BY DEF Has
<1>3. i > n
  BY <1>1, <1>2
<1> QED
  BY <1>1, <1>2, <1>3 DEF Has, t

LEMMA FollowedDropped ==
  ASSUME NEW S, NEW s \in Seq(S), NEW n \in Nat, NEW A, NEW y, Followed(s, A, y)
  PROVE  Followed(SubSeq(s, n + 1, Len(s)), A, y)
<1> DEFINE t == SubSeq(s, n + 1, Len(s))
<1>1. /\ Len(s) \in Nat
      /\ \A i \in 1 .. Len(t) : n + i \in 1 .. Len(s) /\ t[i] = s[n + i]
      /\ \A i \in 1 .. Len(s) : i > n => i - n \in 1 .. Len(t) /\ t[i - n] = s[i]
  BY Dropped
<1> HIDE DEF t
<1> SUFFICES ASSUME NEW i \in 1 .. Len(t), t[i] \in A
             PROVE  \E j \in 1 .. Len(t) : j > i /\ t[j] = y
  BY DEF Followed, t
<1>2. PICK j \in 1 .. Len(s) : j > n + i /\ s[j] = y
  BY <1>1 DEF Followed
<1>3. j > n /\ j - n > i
  BY <1>1, <1>2
<1> QED
  BY <1>1, <1>2, <1>3

\* What led the way is done when it is dropped, and stays done until one of N is.
LEMMA LedDropped ==
  ASSUME NEW S, NEW s \in Seq(S), NEW n \in Nat, NEW A, NEW B, NEW N, NEW b, NEW c,
         Led(s, A, B, N, b),
         (\E k \in 1 .. Len(s) : k <= n /\ s[k] \in B) => c,
         b /\ (\A k \in 1 .. Len(s) : k <= n => s[k] \notin N) => c
  PROVE  Led(SubSeq(s, n + 1, Len(s)), A, B, N, c)
<1> DEFINE t == SubSeq(s, n + 1, Len(s))
<1>1. /\ Len(s) \in Nat /\ Len(t) \in Nat
      /\ \A i \in 1 .. Len(t) : n + i \in 1 .. Len(s) /\ t[i] = s[n + i]
      /\ \A i \in 1 .. Len(s) : i > n => i - n \in 1 .. Len(t) /\ t[i - n] = s[i]
  BY Dropped
<1> HIDE DEF t
<1> SUFFICES ASSUME NEW i \in 1 .. Len(t), t[i] \in A
             PROVE  \/ \E j \in 1 .. Len(t) : j < i /\ t[j] \in B /\ \A k \in j .. i : t[k] \notin N
                    \/ c /\ \A k \in 1 .. i : t[k] \notin N
  BY DEF Led, t
<1>2. n + i \in 1 .. Len(s) /\ s[n + i] \in A /\ \A k \in 1 .. i : k \in 1 .. Len(t)
  BY <1>1
<1>3. CASE b /\ \A k \in 1 .. n + i : s[k] \notin N
  <2>1. \A k \in 1 .. Len(s) : k <= n => k \in 1 .. n + i
    BY <1>1
  <2>2. c
    BY <1>3, <2>1
  <2>3. \A k \in 1 .. i : n + k \in 1 .. n + i /\ t[k] = s[n + k]
    BY <1>1, <1>2
  <2> QED
    BY <1>3, <2>2, <2>3
<1>4. CASE \E j \in 1 .. Len(s) : j < n + i /\ s[j] \in B /\ \A k \in j .. n + i : s[k] \notin N
  <2>1. PICK j \in 1 .. Len(s) : j < n + i /\ s[j] \in B /\ \A k \in j .. n + i : s[k] \notin N
    BY <1>4
  <2>2. CASE j > n
    <3>1. /\ j - n \in 1 .. Len(t) /\ t[j - n] = s[j] /\ j - n < i
          /\ \A k \in j - n .. i : k \in 1 .. i /\ n + k \in j .. n + i
      BY <1>1, <2>1, <2>2
    <3>2. \A k \in j - n .. i : t[k] = s[n + k]
      BY <1>1, <1>2, <3>1
    <3> QED
      BY <2>1, <3>1, <3>2
  <2>3. CASE j <= n
    <3>1. c
      BY <2>1, <2>3
    <3>2. \A k \in 1 .. i : n + k \in j .. n + i /\ t[k] = s[n + k]
      BY <1>1, <1>2, <2>1, <2>3
    <3> QED
      BY <2>1, <3>1, <3>2
  <2> QED
    BY <1>1, <2>1, <2>2, <2>3
<1> QED
  BY <1>2, <1>3, <1>4 DEF Led

\* A list that has one of B in front leads to what comes behind.
LEMMA LedBehind ==
  ASSUME NEW S, NEW s \in Seq(S), NEW t \in Seq(S), NEW A, NEW B, NEW x \in B,
         Led(s, A, B, {}, FALSE), Has(s, x)
  PROVE  Led(s \o t, A, B, {}, FALSE) /\ Has(s \o t, x)
<1> DEFINE u == s \o t
<1>1. /\ Len(s) \in Nat /\ Len(t) \in Nat
      /\ \A i \in 1 .. Len(s) : i \in 1 .. Len(u) /\ u[i] = s[i]
      /\ \A i \in 1 .. Len(t) : Len(s) + i \in 1 .. Len(u) /\ u[Len(s) + i] = t[i]
      /\ \A i \in 1 .. Len(u) : i \in 1 .. Len(s) \/ \E j \in 1 .. Len(t) : i = Len(s) + j
  BY Joined
<1>2. Has(s \o t, x)
  BY HasJoined
<1> HIDE DEF u
<1>3. ASSUME NEW i \in 1 .. Len(u), u[i] \in A
      PROVE  \E j \in 1 .. Len(u) : j < i /\ u[j] \in B
  <2>1. CASE i \in 1 .. Len(s)
    <3>1. PICK j \in 1 .. Len(s) : j < i /\ s[j] \in B
      BY <1>1, <1>3, <2>1 DEF Led
    <3> QED
      BY <1>1, <3>1
  <2>2. CASE \E k \in 1 .. Len(t) : i = Len(s) + k
    <3>1. PICK j \in 1 .. Len(s) : s[j] = x
      BY DEF Has
    <3>2. j < i
      BY <1>1, <2>2, <3>1
    <3> QED
      BY <1>1, <3>1, <3>2
  <2> QED
    BY <1>1, <2>1, <2>2
<1> QED
  BY <1>2, <1>3 DEF Led, u

-----------------------------------------------------------------------------
(* What the list of an installation has, and in which order.                  *)

To(do, of) == [do |-> do, of |-> of]
Files(t) == {Execs[t][i] : i \in DOMAIN Execs[t]}
Disturbs(f) == {To("download", f), To("unzip", f)}
Unzips(t) == {To("unzip", f) : f \in Files(t)}

\* The calls that concern only the tools of P.
Concerns(P) ==
  {x \in PlannedCall :
     /\ x.do \in {"download", "delete", "config"} => x.of \in P
     /\ x.do = "unzip" => \E t \in P : x.of \in Files(t)
     /\ x = To("files", "params") => PastelD \in P
     /\ x = To("files", "dd support") => DDService \in P
     /\ x.do \notin {"remove", "purge"}}

\* Part of the list of an installation of P, with the executables F still to be made
\* executable: the others are after they were written, an archive is there while it is
\* unpacked, and the folder of the dd-service is made before its configuration is
\* written.
Block(s, F, P) ==
  /\ s \in Seq(Concerns(P))
  /\ \A f \in Exec \ (F \cup {DDService}) : Followed(s, Disturbs(f), To("chmod", f))
  /\ \A t \in Zipped : Led(s, Unzips(t), {To("download", t)}, {To("delete", t)}, FALSE)
  /\ Led(s, {To("config", DDService)}, {To("folder", "dd")}, {}, FALSE)

LEMMA BlockSeq ==
  ASSUME NEW s, NEW F, NEW P, Block(s, F, P)
  PROVE  s \in Seq(Concerns(P)) /\ s \in Seq(PlannedCall)
<1>1. Concerns(P) \subseteq PlannedCall
  BY DEF Concerns
<1> QED
  BY <1>1, SeqMonotonic DEF Block

LEMMA BlocksJoined ==
  ASSUME NEW s, NEW t, NEW F, NEW G, NEW P, Block(s, F, P), Block(t, G, P)
  PROVE  Block(s \o t, F \cup G, P)
<1>1. s \in Seq(Concerns(P)) /\ t \in Seq(Concerns(P))
  BY BlockSeq
<1>2. s \o t \in Seq(Concerns(P))
  BY <1>1, Joined
<1>3. ASSUME NEW f \in Exec \ ((F \cup G) \cup {DDService})
      PROVE  Followed(s \o t, Disturbs(f), To("chmod", f))
  <2>1. Followed(s, Disturbs(f), To("chmod", f)) /\ Followed(t, Disturbs(f), To("chmod", f))
    BY DEF Block
  <2> QED
    BY <1>1, <2>1, FollowedJoined
<1>4. ASSUME NEW v \in Zipped
      PROVE  Led(s \o t, Unzips(v), {To("download", v)}, {To("delete", v)}, FALSE)
  <2>1. /\ Led(s, Unzips(v), {To("download", v)}, {To("delete", v)}, FALSE)
        /\ Led(t, Unzips(v), {To("download", v)}, {To("delete", v)}, FALSE)
    BY DEF Block
  <2> QED
    BY <1>1, <2>1, LedJoined
<1>5. Led(s \o t, {To("config", DDService)}, {To("folder", "dd")}, {}, FALSE)
  <2>1. /\ Led(s, {To("config", DDService)}, {To("folder", "dd")}, {}, FALSE)
        /\ Led(t, {To("config", DDService)}, {To("folder", "dd")}, {}, FALSE)
    BY DEF Block
  <2> QED
    BY <1>1, <2>1, LedJoined
<1> QED
  BY <1>2, <1>3, <1>4, <1>5 DEF Block

LEMMA WholeBlocksJoined ==
  ASSUME NEW P
  PROVE  \A s, t : Block(s, {}, P) /\ Block(t, {}, P) => Block(s \o t, {}, P)
<1> SUFFICES ASSUME NEW s, NEW t, Block(s, {}, P), Block(t, {}, P) PROVE Block(s \o t, {}, P)
  OBVIOUS
<1>1. Block(s \o t, {} \cup {}, P)
  BY BlocksJoined
<1>2. {} \cup {} = {}
  OBVIOUS
<1> QED
  BY <1>1, <1>2

\* One call by itself: not one that writes an executable, nor the configuration of the
\* dd-service.
Free(x) == x.do \notin {"download", "unzip"} /\ x # To("config", DDService)

LEMMA CallIs ==
  ASSUME NEW do, NEW of, NEW S, To(do, of) \in S
  PROVE  /\ Call(do, of) \in Seq(S) /\ Len(Call(do, of)) = 1 /\ Call(do, of)[1] = To(do, of)
         /\ Has(Call(do, of), To(do, of))
<1>1. Call(do, of) \in Seq(S) /\ Len(Call(do, of)) = 1 /\ Call(do, of)[1] = To(do, of)
  BY DEF Call, To
<1> QED
  BY <1>1 DEF Has

LEMMA FreeBlock ==
  ASSUME NEW P, NEW do, NEW of, To(do, of) \in Concerns(P), Free(To(do, of))
  PROVE  Block(Call(do, of), {}, P)
<1>1. /\ Call(do, of) \in Seq(Concerns(P)) /\ Len(Call(do, of)) = 1
      /\ Call(do, of)[1] = To(do, of)
  BY CallIs
<1>2. \A f : To(do, of) \notin Disturbs(f)
  BY DEF Disturbs, Free, To
<1>3. \A t : To(do, of) \notin Unzips(t)
  BY DEF Unzips, Free, To
<1>4. \A f : Followed(Call(do, of), Disturbs(f), To("chmod", f))
  BY <1>1, <1>2 DEF Followed
<1>5. \A t, B, N : Led(Call(do, of), Unzips(t), B, N, FALSE)
  BY <1>1, <1>3 DEF Led
<1>6. Led(Call(do, of), {To("config", DDService)}, {To("folder", "dd")}, {}, FALSE)
  BY <1>1 DEF Led, Free
<1> QED
  BY <1>1, <1>4, <1>5, <1>6 DEF Block

LEMMA EmptyBlock == ASSUME NEW P, NEW F PROVE Block(<<>>, F, P)
BY DEF Block, Followed, Led

LEMMA WhenBlock == ASSUME NEW P PROVE \A c, s : Block(s, {}, P) => Block(When(c, s), {}, P)
BY EmptyBlock DEF When

\* The call that makes f executable.
LEMMA ChmodBlock ==
  ASSUME NEW P, NEW s, NEW F, NEW f \in Exec, Block(s, F, P)
  PROVE  Block(s \o Call("chmod", f), F \ {f}, P)
<1> DEFINE t == Call("chmod", f)
<1>1. To("chmod", f) \in Concerns(P)
  BY DEF Concerns, PlannedCall, To
<1>2. Block(t, {}, P) /\ Has(t, To("chmod", f))
  BY <1>1, FreeBlock, CallIs DEF Free, To
<1> HIDE DEF t
<1>3. s \in Seq(Concerns(P)) /\ t \in Seq(Concerns(P))
  BY <1>2, BlockSeq
<1>4. Block(s \o t, F \cup {}, P)
  BY <1>2, BlocksJoined
<1>5. Followed(s \o t, Disturbs(f), To("chmod", f)) \/ f = DDService
  <2>1. ASSUME f # DDService PROVE Followed(t, Disturbs(f), To("chmod", f))
    BY <1>2, <2>1 DEF Block
  <2> QED
    BY <1>2, <1>3, <2>1, FollowedJoined
<1>6. \A g \in Exec \ ((F \ {f}) \cup {DDService}) : g = f \/ g \in Exec \ ((F \cup {}) \cup {DDService})
  OBVIOUS
<1> QED
  BY <1>4, <1>5, <1>6 DEF Block, t

\* The executables of a tool.
LEMMA FilesOf ==
  /\ \A t \in Tool : /\ Len(Execs[t]) \in Nat /\ DOMAIN Execs[t] = 1 .. Len(Execs[t])
                     /\ Files(t) \subseteq Exec
  /\ Files(PastelD) = {PastelD, "pastel-cli"}
  /\ \A t \in Tool : t # PastelD => Files(t) = {t}
<1>1. /\ Len(Execs[PastelD]) = 2 /\ DOMAIN Execs[PastelD] = 1 .. 2
      /\ Execs[PastelD][1] = PastelD /\ Execs[PastelD][2] = "pastel-cli"
  <2>1. Execs[PastelD] = <<PastelD, "pastel-cli">>
    BY Named DEF Execs
  <2> QED
    BY <2>1
<1>2. ASSUME NEW t \in Tool, t # PastelD
      PROVE  Len(Execs[t]) = 1 /\ DOMAIN Execs[t] = 1 .. 1 /\ Execs[t][1] = t
  <2>1. Execs[t] = <<t>>
    BY <1>2 DEF Execs
  <2> QED
    BY <2>1
<1>3. Files(PastelD) = {PastelD, "pastel-cli"}
  BY <1>1 DEF Files
<1>4. \A t \in Tool : t # PastelD => Files(t) = {t}
  BY <1>2 DEF Files
<1>5. \A t \in Tool : Files(t) \subseteq Exec
  BY <1>3, <1>4, Named
<1> QED
  BY <1>1, <1>2, <1>3, <1>4, <1>5

LEMMA FilesApart ==
  ASSUME NEW t \in Tool, NEW v \in Tool, NEW f, f \in Files(t), f \in Files(v)
  PROVE  t = v
<1>1. "pastel-cli" \notin Tool
  BY DEF Tool, ToolType, PastelD, RQService, DDService, DDImgService, SuperNode, WalletNode,
         Hermes, Bridge
<1> QED
  BY <1>1, FilesOf

\* The calls that fetch the executables of t; they are made executable later.
Fetches(t) == IF t \in Zipped THEN Unzips(t) ELSE {To("download", t)}

LEMMA ToIs == \A do, of : To(do, of).do = do /\ To(do, of).of = of
BY DEF To

LEMMA GetZipped ==
  ASSUME NEW t \in Tool, t \in Zipped
  PROVE  /\ Get(t) \in Seq(PlannedCall) /\ Len(Get(t)) = Len(Execs[t]) + 2
         /\ Get(t)[1] = To("download", t)
         /\ \A i \in 1 .. Len(Execs[t]) : Get(t)[1 + i] = To("unzip", Execs[t][i])
         /\ Get(t)[Len(Execs[t]) + 2] = To("delete", t)
<1> DEFINE d == Call("download", t)
           u == [i \in 1 .. Len(Execs[t]) |-> [do |-> "unzip", of |-> Execs[t][i]]]
           e == Call("delete", t)
<1>0. Len(Execs[t]) \in Nat /\ \A i \in 1 .. Len(Execs[t]) : Execs[t][i] \in Exec
  BY FilesOf DEF Files
<1>1. Get(t) = d \o (u \o e)
  BY DEF Get, When
<1>2. /\ d \in Seq(PlannedCall) /\ Len(d) = 1 /\ d[1] = To("download", t)
      /\ e \in Seq(PlannedCall) /\ Len(e) = 1 /\ e[1] = To("delete", t)
  BY CallIs DEF PlannedCall, To
<1>3. \A i \in 1 .. Len(Execs[t]) : [do |-> "unzip", of |-> Execs[t][i]] \in PlannedCall
  BY <1>0 DEF PlannedCall
<1>4. u \in Seq(PlannedCall) /\ Len(u) = Len(Execs[t])
  BY <1>0, <1>3, SeqDef
<1>5. \A i \in 1 .. Len(Execs[t]) : u[i] = To("unzip", Execs[t][i])
  BY DEF To
<1> HIDE DEF d, u, e
<1> DEFINE ue == u \o e
<1>6. /\ ue \in Seq(PlannedCall) /\ Len(ue) = Len(Execs[t]) + 1
      /\ \A i \in 1 .. Len(u) : ue[i] = u[i]
      /\ ue[Len(u) + 1] = e[1]
  <2>0. u \in Seq(PlannedCall) /\ e \in Seq(PlannedCall)
    BY <1>2, <1>4
  <2>1. /\ u \o e \in Seq(PlannedCall) /\ Len(u \o e) = Len(u) + Len(e)
        /\ \A i \in 1 .. Len(u) : i \in 1 .. Len(u \o e) /\ (u \o e)[i] = u[i]
        /\ \A i \in 1 .. Len(e) : Len(u) + i \in 1 .. Len(u \o e) /\ (u \o e)[Len(u) + i] = e[i]
    BY <2>0, Joined
  <2>2. 1 \in 1 .. Len(e)
    BY <1>2
  <2>3. (u \o e)[Len(u) + 1] = e[1]
    BY <2>1, <2>2
  <2> QED
    BY <1>2, <1>4, <2>1, <2>3 DEF ue
<1> HIDE DEF ue
<1>7. /\ d \o ue \in Seq(PlannedCall) /\ Len(d \o ue) = 1 + Len(ue)
      /\ (d \o ue)[1] = d[1]
      /\ \A i \in 1 .. Len(ue) : (d \o ue)[1 + i] = ue[i]
  <2>0. d \in Seq(PlannedCall) /\ ue \in Seq(PlannedCall)
    BY <1>2, <1>6
  <2>1. /\ d \o ue \in Seq(PlannedCall) /\ Len(d \o ue) = Len(d) + Len(ue)
        /\ \A i \in 1 .. Len(d) : i \in 1 .. Len(d \o ue) /\ (d \o ue)[i] = d[i]
        /\ \A i \in 1 .. Len(ue) : Len(d) + i \in 1 .. Len(d \o ue) /\ (d \o ue)[Len(d) + i] = ue[i]
    BY <2>0, Joined
  <2>2. 1 \in 1 .. Len(d)
    BY <1>2
  <2>3. (d \o ue)[1] = d[1]
    BY <2>1, <2>2
  <2> QED
    BY <1>2, <2>1, <2>3
<1>8. ASSUME NEW i \in 1 .. Len(Execs[t]) PROVE (d \o ue)[1 + i] = To("unzip", Execs[t][i])
  <2>1. i \in 1 .. Len(ue) /\ i \in 1 .. Len(u)
    BY <1>0, <1>4, <1>6
  <2> QED
    BY <1>5, <1>6, <1>7, <2>1
<1>9. (d \o ue)[Len(Execs[t]) + 2] = To("delete", t)
  <2>1. Len(Execs[t]) + 1 \in 1 .. Len(ue) /\ 1 + (Len(Execs[t]) + 1) = Len(Execs[t]) + 2
    BY <1>0, <1>6
  <2> QED
    BY <1>2, <1>4, <1>6, <1>7, <2>1
<1>10. Get(t) = d \o ue /\ Len(d \o ue) = Len(Execs[t]) + 2
  BY <1>0, <1>1, <1>6, <1>7 DEF ue
<1> QED
  BY <1>2, <1>7, <1>8, <1>9, <1>10

\* The calls that fetch, and no others.
FetchCall == {x \in PlannedCall : x.do \in {"download", "unzip", "delete"}}

LEMMA GetBlock ==
  ASSUME NEW P, P \subseteq Tool, NEW t \in P
  PROVE  /\ Block(Get(t), Files(t), P) /\ \A x \in Fetches(t) : Has(Get(t), x)
         /\ Get(t) \in Seq(FetchCall)
<1>0. t \in Tool
  OBVIOUS
<1>1. CASE t \notin Zipped
  <2>1. Get(t) = Call("download", t)
    <3>1. Call("download", t) \in Seq(PlannedCall)
      BY CallIs DEF PlannedCall, To
    <3>2. Get(t) = Call("download", t) \o <<>>
      BY <1>1 DEF Get, When
    <3> QED
      BY <3>1, <3>2, ConcatEmptySeq
  <2>2. To("download", t) \in Concerns(P)
    BY DEF Concerns, PlannedCall, To
  <2>3. /\ Call("download", t) \in Seq(Concerns(P)) /\ Len(Call("download", t)) = 1
        /\ Call("download", t)[1] = To("download", t) /\ Has(Call("download", t), To("download", t))
    BY <2>2, CallIs
  <2>4. t \in Files(t)
    BY FilesOf
  <2>5. \A f : f \notin Files(t) => To("download", t) \notin Disturbs(f)
    BY <2>4 DEF Disturbs, To
  <2>6. /\ \A v : To("download", t) \notin Unzips(v)
        /\ To("download", t) # To("config", DDService)
    BY DEF Unzips, To
  <2>7. Block(Call("download", t), Files(t), P)
    BY <2>3, <2>5, <2>6 DEF Block, Followed, Led
  <2>8. Call("download", t) \in Seq(FetchCall)
    <3>1. To("download", t) \in FetchCall
      BY DEF FetchCall, PlannedCall, To
    <3> QED
      BY <3>1, CallIs
  <2> QED
    BY <1>1, <2>1, <2>3, <2>7, <2>8 DEF Fetches
<1>2. CASE t \in Zipped
  <2> DEFINE s == Get(t)
             n == Len(Execs[t])
  <2>1. n \in Nat /\ DOMAIN Execs[t] = 1 .. n
    BY FilesOf
  <2>2. /\ s \in Seq(PlannedCall) /\ Len(s) = n + 2
        /\ s[1] = To("download", t)
        /\ \A i \in 1 .. n : s[1 + i] = To("unzip", Execs[t][i])
        /\ s[n + 2] = To("delete", t)
    BY <1>2, GetZipped
  <2> HIDE DEF s, n
  <2>3. \A i \in 1 .. n + 2 : i = 1 \/ i = n + 2 \/ \E j \in 1 .. n : i = 1 + j
    <3> SUFFICES ASSUME NEW i \in 1 .. n + 2, i # 1, i # n + 2 PROVE \E j \in 1 .. n : i = 1 + j
      OBVIOUS
    <3>1. i - 1 \in 1 .. n /\ i = 1 + (i - 1)
      BY <2>1
    <3> QED
      BY <3>1
  <2>4. \A i \in 1 .. n : Execs[t][i] \in Files(t)
    BY <2>1 DEF Files
  <2>5. \A i \in 1 .. n + 2 : \/ s[i] = To("download", t) \/ s[i] = To("delete", t)
                              \/ \E f \in Files(t) : s[i] = To("unzip", f)
    BY <2>2, <2>3, <2>4
  <2>6. s \in Seq(Concerns(P))
    <3>1. To("download", t) \in Concerns(P) /\ To("delete", t) \in Concerns(P)
      BY DEF Concerns, PlannedCall, To
    <3>2. \A f \in Files(t) : To("unzip", f) \in Concerns(P)
      BY FilesOf DEF Concerns, PlannedCall, To
    <3>3. \A i \in 1 .. Len(s) : s[i] \in Concerns(P)
      BY <2>2, <2>5, <3>1, <3>2
    <3>4. s = [i \in 1 .. Len(s) |-> s[i]] /\ Len(s) \in Nat
      BY <2>2, LenProperties
    <3> QED
      BY <3>3, <3>4, SeqDef
  <2>c. s \in Seq(FetchCall)
    <3>1. \A i \in 1 .. Len(s) : s[i] \in PlannedCall
      BY <2>2, ElementOfSeq
    <3>2. \A i \in 1 .. Len(s) : s[i].do \in {"download", "unzip", "delete"}
      BY <2>2, <2>5, ToIs
    <3>3. \A i \in 1 .. Len(s) : s[i] \in FetchCall
      BY <3>1, <3>2 DEF FetchCall
    <3>4. s = [i \in 1 .. Len(s) |-> s[i]] /\ Len(s) \in Nat
      BY <2>2, LenProperties
    <3> QED
      BY <3>3, <3>4, SeqDef
  <2>7. t \in Files(t)
    BY <1>2, FilesOf
  <2>8. ASSUME NEW f \in Exec \ (Files(t) \cup {DDService})
        PROVE  Followed(s, Disturbs(f), To("chmod", f))
    <3>1. /\ To("download", t) \notin Disturbs(f) /\ To("delete", t) \notin Disturbs(f)
          /\ \A g \in Files(t) : To("unzip", g) \notin Disturbs(f)
      BY <2>7, <2>8 DEF Disturbs, To
    <3> QED
      BY <2>2, <2>5, <3>1 DEF Followed
  <2>9. ASSUME NEW v \in Zipped
        PROVE  Led(s, Unzips(v), {To("download", v)}, {To("delete", v)}, FALSE)
    <3> SUFFICES ASSUME NEW i \in 1 .. n + 2, s[i] \in Unzips(v)
                 PROVE  \E j \in 1 .. n + 2 : /\ j < i /\ s[j] = To("download", v)
                                              /\ \A k \in j .. i : s[k] # To("delete", v)
      BY <2>2 DEF Led
    <3>1. PICK f \in Files(v) : s[i] = To("unzip", f)
      BY DEF Unzips
    <3>2. s[1].do = "download" /\ s[n + 2].do = "delete" /\ s[i].do = "unzip" /\ s[i].of = f
      BY <2>2, <3>1 DEF To
    <3>3. i # 1 /\ i # n + 2
      BY <3>2
    <3>4. f \in Files(t)
      <4>1. PICK g \in Files(t) : s[i] = To("unzip", g)
        BY <2>5, <3>2 DEF To
      <4>2. g = f
        BY <3>2, <4>1 DEF To
      <4> QED
        BY <4>2
    <3>5. v = t
      <4>1. v \in Tool
        BY <2>9, Named DEF Zipped
      <4> QED
        BY <1>0, <3>4, <4>1, FilesApart
    <3>6. ASSUME NEW k \in 1 .. i PROVE s[k] # To("delete", v)
      <4>1. k \in 1 .. n + 2 /\ k # n + 2
        BY <2>1, <3>3
      <4>2. s[k] = To("download", t) \/ \E j \in 1 .. n : s[k] = To("unzip", Execs[t][j])
        BY <2>2, <2>3, <4>1
      <4>3. s[k].do \in {"download", "unzip"}
        BY <4>2, ToIs
      <4>4. To("delete", v).do = "delete"
        BY DEF To
      <4> QED
        BY <4>3, <4>4
    <3>7. 1 \in 1 .. n + 2 /\ 1 < i
      BY <2>1, <3>3
    <3> QED
      BY <2>2, <3>5, <3>6, <3>7
  <2>10. Led(s, {To("config", DDService)}, {To("folder", "dd")}, {}, FALSE)
    <3>1. \A i \in 1 .. n + 2 : s[i].do \in {"download", "delete", "unzip"}
      BY <2>5, ToIs
    <3>2. To("config", DDService).do = "config"
      BY DEF To
    <3> QED
      BY <2>2, <3>1, <3>2 DEF Led
  <2>11. ASSUME NEW x \in Fetches(t) PROVE Has(s, x)
    <3>1. PICK i \in 1 .. n : x = To("unzip", Execs[t][i])
      BY <1>2, <2>1 DEF Fetches, Unzips, Files
    <3>2. 1 + i \in 1 .. Len(s) /\ s[1 + i] = x
      BY <2>1, <2>2, <3>1
    <3> QED
      BY <3>2 DEF Has
  <2> QED
    BY <2>6, <2>8, <2>9, <2>10, <2>11, <2>c DEF Block, s
<1> QED
  BY <1>1, <1>2

-----------------------------------------------------------------------------
(* The lists of the installations, part by part.                              *)

\* Part of the list of an installation of P that has all the calls of X.
Part(s, F, X, P) == Block(s, F, P) /\ \A x \in X : Has(s, x)

LEMMA PartsJoined ==
  ASSUME NEW s, NEW t, NEW F, NEW G, NEW X, NEW Y, NEW P, Part(s, F, X, P), Part(t, G, Y, P)
  PROVE  Part(s \o t, F \cup G, X \cup Y, P)
<1>1. Block(s \o t, F \cup G, P)
  BY BlocksJoined DEF Part
<1>2. s \in Seq(PlannedCall) /\ t \in Seq(PlannedCall)
  BY BlockSeq DEF Part
<1>3. ASSUME NEW x \in X \cup Y PROVE Has(s \o t, x)
  <2>1. Has(s, x) \/ Has(t, x)
    BY DEF Part
  <2> QED
    BY <1>2, <2>1, HasJoined
<1> QED
  BY <1>1, <1>3 DEF Part

\* The same when nothing is left to be made executable.
LEMMA WholePartsJoined ==
  ASSUME NEW s, NEW t, NEW X, NEW Y, NEW P, Part(s, {}, X, P), Part(t, {}, Y, P)
  PROVE  Part(s \o t, {}, X \cup Y, P)
<1>1. Part(s \o t, {} \cup {}, X \cup Y, P)
  BY PartsJoined
<1>2. {} \cup {} = {}
  OBVIOUS
<1> QED
  BY <1>1, <1>2

LEMMA WhenPart ==
  ASSUME NEW s, NEW c, NEW X, NEW P, Part(s, {}, X, P)
  PROVE  /\ Part(When(c, s), {}, IF c THEN X ELSE {}, P)
         /\ Part(When(c, s), {}, {}, P)
<1>1. c => When(c, s) = s
  BY DEF When
<1>2. ~c => When(c, s) = <<>>
  BY DEF When
<1>3. Part(<<>>, {}, {}, P)
  BY EmptyBlock DEF Part
<1>4. Part(s, {}, {}, P)
  BY DEF Part
<1>5. CASE c
  <2>1. (IF c THEN X ELSE {}) = X
    BY <1>5
  <2> QED
    BY <1>1, <1>4, <1>5, <2>1
<1>6. CASE ~c
  <2>1. (IF c THEN X ELSE {}) = {}
    BY <1>6
  <2> QED
    BY <1>2, <1>3, <1>6, <2>1
<1> QED
  BY <1>5, <1>6

LEMMA CallPart ==
  ASSUME NEW P, NEW do, NEW of, To(do, of) \in Concerns(P), Free(To(do, of))
  PROVE  Part(Call(do, of), {}, {To(do, of)}, P)
<1>1. Has(Call(do, of), To(do, of))
  BY CallIs
<1> QED
  BY <1>1, FreeBlock DEF Part

LEMMA ChmodPart ==
  ASSUME NEW P, NEW s, NEW F, NEW X, NEW f \in Exec, Part(s, F, X, P)
  PROVE  Part(s \o Call("chmod", f), F \ {f}, X \cup {To("chmod", f)}, P)
<1>1. To("chmod", f) \in Concerns(P) /\ Free(To("chmod", f))
  BY DEF Concerns, PlannedCall, To, Free
<1>2. Part(Call("chmod", f), {}, {To("chmod", f)}, P)
  BY <1>1, CallPart
<1>3. Part(s \o Call("chmod", f), F \cup {}, X \cup {To("chmod", f)}, P)
  BY <1>2, PartsJoined
<1>4. Block(s \o Call("chmod", f), F \ {f}, P)
  BY ChmodBlock DEF Part
<1> QED
  BY <1>3, <1>4 DEF Part

\* A part with more to be made executable, or with fewer calls to look for.
LEMMA WiderPart ==
  ASSUME NEW s, NEW F, NEW G, NEW X, NEW Y, NEW P, Part(s, F, X, P),
         F \subseteq G \cup {DDService}, Y \subseteq X
  PROVE  Part(s, G, Y, P)
<1>1. \A f \in Exec \ (G \cup {DDService}) : f \in Exec \ (F \cup {DDService})
  OBVIOUS
<1> QED
  BY <1>1 DEF Part, Block

\* The single calls of an installation.
LEMMA OwnCalls ==
  ASSUME NEW P, P \subseteq Tool
  PROVE  /\ \A t \in P : t # DDService => Part(Call("config", t), {}, {To("config", t)}, P)
         /\ \A d \in Folder : Part(Call("folder", d), {}, {To("folder", d)}, P)
         /\ \A q \in Package : Part(Call("package", q), {}, {To("package", q)}, P)
         /\ PastelD \in P => Part(Call("files", "params"), {}, {To("files", "params")}, P)
         /\ DDService \in P => Part(Call("files", "dd support"), {}, {To("files", "dd support")}, P)
         /\ \A t \in Tool : Part(Call("packages", t), {}, {To("packages", t)}, P)
         /\ Part(Call("dir", "exec"), {}, {}, P) /\ Part(Call("7z", "none"), {}, {}, P)
         /\ \A do \in {"snapshot", "clean", "extract"} : Part(Call(do, "none"), {}, {}, P)
<1>1. ASSUME NEW t \in P, t # DDService PROVE Part(Call("config", t), {}, {To("config", t)}, P)
  <2>1. To("config", t) \in Concerns(P) /\ Free(To("config", t))
    BY <1>1 DEF Concerns, PlannedCall, To, Free
  <2> QED
    BY <2>1, CallPart
<1>2. ASSUME NEW d \in Folder PROVE Part(Call("folder", d), {}, {To("folder", d)}, P)
  <2>1. To("folder", d) \in Concerns(P) /\ Free(To("folder", d))
    BY DEF Concerns, PlannedCall, To, Free
  <2> QED
    BY <2>1, CallPart
<1>3. ASSUME NEW q \in Package PROVE Part(Call("package", q), {}, {To("package", q)}, P)
  <2>1. To("package", q) \in Concerns(P) /\ Free(To("package", q))
    BY DEF Concerns, PlannedCall, To, Free
  <2> QED
    BY <2>1, CallPart
<1>4. ASSUME PastelD \in P PROVE Part(Call("files", "params"), {}, {To("files", "params")}, P)
  <2>1. To("files", "params") \in Concerns(P) /\ Free(To("files", "params"))
    BY <1>4, Named DEF Concerns, PlannedCall, To, Free
  <2> QED
    BY <2>1, CallPart
<1>5. ASSUME DDService \in P
      PROVE  Part(Call("files", "dd support"), {}, {To("files", "dd support")}, P)
  <2>1. To("files", "dd support") \in Concerns(P) /\ Free(To("files", "dd support"))
    BY <1>5, Named DEF Concerns, PlannedCall, To, Free
  <2> QED
    BY <2>1, CallPart
<1>6. ASSUME NEW t \in Tool PROVE Part(Call("packages", t), {}, {To("packages", t)}, P)
  <2>1. To("packages", t) \in Concerns(P) /\ Free(To("packages", t))
    BY DEF Concerns, PlannedCall, To, Free
  <2> QED
    BY <2>1, CallPart
<1>7. Part(Call("dir", "exec"), {}, {}, P) /\ Part(Call("7z", "none"), {}, {}, P)
  <2>1. /\ To("dir", "exec") \in Concerns(P) /\ Free(To("dir", "exec"))
        /\ To("7z", "none") \in Concerns(P) /\ Free(To("7z", "none"))
    BY DEF Concerns, PlannedCall, To, Free
  <2> QED
    BY <2>1, FreeBlock DEF Part
<1>8. ASSUME NEW do \in {"snapshot", "clean", "extract"} PROVE Part(Call(do, "none"), {}, {}, P)
  <2>1. To(do, "none") \in Concerns(P) /\ Free(To(do, "none"))
    BY DEF Concerns, PlannedCall, To, Free
  <2> QED
    BY <2>1, FreeBlock DEF Part
<1> QED
  BY <1>1, <1>2, <1>3, <1>4, <1>5, <1>6, <1>7, <1>8

\* What a tool needs of a command: its executables fetched and made executable, its
\* configuration, its packages and its files with a checksum.
NeedOf(c, t) ==
  Fetches(t)
    \cup (IF t # DDService THEN {To("chmod", f) : f \in Files(t)}
          ELSE {To("files", "dd support"), To("package", "chrome"), To("package", "venv")})
    \cup (IF c.op = "install"
          THEN {To("config", t)}
                 \cup (IF t = PastelD THEN {To("files", "params")} ELSE {})
                 \cup (IF t = SuperNode THEN {To("package", "ports")} ELSE {})
          ELSE {})
Need(c) == {To("packages", c.tool)} \cup UNION {NeedOf(c, t) : t \in Parts(c)}

LEMMA CorePart ==
  ASSUME NEW P, P \subseteq Tool, PastelD \in P, NEW c
  PROVE  Part(Core(c), {}, NeedOf(c, PastelD), P)
<1>0. PastelD \in Exec /\ "pastel-cli" \in Exec /\ Files(PastelD) = {PastelD, "pastel-cli"}
      /\ PastelD # DDService /\ PastelD # SuperNode
  BY Named, FilesOf DEF PastelD, DDService, SuperNode
<1> DEFINE get == Get(PastelD)
           one == get \o Call("chmod", PastelD)
           both == one \o Call("chmod", "pastel-cli")
           base == Call("folder", "work") \o Call("config", PastelD) \o Call("folder", "params")
                     \o Call("files", "params")
           latest == Call("snapshot", "none") \o Call("clean", "none") \o Call("extract", "none")
           env == When(c.op = "install", base)
           X == IF c.op = "install" THEN {To("config", PastelD), To("files", "params")} ELSE {}
<1>1. Part(get, Files(PastelD), Fetches(PastelD), P)
  BY GetBlock DEF Part
<1>2. Part(one, Files(PastelD) \ {PastelD}, Fetches(PastelD) \cup {To("chmod", PastelD)}, P)
  <2> HIDE DEF get
  <2> QED
    BY <1>0, <1>1, ChmodPart
<1>3. Part(both, (Files(PastelD) \ {PastelD}) \ {"pastel-cli"},
           (Fetches(PastelD) \cup {To("chmod", PastelD)}) \cup {To("chmod", "pastel-cli")}, P)
  <2> HIDE DEF one
  <2> QED
    BY <1>0, <1>2, ChmodPart
<1>4. Part(both, {}, Fetches(PastelD) \cup {To("chmod", f) : f \in Files(PastelD)}, P)
  <2>1. (Files(PastelD) \ {PastelD}) \ {"pastel-cli"} = {}
    BY <1>0
  <2>2. (Fetches(PastelD) \cup {To("chmod", PastelD)}) \cup {To("chmod", "pastel-cli")}
        = Fetches(PastelD) \cup {To("chmod", f) : f \in Files(PastelD)}
    BY <1>0
  <2> HIDE DEF both
  <2> QED
    BY <1>3, <2>1, <2>2
<1>5. Part(base, {}, {To("config", PastelD), To("files", "params")}, P)
  <2>1. /\ Part(Call("folder", "work"), {}, {To("folder", "work")}, P)
        /\ Part(Call("config", PastelD), {}, {To("config", PastelD)}, P)
        /\ Part(Call("folder", "params"), {}, {To("folder", "params")}, P)
        /\ Part(Call("files", "params"), {}, {To("files", "params")}, P)
    BY <1>0, OwnCalls, Named
  <2>2. Part(Call("folder", "work") \o Call("config", PastelD), {},
             {To("folder", "work")} \cup {To("config", PastelD)}, P)
    BY <2>1, WholePartsJoined
  <2>3. Part(Call("folder", "work") \o Call("config", PastelD) \o Call("folder", "params"), {},
             ({To("folder", "work")} \cup {To("config", PastelD)}) \cup {To("folder", "params")}, P)
    BY <2>1, <2>2, WholePartsJoined
  <2>4. Part(base, {}, (({To("folder", "work")} \cup {To("config", PastelD)})
                          \cup {To("folder", "params")}) \cup {To("files", "params")}, P)
    BY <2>1, <2>3, WholePartsJoined
  <2> HIDE DEF base
  <2> QED
    BY <2>4, WiderPart
<1>6. Part(latest, {}, {}, P)
  <2>1. /\ Part(Call("snapshot", "none"), {}, {}, P) /\ Part(Call("clean", "none"), {}, {}, P)
        /\ Part(Call("extract", "none"), {}, {}, P)
    BY OwnCalls
  <2>2. Part(Call("snapshot", "none") \o Call("clean", "none"), {}, {} \cup {}, P)
    BY <2>1, WholePartsJoined
  <2>3. Part(latest, {}, ({} \cup {}) \cup {}, P)
    BY <2>1, <2>2, WholePartsJoined
  <2> HIDE DEF latest
  <2> QED
    BY <2>3, WiderPart
<1>7. Part(env, {}, X, P)
  BY <1>5, WhenPart
<1>8. Part(When(c.snapshot, latest), {}, {}, P)
  BY <1>6, WhenPart
<1> DEFINE Y == Fetches(PastelD) \cup {To("chmod", f) : f \in Files(PastelD)}
<1>9. Part((both \o env) \o When(c.snapshot, latest), {}, (Y \cup X) \cup {}, P)
  <2> HIDE DEF both, env, latest, X, Y
  <2>1. Part(both, {}, Y, P)
    BY <1>4 DEF Y
  <2>2. Part(both \o env, {}, Y \cup X, P)
    BY <1>7, <2>1, WholePartsJoined
  <2> QED
    BY <1>8, <2>2, WholePartsJoined
<1>10. NeedOf(c, PastelD) \subseteq (Y \cup X) \cup {}
  BY <1>0 DEF NeedOf
<1>11. Core(c) = (both \o env) \o When(c.snapshot, latest)
  BY DEF Core, BaseEnvironment, LatestSnapshot
<1> HIDE DEF both, env, latest, X, Y
<1> QED
  BY <1>9, <1>10, <1>11, WiderPart

\* The executable of a tool other than the node, fetched and made executable.
LEMMA FetchPart ==
  ASSUME NEW P, P \subseteq Tool, NEW t \in P, t # PastelD
  PROVE  Part(Get(t) \o Call("chmod", t), {}, Fetches(t) \cup {To("chmod", f) : f \in Files(t)}, P)
<1>1. Part(Get(t), Files(t), Fetches(t), P) /\ Files(t) = {t} /\ t \in Exec
  BY GetBlock, FilesOf, Named DEF Part
<1>2. Part(Get(t) \o Call("chmod", t), Files(t) \ {t}, Fetches(t) \cup {To("chmod", t)}, P)
  BY <1>1, ChmodPart
<1>3. /\ Files(t) \ {t} = {}
      /\ {To("chmod", f) : f \in Files(t)} = {To("chmod", t)}
  BY <1>1
<1> QED
  BY <1>2, <1>3

LEMMA OnePart ==
  ASSUME NEW P, P \subseteq Tool, NEW c, NEW t \in P, t \notin {PastelD, DDService}
  PROVE  Part(One(c, t), {},
              Fetches(t) \cup {To("chmod", f) : f \in Files(t)}
                \cup (IF c.op = "install" THEN {To("config", t)} ELSE {}), P)
<1> DEFINE X == Fetches(t) \cup {To("chmod", f) : f \in Files(t)}
           conf1 == When(c.op = "install", Call("config", t))
           Y == IF c.op = "install" THEN {To("config", t)} ELSE {}
<1>1. Part(Get(t) \o Call("chmod", t), {}, X, P)
  BY FetchPart
<1>2. Part(conf1, {}, Y, P)
  BY OwnCalls, WhenPart
<1>3. Part((Get(t) \o Call("chmod", t)) \o conf1, {}, X \cup Y, P)
  <2> HIDE DEF X, Y, conf1
  <2> QED
    BY <1>1, <1>2, WholePartsJoined
<1> QED
  BY <1>3 DEF One

LEMMA RaptorQPart ==
  ASSUME NEW P, P \subseteq Tool, RQService \in P, NEW c
  PROVE  Part(RaptorQ(c), {}, NeedOf(c, RQService), P)
<1>0. RQService \notin {PastelD, DDService, SuperNode}
  BY DEF RQService, PastelD, DDService, SuperNode
<1> DEFINE X == Fetches(RQService) \cup {To("chmod", f) : f \in Files(RQService)}
           conf1 == When(c.op = "install", Call("config", RQService))
           Y == IF c.op = "install" THEN {To("config", RQService)} ELSE {}
           fetch == Get(RQService) \o Call("chmod", RQService)
<1>1. Part(fetch, {}, X, P)
  BY <1>0, FetchPart
<1>2. Part(conf1, {}, Y, P)
  BY <1>0, OwnCalls, WhenPart
<1>3. Part(Call("folder", "rqfiles"), {}, {To("folder", "rqfiles")}, P)
  BY OwnCalls, Named
<1>4. Part((fetch \o Call("folder", "rqfiles")) \o conf1, {}, (X \cup {To("folder", "rqfiles")}) \cup Y, P)
  <2> HIDE DEF X, Y, conf1, fetch
  <2>1. Part(fetch \o Call("folder", "rqfiles"), {}, X \cup {To("folder", "rqfiles")}, P)
    BY <1>1, <1>3, WholePartsJoined
  <2> QED
    BY <1>2, <2>1, WholePartsJoined
<1>5. NeedOf(c, RQService) \subseteq (X \cup {To("folder", "rqfiles")}) \cup Y
  BY <1>0 DEF NeedOf
<1>6. RaptorQ(c) = (fetch \o Call("folder", "rqfiles")) \o conf1
  BY DEF RaptorQ
<1> HIDE DEF X, Y, conf1, fetch
<1> QED
  BY <1>4, <1>5, <1>6, WiderPart

\* A list of calls none of which needs another.
LEMMA FreePart ==
  ASSUME NEW P, NEW s \in Seq(Concerns(P)), \A i \in 1 .. Len(s) : Free(s[i])
  PROVE  Part(s, {}, {}, P)
<1>1. \A i \in 1 .. Len(s) : \A f : s[i] \notin Disturbs(f)
  BY ToIs DEF Disturbs, Free
<1>2. \A i \in 1 .. Len(s) : \A t : s[i] \notin Unzips(t)
  BY ToIs DEF Unzips, Free
<1>3. \A f : Followed(s, Disturbs(f), To("chmod", f))
  BY <1>1 DEF Followed
<1>4. \A t, B, N : Led(s, Unzips(t), B, N, FALSE)
  BY <1>2 DEF Led
<1>5. Led(s, {To("config", DDService)}, {To("folder", "dd")}, {}, FALSE)
  BY DEF Led, Free
<1> QED
  BY <1>3, <1>4, <1>5 DEF Part, Block

LEMMA SuperNodesPart ==
  ASSUME NEW P, P \subseteq Tool, SuperNode \in P, Hermes \in P, NEW c
  PROVE  Part(SuperNodes(c), {}, NeedOf(c, SuperNode) \cup NeedOf(c, Hermes), P)
<1>0. /\ SuperNode \notin {PastelD, DDService, Hermes} /\ Hermes \notin {PastelD, DDService}
      /\ SuperNode \in Exec /\ Hermes \in Exec
      /\ Files(SuperNode) = {SuperNode} /\ Files(Hermes) = {Hermes}
  BY Named, FilesOf DEF Hermes, PastelD, DDService, SuperNode
<1> DEFINE limits == [i \in DOMAIN SysFiles |-> [do |-> "system", of |-> SysFiles[i]]]
           get == Get(SuperNode) \o Get(Hermes)
           one == get \o Call("chmod", SuperNode)
           both == one \o Call("chmod", Hermes)
           confs == Call("config", SuperNode) \o Call("config", Hermes)
           system == Call("package", "ports") \o limits
           X == ((Fetches(SuperNode) \cup Fetches(Hermes)) \cup {To("chmod", SuperNode)})
                  \cup {To("chmod", Hermes)}
           Y == IF c.op = "install" THEN {To("config", SuperNode)} \cup {To("config", Hermes)} ELSE {}
           Z == IF c.op = "install" THEN {To("package", "ports")} \cup {} ELSE {}
<1>1. Part(get, {SuperNode} \cup {Hermes}, Fetches(SuperNode) \cup Fetches(Hermes), P)
  <2>1. /\ Part(Get(SuperNode), {SuperNode}, Fetches(SuperNode), P)
        /\ Part(Get(Hermes), {Hermes}, Fetches(Hermes), P)
    BY <1>0, GetBlock DEF Part
  <2> QED
    BY <2>1, PartsJoined
<1>2. Part(one, ({SuperNode} \cup {Hermes}) \ {SuperNode},
           (Fetches(SuperNode) \cup Fetches(Hermes)) \cup {To("chmod", SuperNode)}, P)
  <2> HIDE DEF get
  <2> QED
    BY <1>0, <1>1, ChmodPart
<1>3. Part(both, (({SuperNode} \cup {Hermes}) \ {SuperNode}) \ {Hermes}, X, P)
  <2> HIDE DEF one
  <2> QED
    BY <1>0, <1>2, ChmodPart
<1>4. Part(both, {}, X, P)
  <2>1. (({SuperNode} \cup {Hermes}) \ {SuperNode}) \ {Hermes} = {}
    OBVIOUS
  <2> HIDE DEF both, X
  <2> QED
    BY <1>3, <2>1
<1>5. Part(When(c.op = "install", confs), {}, Y, P)
  <2>1. Part(confs, {}, {To("config", SuperNode)} \cup {To("config", Hermes)}, P)
    BY <1>0, OwnCalls, WholePartsJoined
  <2> HIDE DEF confs
  <2> QED
    BY <2>1, WhenPart
<1>6. Part(limits, {}, {}, P)
  <2>1. DOMAIN SysFiles = 1 .. Len(SysFiles) /\ Len(SysFiles) \in Nat
    BY ReleaseAssumption, LenProperties
  <2>2. ASSUME NEW i \in DOMAIN SysFiles
        PROVE  To("system", SysFiles[i]) \in Concerns(P) /\ Free(To("system", SysFiles[i]))
    <3>1. SysFiles[i] \in SysFile
      BY DEF SysFile
    <3> QED
      BY <3>1 DEF Concerns, PlannedCall, To, Free
  <2>3. \A i \in 1 .. Len(SysFiles) : limits[i] = To("system", SysFiles[i])
    BY <2>1 DEF To
  <2>4. limits \in Seq(Concerns(P)) /\ Len(limits) = Len(SysFiles)
    BY <2>1, <2>2, <2>3, SeqDef
  <2> HIDE DEF limits
  <2>5. \A i \in 1 .. Len(limits) : Free(limits[i])
    BY <2>1, <2>2, <2>3, <2>4
  <2> QED
    BY <2>4, <2>5, FreePart
<1>7. Part(When(c.op = "install", system), {}, Z, P)
  <2>1. Part(Call("package", "ports"), {}, {To("package", "ports")}, P)
    BY OwnCalls, Named
  <2>2. Part(system, {}, {To("package", "ports")} \cup {}, P)
    <3> HIDE DEF limits
    <3> QED
      BY <1>6, <2>1, WholePartsJoined
  <2> HIDE DEF system
  <2> QED
    BY <2>2, WhenPart
<1>8. Part(Call("folder", "p2pdata"), {}, {To("folder", "p2pdata")}, P)
  BY OwnCalls, Named
<1> DEFINE list == ((both \o When(c.op = "install", confs)) \o Call("folder", "p2pdata"))
                     \o When(c.op = "install", system)
<1>9. Part(list, {}, ((X \cup Y) \cup {To("folder", "p2pdata")}) \cup Z, P)
  <2> HIDE DEF both, confs, system, X, Y, Z
  <2>1. Part(both \o When(c.op = "install", confs), {}, X \cup Y, P)
    BY <1>4, <1>5, WholePartsJoined
  <2>2. Part((both \o When(c.op = "install", confs)) \o Call("folder", "p2pdata"), {},
             (X \cup Y) \cup {To("folder", "p2pdata")}, P)
    BY <1>8, <2>1, WholePartsJoined
  <2> QED
    BY <1>7, <2>2, WholePartsJoined
<1>10. NeedOf(c, SuperNode) \cup NeedOf(c, Hermes) \subseteq ((X \cup Y) \cup {To("folder", "p2pdata")}) \cup Z
  <2>1. NeedOf(c, SuperNode) \subseteq X \cup Y \cup Z
    BY <1>0 DEF NeedOf
  <2>2. NeedOf(c, Hermes) \subseteq X \cup Y \cup Z
    BY <1>0 DEF NeedOf
  <2> HIDE DEF X, Y, Z
  <2> QED
    BY <2>1, <2>2
<1>11. SuperNodes(c) = list
  BY DEF SuperNodes
<1> HIDE DEF list, X, Y, Z
<1> QED
  BY <1>9, <1>10, <1>11, WiderPart

\* The configuration of the dd-service comes behind its folder.
LEMMA ConfigBehind ==
  ASSUME NEW P, DDService \in P, P \subseteq Tool, NEW s, NEW F, NEW X, Part(s, F, X, P),
         To("folder", "dd") \in X
  PROVE  Part(s \o Call("config", DDService), F, X \cup {To("config", DDService)}, P)
<1> DEFINE d == Call("config", DDService)
<1>1. To("config", DDService) \in Concerns(P)
  BY DEF Concerns, PlannedCall, To
<1>2. /\ d \in Seq(Concerns(P)) /\ Len(d) = 1 /\ d[1] = To("config", DDService)
      /\ Has(d, To("config", DDService))
  BY <1>1, CallIs
<1> HIDE DEF d
<1>3. s \in Seq(Concerns(P)) /\ s \o d \in Seq(Concerns(P))
  BY <1>2, BlockSeq, Joined DEF Part
<1>4. ASSUME NEW f \in Exec \ (F \cup {DDService})
      PROVE  Followed(s \o d, Disturbs(f), To("chmod", f))
  <2>1. To("config", DDService) \notin Disturbs(f)
    BY ToIs DEF Disturbs
  <2>2. Followed(d, Disturbs(f), To("chmod", f))
    BY <1>2, <2>1 DEF Followed
  <2> QED
    BY <1>2, <1>3, <2>2, FollowedJoined DEF Part, Block
<1>5. ASSUME NEW t \in Zipped
      PROVE  Led(s \o d, Unzips(t), {To("download", t)}, {To("delete", t)}, FALSE)
  <2>1. To("config", DDService) \notin Unzips(t)
    BY ToIs DEF Unzips
  <2>2. Led(d, Unzips(t), {To("download", t)}, {To("delete", t)}, FALSE)
    BY <1>2, <2>1 DEF Led
  <2>3. Led(s, Unzips(t), {To("download", t)}, {To("delete", t)}, FALSE)
    BY DEF Part, Block
  <2> QED
    BY <1>2, <1>3, <2>2, <2>3, LedJoined
<1>6. Led(s \o d, {To("config", DDService)}, {To("folder", "dd")}, {}, FALSE)
  <2>1. Has(s, To("folder", "dd")) /\ To("folder", "dd") \in {To("folder", "dd")}
        /\ Led(s, {To("config", DDService)}, {To("folder", "dd")}, {}, FALSE)
    BY DEF Part, Block
  <2> QED
    BY <1>2, <1>3, <2>1, LedBehind
<1>7. ASSUME NEW x \in X \cup {To("config", DDService)} PROVE Has(s \o d, x)
  <2>1. Has(s, x) \/ Has(d, x)
    BY <1>2 DEF Part
  <2> QED
    BY <1>2, <1>3, <2>1, HasJoined
<1> QED
  BY <1>3, <1>4, <1>5, <1>6, <1>7 DEF Part, Block, d

LEMMA DupeDetectionPart ==
  ASSUME NEW P, P \subseteq Tool, DDService \in P, NEW c
  PROVE  Part(DupeDetection(c), {}, NeedOf(c, DDService), P)
<1>0. DDService \notin {PastelD, SuperNode} /\ Files(DDService) = {DDService}
  BY Named, FilesOf DEF PastelD, DDService, SuperNode
<1> DEFINE s1 == Get(DDService) \o Call("package", "chrome")
           s2 == s1 \o Call("package", "venv")
           s3 == s2 \o Call("folder", "dd")
           s4 == s3 \o Call("files", "dd support")
           X == (((Fetches(DDService) \cup {To("package", "chrome")}) \cup {To("package", "venv")})
                   \cup {To("folder", "dd")}) \cup {To("files", "dd support")}
<1>1. Part(Get(DDService), {}, Fetches(DDService), P)
  <2>1. Part(Get(DDService), {DDService}, Fetches(DDService), P)
    BY <1>0, GetBlock DEF Part
  <2> QED
    BY <2>1, WiderPart
<1>2. /\ Part(Call("package", "chrome"), {}, {To("package", "chrome")}, P)
      /\ Part(Call("package", "venv"), {}, {To("package", "venv")}, P)
      /\ Part(Call("folder", "dd"), {}, {To("folder", "dd")}, P)
      /\ Part(Call("files", "dd support"), {}, {To("files", "dd support")}, P)
  BY OwnCalls, Named
<1>3. Part(s1, {}, Fetches(DDService) \cup {To("package", "chrome")}, P)
  BY <1>1, <1>2, WholePartsJoined
<1>4. Part(s2, {}, (Fetches(DDService) \cup {To("package", "chrome")}) \cup {To("package", "venv")}, P)
  BY <1>2, <1>3, WholePartsJoined
<1>5. Part(s3, {}, ((Fetches(DDService) \cup {To("package", "chrome")}) \cup {To("package", "venv")})
                     \cup {To("folder", "dd")}, P)
  BY <1>2, <1>4, WholePartsJoined
<1>6. Part(s4, {}, X, P)
  BY <1>2, <1>5, WholePartsJoined
<1>7. DupeDetection(c) = s4 \o When(c.op = "install", Call("config", DDService))
  BY DEF DupeDetection
<1>8. To("folder", "dd") \in X
  OBVIOUS
<1>9. CASE c.op = "install"
  <2>1. NeedOf(c, DDService) \subseteq X \cup {To("config", DDService)}
    BY <1>0, <1>9 DEF NeedOf
  <2>2. When(c.op = "install", Call("config", DDService)) = Call("config", DDService)
    BY <1>9 DEF When
  <2> HIDE DEF s4, X
  <2>3. Part(s4 \o Call("config", DDService), {}, X \cup {To("config", DDService)}, P)
    BY <1>6, <1>8, ConfigBehind
  <2> QED
    BY <1>7, <2>1, <2>2, <2>3, WiderPart
<1>10. CASE c.op # "install"
  <2>1. NeedOf(c, DDService) \subseteq X
    BY <1>0, <1>10 DEF NeedOf
  <2> HIDE DEF s4, X
  <2>2. Part(When(c.op = "install", Call("config", DDService)), {}, {}, P)
    <3>1. When(c.op = "install", Call("config", DDService)) = <<>>
      BY <1>10 DEF When
    <3> QED
      BY <3>1, EmptyBlock DEF Part
  <2>3. Part(s4 \o When(c.op = "install", Call("config", DDService)), {}, X \cup {}, P)
    BY <1>6, <2>2, WholePartsJoined
  <2> QED
    BY <1>7, <2>1, <2>3, WiderPart
<1> QED
  BY <1>9, <1>10

\* The tools a command concerns.
LEMMA PartsOf ==
  ASSUME NEW c \in Command
  PROVE  /\ Parts(c) \subseteq Tool /\ c.tool \in Parts(c)
         /\ c.tool \notin {WalletNode, SuperNode} => Parts(c) = {c.tool}
         /\ c.tool = WalletNode =>
              Parts(c) = {WalletNode} \cup (IF c.deps THEN {PastelD, RQService} ELSE {})
         /\ c.tool = SuperNode /\ c.op # "uninstall" =>
              Parts(c) = {SuperNode, Hermes}
                           \cup (IF c.deps THEN {PastelD, RQService, DDService} ELSE {})
         /\ c.tool = SuperNode /\ c.deps =>
              Parts(c) = {SuperNode, Hermes, PastelD, RQService, DDService}
<1>0. c.tool \in Tool /\ Tool \subseteq ToolType /\ c.tool \in ToolType
  BY DEF Command, Tool
<1>1. Parts(c) \subseteq Tool /\ c.tool \in Parts(c)
  BY <1>0 DEF Parts
<1> DEFINE L == appToServiceMap[c.tool]
<1>2. CASE c.tool \notin {WalletNode, SuperNode}
  <2>1. L = <<c.tool>>
    BY <1>0, <1>2 DEF appToServiceMap
  <2>2. DOMAIN L = {1} /\ L[1] = c.tool
    BY <2>1
  <2> HIDE DEF L
  <2>3. \A t : (\E i \in DOMAIN L : L[i] = t) <=> t = c.tool
    BY <2>2
  <2>4. \A t \in Tool : t \in Parts(c) <=> t = c.tool
    BY <1>2, <2>3 DEF Parts, L
  <2> QED
    BY <1>0, <1>1, <1>2, <2>4
<1>3. CASE c.tool = WalletNode
  <2>0. WalletNode \in ToolType /\ WalletNode # SuperNode
    BY DEF ToolType, WalletNode, SuperNode
  <2>1. L = <<PastelD, RQService, WalletNode>>
    BY <1>3, <2>0 DEF appToServiceMap
  <2>2. DOMAIN L = {1, 2, 3} /\ L[1] = PastelD /\ L[2] = RQService /\ L[3] = WalletNode
    BY <2>1
  <2> HIDE DEF L
  <2>3. \A t : (\E i \in DOMAIN L : L[i] = t) <=> t \in {PastelD, RQService, WalletNode}
    BY <2>2
  <2>5. \A t \in Tool : t \in Parts(c) <=> t = WalletNode \/ (c.deps /\ t \in {PastelD, RQService})
    BY <1>3, <2>0, <2>3 DEF Parts, L
  <2>6. {WalletNode, PastelD, RQService} \subseteq Tool
    BY Named
  <2> QED
    BY <1>1, <1>3, <2>0, <2>5, <2>6
<1>4. CASE c.tool = SuperNode
  <2>0. WalletNode # SuperNode
    BY DEF WalletNode, SuperNode
  <2>1. L = <<PastelD, RQService, DDService, SuperNode, Hermes>>
    BY <1>0, <1>4, <2>0 DEF appToServiceMap
  <2>2. /\ DOMAIN L = {1, 2, 3, 4, 5} /\ L[1] = PastelD /\ L[2] = RQService /\ L[3] = DDService
        /\ L[4] = SuperNode /\ L[5] = Hermes
    BY <2>1
  <2> HIDE DEF L
  <2>3. \A t : (\E i \in DOMAIN L : L[i] = t) <=> t \in {PastelD, RQService, DDService, SuperNode, Hermes}
    BY <2>2
  <2>4. \A t \in Tool : t \in Parts(c) <=>
          \/ t = SuperNode \/ (t = Hermes /\ c.op # "uninstall")
          \/ (c.deps /\ t \in {PastelD, RQService, DDService, SuperNode, Hermes})
    <3>1. ASSUME NEW t \in Tool
          PROVE  t \in Parts(c) <=> \/ t = SuperNode \/ (t = Hermes /\ c.op # "uninstall")
                                    \/ (c.deps /\ \E i \in DOMAIN L : L[i] = t)
      BY <1>4, Zenon DEF Parts, L
    <3> QED
      BY <2>3, <3>1
  <2>5. {SuperNode, Hermes, PastelD, RQService, DDService} \subseteq Tool
    BY Named
  <2> QED
    BY <1>1, <1>4, <2>0, <2>4, <2>5
<1> QED
  BY <1>2, <1>3, <1>4

\* Every list of an installation has what its tools need, in the order they need it.
LEMMA InstallsPart ==
  ASSUME NEW c \in Command, c.op # "uninstall"
  PROVE  Part(Installs(c), {}, Need(c), Parts(c))
<1> DEFINE P == Parts(c)
           rest ==
      CASE c.tool = PastelD   -> Core(c)
        [] c.tool = RQService -> RaptorQ(c)
        [] c.tool = WalletNode -> When(c.deps, Core(c) \o RaptorQ(c)) \o One(c, WalletNode)
             \o Call("7z", "none")
        [] c.tool = SuperNode ->
             When(c.deps, Core(c) \o RaptorQ(c)) \o SuperNodes(c) \o When(c.deps, DupeDetection(c))
        [] c.tool = DDService -> DupeDetection(c)
        [] c.tool = Hermes    -> One(c, Hermes)
           Y == UNION {NeedOf(c, t) : t \in Parts(c)}
<1>0. /\ c.tool \in Tool /\ P \subseteq Tool /\ c.tool \in P
      /\ Tool = {PastelD, RQService, DDService, SuperNode, WalletNode, Hermes}
  BY PartsOf, Named DEF Command
<1>a. ASSUME NEW t \in Tool, t \notin {PastelD, DDService, SuperNode}
      PROVE  NeedOf(c, t) = Fetches(t) \cup {To("chmod", f) : f \in Files(t)}
                              \cup (IF c.op = "install" THEN {To("config", t)} ELSE {})
  BY <1>a DEF NeedOf
<1>d. /\ PastelD \notin {WalletNode, SuperNode} /\ RQService \notin {WalletNode, SuperNode}
      /\ DDService \notin {WalletNode, SuperNode} /\ Hermes \notin {WalletNode, SuperNode}
      /\ WalletNode \notin {PastelD, DDService, SuperNode} /\ Hermes \notin {PastelD, DDService}
  BY DEF PastelD, RQService, WalletNode, SuperNode, DDService, Hermes
<1> HIDE DEF P
<1>1. ASSUME PastelD \in P, RQService \in P
      PROVE  Part(Core(c) \o RaptorQ(c), {}, NeedOf(c, PastelD) \cup NeedOf(c, RQService), P)
  BY <1>0, <1>1, CorePart, RaptorQPart, WholePartsJoined
<1>2. Part(rest, {}, Y, P)
  <2>1. CASE c.tool = PastelD
    <3>1. rest = Core(c)
      BY <2>1 DEF PastelD, RQService, WalletNode, SuperNode, DDService, Hermes
    <3>2. Part(Core(c), {}, NeedOf(c, PastelD), P)
      BY <1>0, <2>1, CorePart
    <3>3. Parts(c) = {PastelD}
      BY <1>d, <2>1, PartsOf
    <3>4. Y \subseteq NeedOf(c, PastelD)
      BY <3>3
    <3> HIDE DEF rest, Y
    <3> QED
      BY <3>1, <3>2, <3>4, WiderPart
  <2>2. CASE c.tool = RQService
    <3>1. rest = RaptorQ(c)
      BY <2>2 DEF PastelD, RQService, WalletNode, SuperNode, DDService, Hermes
    <3>2. Part(RaptorQ(c), {}, NeedOf(c, RQService), P)
      BY <1>0, <2>2, RaptorQPart
    <3>3. Parts(c) = {RQService}
      BY <1>d, <2>2, PartsOf
    <3>4. Y \subseteq NeedOf(c, RQService)
      BY <3>3
    <3> HIDE DEF rest, Y
    <3> QED
      BY <3>1, <3>2, <3>4, WiderPart
  <2>3. CASE c.tool = WalletNode
    <3> DEFINE deps == When(c.deps, Core(c) \o RaptorQ(c))
               Z == IF c.deps THEN NeedOf(c, PastelD) \cup NeedOf(c, RQService) ELSE {}
    <3>1. rest = (deps \o One(c, WalletNode)) \o Call("7z", "none")
      BY <2>3 DEF PastelD, RQService, WalletNode, SuperNode, DDService, Hermes
    <3>2. Parts(c) = {WalletNode} \cup (IF c.deps THEN {PastelD, RQService} ELSE {})
      BY <2>3, PartsOf
    <3>3. Part(deps, {}, Z, P)
      <4>1. CASE c.deps
        <5>1. Part(Core(c) \o RaptorQ(c), {}, NeedOf(c, PastelD) \cup NeedOf(c, RQService), P)
          BY <1>1, <3>2, <4>1 DEF P
        <5> QED
          BY <5>1, WhenPart
      <4>2. CASE ~c.deps
        BY <4>2, EmptyBlock DEF Part, When
      <4> QED
        BY <4>1, <4>2
    <3>4. Part(One(c, WalletNode), {}, NeedOf(c, WalletNode), P)
      BY <1>0, <1>a, <1>d, <2>3, OnePart
    <3>5. Part(Call("7z", "none"), {}, {}, P)
      BY <1>0, OwnCalls
    <3>6. Y \subseteq (Z \cup NeedOf(c, WalletNode)) \cup {}
      BY <3>2
    <3> HIDE DEF deps, Z, rest, Y
    <3>7. Part(deps \o One(c, WalletNode), {}, Z \cup NeedOf(c, WalletNode), P)
      BY <3>3, <3>4, WholePartsJoined
    <3>8. Part((deps \o One(c, WalletNode)) \o Call("7z", "none"), {}, (Z \cup NeedOf(c, WalletNode)) \cup {}, P)
      BY <3>5, <3>7, WholePartsJoined
    <3> QED
      BY <3>1, <3>6, <3>8, WiderPart
  <2>4. CASE c.tool = SuperNode
    <3> DEFINE deps == When(c.deps, Core(c) \o RaptorQ(c))
               dd == When(c.deps, DupeDetection(c))
               Z == IF c.deps THEN NeedOf(c, PastelD) \cup NeedOf(c, RQService) ELSE {}
               W == IF c.deps THEN NeedOf(c, DDService) ELSE {}
               V == NeedOf(c, SuperNode) \cup NeedOf(c, Hermes)
    <3>1. rest = (deps \o SuperNodes(c)) \o dd
      BY <2>4 DEF PastelD, RQService, WalletNode, SuperNode, DDService, Hermes
    <3>2. Parts(c) = {SuperNode, Hermes}
                       \cup (IF c.deps THEN {PastelD, RQService, DDService} ELSE {})
      BY <2>4, PartsOf
    <3>3. Part(deps, {}, Z, P) /\ Part(dd, {}, W, P)
      <4>1. CASE c.deps
        <5>1. Part(Core(c) \o RaptorQ(c), {}, NeedOf(c, PastelD) \cup NeedOf(c, RQService), P)
          BY <1>1, <3>2, <4>1 DEF P
        <5>2. Part(DupeDetection(c), {}, NeedOf(c, DDService), P)
          BY <1>0, <3>2, <4>1, DupeDetectionPart DEF P
        <5> QED
          BY <5>1, <5>2, WhenPart
      <4>2. CASE ~c.deps
        BY <4>2, EmptyBlock DEF Part, When
      <4> QED
        BY <4>1, <4>2
    <3>4. Part(SuperNodes(c), {}, V, P)
      BY <1>0, <3>2, SuperNodesPart DEF P
    <3>5. Y \subseteq (Z \cup V) \cup W
      BY <3>2
    <3> HIDE DEF deps, dd, Z, W, V, rest, Y
    <3>6. Part(deps \o SuperNodes(c), {}, Z \cup V, P)
      BY <3>3, <3>4, WholePartsJoined
    <3>7. Part((deps \o SuperNodes(c)) \o dd, {}, (Z \cup V) \cup W, P)
      BY <3>3, <3>6, WholePartsJoined
    <3> QED
      BY <3>1, <3>5, <3>7, WiderPart
  <2>5. CASE c.tool = DDService
    <3>1. rest = DupeDetection(c)
      BY <2>5 DEF PastelD, RQService, WalletNode, SuperNode, DDService, Hermes
    <3>2. Part(DupeDetection(c), {}, NeedOf(c, DDService), P)
      BY <1>0, <2>5, DupeDetectionPart
    <3>3. Parts(c) = {DDService}
      BY <1>d, <2>5, PartsOf
    <3>4. Y \subseteq NeedOf(c, DDService)
      BY <3>3
    <3> HIDE DEF rest, Y
    <3> QED
      BY <3>1, <3>2, <3>4, WiderPart
  <2>6. CASE c.tool = Hermes
    <3>1. rest = One(c, Hermes)
      BY <2>6 DEF PastelD, RQService, WalletNode, SuperNode, DDService, Hermes
    <3>2. Part(One(c, Hermes), {}, NeedOf(c, Hermes), P)
      BY <1>0, <1>a, <1>d, <2>6, OnePart
    <3>3. Parts(c) = {Hermes}
      BY <1>d, <2>6, PartsOf
    <3>4. Y \subseteq NeedOf(c, Hermes)
      BY <3>3
    <3> HIDE DEF rest, Y
    <3> QED
      BY <3>1, <3>2, <3>4, WiderPart
  <2> QED
    BY <1>0, <2>1, <2>2, <2>3, <2>4, <2>5, <2>6
<1> HIDE DEF rest, Y
<1>3. Part(Call("dir", "exec") \o Call("packages", c.tool), {}, {} \cup {To("packages", c.tool)}, P)
  <2>1. Part(Call("dir", "exec"), {}, {}, P) /\ Part(Call("packages", c.tool), {}, {To("packages", c.tool)}, P)
    BY <1>0, OwnCalls
  <2> QED
    BY <2>1, WholePartsJoined
<1>4. Part((Call("dir", "exec") \o Call("packages", c.tool)) \o rest, {},
           ({} \cup {To("packages", c.tool)}) \cup Y, P)
  BY <1>2, <1>3, WholePartsJoined
<1>5. Installs(c) = (Call("dir", "exec") \o Call("packages", c.tool)) \o rest
  BY DEF Installs, rest
<1>6. Need(c) \subseteq ({} \cup {To("packages", c.tool)}) \cup Y
  BY DEF Need, Y
<1> QED
  BY <1>4, <1>5, <1>6, WiderPart DEF P

\* The data of a tool is purged only behind a question: for the rq- and the dd-service one
\* about the other.
AsksFor(c, t) ==
  {To("ask data", u) : u \in {v \in Tool : \/ (v = t /\ ~c.deps) \/ t \in {RQService, DDService}
                                          \/ (c.deps /\ t \in Parts(c))}}
Asked(s, c) == \A t \in Tool : Led(s, {To("purge", t)}, AsksFor(c, t), {}, FALSE)

LEMMA OnlyOne == \A i \in 1 .. 1 : i = 1
OBVIOUS

\* A purge behind a question that covers it.
LEMMA PurgeBehind ==
  ASSUME NEW c, NEW s \in Seq(PlannedCall), NEW t \in Tool, NEW u \in Tool,
         Asked(s, c), Has(s, To("ask data", u)), To("ask data", u) \in AsksFor(c, t)
  PROVE  /\ s \o PurgeOf(t) \in Seq(PlannedCall) /\ Asked(s \o PurgeOf(t), c)
         /\ Has(s \o PurgeOf(t), To("ask data", u))
<1> DEFINE d == Call("purge", t)
<1>1. To("purge", t) \in PlannedCall
  BY DEF PlannedCall, To
<1>2. d \in Seq(PlannedCall) /\ Len(d) = 1 /\ d[1] = To("purge", t)
  BY <1>1, CallIs
<1>3. s \o d \in Seq(PlannedCall) /\ Has(s \o d, To("ask data", u))
  <2> HIDE DEF d
  <2> QED
    BY <1>2, HasJoined, Joined
<1>4. ASSUME NEW v \in Tool PROVE Led(s \o d, {To("purge", v)}, AsksFor(c, v), {}, FALSE)
  <2> HIDE DEF d
  <2>1. Led(s, {To("purge", v)}, AsksFor(c, v), {}, FALSE)
    BY DEF Asked
  <2>2. CASE v = t
    BY <1>2, <2>1, <2>2, LedBehind
  <2>3. CASE v # t
    <3>1. To("purge", t) # To("purge", v)
      <4>1. To("purge", t).of = t /\ To("purge", v).of = v
        BY DEF To
      <4> QED
        BY <2>3, <4>1
    <3>2. \A i \in 1 .. Len(d) : d[i] \notin {To("purge", v)}
      <4>1. \A i \in 1 .. Len(d) : i = 1
        BY <1>2, OnlyOne, Zenon
      <4>2. d[1] # To("purge", v)
        BY <1>2, <3>1, Zenon
      <4> QED
        BY <4>1, <4>2, Zenon
    <3>3. Led(d, {To("purge", v)}, AsksFor(c, v), {}, FALSE)
      BY <3>2, Zenon DEF Led
    <3> QED
      BY <1>2, <2>1, <3>3, LedJoined
  <2> QED
    BY <2>2, <2>3
<1> QED
  BY <1>3, <1>4 DEF Asked, PurgeOf

\* Lists without a purge ask for all they purge.
LEMMA NothingPurged ==
  ASSUME NEW c, NEW do \in {"ask", "ask data", "remove"}, NEW of, To(do, of) \in PlannedCall
  PROVE  Call(do, of) \in Seq(PlannedCall) /\ Asked(Call(do, of), c)
         /\ Has(Call(do, of), To(do, of))
<1>1. /\ Call(do, of) \in Seq(PlannedCall) /\ Len(Call(do, of)) = 1 /\ Call(do, of)[1] = To(do, of)
      /\ Has(Call(do, of), To(do, of))
  BY CallIs
<1>2. ASSUME NEW t PROVE To(do, of) # To("purge", t)
  <2>1. To(do, of).do = do /\ To("purge", t).do = "purge" /\ do # "purge"
    BY DEF To
  <2> QED
    BY <2>1
<1>3. ASSUME NEW t, NEW B PROVE Led(Call(do, of), {To("purge", t)}, B, {}, FALSE)
  <2>1. To(do, of) # To("purge", t)
    BY <1>2
  <2>2. \A i \in 1 .. Len(Call(do, of)) : Call(do, of)[i] \notin {To("purge", t)}
    <3>1. \A i \in 1 .. Len(Call(do, of)) : i = 1
      BY <1>1, OnlyOne, Zenon
    <3>2. Call(do, of)[1] # To("purge", t)
      BY <1>1, <2>1, Zenon
    <3> QED
      BY <3>1, <3>2, Zenon
  <2> QED
    BY <2>2, Zenon DEF Led
<1> QED
  BY <1>1, <1>3 DEF Asked

LEMMA AskedJoined ==
  ASSUME NEW c
  PROVE  \A s, t \in Seq(PlannedCall) :
           Asked(s, c) /\ Asked(t, c) => s \o t \in Seq(PlannedCall) /\ Asked(s \o t, c)
<1> SUFFICES ASSUME NEW s \in Seq(PlannedCall), NEW t \in Seq(PlannedCall), Asked(s, c), Asked(t, c)
             PROVE  s \o t \in Seq(PlannedCall) /\ Asked(s \o t, c)
  OBVIOUS
<1>1. s \o t \in Seq(PlannedCall)
  BY Joined
<1>2. ASSUME NEW v \in Tool PROVE Led(s \o t, {To("purge", v)}, AsksFor(c, v), {}, FALSE)
  <2>1. Led(s, {To("purge", v)}, AsksFor(c, v), {}, FALSE) /\ Led(t, {To("purge", v)}, AsksFor(c, v), {}, FALSE)
    BY DEF Asked
  <2> QED
    BY <2>1, LedJoined
<1> QED
  BY <1>1, <1>2 DEF Asked

\* Every list of an uninstallation asks before it purges.
LEMMA UninstallsAsk == ASSUME NEW c \in Command PROVE Asked(Uninstalls(c), c)
<1> DEFINE Good(s) == s \in Seq(PlannedCall) /\ Asked(s, c)
           AskT(t) == Call("ask data", t)
<1>0. c.tool \in Tool /\ c.deps \in BOOLEAN
  BY DEF Command
<1>d. /\ PastelD \notin {WalletNode, SuperNode, RQService, DDService}
      /\ RQService \notin {WalletNode, SuperNode, DDService}
      /\ DDService \notin {WalletNode, SuperNode} /\ WalletNode # SuperNode
  BY DEF PastelD, RQService, WalletNode, SuperNode, DDService, Hermes
<1>1. /\ \A t \in Tool : Good(Call("ask", t)) /\ Good(Call("remove", t))
      /\ Good(Call("remove", "pastel-cli"))
  <2>1. \A t \in Tool : To("ask", t) \in PlannedCall /\ To("remove", t) \in PlannedCall
    BY Named DEF PlannedCall, To
  <2>2. To("remove", "pastel-cli") \in PlannedCall
    BY Named DEF PlannedCall, To
  <2> QED
    BY <2>1, <2>2, NothingPurged
<1>2. \A t \in Tool : Good(AskT(t)) /\ Has(AskT(t), To("ask data", t))
  <2>1. \A t \in Tool : To("ask data", t) \in PlannedCall
    BY DEF PlannedCall, To
  <2> QED
    BY <2>1, NothingPurged
<1>3. ASSUME NEW s, NEW t, Good(s), Good(t) PROVE Good(s \o t)
  BY <1>3, AskedJoined
<1>4. Good(<<>>)
  BY DEF Asked, Led
<1>5. ASSUME NEW b, NEW s, Good(s) PROVE Good(When(b, s))
  BY <1>4, <1>5 DEF When
<1>6. ASSUME NEW s, NEW t \in Tool, NEW u \in Tool, Good(s), Has(s, To("ask data", u)),
             To("ask data", u) \in AsksFor(c, t)
      PROVE  Good(s \o PurgeOf(t)) /\ Has(s \o PurgeOf(t), To("ask data", u))
  BY <1>6, PurgeBehind
<1> HIDE DEF Good
<1>7. To("ask data", c.tool) \in AsksFor(c, c.tool)
  BY <1>0, PartsOf DEF AsksFor
<1>8. ASSUME NEW t \in {RQService, DDService}, NEW u \in Tool PROVE To("ask data", u) \in AsksFor(c, t)
  BY DEF AsksFor
<1>9. ASSUME c.deps, NEW t \in Parts(c) PROVE To("ask data", c.tool) \in AsksFor(c, t)
  BY <1>0, <1>9 DEF AsksFor
<1>10. Good(Call("remove", PastelD) \o Call("remove", "pastel-cli"))
  BY <1>1, <1>3, Named
<1>11. ASSUME c.deps, c.tool = WalletNode
       PROVE  Good(Call("remove", PastelD) \o Call("remove", "pastel-cli") \o Call("remove", WalletNode)
             \o Call("remove", RQService)
             \o When(c.purge, Call("ask data", c.tool) \o PurgeOf(WalletNode) \o PurgeOf(RQService)))
  <2>1. Parts(c) = {WalletNode, PastelD, RQService}
    BY <1>11, PartsOf
  <2>2. Good(AskT(c.tool) \o PurgeOf(WalletNode)) /\ Has(AskT(c.tool) \o PurgeOf(WalletNode), To("ask data", c.tool))
    BY <1>0, <1>2, <1>6, <1>9, <1>11, <2>1, Named
  <2>3. Good(AskT(c.tool) \o PurgeOf(WalletNode) \o PurgeOf(RQService))
    BY <1>0, <1>6, <1>8, <2>2, Named
  <2>4. Good(When(c.purge, AskT(c.tool) \o PurgeOf(WalletNode) \o PurgeOf(RQService)))
    BY <1>5, <2>3
  <2>5. Good(Call("remove", PastelD) \o Call("remove", "pastel-cli") \o Call("remove", WalletNode)
             \o Call("remove", RQService))
    BY <1>1, <1>3, <1>10, Named
  <2> QED
    BY <1>3, <2>4, <2>5
<1>12. ASSUME c.deps, c.tool = SuperNode
       PROVE  Good(Call("ask", WalletNode) \o Call("remove", PastelD) \o Call("remove", "pastel-cli")
             \o Call("remove", SuperNode) \o Call("remove", RQService) \o Call("remove", Hermes)
             \o Call("remove", DDService)
             \o When(c.purge, Call("ask data", c.tool) \o PurgeOf(SuperNode) \o PurgeOf(RQService)
                  \o PurgeOf(Hermes) \o PurgeOf(DDService)))
  <2>1. Parts(c) = {SuperNode, Hermes, PastelD, RQService, DDService}
    BY <1>12, PartsOf
  <2> DEFINE p1 == AskT(c.tool) \o PurgeOf(SuperNode)
             p2 == p1 \o PurgeOf(RQService)
             p3 == p2 \o PurgeOf(Hermes)
             p4 == p3 \o PurgeOf(DDService)
  <2>a. \A t \in {SuperNode, RQService, Hermes, DDService} :
          t \in Tool /\ To("ask data", c.tool) \in AsksFor(c, t)
    BY <1>9, <1>12, <2>1, Named
  <2>2. Good(p1) /\ Has(p1, To("ask data", c.tool))
    BY <1>0, <1>2, <1>6, <2>a
  <2>3. Good(p2) /\ Has(p2, To("ask data", c.tool))
    BY <1>0, <1>6, <2>2, <2>a
  <2>4. Good(p3) /\ Has(p3, To("ask data", c.tool))
    BY <1>0, <1>6, <2>3, <2>a
  <2>5. Good(p4)
    BY <1>0, <1>6, <2>4, <2>a
  <2>6. Good(When(c.purge, p4))
    BY <1>5, <2>5
  <2> DEFINE r1 == Call("ask", WalletNode) \o Call("remove", PastelD) \o Call("remove", "pastel-cli")
             r2 == r1 \o Call("remove", SuperNode) \o Call("remove", RQService)
             r3 == r2 \o Call("remove", Hermes) \o Call("remove", DDService)
  <2>7. Good(r1)
    BY <1>1, <1>3, Named
  <2>8. Good(r2)
    <3> HIDE DEF r1
    <3> QED
      BY <1>1, <1>3, <2>7, Named
  <2>9. Good(r3)
    <3> HIDE DEF r2
    <3> QED
      BY <1>1, <1>3, <2>8, Named
  <2>10. Good(r3 \o When(c.purge, p4))
    BY <1>3, <2>6, <2>9
  <2> QED
    BY <2>10
<1>13. ASSUME NEW t \in Tool, NEW u \in Tool, To("ask data", u) \in AsksFor(c, t)
       PROVE  Good(Call("remove", t) \o When(c.purge, Call("ask data", u) \o PurgeOf(t)))
  <2>1. Good(AskT(u) \o PurgeOf(t))
    BY <1>2, <1>6, <1>13
  <2>2. Good(When(c.purge, AskT(u) \o PurgeOf(t)))
    BY <1>5, <2>1
  <2> QED
    BY <1>1, <1>3, <2>2
<1>14. \E s : Good(s) /\ Uninstalls(c) = Call("ask", c.tool) \o s
  <2>1. CASE c.tool = PastelD
    BY <1>10, <1>d, <2>1 DEF Uninstalls
  <2>2. CASE c.tool = WalletNode /\ c.deps
    BY <1>11, <1>d, <2>2 DEF Uninstalls
  <2>3. CASE c.tool = SuperNode /\ c.deps
    BY <1>12, <1>d, <2>3 DEF Uninstalls
  <2>4. CASE c.tool = RQService
    <3>1. Good(Call("remove", RQService) \o When(c.purge, Call("ask data", DDService) \o PurgeOf(RQService)))
      BY <1>8, <1>13, Named
    <3> QED
      BY <1>d, <2>4, <3>1 DEF Uninstalls
  <2>5. CASE c.tool = DDService
    <3>1. Good(Call("remove", DDService) \o When(c.purge, Call("ask data", RQService) \o PurgeOf(DDService)))
      BY <1>8, <1>13, Named
    <3> QED
      BY <1>d, <2>5, <3>1 DEF Uninstalls
  <2>6. CASE /\ c.tool # PastelD /\ ~(c.tool = WalletNode /\ c.deps)
             /\ ~(c.tool = SuperNode /\ c.deps) /\ c.tool # RQService /\ c.tool # DDService
    <3>1. Good(Call("remove", c.tool) \o When(c.purge, Call("ask data", c.tool) \o PurgeOf(c.tool)))
      BY <1>0, <1>7, <1>13
    <3> QED
      BY <2>6, <3>1 DEF Uninstalls
  <2> QED
    BY <2>1, <2>2, <2>3, <2>4, <2>5, <2>6
<1> QED
  BY <1>0, <1>1, <1>3, <1>14 DEF Good

-----------------------------------------------------------------------------
(* What a step leaves of the list.                                           *)

\* A step drops the first call, or those of the snapshot, or all that is left.
LEMMA StepDrops ==
  ASSUME TodoInv, Step
  PROVE  /\ result = "running" /\ UNCHANGED <<cmd, begun, hadDir>>
         /\ \/ result' # "running" /\ todo' = <<>>
            \/ /\ result' = "running" /\ todo # <<>>
               /\ \E n \in 1 .. 3 :
                    /\ Skip(n)
                    /\ \A k \in 2 .. Len(todo) : k <= n => todo[k].do \in {"clean", "extract"}
<1> DEFINE Dropped1(n) ==
      /\ Skip(n)
      /\ \A k \in 2 .. Len(todo) : k <= n => todo[k].do \in {"clean", "extract"}
<1>1. result = "running"
  BY DEF Step, checkInstallDir, checkInstalledPackages, InstallPackage, install7z, downloadComponents,
         SetsUp, downloadChecked, downloadLatestSnapshot, increaseOpenFilesOnLinux, Agrees, Declines,
         Remove, Purge, Returns, Fails, Interrupted, Do
<1>2. ASSUME NEW r \in {"ok", "error", "none", "exists"}, Ends(r)
      PROVE  UNCHANGED <<cmd, begun, hadDir>> /\ result' # "running" /\ todo' = <<>>
  BY <1>2 DEF Ends
<1>3. \A n \in {1} : Skip(n) => Dropped1(n)
  <2>1. Len(todo) \in Nat
    BY LenProperties DEF TodoInv
  <2> QED
    BY <2>1
<1>4. ASSUME Skip(1), todo # <<>>, UNCHANGED <<cmd, begun, hadDir, result>>
      PROVE  /\ UNCHANGED <<cmd, begun, hadDir>> /\ result' = "running" /\ todo # <<>>
             /\ \E n \in 1 .. 3 : Dropped1(n)
  BY <1>1, <1>3, <1>4
<1>5. CASE downloadLatestSnapshot
  <2>0. todo # <<>>
    BY <1>5 DEF downloadLatestSnapshot, Do
  <2>1. PICK n \in 1 .. 3 : /\ Snapshot(n)
                            /\ n = 1 \/ (n = 3 /\ Do("snapshot")) \/ (n = 2 /\ Do("clean"))
    BY <1>5 DEF downloadLatestSnapshot
  <2>2. Skip(n) /\ todo # <<>> /\ UNCHANGED <<cmd, begun, hadDir, result>>
    BY <2>0, <2>1 DEF Snapshot
  <2>3. Len(todo) \in Nat /\ Placed(todo, snap)
    BY LenProperties DEF TodoInv
  <2>4. ASSUME n = 3, Do("snapshot"), NEW k \in 2 .. Len(todo), k <= n
        PROVE  todo[k].do \in {"clean", "extract"}
    <3>0. todo[1].do = "snapshot" /\ Len(todo) \in Nat \ {0}
      BY <2>4, NextCall
    <3>1. todo[1].do = "snapshot" /\ 1 \in 1 .. Len(todo)
      BY <3>0
    <3>2. 3 <= Len(todo) /\ todo[3].do = "extract"
      BY <2>3, <3>1 DEF Placed
    <3>3. todo[2].do = "clean"
      <4>1. 3 \in 1 .. Len(todo) /\ 3 # 1 /\ 3 - 1 = 2
        BY <2>3, <3>2
      <4> QED
        BY <2>3, <3>2, <4>1 DEF Placed
    <3>4. k = 2 \/ k = 3
      BY <2>3, <2>4
    <3> QED
      BY <3>2, <3>3, <3>4
  <2>5. ASSUME n = 2, Do("clean"), NEW k \in 2 .. Len(todo), k <= n
        PROVE  todo[k].do \in {"clean", "extract"}
    <3>0. todo[1].do = "clean" /\ Len(todo) \in Nat \ {0}
      BY <2>5, NextCall
    <3>1. todo[1].do = "clean" /\ 1 \in 1 .. Len(todo)
      BY <3>0
    <3>2. todo[2].do = "extract"
      BY <2>3, <3>1 DEF Placed
    <3>3. k = 2
      BY <2>3, <2>5
    <3> QED
      BY <3>2, <3>3
  <2>6. Dropped1(n)
    BY <1>3, <2>1, <2>2, <2>4, <2>5
  <2> QED
    BY <1>1, <2>2, <2>6
<1>6. CASE Step /\ ~downloadLatestSnapshot
  <2>1. CASE \E r \in {"ok", "error", "none", "exists"} : Ends(r)
    BY <1>1, <1>2, <2>1
  <2>2. CASE ~\E r \in {"ok", "error", "none", "exists"} : Ends(r)
    <3>1. Skip(1) /\ todo # <<>> /\ UNCHANGED <<cmd, begun, hadDir, result>>
      BY <1>6, <2>2
      DEF Step, checkInstallDir, checkInstalledPackages, InstallPackage, install7z, downloadComponents,
          SetsUp, downloadChecked, increaseOpenFilesOnLinux, Agrees, Declines, Remove, Purge, Returns,
          Fails, Interrupted, GoOn, Do
    <3> QED
      BY <1>1, <1>4, <3>1
  <2> QED
    BY <2>1, <2>2
<1> QED
  BY <1>5, <1>6

\* What is not yet done stays to be done.
LEMMA HasKept ==
  ASSUME TodoInv, Step, result' = "running", NEW x, Has(todo, x), x.do \notin {"clean", "extract"},
         Head(todo) # x
  PROVE  Has(todo', x)
<1>1. PICK n \in 1 .. 3 :
        Skip(n) /\ \A k \in 2 .. Len(todo) : k <= n => todo[k].do \in {"clean", "extract"}
  BY StepDrops
<1>2. todo \in Seq(PlannedCall) /\ Len(todo) \in Nat /\ todo # <<>>
  BY StepDrops, LenProperties DEF TodoInv
<1>3. todo[1] # x
  BY <1>2
<1>4. ASSUME NEW k \in 1 .. Len(todo), k <= n PROVE todo[k] # x
  <2>1. k = 1 \/ k \in 2 .. Len(todo)
    BY <1>2
  <2>2. CASE k \in 2 .. Len(todo)
    <3>1. todo[k].do \in {"clean", "extract"}
      BY <1>1, <1>4, <2>2
    <3> QED
      BY <3>1
  <2> QED
    BY <1>3, <2>1, <2>2
<1>5. n \in Nat /\ todo' = SubSeq(todo, n + 1, Len(todo))
  BY <1>1 DEF Skip
<1> QED
  BY <1>2, <1>4, <1>5, HasDropped

\* What follows a call follows it still.
LEMMA FollowedKept ==
  ASSUME TodoInv, Step, NEW A, NEW y, Followed(todo, A, y) PROVE Followed(todo', A, y)
<1>1. CASE todo' = <<>>
  BY <1>1 DEF Followed
<1>2. CASE \E n \in 1 .. 3 : Skip(n)
  <2>1. PICK n \in 1 .. 3 : Skip(n)
    BY <1>2
  <2>2. todo \in Seq(PlannedCall) /\ n \in Nat /\ todo' = SubSeq(todo, n + 1, Len(todo))
    BY <2>1 DEF TodoInv, Skip
  <2> QED
    BY <2>2, FollowedDropped
<1> QED
  BY <1>1, <1>2, StepDrops

\* What leads the way still does, until it is done; what is done then counts until one of
\* N undoes it.
LEMMA LedKept ==
  ASSUME TodoInv, Step, NEW A, NEW B, NEW N,
         \A x \in B \cup N : x.do \notin {"clean", "extract"}
  PROVE  /\ Led(todo, A, B, N, TRUE) => Led(todo', A, B, N, TRUE)
         /\ Led(todo, A, B, N, FALSE) => Led(todo', A, B, N, TRUE)
         /\ Led(todo, A, B, N, FALSE) /\ Head(todo) \notin B => Led(todo', A, B, N, FALSE)
         /\ Led(todo, A, B, N, TRUE) /\ Head(todo) \in N /\ Head(todo) \notin B
              => Led(todo', A, B, N, FALSE)
<1>1. CASE todo' = <<>>
  BY <1>1 DEF Led
<1>2. CASE /\ todo # <<>>
           /\ \E n \in 1 .. 3 : /\ Skip(n)
                                /\ \A k \in 2 .. Len(todo) : k <= n => todo[k].do \in {"clean", "extract"}
  <2>1. PICK n \in 1 .. 3 :
          Skip(n) /\ \A k \in 2 .. Len(todo) : k <= n => todo[k].do \in {"clean", "extract"}
    BY <1>2
  <2>2. /\ todo \in Seq(PlannedCall) /\ Len(todo) \in Nat \ {0} /\ n \in Nat
        /\ todo' = SubSeq(todo, n + 1, Len(todo))
    BY <1>2, <2>1, EmptySeq DEF TodoInv, Skip
  <2>3. ASSUME NEW k \in 1 .. Len(todo), k <= n, k # 1 PROVE todo[k] \notin B \cup N
    <3>1. k \in 2 .. Len(todo)
      BY <2>2, <2>3
    <3> QED
      BY <2>1, <2>3, <3>1
  <2>4. Head(todo) = todo[1] /\ 1 \in 1 .. Len(todo) /\ 1 <= n
    BY <2>2
  <2>5. Led(todo, A, B, N, TRUE) => Led(todo', A, B, N, TRUE)
    BY <2>2, LedDropped
  <2>6. Led(todo, A, B, N, FALSE) => Led(todo', A, B, N, TRUE)
    BY <2>2, LedDropped
  <2>7. ASSUME Led(todo, A, B, N, FALSE), Head(todo) \notin B PROVE Led(todo', A, B, N, FALSE)
    <3>1. ~ \E k \in 1 .. Len(todo) : k <= n /\ todo[k] \in B
      BY <2>3, <2>4, <2>7
    <3> QED
      BY <2>2, <2>7, <3>1, LedDropped
  <2>8. ASSUME Led(todo, A, B, N, TRUE), Head(todo) \in N, Head(todo) \notin B
        PROVE  Led(todo', A, B, N, FALSE)
    <3>1. ~ \E k \in 1 .. Len(todo) : k <= n /\ todo[k] \in B
      BY <2>3, <2>4, <2>8
    <3>2. ~ \A k \in 1 .. Len(todo) : k <= n => todo[k] \notin N
      BY <2>4, <2>8
    <3> QED
      BY <2>2, <2>8, <3>1, <3>2, LedDropped
  <2> QED
    BY <2>5, <2>6, <2>7, <2>8
<1> QED
  BY <1>1, <1>2, StepDrops

-----------------------------------------------------------------------------
(* The user's settings.                                                      *)

\* The user has agreed to lose the data of t, or of the rq- and the dd-service.
Covered(t) == t \in asked \/ (t \in {RQService, DDService} /\ asked # {})

\* The settings of the dd-service are in its folder, so that the folder stops a command
\* without force before it comes to the configuration; what is purged is covered by an
\* answer, or will be.
FolderOfSettings == conf[DDService] = "own" => "dd" \in dirs
ForceAgreed == force => cmd.force \/ asked = Tool
ConfigLed ==
  \/ Led(todo, {To("config", DDService)}, {To("folder", "dd")}, {}, FALSE)
  \/ /\ force \/ conf[DDService] # "own"
     /\ Led(todo, {To("config", DDService)}, {To("folder", "dd")}, {}, TRUE)
PurgeLed(t) ==
  \/ Led(todo, {To("purge", t)}, AsksFor(cmd, t), {}, FALSE)
  \/ Covered(t) /\ Led(todo, {To("purge", t)}, AsksFor(cmd, t), {}, TRUE)
SettingsInv == FolderOfSettings /\ ForceAgreed /\ ConfigLed /\ \A t \in Tool : PurgeLed(t)

LEMMA CallIsTo == ASSUME NEW x \in PlannedCall PROVE x = To(x.do, x.of)
<1>1. x \in [do : Calls, of : Items]
  BY CallKinds
<1> QED
  BY <1>1 DEF To

LEMMA BeginKeepsSettings ==
  ASSUME TypeOK, SettingsInv, NEW c \in Commands, Begin(c) PROVE SettingsInv'
<1>0. c \in Command /\ c.op \in {"install", "update", "uninstall"}
  BY CommandsAssumption DEF Command
<1>1. UNCHANGED <<conf, dirs>> /\ cmd' = c
  BY DEF Begin, fileVars, dataVars
<1>f. ForceAgreed'
  <2>1. force' = c.force
    BY DEF Begin
  <2> QED
    BY <1>1, <2>1, Zenon DEF ForceAgreed
<1>d. FolderOfSettings'
  BY <1>1 DEF SettingsInv, FolderOfSettings
<1>s. ASSUME Led(todo', {To("config", DDService)}, {To("folder", "dd")}, {}, FALSE),
             \A t \in Tool : Led(todo', {To("purge", t)}, AsksFor(c, t), {}, FALSE)
      PROVE  SettingsInv'
  <2>1. ConfigLed'
    BY <1>s DEF ConfigLed
  <2>2. ASSUME NEW t \in Tool PROVE PurgeLed(t)'
    BY <1>1, <1>s DEF PurgeLed
  <2> QED
    BY <1>f, <1>d, <2>1, <2>2 DEF SettingsInv
<1>2. CASE c.op # "uninstall"
  <2>1. todo' = Installs(c) /\ Block(Installs(c), {}, Parts(c))
    BY <1>0, <1>2, InstallsPart DEF Begin, Part
  <2>2. Led(todo', {To("config", DDService)}, {To("folder", "dd")}, {}, FALSE)
    BY <2>1 DEF Block
  <2>3. ASSUME NEW t \in Tool PROVE Led(todo', {To("purge", t)}, AsksFor(c, t), {}, FALSE)
    <3>1. Installs(c) \in Seq(Concerns(Parts(c)))
      BY <2>1, BlockSeq
    <3>2. \A i \in 1 .. Len(Installs(c)) : Installs(c)[i].do # "purge"
      <4>1. ASSUME NEW i \in 1 .. Len(Installs(c)) PROVE Installs(c)[i] \in Concerns(Parts(c))
        BY <3>1, ElementOfSeq
      <4> QED
        BY <4>1 DEF Concerns
    <3>3. To("purge", t).do = "purge"
      BY DEF To
    <3>4. \A i \in 1 .. Len(Installs(c)) : Installs(c)[i] \notin {To("purge", t)}
      BY <3>2, <3>3
    <3> QED
      BY <2>1, <3>4 DEF Led
  <2> QED
    BY <1>s, <2>2, <2>3
<1>3. CASE c.op = "uninstall"
  <2>1. todo' = Uninstalls(c) /\ Uninstalls(c) \in Seq(UninstallCall) /\ Asked(Uninstalls(c), c)
    BY <1>0, <1>3, UninstallsPlan, UninstallsAsk DEF Begin, Removal
  <2>2. Led(todo', {To("config", DDService)}, {To("folder", "dd")}, {}, FALSE)
    <3>1. \A i \in 1 .. Len(todo') : todo'[i].do # "config"
      <4>1. ASSUME NEW i \in 1 .. Len(Uninstalls(c)) PROVE Uninstalls(c)[i] \in UninstallCall
        BY <2>1, ElementOfSeq
      <4> QED
        BY <2>1, <4>1 DEF UninstallCall
    <3>2. To("config", DDService).do = "config"
      BY DEF To
    <3>3. \A i \in 1 .. Len(todo') : todo'[i] \notin {To("config", DDService)}
      BY <3>1, <3>2
    <3> QED
      BY <3>3 DEF Led
  <2>3. \A t \in Tool : Led(todo', {To("purge", t)}, AsksFor(c, t), {}, FALSE)
    BY <2>1 DEF Asked
  <2> QED
    BY <1>s, <2>2, <2>3
<1> QED
  BY <1>2, <1>3

\* What a step does to the settings, to force and to what was agreed to.
LEMMA SettingsEffect ==
  ASSUME TypeOK, TodoInv, Step
  PROVE  /\ force => force'
         /\ asked \subseteq asked'
         /\ force' => force \/ asked' = Tool
         /\ conf'[DDService] = "own" => /\ conf[DDService] = "own"
                                        /\ "dd" \in dirs => "dd" \in dirs'
<1>1. CASE checkInstallDir
  BY <1>1 DEF checkInstallDir, GoOn, Ends, dataVars, TypeOK
<1>2. CASE SetsUp
  <2>1. UNCHANGED <<force, asked>>
    BY <1>2 DEF SetsUp, GoOn, Ends
  <2>2. /\ dirs \subseteq dirs'
        /\ \A t \in Tool : conf'[t] = conf[t] \/ conf'[t] \in {"default", Torn}
    BY <1>2 DEF SetsUp, CreateFolder, CreateAndWrite, CreateAndWriteBreaks, dataVars, TypeOK, FilesTypeOK
  <2>3. DDService \in Tool /\ "own" \notin {"default", Torn}
    BY Named, ContentsAssumption
  <2> QED
    BY <2>1, <2>2, <2>3
<1>3. CASE Purge
  <2>1. UNCHANGED <<force, asked>>
    BY <1>3 DEF Purge, GoOn
  <2>2. Of \in Tool
    BY <1>3, NextCall, CallKinds DEF Purge
  <2>3. \A t \in Tool : conf'[t] = conf[t] \/ conf'[t] = Missing
    BY <1>3, <2>2 DEF Purge, TypeOK, FilesTypeOK
  <2>4. "dd" \in dirs /\ "dd" \notin dirs' => conf'[DDService] = Missing
    <3>1. ASSUME "dd" \in dirs, "dd" \notin dirs' PROVE Of = DDService
      <4>1. "dd" \in DataOf[Of]
        BY <1>3, <3>1 DEF Purge
      <4> QED
        BY <2>2, <4>1 DEF DataOf
    <3> QED
      BY <1>3, <3>1 DEF Purge
  <2>5. DDService \in Tool /\ "own" # Missing
    BY Named, ContentsAssumption
  <2> QED
    BY <2>1, <2>3, <2>4, <2>5
<1>4. CASE Agrees
  <2>1. force' = force
    BY <1>4 DEF Agrees, GoOn
  <2>2. asked \subseteq asked'
    BY <1>4 DEF Agrees, GoOn
  <2>3. UNCHANGED <<conf, dirs>>
    BY <1>4 DEF Agrees, fileVars, dataVars
  <2> QED
    BY <2>1, <2>2, <2>3
<1>5. CASE \/ checkInstalledPackages \/ InstallPackage \/ install7z \/ downloadComponents
           \/ downloadChecked \/ increaseOpenFilesOnLinux \/ Declines \/ Remove \/ Returns \/ Fails
           \/ Interrupted \/ downloadLatestSnapshot
  <2>1. UNCHANGED <<force, asked>>
    BY <1>5
    DEF checkInstalledPackages, InstallPackage, install7z, downloadComponents, downloadChecked,
        increaseOpenFilesOnLinux, Declines, Remove, Returns, Fails, Interrupted,
        downloadLatestSnapshot, Snapshot, GoOn, Ends
  <2>2. UNCHANGED <<conf, dirs>>
    BY <1>5
    DEF checkInstalledPackages, InstallPackage, install7z, downloadComponents, downloadChecked,
        increaseOpenFilesOnLinux, Declines, Remove, Returns, Fails, Interrupted,
        downloadLatestSnapshot, fileVars, dataVars
  <2> QED
    BY <2>1, <2>2
<1> QED
  BY <1>1, <1>2, <1>3, <1>4, <1>5 DEF Step

LEMMA StepKeepsSettings ==
  ASSUME TypeOK, TypeOK', TodoInv, SettingsInv, Step PROVE SettingsInv'
<1>0. /\ force => force'
      /\ asked \subseteq asked' /\ asked' \subseteq Tool
      /\ force' => force \/ asked' = Tool
      /\ conf'[DDService] = "own" => conf[DDService] = "own" /\ ("dd" \in dirs => "dd" \in dirs')
      /\ UNCHANGED cmd
  BY SettingsEffect, StepDrops DEF TypeOK
<1>1. FolderOfSettings'
  BY <1>0 DEF SettingsInv, FolderOfSettings
<1>2. ForceAgreed'
  BY <1>0 DEF SettingsInv, ForceAgreed
<1>3. CASE todo' = <<>>
  <2>1. ASSUME NEW A, NEW B PROVE Led(todo', A, B, {}, FALSE)
    BY <1>3 DEF Led
  <2>2. ConfigLed' /\ \A t \in Tool : PurgeLed(t)'
    BY <2>1 DEF ConfigLed, PurgeLed
  <2> QED
    BY <1>1, <1>2, <2>2 DEF SettingsInv
<1>4. CASE todo # <<>> /\ result' = "running"
  <2> DEFINE h == Head(todo)
  <2>1. ConfigLed'
    <3> DEFINE A == {To("config", DDService)}
               B == {To("folder", "dd")}
    <3>1. /\ Led(todo, A, B, {}, TRUE) => Led(todo', A, B, {}, TRUE)
          /\ Led(todo, A, B, {}, FALSE) => Led(todo', A, B, {}, TRUE)
          /\ Led(todo, A, B, {}, FALSE) /\ h \notin B => Led(todo', A, B, {}, FALSE)
      <4>1. \A x \in B \cup {} : x.do \notin {"clean", "extract"}
        BY DEF To
      <4> HIDE DEF A, B
      <4> QED
        BY <4>1, LedKept
    <3>2. ASSUME h \in B PROVE force \/ conf[DDService] # "own"
      <4>1. h.do = "folder" /\ h.of = "dd"
        BY <3>2 DEF To
      <4>2. SetsUp
        <5>1. ~Ends("error") /\ ~Ends("none") /\ ~Ends("ok")
          BY <1>4 DEF Ends
        <5> QED
          BY <1>4, <4>1, <5>1
          DEF Step, checkInstallDir, checkInstalledPackages, InstallPackage, install7z,
              downloadComponents, downloadChecked, downloadLatestSnapshot, increaseOpenFilesOnLinux,
              Agrees, Declines, Remove, Purge, Returns, Fails, Interrupted, Do
      <4>3. CreateFolder("dd", force)
        <5>1. ~Ends("exists")
          BY <1>4 DEF Ends
        <5> QED
          BY <4>1, <4>2, <5>1 DEF SetsUp, Do, Of
      <4> QED
        BY <4>3 DEF CreateFolder, SettingsInv, FolderOfSettings
    <3>3. force \/ conf[DDService] # "own" => (force \/ conf[DDService] # "own")'
      BY <1>0
    <3> HIDE DEF A, B, h
    <3>4. Led(todo, A, B, {}, FALSE) \/ ((force \/ conf[DDService] # "own") /\ Led(todo, A, B, {}, TRUE))
      BY DEF SettingsInv, ConfigLed, A, B
    <3>5. Led(todo', A, B, {}, FALSE) \/ ((force \/ conf[DDService] # "own")' /\ Led(todo', A, B, {}, TRUE))
      BY <3>1, <3>2, <3>3, <3>4
    <3> QED
      BY <3>5 DEF ConfigLed, A, B
  <2>2. ASSUME NEW t \in Tool PROVE PurgeLed(t)'
    <3> DEFINE A == {To("purge", t)}
               B == AsksFor(cmd, t)
    <3>1. /\ Led(todo, A, B, {}, TRUE) => Led(todo', A, B, {}, TRUE)
          /\ Led(todo, A, B, {}, FALSE) => Led(todo', A, B, {}, TRUE)
          /\ Led(todo, A, B, {}, FALSE) /\ h \notin B => Led(todo', A, B, {}, FALSE)
      <4>1. \A x \in B \cup {} : x.do \notin {"clean", "extract"}
        <5>1. ASSUME NEW x \in B PROVE x.do = "ask data"
          BY ToIs DEF AsksFor
        <5> QED
          BY <5>1
      <4> HIDE DEF A, B
      <4> QED
        BY <4>1, LedKept
    <3>2. ASSUME h \in B PROVE Covered(t)'
      <4>1. PICK u \in Tool : /\ h = To("ask data", u)
                              /\ \/ (u = t /\ ~cmd.deps) \/ t \in {RQService, DDService}
                                 \/ (cmd.deps /\ t \in Parts(cmd))
        BY <3>2 DEF AsksFor
      <4>2. h.do = "ask data" /\ h.of = u
        <5>1. To("ask data", u).do = "ask data" /\ To("ask data", u).of = u
          BY DEF To
        <5> HIDE DEF h
        <5> QED
          BY <4>1, <5>1
      <4>3. Agrees
        <5>1. ~Ends("error") /\ ~Ends("none") /\ ~Ends("ok")
          BY <1>4 DEF Ends
        <5> QED
          BY <1>4, <4>2, <5>1
          DEF Step, checkInstallDir, checkInstalledPackages, InstallPackage, install7z,
              downloadComponents, downloadChecked, downloadLatestSnapshot, increaseOpenFilesOnLinux,
              SetsUp, Declines, Remove, Purge, Returns, Fails, Interrupted, Do
      <4>4. asked' = asked \cup (IF cmd.deps THEN Parts(cmd) ELSE {u})
        BY <4>2, <4>3 DEF Agrees, Do, Of
      <4>5. Parts(cmd) # {}
        BY PartsOf DEF TypeOK
      <4> QED
        BY <4>1, <4>4, <4>5 DEF Covered
    <3>3. Covered(t) => Covered(t)'
      BY <1>0 DEF Covered
    <3> HIDE DEF A, B, h
    <3>4. Led(todo, A, B, {}, FALSE) \/ (Covered(t) /\ Led(todo, A, B, {}, TRUE))
      BY DEF SettingsInv, PurgeLed, A, B
    <3>5. Led(todo', A, B, {}, FALSE) \/ (Covered(t)' /\ Led(todo', A, B, {}, TRUE))
      BY <3>1, <3>2, <3>3, <3>4
    <3>6. cmd' = cmd
      BY <1>0
    <3> QED
      BY <3>5, <3>6 DEF PurgeLed, A, B
  <2> QED
    BY <1>1, <1>2, <2>1, <2>2 DEF SettingsInv
<1> QED
  BY <1>3, <1>4, StepDrops

\* A step that loses settings of the user's has been agreed to.
LEMMA StepLosesAgreed ==
  ASSUME TypeOK, TodoInv, SettingsInv, Step, NEW t \in Tool, conf[t] = "own", conf'[t] # "own"
  PROVE  cmd.force \/ Covered(t)
<1>0. Len(todo) \in Nat /\ todo \in Seq(PlannedCall)
  BY LenProperties DEF TodoInv
<1>l. ASSUME NEW A, NEW B, todo # <<>>, Head(todo) \in A PROVE ~Led(todo, A, B, {}, FALSE)
  <2>1. 1 \in 1 .. Len(todo) /\ todo[1] \in A /\ \A j \in 1 .. Len(todo) : ~(j < 1)
    BY <1>0, <1>l, EmptySeq
  <2> QED
    BY <2>1 DEF Led
<1>1. CASE SetsUp
  <2>1. Do("config") /\ Of = t /\ MayWrite(t)
    <3>1. Do("config") /\ Of = t
      BY <1>1 DEF SetsUp, CreateFolder, CreateAndWrite, CreateAndWriteBreaks, dataVars, TypeOK, FilesTypeOK
    <3>2. "own" # Missing
      BY ContentsAssumption
    <3> QED
      BY <1>1, <3>1, <3>2
      DEF SetsUp, CreateFolder, CreateAndWrite, CreateAndWriteBreaks, dataVars
  <2>2. ASSUME ~force PROVE FALSE
    <3>1. t = DDService
      BY <2>1, <2>2 DEF MayWrite
    <3>2. Head(todo) = To("config", DDService) /\ todo # <<>>
      <4>1. todo # <<>> /\ todo[1] \in PlannedCall /\ todo[1].do = "config" /\ todo[1].of = t
        BY <2>1, NextCall
      <4>2. todo[1] = To("config", t)
        BY <4>1, CallIsTo
      <4> QED
        BY <1>0, <3>1, <4>1, <4>2
    <3> QED
      BY <1>l, <2>2, <3>1, <3>2 DEF SettingsInv, ConfigLed
  <2> QED
    BY <2>2 DEF SettingsInv, ForceAgreed, Covered
<1>2. CASE Purge
  <2>1. Of = t /\ Do("purge")
    BY <1>2 DEF Purge, TypeOK, FilesTypeOK
  <2>2. Head(todo) = To("purge", t) /\ todo # <<>>
    <3>1. todo # <<>> /\ todo[1] \in PlannedCall /\ todo[1].do = "purge" /\ todo[1].of = t
      BY <2>1, NextCall
    <3>2. todo[1] = To("purge", t)
      BY <3>1, CallIsTo
    <3> QED
      BY <1>0, <3>1, <3>2
  <2> QED
    BY <1>l, <2>2 DEF SettingsInv, PurgeLed
<1>3. CASE Step /\ ~SetsUp /\ ~Purge
  BY <1>3
  DEF Step, checkInstallDir, checkInstalledPackages, InstallPackage, install7z, downloadComponents,
      downloadChecked, downloadLatestSnapshot, increaseOpenFilesOnLinux, Agrees, Declines, Remove,
      Returns, Fails, Interrupted, fileVars, dataVars
<1> QED
  BY <1>1, <1>2, <1>3

\* The user's settings are only lost with --force or when the user has agreed to
\* something: no command writes over them or purges them before it has asked.
THEOREM SettingsAskedForAlways == Spec => SettingsAskedFor
<1>1. Init => SettingsInv
  <2> SUFFICES ASSUME Init PROVE SettingsInv
    OBVIOUS
  <2>1. todo = <<>>
    BY DEF Init
  <2>2. ForceAgreed
    BY DEF Init, ForceAgreed
  <2>3. ASSUME NEW A, NEW B PROVE Led(todo, A, B, {}, FALSE)
    BY <2>1 DEF Led
  <2>4. ConfigLed /\ \A t \in Tool : PurgeLed(t)
    BY <2>3 DEF ConfigLed, PurgeLed
  <2>5. FolderOfSettings
    <3>1. DDService \in Tool /\ Missing # "own"
      BY Named, ContentsAssumption
    <3> QED
      BY <3>1 DEF Init, FolderOfSettings
  <2> QED
    BY <2>2, <2>4, <2>5 DEF SettingsInv
<1>2. TypeOK /\ TypeOK' /\ TodoInv /\ SettingsInv /\ [Next]_vars => SettingsInv'
  <2> SUFFICES ASSUME TypeOK, TypeOK', TodoInv, SettingsInv, [Next]_vars PROVE SettingsInv'
    OBVIOUS
  <2>1. CASE Publish \/ NodeSyncs \/ UNCHANGED vars
    <3>1. UNCHANGED <<conf, dirs, cmd, todo, force, asked>>
      BY <2>1 DEF Publish, NodeSyncs, vars, cmdVars, fileVars, dataVars
    <3> QED
      BY <3>1 DEF SettingsInv, FolderOfSettings, ForceAgreed, ConfigLed, PurgeLed, Covered
  <2>2. ASSUME NEW t \in {PastelD, SuperNode}, UserSets(t) PROVE SettingsInv'
    <3>1. UNCHANGED <<dirs, cmd, todo, force, asked>>
      BY <2>2 DEF UserSets, cmdVars
    <3>2. conf'[DDService] = conf[DDService]
      <4>1. t # DDService /\ DDService \in Tool
        BY Named DEF PastelD, SuperNode, DDService
      <4> QED
        BY <2>2, <4>1 DEF UserSets, TypeOK, FilesTypeOK
    <3> QED
      BY <3>1, <3>2 DEF SettingsInv, FolderOfSettings, ForceAgreed, ConfigLed, PurgeLed, Covered
  <2> QED
    BY <2>1, <2>2, BeginKeepsSettings, StepKeepsSettings DEF Next
<1>3. TypeOK /\ TodoInv /\ SettingsInv /\ [Next]_vars =>
        [\A t \in Tool : conf[t] = "own" /\ conf'[t] # "own" =>
           cmd.force \/ t \in asked \/ (t \in {RQService, DDService} /\ asked # {})]_vars
  <2> SUFFICES ASSUME TypeOK, TodoInv, SettingsInv, Next, NEW t \in Tool, conf[t] = "own", conf'[t] # "own"
               PROVE  cmd.force \/ t \in asked \/ (t \in {RQService, DDService} /\ asked # {})
    OBVIOUS
  <2>1. CASE Step
    BY <2>1, StepLosesAgreed DEF Covered
  <2>2. CASE Publish \/ NodeSyncs \/ \E c \in Commands : Begin(c)
    BY <2>2 DEF Publish, NodeSyncs, Begin, fileVars, dataVars
  <2>3. ASSUME NEW u \in {PastelD, SuperNode}, UserSets(u) PROVE FALSE
    BY <2>3 DEF UserSets, TypeOK, FilesTypeOK
  <2> QED
    BY <2>1, <2>2, <2>3 DEF Next
<1>4. Spec => []TypeOK
  BY TypeCorrect
<1>5. TodoInv /\ [Next]_vars => TodoInv'
  BY TodoKept
<1> QED
  BY <1>1, <1>2, <1>3, <1>4, <1>5, InitType, PTL DEF Spec, SettingsAskedFor

-----------------------------------------------------------------------------
(* What is installed is whole.                                               *)

\* An update writes no configuration.
NoConfig == {x \in PlannedCall : x.do # "config"}

LEMMA UpdatesWriteNoConfig ==
  ASSUME NEW c \in Command, c.op = "update" PROVE Installs(c) \in Seq(NoConfig)
<1> DEFINE Good(s) == s \in Seq(NoConfig)
<1>0. c.op # "install" /\ c.tool \in Tool
  BY DEF Command
<1>1. ASSUME NEW s, NEW t, Good(s), Good(t) PROVE Good(s \o t)
  BY <1>1, Joined
<1>2. ASSUME NEW do, NEW of, To(do, of) \in PlannedCall, do # "config" PROVE Good(Call(do, of))
  <2>1. To(do, of) \in NoConfig
    BY <1>2, ToIs DEF NoConfig
  <2> QED
    BY <2>1, CallIs
<1>3. ASSUME NEW b, NEW s, Good(s) PROVE Good(When(b, s))
  BY <1>3 DEF When
<1>4. ASSUME NEW s PROVE Good(When(c.op = "install", s))
  BY <1>0 DEF When
<1>5. ASSUME NEW t \in Tool PROVE Good(Get(t))
  <2>1. Get(t) \in Seq(FetchCall)
    BY GetBlock
  <2>2. FetchCall \subseteq NoConfig
    BY DEF FetchCall, NoConfig
  <2> QED
    BY <2>1, <2>2, SeqMonotonic
<1> HIDE DEF Good
<1>6. /\ \A f \in Exec : Good(Call("chmod", f))
      /\ \A f \in Folder : Good(Call("folder", f))
      /\ \A q \in Package : Good(Call("package", q))
      /\ \A k \in Checked : Good(Call("files", k))
      /\ \A t \in Tool : Good(Call("packages", t))
      /\ Good(Call("7z", "none")) /\ Good(Call("dir", "exec"))
      /\ Good(Call("snapshot", "none")) /\ Good(Call("clean", "none")) /\ Good(Call("extract", "none"))
  <2>1. ASSUME NEW f \in Exec PROVE Good(Call("chmod", f))
    BY <1>2 DEF PlannedCall, To
  <2>2. ASSUME NEW f \in Folder PROVE Good(Call("folder", f))
    BY <1>2 DEF PlannedCall, To
  <2>3. ASSUME NEW q \in Package PROVE Good(Call("package", q))
    BY <1>2 DEF PlannedCall, To
  <2>4. ASSUME NEW k \in Checked PROVE Good(Call("files", k))
    BY <1>2 DEF PlannedCall, To
  <2>5. ASSUME NEW t \in Tool PROVE Good(Call("packages", t))
    BY <1>2 DEF PlannedCall, To
  <2>6. ASSUME NEW do \in {"7z", "snapshot", "clean", "extract"} PROVE Good(Call(do, "none"))
    BY <1>2 DEF PlannedCall, To
  <2>7. Good(Call("dir", "exec"))
    BY <1>2 DEF PlannedCall, To
  <2> QED
    BY <2>1, <2>2, <2>3, <2>4, <2>5, <2>6, <2>7
<1>7. Good(Core(c))
  <2>1. Good(When(c.snapshot, LatestSnapshot))
    BY <1>1, <1>3, <1>6 DEF LatestSnapshot
  <2>2. Good(Get(PastelD) \o Call("chmod", PastelD) \o Call("chmod", "pastel-cli"))
    BY <1>1, <1>5, <1>6, Named
  <2> QED
    BY <1>1, <1>4, <2>1, <2>2 DEF Core
<1>8. Good(RaptorQ(c))
  <2>1. Good(Get(RQService) \o Call("chmod", RQService) \o Call("folder", "rqfiles"))
    BY <1>1, <1>5, <1>6, Named
  <2> QED
    BY <1>1, <1>4, <2>1 DEF RaptorQ
<1>9. ASSUME NEW t \in Tool PROVE Good(One(c, t))
  <2>1. Good(Get(t) \o Call("chmod", t))
    BY <1>1, <1>5, <1>6, Named
  <2> QED
    BY <1>1, <1>4, <2>1 DEF One
<1>10. Good(SuperNodes(c))
  <2>1. Good(Get(SuperNode) \o Get(Hermes))
    BY <1>1, <1>5, Named
  <2>2. Good(Get(SuperNode) \o Get(Hermes) \o Call("chmod", SuperNode) \o Call("chmod", Hermes))
    BY <1>1, <1>6, <2>1, Named
  <2>3. Good(Call("folder", "p2pdata"))
    BY <1>6, Named
  <2> QED
    BY <1>1, <1>4, <2>2, <2>3 DEF SuperNodes
<1>11. Good(DupeDetection(c))
  <2>1. Good(Get(DDService) \o Call("package", "chrome") \o Call("package", "venv"))
    BY <1>1, <1>5, <1>6, Named
  <2>2. Good(Get(DDService) \o Call("package", "chrome") \o Call("package", "venv")
             \o Call("folder", "dd") \o Call("files", "dd support"))
    BY <1>1, <1>6, <2>1, Named
  <2> QED
    BY <1>1, <1>4, <2>2 DEF DupeDetection
<1> DEFINE rest ==
      CASE c.tool = PastelD   -> Core(c)
        [] c.tool = RQService -> RaptorQ(c)
        [] c.tool = WalletNode -> When(c.deps, Core(c) \o RaptorQ(c)) \o One(c, WalletNode)
             \o Call("7z", "none")
        [] c.tool = SuperNode ->
             When(c.deps, Core(c) \o RaptorQ(c)) \o SuperNodes(c) \o When(c.deps, DupeDetection(c))
        [] c.tool = DDService -> DupeDetection(c)
        [] c.tool = Hermes    -> One(c, Hermes)
<1>12. Good(When(c.deps, Core(c) \o RaptorQ(c)))
  BY <1>1, <1>3, <1>7, <1>8
<1>13. Good(When(c.deps, Core(c) \o RaptorQ(c)) \o One(c, WalletNode) \o Call("7z", "none"))
  BY <1>1, <1>6, <1>9, <1>12, Named
<1>14. Good(When(c.deps, Core(c) \o RaptorQ(c)) \o SuperNodes(c) \o When(c.deps, DupeDetection(c)))
  BY <1>1, <1>3, <1>10, <1>11, <1>12
<1>15. Good(One(c, Hermes))
  BY <1>9, Named
<1>16. Good(rest)
  <2>1. CASE c.tool = PastelD
    BY <1>7, <2>1 DEF PastelD, RQService, WalletNode, SuperNode, DDService, Hermes
  <2>2. CASE c.tool = RQService
    BY <1>8, <2>2 DEF PastelD, RQService, WalletNode, SuperNode, DDService, Hermes
  <2>3. CASE c.tool = WalletNode
    BY <1>13, <2>3 DEF PastelD, RQService, WalletNode, SuperNode, DDService, Hermes
  <2>4. CASE c.tool = SuperNode
    BY <1>14, <2>4 DEF PastelD, RQService, WalletNode, SuperNode, DDService, Hermes
  <2>5. CASE c.tool = DDService
    BY <1>11, <2>5 DEF PastelD, RQService, WalletNode, SuperNode, DDService, Hermes
  <2>6. CASE c.tool = Hermes
    BY <1>15, <2>6 DEF PastelD, RQService, WalletNode, SuperNode, DDService, Hermes
  <2> QED
    BY <1>0, <2>1, <2>2, <2>3, <2>4, <2>5, <2>6, Named
<1> HIDE DEF rest
<1>17. Good(Call("dir", "exec") \o Call("packages", c.tool) \o rest)
  BY <1>0, <1>1, <1>6, <1>16
<1>18. Installs(c) = Call("dir", "exec") \o Call("packages", c.tool) \o rest
  BY DEF Installs, rest
<1> QED
  BY <1>17, <1>18 DEF Good

\* The executable f is of a release that came out no earlier than the command began.
Fresh(f) == exec[f] \in begun .. MaxRelease
Configured(t) == conf[t] \in {"default", "own"}

\* What a call is for has been achieved.
Done(x) ==
  /\ x.do \in {"download", "unzip"} => Fresh(x.of)
  /\ x.do = "chmod" => x.of \in runnable
  /\ x.do = "config" => Configured(x.of)
  /\ x.do = "packages" => Parts(cmd) \cap AptPackage \subseteq packages
  /\ x.do = "package" => Skips(x.of) \/ x.of \in packages
  /\ x.do = "files" => (Skips(x.of) /\ x.of = "dd support") \/ checked[x.of] = "good"

\* A command that installs or updates has done what it needs to do, or will.
Working == result = "running" /\ cmd.op # "uninstall"
ProgressInv == Working => \A x \in Need(cmd) : Done(x) \/ Has(todo, x)

\* It keeps to its own tools; an executable is made executable after it was written, and
\* the archive it is unpacked from was downloaded by the same command.
ZipLed(t) ==
  \/ Led(todo, Unzips(t), {To("download", t)}, {To("delete", t)}, FALSE)
  \/ /\ zip[t] \in begun .. MaxRelease
     /\ Led(todo, Unzips(t), {To("download", t)}, {To("delete", t)}, TRUE)
OwnInv ==
  Working => /\ todo \in Seq(Concerns(Parts(cmd)))
             /\ cmd.op = "update" => todo \in Seq(NoConfig)
OrderInv ==
  Working => /\ \A f \in Exec \ {DDService} : Followed(todo, Disturbs(f), To("chmod", f))
             /\ \A t \in Zipped : ZipLed(t)

\* What has been installed without an error has its configuration; what a command works
\* on does not count as whole, nor, if it is installed again, as installed.
Settled(t) ==
  /\ Configured(t)
  /\ t = PastelD => checked["params"] = "good"
  /\ t = SuperNode => "ports" \in packages
AppsInv ==
  /\ begun \in Nat /\ begun <= release
  /\ \A t \in apps : Settled(t)
  /\ Working => /\ Parts(cmd) \subseteq halfway
                /\ cmd.op = "install" => apps \cap Parts(cmd) = {}

\* The next call of an installation.
LEMMA FirstCall ==
  ASSUME TypeOK, TodoInv, OwnInv, Working, todo # <<>>
  PROVE  LET h == Head(todo) IN
         /\ h \in PlannedCall /\ h \in Concerns(Parts(cmd)) /\ h = To(h.do, h.of) /\ Of = h.of
         /\ cmd.op = "update" => h.do # "config"
         /\ \A do : Do(do) => h.do = do
         /\ Parts(cmd) \subseteq Tool
<1> DEFINE h == Head(todo)
<1>1. todo \in Seq(PlannedCall) /\ Len(todo) \in Nat \ {0} /\ 1 \in 1 .. Len(todo) /\ h = todo[1]
  BY EmptySeq DEF TodoInv
<1>2. h \in PlannedCall
  BY <1>1, ElementOfSeq
<1>3. h \in Concerns(Parts(cmd))
  BY <1>1, ElementOfSeq DEF OwnInv
<1>4. ASSUME cmd.op = "update" PROVE h.do # "config"
  <2>1. h \in NoConfig
    BY <1>1, <1>4, ElementOfSeq DEF OwnInv
  <2> QED
    BY <2>1 DEF NoConfig
<1>5. Of = h.of /\ \A do : Do(do) => h.do = do
  BY DEF Of, Do
<1>6. Parts(cmd) \subseteq Tool
  BY DEF Parts
<1> QED
  BY <1>2, <1>3, <1>4, <1>5, <1>6, CallIsTo

\* What a step of an installation changes is what its call is about.
LEMMA InstallEffect ==
  ASSUME TypeOK, TodoInv, OwnInv, Working, Step
  PROVE  LET h == Head(todo) IN
         /\ \A f \in Exec : exec'[f] # exec[f] => h \in Disturbs(f)
         /\ \A f \in Exec : f \in runnable /\ f \notin runnable' => h \in Disturbs(f)
         /\ \A t \in Tool : conf'[t] # conf[t] => h = To("config", t)
         /\ \A k \in Checked : checked'[k] # checked[k] => h = To("files", k)
         /\ packages \subseteq packages'
         /\ todo = <<>> => UNCHANGED <<exec, runnable, conf, checked, packages>>
<1> DEFINE h == Head(todo)
<1>0. ASSUME todo # <<>>
      PROVE  /\ h \in PlannedCall /\ h \in Concerns(Parts(cmd)) /\ h = To(h.do, h.of) /\ Of = h.of
             /\ \A do : Do(do) => h.do = do
  BY <1>0, FirstCall
<1>d. \A do : Do(do) => todo # <<>>
  BY DEF Do
<1>1. CASE UNCHANGED <<exec, runnable, conf, checked, packages>>
  BY <1>1
<1>2. CASE checkInstallDir \/ Agrees \/ Declines \/ Returns \/ Fails \/ Interrupted
           \/ downloadLatestSnapshot \/ increaseOpenFilesOnLinux
  BY <1>1, <1>2
  DEF checkInstallDir, Agrees, Declines, Returns, Fails, Interrupted, downloadLatestSnapshot,
      increaseOpenFilesOnLinux, fileVars, binVars, dataVars
<1>3. CASE Remove \/ Purge
  <2>1. PICK do \in {"remove", "purge"} : Do(do)
    BY <1>3 DEF Remove, Purge
  <2>2. h.do \in {"remove", "purge"}
    BY <1>0, <1>d, <2>1
  <2> QED
    BY <1>0, <1>d, <2>1, <2>2 DEF Concerns
<1>4. CASE checkInstalledPackages \/ InstallPackage \/ install7z
  <2>1. UNCHANGED <<exec, runnable, conf, checked>> /\ todo # <<>>
    BY <1>4 DEF checkInstalledPackages, InstallPackage, install7z, fileVars, binVars, dataVars, Do
  <2>2. packages \subseteq packages'
    BY <1>4 DEF checkInstalledPackages, InstallPackage, install7z
  <2> QED
    BY <2>1, <2>2
<1>5. CASE downloadComponents
  <2>1. UNCHANGED <<conf, checked, packages>> /\ todo # <<>>
    BY <1>5 DEF downloadComponents, dataVars, Do
  <2>2. /\ \A f \in Exec : exec'[f] # exec[f] => h \in Disturbs(f)
        /\ \A f \in Exec : f \in runnable /\ f \notin runnable' => h \in Disturbs(f)
    <3>1. CASE Do("download") /\ DownloadFile(Of, release)
      <4>1. h = To("download", Of)
        BY <1>0, <2>1, <3>1
      <4>2. \A f \in Exec : f # Of => exec'[f] = exec[f] /\ (f \in runnable => f \in runnable')
        BY <3>1 DEF DownloadFile, TypeOK, FilesTypeOK
      <4> QED
        BY <4>1, <4>2 DEF Disturbs
    <3>2. CASE Do("unzip") /\ ((\E t \in Zipped : Unzip(t, Of)) \/ UnzipBreaks(Of))
      <4>1. h = To("unzip", Of)
        BY <1>0, <2>1, <3>2
      <4>2. \A f \in Exec : f # Of => exec'[f] = exec[f] /\ (f \in runnable => f \in runnable')
        BY <3>2 DEF Unzip, UnzipBreaks, TypeOK, FilesTypeOK
      <4> QED
        BY <4>1, <4>2 DEF Disturbs
    <3>3. CASE Do("delete") /\ DeleteArchive(Of)
      BY <3>3 DEF DeleteArchive
    <3>4. CASE Do("chmod") /\ makeExecutable(Of)
      BY <3>4 DEF makeExecutable
    <3> QED
      BY <1>5, <3>1, <3>2, <3>3, <3>4 DEF downloadComponents
  <2> QED
    BY <2>1, <2>2
<1>6. CASE SetsUp
  <2>1. UNCHANGED <<exec, runnable, checked, packages>> /\ todo # <<>>
    BY <1>6 DEF SetsUp, binVars, dataVars, CreateFolder, CreateAndWrite, CreateAndWriteBreaks, Do
  <2>2. ASSUME NEW t \in Tool, conf'[t] # conf[t] PROVE h = To("config", t)
    <3>1. Do("config") /\ Of = t
      BY <1>6, <2>2
      DEF SetsUp, CreateFolder, CreateAndWrite, CreateAndWriteBreaks, dataVars, TypeOK, FilesTypeOK
    <3> QED
      BY <1>0, <2>1, <3>1
  <2> QED
    BY <2>1, <2>2
<1>7. CASE downloadChecked
  <2>1. UNCHANGED <<exec, runnable, conf, packages>> /\ todo # <<>> /\ Do("files")
    BY <1>7 DEF downloadChecked, binVars, Do
  <2>2. ASSUME NEW k \in Checked, checked'[k] # checked[k] PROVE h = To("files", k)
    <3>1. Of = k
      BY <1>7, <2>2 DEF downloadChecked, TypeOK, FilesTypeOK
    <3> QED
      BY <1>0, <2>1, <3>1
  <2> QED
    BY <2>1, <2>2
<1> QED
  BY <1>2, <1>3, <1>4, <1>5, <1>6, <1>7 DEF Step

\* A call of an installation that does not end it has achieved what it is for.
LEMMA InstallGains ==
  ASSUME TypeOK, TodoInv, OwnInv, OrderInv, AppsInv, Working, Step, result' = "running",
         todo # <<>>
  PROVE  LET h == Head(todo) IN
         /\ \A f \in Exec : h \in Disturbs(f) /\ ~(h.do = "download" /\ f \in Zipped) => Fresh(f)'
         /\ h.do = "chmod" => h.of \in runnable'
         /\ h.do = "config" => conf'[h.of] \in {"default", "own"}
         /\ h.do = "packages" => Parts(cmd) \cap AptPackage \subseteq packages'
         /\ h.do = "package" => Skips(h.of) \/ h.of \in packages'
         /\ h.do = "files" => (Skips(h.of) /\ h.of = "dd support") \/ checked'[h.of] = "good"
         /\ h.do = "download" /\ h.of \in Zipped => zip'[h.of] \in begun .. MaxRelease
         /\ \A t \in Zipped : zip'[t] # zip[t] => h \in {To("download", t), To("delete", t)}
<1> DEFINE h == Head(todo)
<1>0. /\ h \in PlannedCall /\ h \in Concerns(Parts(cmd)) /\ h = To(h.do, h.of) /\ Of = h.of
      /\ \A do : Do(do) => h.do = do
  BY FirstCall
<1>1. ~Ends("error") /\ ~Ends("none") /\ ~Ends("ok") /\ ~Ends("exists")
  BY DEF Ends
<1>2. begun' = begun /\ release \in begun .. MaxRelease
  BY StepDrops, ReleaseAssumption DEF AppsInv, TypeOK, Release
<1>k. /\ h.do \in {"download", "delete", "config"} => h.of \in Tool
      /\ h.do \in {"unzip", "chmod"} => h.of \in Exec
      /\ h.do = "files" => h.of \in Checked
  BY <1>0, CallKinds
<1>3. CASE h.do = "download"
  <2>1. downloadComponents
    BY <1>1, <1>3
    DEF Step, checkInstallDir, checkInstalledPackages, InstallPackage, install7z, SetsUp,
        downloadChecked, downloadLatestSnapshot, increaseOpenFilesOnLinux, Agrees, Declines, Remove,
        Purge, Returns, Fails, Interrupted, Do
  <2>2. DownloadFile(h.of, release)
    BY <1>0, <1>3, <2>1 DEF downloadComponents, Do
  <2>3. ASSUME NEW f \in Exec, h \in Disturbs(f), f \notin Zipped PROVE Fresh(f)'
    <3>1. h.of = f
      BY <2>3, ToIs DEF Disturbs
    <3>2. exec' = [exec EXCEPT ![f] = release]
      BY <2>2, <2>3, <3>1 DEF DownloadFile
    <3> QED
      BY <1>2, <3>2 DEF Fresh, TypeOK, FilesTypeOK
  <2>4. h.of \in Zipped => zip'[h.of] \in begun .. MaxRelease
    BY <1>2, <2>2 DEF DownloadFile, TypeOK, FilesTypeOK
  <2>5. ASSUME NEW t \in Zipped, zip'[t] # zip[t] PROVE h = To("download", t)
    <3>1. h.of = t
      BY <2>2, <2>5 DEF DownloadFile, TypeOK, FilesTypeOK
    <3> QED
      BY <1>0, <1>3, <3>1
  <2> QED
    BY <1>3, <2>3, <2>4, <2>5
<1>4. CASE h.do = "unzip"
  <2>1. downloadComponents
    BY <1>1, <1>4
    DEF Step, checkInstallDir, checkInstalledPackages, InstallPackage, install7z, SetsUp,
        downloadChecked, downloadLatestSnapshot, increaseOpenFilesOnLinux, Agrees, Declines, Remove,
        Purge, Returns, Fails, Interrupted, Do
  <2>2. PICK t \in Zipped : (\E i \in DOMAIN Execs[t] : Execs[t][i] = h.of) /\ Unzip(t, h.of)
    BY <1>0, <1>1, <1>4, <2>1 DEF downloadComponents, Do
  <2>3. h \in Unzips(t)
    BY <1>0, <1>4, <2>2 DEF Unzips, Files
  <2>4. zip[t] \in begun .. MaxRelease
    <3>1. 1 \in 1 .. Len(todo) /\ todo[1] = h
      BY EmptySeq DEF TodoInv
    <3>2. ~Led(todo, Unzips(t), {To("download", t)}, {To("delete", t)}, FALSE)
      BY <2>3, <3>1 DEF Led
    <3> QED
      BY <3>2 DEF OrderInv, ZipLed
  <2>5. ASSUME NEW f \in Exec, h \in Disturbs(f) PROVE Fresh(f)'
    <3>1. h.of = f
      BY <2>5, ToIs DEF Disturbs
    <3>2. exec' = [exec EXCEPT ![f] = zip[t]]
      BY <2>2, <3>1 DEF Unzip
    <3> QED
      BY <1>2, <2>4, <3>2 DEF Fresh, TypeOK, FilesTypeOK
  <2>6. zip' = zip
    BY <2>2 DEF Unzip
  <2> QED
    BY <1>4, <2>5, <2>6
<1>d. h.do \notin {"download", "unzip"} => \A f \in Exec : h \notin Disturbs(f)
  BY ToIs DEF Disturbs
<1>5. CASE h.do \in {"delete", "chmod"}
  <2>1. downloadComponents
    BY <1>1, <1>5
    DEF Step, checkInstallDir, checkInstalledPackages, InstallPackage, install7z, SetsUp,
        downloadChecked, downloadLatestSnapshot, increaseOpenFilesOnLinux, Agrees, Declines, Remove,
        Purge, Returns, Fails, Interrupted, Do
  <2>2. CASE h.do = "delete"
    <3>1. DeleteArchive(h.of)
      BY <1>0, <2>1, <2>2 DEF downloadComponents, Do
    <3>2. ASSUME NEW t \in Zipped, zip'[t] # zip[t] PROVE h = To("delete", t)
      <4>1. h.of = t
        BY <3>1, <3>2 DEF DeleteArchive, TypeOK, FilesTypeOK
      <4> QED
        BY <1>0, <2>2, <4>1
    <3> QED
      BY <1>d, <2>2, <3>2
  <2>3. CASE h.do = "chmod"
    <3>1. makeExecutable(h.of)
      BY <1>0, <2>1, <2>3 DEF downloadComponents, Do
    <3> QED
      BY <1>d, <2>3, <3>1 DEF makeExecutable
  <2> QED
    BY <1>5, <2>2, <2>3
<1>6. ASSUME h.do \notin {"download", "unzip", "delete", "chmod"} PROVE zip' = zip
  <2>1. ~downloadComponents /\ ~Remove
    BY <1>0, <1>6 DEF downloadComponents, Remove, Do, Concerns
  <2> QED
    BY <2>1
    DEF Step, checkInstallDir, checkInstalledPackages, InstallPackage, install7z, SetsUp,
        downloadChecked, downloadLatestSnapshot, increaseOpenFilesOnLinux, Agrees, Declines, Remove,
        Purge, Returns, Fails, Interrupted, fileVars, binVars
<1>7. CASE h.do = "config"
  <2>1. SetsUp
    BY <1>1, <1>7
    DEF Step, checkInstallDir, checkInstalledPackages, InstallPackage, install7z, downloadComponents,
        downloadChecked, downloadLatestSnapshot, increaseOpenFilesOnLinux, Agrees, Declines, Remove,
        Purge, Returns, Fails, Interrupted, Do
  <2>2. CreateAndWrite(h.of, MayWrite(h.of))
    BY <1>0, <1>1, <1>7, <2>1 DEF SetsUp, Do
  <2>3. conf'[h.of] = "default"
    BY <1>7, <1>k, <2>2 DEF CreateAndWrite, TypeOK, FilesTypeOK
  <2> QED
    BY <1>6, <1>7, <1>d, <2>3
<1>8. CASE h.do \in {"packages", "package"}
  <2>1. checkInstalledPackages \/ InstallPackage
    BY <1>1, <1>8
    DEF Step, checkInstallDir, install7z, downloadComponents, SetsUp,
        downloadChecked, downloadLatestSnapshot, increaseOpenFilesOnLinux, Agrees, Declines, Remove,
        Purge, Returns, Fails, Interrupted, Do
  <2>2. h.do = "packages" => Parts(cmd) \cap AptPackage \subseteq packages'
    BY <1>1, <2>1 DEF checkInstalledPackages, InstallPackage, Do
  <2>3. h.do = "package" => Skips(h.of) \/ h.of \in packages'
    BY <1>0, <2>1 DEF checkInstalledPackages, InstallPackage, Do
  <2> QED
    BY <1>6, <1>8, <1>d, <2>2, <2>3
<1>9. CASE h.do = "files"
  <2>1. downloadChecked
    BY <1>1, <1>9
    DEF Step, checkInstallDir, checkInstalledPackages, InstallPackage, install7z, downloadComponents,
        SetsUp, downloadLatestSnapshot, increaseOpenFilesOnLinux, Agrees, Declines, Remove,
        Purge, Returns, Fails, Interrupted, Do
  <2>2. (Skips(h.of) /\ h.of = "dd support") \/ checked' = [checked EXCEPT ![h.of] = "good"]
    BY <1>0, <1>1, <2>1 DEF downloadChecked
  <2>3. (Skips(h.of) /\ h.of = "dd support") \/ checked'[h.of] = "good"
    BY <1>9, <1>k, <2>2 DEF TypeOK, FilesTypeOK
  <2> QED
    BY <1>6, <1>9, <1>d, <2>3
<1>10. CASE h.do \notin {"download", "unzip", "delete", "chmod", "config", "packages", "package", "files"}
  BY <1>6, <1>10, <1>d
<1> QED
  BY <1>3, <1>4, <1>5, <1>7, <1>8, <1>9, <1>10

\* The download of an archive leaves the executables alone.
LEMMA ZippedDownload ==
  ASSUME TypeOK, TodoInv, OwnInv, Working, Step, result' = "running", todo # <<>>,
         Head(todo).do = "download", Head(todo).of \in Zipped
  PROVE  exec' = exec
<1>1. ~Ends("error") /\ ~Ends("none") /\ ~Ends("ok") /\ ~Ends("exists")
  BY DEF Ends
<1>2. downloadComponents
  BY <1>1
  DEF Step, checkInstallDir, checkInstalledPackages, InstallPackage, install7z, SetsUp,
      downloadChecked, downloadLatestSnapshot, increaseOpenFilesOnLinux, Agrees, Declines, Remove,
      Purge, Returns, Fails, Interrupted, Do
<1>3. DownloadFile(Of, release)
  BY <1>2 DEF downloadComponents, Do
<1> QED
  BY <1>3 DEF DownloadFile, Of

\* What a command needs to do, by kind.
LEMMA NeedKinds ==
  ASSUME NEW c, Parts(c) \subseteq Tool, NEW x \in Need(c)
  PROVE  /\ x = To(x.do, x.of)
         /\ x.do \in {"download", "unzip", "chmod", "config", "packages", "package", "files"}
         /\ x.do \in {"download", "unzip"} => x.of \in Exec /\ x \in Disturbs(x.of)
         /\ x.do = "download" => x.of \notin Zipped
         /\ x.do = "chmod" => x.of \in Exec \ {DDService}
         /\ x.do = "config" => x.of \in Tool
         /\ x.do = "packages" => x.of = c.tool
         /\ x.do = "files" => x.of \in Checked
<1>1. CASE x = To("packages", c.tool)
  BY <1>1, ToIs
<1>2. ASSUME NEW t \in Parts(c), x \in Fetches(t)
      PROVE  /\ x = To(x.do, x.of) /\ x.do \in {"download", "unzip"}
             /\ x.of \in Exec /\ x \in Disturbs(x.of)
             /\ x.do = "download" => x.of \notin Zipped
  <2>1. CASE t \in Zipped
    <3>1. PICK f \in Files(t) : x = To("unzip", f)
      BY <1>2, <2>1 DEF Fetches, Unzips
    <3>2. f \in Exec /\ x.do = "unzip" /\ x.of = f
      BY <3>1, FilesOf, ToIs
    <3> QED
      BY <3>1, <3>2 DEF Disturbs
  <2>2. CASE t \notin Zipped
    <3>1. x = To("download", t) /\ t \in Exec
      BY <1>2, <2>2, Named DEF Fetches
    <3>2. x.do = "download" /\ x.of = t
      BY <3>1, ToIs
    <3> QED
      BY <2>2, <3>1, <3>2 DEF Disturbs
  <2> QED
    BY <2>1, <2>2
<1>3. ASSUME NEW t \in Parts(c), t # DDService, NEW f \in Files(t), x = To("chmod", f)
      PROVE  x = To(x.do, x.of) /\ x.do = "chmod" /\ x.of \in Exec \ {DDService}
  <2>1. f \in Exec /\ f # DDService
    BY <1>3, FilesOf, Named DEF PastelD, DDService
  <2> QED
    BY <1>3, <2>1, ToIs
<1>4. ASSUME x \in {To("files", "dd support"), To("package", "chrome"), To("package", "venv"),
                    To("files", "params"), To("package", "ports")}
      PROVE  x = To(x.do, x.of) /\ x.do \in {"files", "package"} /\ (x.do = "files" => x.of \in Checked)
  <2>1. CASE x \in {To("files", "dd support"), To("files", "params")}
    <3>1. x.do = "files" /\ x.of \in Checked /\ x = To(x.do, x.of)
      BY <2>1, ToIs, Named
    <3> QED
      BY <3>1
  <2>2. CASE x \in {To("package", "chrome"), To("package", "venv"), To("package", "ports")}
    <3>1. x.do = "package" /\ x = To(x.do, x.of)
      BY <2>2, ToIs
    <3> QED
      BY <3>1
  <2> QED
    BY <1>4, <2>1, <2>2
<1>5. ASSUME NEW t \in Parts(c), x = To("config", t)
      PROVE  x = To(x.do, x.of) /\ x.do = "config" /\ x.of \in Tool
  BY <1>5, ToIs
<1>6. ASSUME NEW t \in Parts(c), x \in NeedOf(c, t)
      PROVE  \/ x \in Fetches(t) \/ (t # DDService /\ \E f \in Files(t) : x = To("chmod", f))
             \/ x = To("config", t)
             \/ x \in {To("files", "dd support"), To("package", "chrome"), To("package", "venv"),
                       To("files", "params"), To("package", "ports")}
  BY <1>6 DEF NeedOf
<1> QED
  BY <1>1, <1>2, <1>3, <1>4, <1>5, <1>6 DEF Need

\* What is done stays done, or will be done again.
LEMMA StepKeepsProgress ==
  ASSUME TypeOK, TodoInv, OwnInv, OrderInv, AppsInv, ProgressInv, Working, Step, result' = "running",
         NEW x \in Need(cmd)
  PROVE  Done(x)' \/ Has(todo', x)
<1> DEFINE h == Head(todo)
<1>0. /\ x = To(x.do, x.of)
      /\ x.do \in {"download", "unzip", "chmod", "config", "packages", "package", "files"}
      /\ x.do \in {"download", "unzip"} => x.of \in Exec /\ x \in Disturbs(x.of)
      /\ x.do = "download" => x.of \notin Zipped
      /\ x.do = "chmod" => x.of \in Exec \ {DDService}
      /\ x.do = "config" => x.of \in Tool
      /\ x.do = "files" => x.of \in Checked
  <2>1. Parts(cmd) \subseteq Tool
    BY DEF Parts
  <2> QED
    BY <2>1, NeedKinds
<1>1. todo # <<>> /\ UNCHANGED <<cmd, begun>>
  BY StepDrops
<1>2. /\ \A f \in Exec : exec'[f] # exec[f] => h \in Disturbs(f)
      /\ \A f \in Exec : f \in runnable /\ f \notin runnable' => h \in Disturbs(f)
      /\ \A t \in Tool : conf'[t] # conf[t] => h = To("config", t)
      /\ \A k \in Checked : checked'[k] # checked[k] => h = To("files", k)
      /\ packages \subseteq packages'
  BY InstallEffect
<1>3. /\ \A f \in Exec : h \in Disturbs(f) /\ ~(h.do = "download" /\ f \in Zipped) => Fresh(f)'
      /\ h.do = "chmod" => h.of \in runnable'
      /\ h.do = "config" => conf'[h.of] \in {"default", "own"}
      /\ h.do = "packages" => Parts(cmd) \cap AptPackage \subseteq packages'
      /\ h.do = "package" => Skips(h.of) \/ h.of \in packages'
      /\ h.do = "files" => (Skips(h.of) /\ h.of = "dd support") \/ checked'[h.of] = "good"
  BY <1>1, InstallGains
<1>4. \A y : Skips(y)' <=> Skips(y)
  BY <1>1 DEF Skips
<1>5. Done(x) \/ Has(todo, x)
  BY DEF ProgressInv
<1>6. ASSUME Has(todo, x), h # x PROVE Has(todo', x)
  BY <1>0, <1>6, HasKept
<1>7. \A f : h \in Disturbs(f) => h.do \in {"download", "unzip"} /\ h.of = f
  BY ToIs DEF Disturbs
<1> HIDE DEF h
<1>8. CASE x.do \in {"download", "unzip"}
  <2> DEFINE f == x.of
  <2>1. CASE exec'[f] = exec[f] /\ Fresh(f)
    BY <1>1, <1>8, <2>1 DEF Done, Fresh
  <2>2. CASE h \in Disturbs(f)
    <3>1. CASE ~(h.do = "download" /\ f \in Zipped)
      <4>1. Fresh(x.of)'
        BY <1>0, <1>3, <1>8, <2>2, <3>1
      <4> QED
        BY <1>8, <4>1 DEF Done
    <3>2. CASE h.do = "download" /\ f \in Zipped
      <4>1. exec'[f] = exec[f]
        <5>1. h.of = f
          BY <1>7, <2>2
        <5> QED
          BY <1>1, <3>2, <5>1, ZippedDownload DEF h
      <4>2. h # x
        BY <1>0, <3>2
      <4> QED
        BY <1>1, <1>5, <1>6, <1>8, <4>1, <4>2 DEF Done, Fresh
    <3> QED
      BY <3>1, <3>2
  <2>3. CASE h \notin Disturbs(f)
    <3>1. exec'[f] = exec[f] /\ h # x
      BY <1>0, <1>2, <1>8, <2>3
    <3> QED
      BY <1>1, <1>5, <1>6, <1>8, <3>1 DEF Done, Fresh
  <2> QED
    BY <2>2, <2>3
<1>9. CASE x.do = "chmod"
  <2> DEFINE f == x.of
  <2>1. CASE h = x
    BY <1>3, <1>9, <2>1 DEF Done
  <2>2. CASE h \in Disturbs(f) /\ h # x
    <3>1. 1 \in 1 .. Len(todo) /\ todo[1] = h
      BY <1>1, EmptySeq DEF TodoInv, h
    <3>2. Followed(todo, Disturbs(f), To("chmod", f))
      BY <1>0, <1>9 DEF OrderInv
    <3>3. Has(todo, x)
      BY <1>0, <1>9, <2>2, <3>1, <3>2 DEF Followed, Has
    <3> QED
      BY <1>6, <2>2, <3>3
  <2>3. CASE h \notin Disturbs(f) /\ h # x
    <3>1. f \in runnable => f \in runnable'
      BY <1>0, <1>2, <1>9, <2>3
    <3> QED
      BY <1>5, <1>6, <1>9, <2>3, <3>1 DEF Done
  <2> QED
    BY <2>1, <2>2, <2>3
<1>10. CASE x.do = "config"
  <2>1. CASE h = x
    BY <1>3, <1>10, <2>1 DEF Done, Configured
  <2>2. CASE h # x
    <3>1. conf'[x.of] = conf[x.of]
      BY <1>0, <1>2, <1>10, <2>2
    <3> QED
      BY <1>5, <1>6, <1>10, <2>2, <3>1 DEF Done, Configured
  <2> QED
    BY <2>1, <2>2
<1>11. CASE x.do = "packages"
  <2>1. CASE h = x
    BY <1>1, <1>3, <1>11, <2>1 DEF Done
  <2>2. CASE h # x
    BY <1>1, <1>2, <1>5, <1>6, <1>11, <2>2 DEF Done
  <2> QED
    BY <2>1, <2>2
<1>12. CASE x.do = "package"
  <2>1. CASE h = x
    <3>1. Skips(x.of)' \/ x.of \in packages'
      BY <1>3, <1>4, <1>12, <2>1
    <3> QED
      BY <1>12, <3>1 DEF Done
  <2>2. CASE h # x
    <3>1. Done(x) => Skips(x.of)' \/ x.of \in packages'
      BY <1>2, <1>4, <1>12 DEF Done
    <3>2. Done(x) => Done(x)'
      BY <1>12, <3>1 DEF Done
    <3> QED
      BY <1>5, <1>6, <2>2, <3>2
  <2> QED
    BY <2>1, <2>2
<1>13. CASE x.do = "files"
  <2>1. CASE h = x
    <3>1. (Skips(x.of)' /\ x.of = "dd support") \/ checked'[x.of] = "good"
      BY <1>3, <1>4, <1>13, <2>1
    <3> QED
      BY <1>13, <3>1 DEF Done
  <2>2. CASE h # x
    <3>1. checked'[x.of] = checked[x.of]
      BY <1>0, <1>2, <1>13, <2>2
    <3>2. Done(x) => (Skips(x.of)' /\ x.of = "dd support") \/ checked'[x.of] = "good"
      BY <1>4, <1>13, <3>1 DEF Done
    <3>3. Done(x) => Done(x)'
      BY <1>13, <3>2 DEF Done
    <3> QED
      BY <1>5, <1>6, <2>2, <3>3
  <2> QED
    BY <2>1, <2>2
<1> QED
  BY <1>0, <1>8, <1>9, <1>10, <1>11, <1>12, <1>13

LEMMA StepKeepsOrder ==
  ASSUME TypeOK, TodoInv, OwnInv, OrderInv, AppsInv, Step PROVE OrderInv'
<1> SUFFICES ASSUME Working'
             PROVE  /\ \A f \in Exec \ {DDService} : Followed(todo', Disturbs(f), To("chmod", f))
                    /\ \A t \in Zipped : ZipLed(t)'
  BY DEF OrderInv
<1> DEFINE h == Head(todo)
<1>1. Working /\ result' = "running" /\ todo # <<>> /\ UNCHANGED <<cmd, begun>>
  BY StepDrops DEF Working
<1>2. ASSUME NEW f \in Exec \ {DDService} PROVE Followed(todo', Disturbs(f), To("chmod", f))
  BY <1>1, FollowedKept DEF OrderInv
<1>3. ASSUME NEW t \in Zipped PROVE ZipLed(t)'
  <2> DEFINE A == Unzips(t)
             B == {To("download", t)}
             N == {To("delete", t)}
  <2>1. /\ Led(todo, A, B, N, TRUE) => Led(todo', A, B, N, TRUE)
        /\ Led(todo, A, B, N, FALSE) => Led(todo', A, B, N, TRUE)
        /\ Led(todo, A, B, N, FALSE) /\ h \notin B => Led(todo', A, B, N, FALSE)
        /\ Led(todo, A, B, N, TRUE) /\ h \in N /\ h \notin B => Led(todo', A, B, N, FALSE)
    <3>1. \A x \in B \cup N : x.do \notin {"clean", "extract"}
      BY DEF To
    <3> HIDE DEF A, B, N
    <3> QED
      BY <3>1, LedKept
  <2>2. /\ h.do = "download" /\ h.of \in Zipped => zip'[h.of] \in begun .. MaxRelease
        /\ zip'[t] # zip[t] => h \in {To("download", t), To("delete", t)}
    BY <1>1, InstallGains
  <2>3. h \in B => h.do = "download" /\ h.of = t
    BY ToIs
  <2>4. h \in B => zip'[t] \in begun .. MaxRelease
    BY <2>2, <2>3
  <2>5. h \notin B /\ h \notin N => zip'[t] = zip[t]
    BY <2>2
  <2>6. Led(todo, A, B, N, FALSE) \/ (zip[t] \in begun .. MaxRelease /\ Led(todo, A, B, N, TRUE))
    BY <1>1 DEF OrderInv, ZipLed
  <2> HIDE DEF A, B, N, h
  <2>7. Led(todo', A, B, N, FALSE) \/ (zip'[t] \in begun .. MaxRelease /\ Led(todo', A, B, N, TRUE))
    BY <2>1, <2>4, <2>5, <2>6
  <2> QED
    BY <1>1, <2>7 DEF ZipLed, A, B, N
<1> QED
  BY <1>2, <1>3

LEMMA StepKeepsOwn ==
  ASSUME TodoInv, OwnInv, Step PROVE OwnInv'
<1>1. ASSUME NEW S, todo \in Seq(S) PROVE todo' \in Seq(S)
  <2>1. CASE todo' = <<>>
    BY <2>1
  <2>2. CASE \E n \in 1 .. 3 : Skip(n)
    <3>1. PICK n \in 1 .. 3 : Skip(n)
      BY <2>2
    <3>2. n \in Nat /\ todo' = SubSeq(todo, n + 1, Len(todo))
      BY <3>1 DEF Skip
    <3> QED
      BY <1>1, <3>2, Dropped
  <2> QED
    BY <2>1, <2>2, StepDrops
<1>2. Working' => Working /\ cmd' = cmd
  BY StepDrops DEF Working
<1> QED
  BY <1>1, <1>2 DEF OwnInv

\* A step leaves the tools alone that it is not about: of what is still installed, all but
\* those the command installs.
LEMMA OthersKept ==
  ASSUME TypeOK, TodoInv, OwnInv, Step, NEW t \in Tool, t \in apps', Working => t \notin Parts(cmd)
  PROVE  /\ \A f \in Files(t) : exec'[f] = exec[f] /\ (f \in runnable => f \in runnable')
         /\ conf'[t] = conf[t]
         /\ t = PastelD => checked'["params"] = checked["params"]
         /\ t = DDService => checked'["dd support"] = checked["dd support"]
         /\ \A q \in packages : q \in packages' \/ (q = "venv" /\ t # DDService)
<1> DEFINE h == Head(todo)
<1>0. Files(t) \subseteq Exec /\ \A f : f \in Files(t) => \E i \in DOMAIN Execs[t] : Execs[t][i] = f
  BY FilesOf DEF Files
<1>1. result = "running"
  BY StepDrops
<1>2. CASE Working
  <2>1. /\ \A f \in Exec : exec'[f] # exec[f] => h \in Disturbs(f)
        /\ \A f \in Exec : f \in runnable /\ f \notin runnable' => h \in Disturbs(f)
        /\ \A v \in Tool : conf'[v] # conf[v] => h = To("config", v)
        /\ \A k \in Checked : checked'[k] # checked[k] => h = To("files", k)
        /\ packages \subseteq packages'
        /\ todo = <<>> => UNCHANGED <<exec, runnable, conf, checked, packages>>
    BY <1>2, InstallEffect
  <2>2. CASE todo = <<>>
    BY <2>1, <2>2
  <2>3. CASE todo # <<>>
    <3>1. h \in Concerns(Parts(cmd)) /\ Parts(cmd) \subseteq Tool /\ t \notin Parts(cmd)
      BY <1>2, <2>3, FirstCall
    <3>9. h.do \in {"download", "config"} => h.of \in Parts(cmd)
      BY <3>1 DEF Concerns
    <3>2. h # To("config", t)
      BY <3>1, <3>9, ToIs
    <3>3. t = PastelD => h # To("files", "params")
      BY <3>1 DEF Concerns
    <3>4. t = DDService => h # To("files", "dd support")
      BY <3>1 DEF Concerns
    <3>5. ASSUME NEW f \in Files(t) PROVE h \notin Disturbs(f)
      <4>1. CASE h = To("download", f)
        <5>1. f \in Parts(cmd)
          BY <3>9, <4>1, ToIs
        <5>2. f \in Files(f)
          BY <3>1, <5>1, FilesOf
        <5> QED
          BY <3>1, <3>5, <5>1, <5>2, FilesApart
      <4>2. CASE h = To("unzip", f)
        <5>0. h.do = "unzip" /\ h.of = f
          BY <4>2, ToIs
        <5>1. PICK v \in Parts(cmd) : f \in Files(v)
          BY <3>1, <5>0 DEF Concerns
        <5> QED
          BY <3>1, <3>5, <5>1, FilesApart
      <4> QED
        BY <4>1, <4>2 DEF Disturbs
    <3> HIDE DEF h
    <3>6. \A f \in Files(t) : exec'[f] = exec[f] /\ (f \in runnable => f \in runnable')
      BY <1>0, <2>1, <3>5
    <3>7. conf'[t] = conf[t]
      BY <2>1, <3>2
    <3>8. "params" \in Checked /\ "dd support" \in Checked
      BY Named
    <3> QED
      BY <2>1, <3>3, <3>4, <3>6, <3>7, <3>8
  <2> QED
    BY <2>2, <2>3
<1>3. CASE cmd.op = "uninstall"
  <2>1. \A do : Do(do) => do \in {"ask", "ask data", "remove", "purge"}
    BY <1>3, NextCall
  <2>2. CASE UNCHANGED <<exec, runnable, conf, checked, packages>>
    BY <2>2
  <2>3. CASE Remove
    <3>1. /\ UNCHANGED <<conf, checked>>
          /\ packages' = packages \/ (Of = DDService /\ packages' = packages \ {"venv"})
          /\ t \notin {v \in Tool : \E i \in DOMAIN Execs[v] : Execs[v][i] = Of}
      BY <2>3 DEF Remove, dataVars
    <3>2. Of \notin Files(t)
      BY <3>1 DEF Files
    <3>3. \A f \in Exec : f # Of => exec'[f] = exec[f] /\ (f \in runnable => f \in runnable')
      BY <2>3 DEF Remove, removeFile, TypeOK, FilesTypeOK
    <3>4. t = DDService => Of # DDService
      BY <3>2, FilesOf DEF PastelD, DDService
    <3> QED
      BY <1>0, <3>1, <3>2, <3>3, <3>4
  <2>4. CASE Purge
    <3>1. /\ UNCHANGED <<exec, runnable, packages>> /\ t # Of
          /\ conf' \in {conf, [conf EXCEPT ![Of] = Missing]}
      BY <2>4 DEF Purge, binVars
    <3>2. conf'[t] = conf[t]
      BY <3>1 DEF TypeOK, FilesTypeOK
    <3>3. checked'["params"] = checked["params"]
      BY <2>4 DEF Purge, TypeOK, FilesTypeOK, Checked
    <3>4. Of # DDService => checked' = checked
      BY <2>4 DEF Purge
    <3> QED
      BY <3>1, <3>2, <3>3, <3>4
  <2>5. CASE Agrees \/ Declines \/ Returns \/ Interrupted
    BY <2>2, <2>5 DEF Agrees, Declines, Returns, Interrupted, fileVars, binVars, dataVars
  <2>6. CASE Fails
    BY <1>3, <2>6 DEF Fails
  <2>7. CASE \/ checkInstallDir \/ checkInstalledPackages \/ InstallPackage \/ install7z
             \/ downloadComponents \/ SetsUp \/ downloadChecked \/ downloadLatestSnapshot
             \/ increaseOpenFilesOnLinux
    <3>1. \E do \in Calls \ {"ask", "ask data", "remove", "purge"} : Do(do)
      <4>1. CASE checkInstallDir \/ checkInstalledPackages \/ InstallPackage \/ install7z
        <5>1. Do("dir") \/ Do("packages") \/ Do("package") \/ Do("7z")
          BY <4>1 DEF checkInstallDir, checkInstalledPackages, InstallPackage, install7z
        <5> QED
          BY <5>1 DEF Calls
      <4>2. CASE downloadComponents
        <5>1. Do("download") \/ Do("unzip") \/ Do("delete") \/ Do("chmod")
          BY <4>2 DEF downloadComponents
        <5> QED
          BY <5>1 DEF Calls
      <4>3. CASE SetsUp
        <5>1. Do("folder") \/ Do("config")
          BY <4>3 DEF SetsUp
        <5> QED
          BY <5>1 DEF Calls
      <4>4. CASE downloadLatestSnapshot
        <5>1. Do("snapshot") \/ Do("clean") \/ Do("extract")
          BY <4>4 DEF downloadLatestSnapshot
        <5> QED
          BY <5>1 DEF Calls
      <4>5. CASE downloadChecked \/ increaseOpenFilesOnLinux
        <5>1. Do("files") \/ Do("system")
          BY <4>5 DEF downloadChecked, increaseOpenFilesOnLinux
        <5> QED
          BY <5>1 DEF Calls
      <4> QED
        BY <2>7, <4>1, <4>2, <4>3, <4>4, <4>5
    <3> QED
      BY <2>1, <3>1
  <2> QED
    BY <2>3, <2>4, <2>5, <2>6, <2>7 DEF Step
<1> QED
  BY <1>1, <1>2, <1>3 DEF Working

\* Tools that are left alone stay whole.
LEMMA WholeKept ==
  ASSUME NEW t \in Tool, Whole(t),
         \A f \in Files(t) : exec'[f] = exec[f] /\ (f \in runnable => f \in runnable'),
         conf'[t] \in {"default", "own"},
         t = PastelD => checked'["params"] = checked["params"],
         t = DDService => checked'["dd support"] = checked["dd support"],
         \A q \in packages : q \in packages' \/ (q = "venv" /\ t # DDService)
  PROVE  Whole(t)'
<1>1. \A i \in DOMAIN Execs[t] :
        exec'[Execs[t][i]] \in Release /\ (t = DDService \/ Execs[t][i] \in runnable')
  BY DEF Files, Whole
<1>2. {t} \cap AptPackage \subseteq packages'
  BY DEF Whole, AptPackage, PastelD, WalletNode, SuperNode, DDService
<1>3. t = SuperNode => "ports" \in packages'
  BY DEF Whole
<1>4. t = DDService => {"chrome", "venv"} \subseteq packages'
  BY DEF Whole
<1> QED
  BY <1>1, <1>2, <1>3, <1>4 DEF Whole

\* A command that has come to the end of its list has made the tools whole it installs;
\* an update told to skip them has not looked at the files of the dd-service.
LEMMA AllDone ==
  ASSUME TypeOK, ProgressInv, Working, todo = <<>>, NEW t \in Parts(cmd)
  PROVE  /\ \A f \in Files(t) : Fresh(f) /\ (t = DDService \/ f \in runnable)
         /\ {t} \cap AptPackage \subseteq packages
         /\ t = DDService /\ ~SkipsSome =>
              checked["dd support"] = "good" /\ {"chrome", "venv"} \subseteq packages
         /\ cmd.op = "install" => Settled(t)
<1>0. t \in Tool
  BY DEF Parts
<1>1. \A x \in Need(cmd) : Done(x)
  <2>1. \A x : ~Has(todo, x)
    BY DEF Has
  <2> QED
    BY <2>1 DEF ProgressInv
<1>2. \A x \in NeedOf(cmd, t) : Done(x)
  BY <1>1 DEF Need
<1>3. ASSUME NEW f \in Files(t) PROVE Fresh(f)
  <2>1. CASE t \in Zipped
    <3>1. To("unzip", f) \in NeedOf(cmd, t)
      BY <2>1 DEF NeedOf, Fetches, Unzips
    <3> QED
      BY <1>2, <3>1, ToIs DEF Done
  <2>2. CASE t \notin Zipped
    <3>1. f = t
      BY <1>0, <2>2, FilesOf DEF Zipped
    <3>2. To("download", f) \in NeedOf(cmd, t)
      BY <2>2, <3>1 DEF NeedOf, Fetches
    <3> QED
      BY <1>2, <3>2, ToIs DEF Done
  <2> QED
    BY <2>1, <2>2
<1>4. ASSUME NEW f \in Files(t), t # DDService PROVE f \in runnable
  <2>1. To("chmod", f) \in NeedOf(cmd, t)
    BY <1>4 DEF NeedOf
  <2> QED
    BY <1>2, <2>1, ToIs DEF Done
<1>5. {t} \cap AptPackage \subseteq packages
  <2>1. Done(To("packages", cmd.tool))
    BY <1>1 DEF Need
  <2> QED
    BY <2>1, ToIs DEF Done
<1>6. ASSUME t = DDService, ~SkipsSome
      PROVE  checked["dd support"] = "good" /\ {"chrome", "venv"} \subseteq packages
  <2>1. /\ To("files", "dd support") \in NeedOf(cmd, t) /\ To("package", "chrome") \in NeedOf(cmd, t)
        /\ To("package", "venv") \in NeedOf(cmd, t)
    BY <1>6 DEF NeedOf
  <2>2. Done(To("files", "dd support")) /\ Done(To("package", "chrome")) /\ Done(To("package", "venv"))
    BY <1>2, <2>1
  <2>3. \A x \in Skippable : ~Skips(x)
    BY <1>6 DEF SkipsSome
  <2> QED
    BY <1>6, <2>2, <2>3, ToIs DEF Done, Skippable
<1>7. ASSUME cmd.op = "install" PROVE Settled(t)
  <2>1. \A x : ~Skips(x)
    BY <1>7 DEF Skips
  <2>2. Configured(t)
    <3>1. To("config", t) \in NeedOf(cmd, t)
      BY <1>7 DEF NeedOf
    <3> QED
      BY <1>2, <3>1, ToIs DEF Done
  <2>3. t = PastelD => checked["params"] = "good"
    <3>1. t = PastelD => To("files", "params") \in NeedOf(cmd, t)
      BY <1>7 DEF NeedOf
    <3>2. t = PastelD => Done(To("files", "params"))
      BY <1>2, <3>1
    <3> QED
      BY <2>1, <3>2, ToIs DEF Done
  <2>4. t = SuperNode => "ports" \in packages
    <3>1. t = SuperNode => To("package", "ports") \in NeedOf(cmd, t)
      BY <1>7 DEF NeedOf
    <3>2. t = SuperNode => Done(To("package", "ports"))
      BY <1>2, <3>1
    <3> QED
      BY <2>1, <3>2, ToIs DEF Done
  <2> QED
    BY <2>2, <2>3, <2>4 DEF Settled
<1> QED
  BY <1>3, <1>4, <1>5, <1>6, <1>7

\* What a step adds to the tools that are installed, and takes from those half-way.
LEMMA StepHistory ==
  ASSUME TypeOK, Step
  PROVE  /\ \A t \in apps' : t \in apps \/ (Returns /\ cmd.op = "install" /\ t \in Parts(cmd))
         /\ \A t \in halfway :
              \/ t \in halfway'
              \/ Returns /\ cmd.op # "uninstall" /\ t \in Parts(cmd) /\ (SkipsSome => t # DDService)
         /\ result' = "ok" => Returns
         /\ cmd' = cmd /\ begun' = begun /\ release' = release
<1>1. CASE Returns
  BY <1>1 DEF Returns, Ends
<1>2. CASE Remove \/ Purge
  <2>1. apps' \subseteq apps /\ UNCHANGED <<halfway, release, cmd, begun, result>> /\ result = "running"
    <3>1. CASE Remove
      BY <3>1 DEF Remove, GoOn, Do
    <3>2. CASE Purge
      BY <3>2 DEF Purge, GoOn, Do
    <3> QED
      BY <1>2, <3>1, <3>2
  <2> QED
    BY <2>1
<1>3. CASE \/ checkInstallDir \/ checkInstalledPackages \/ InstallPackage \/ install7z
           \/ downloadComponents \/ SetsUp \/ downloadChecked \/ downloadLatestSnapshot
           \/ increaseOpenFilesOnLinux \/ Agrees \/ Declines \/ Fails \/ Interrupted
  <2>1. UNCHANGED <<history, cmd, begun, release>> /\ result' # "ok"
    BY <1>3
    DEF checkInstallDir, checkInstalledPackages, InstallPackage, install7z, downloadComponents,
        SetsUp, downloadChecked, downloadLatestSnapshot, increaseOpenFilesOnLinux, Agrees, Declines,
        Fails, Interrupted, GoOn, Ends, Snapshot, Do
  <2> QED
    BY <2>1 DEF history
<1> QED
  BY <1>1, <1>2, <1>3 DEF Step

LEMMA StepKeepsApps ==
  ASSUME TypeOK, TodoInv, OwnInv, AppsInv, ProgressInv, Step PROVE AppsInv'
<1>1. begun' = begun /\ release' = release /\ cmd' = cmd
  BY StepHistory
<1>2. ASSUME NEW t \in apps' PROVE Settled(t)'
  <2>0. t \in apps \/ (Returns /\ cmd.op = "install" /\ t \in Parts(cmd))
    BY <1>2, StepHistory
  <2>1. CASE t \in apps
    <3>0. t \in Tool /\ Settled(t)
      BY <2>1 DEF TypeOK, AppsInv
    <3>1. CASE Working /\ t \in Parts(cmd)
      <4>1. cmd.op = "update" /\ result = "running"
        BY <2>1, <3>1 DEF AppsInv, Working, TypeOK, Command
      <4>2. /\ \A v \in Tool : conf'[v] # conf[v] => Head(todo) = To("config", v)
            /\ packages \subseteq packages'
            /\ todo = <<>> => UNCHANGED <<exec, runnable, conf, checked, packages>>
        BY <3>1, InstallEffect
      <4>3. todo # <<>> => Head(todo).do # "config"
        BY <3>1, <4>1, FirstCall
      <4>4. conf'[t] = conf[t]
        BY <3>0, <4>2, <4>3, ToIs
      <4>5. checked["params"] = "good" => checked'["params"] = "good"
        <5>1. \A do : Do(do) => do \notin {"remove", "purge"}
          <6>1. todo # <<>> => Head(todo) \in Concerns(Parts(cmd))
            BY <3>1, FirstCall
          <6> QED
            BY <6>1 DEF Do, Concerns
        <5>2. CASE downloadChecked
          <6>1. checked' = checked \/ \E k : checked' = [checked EXCEPT ![k] = "good"]
                  \/ (checked[k] # "good" /\ checked' = [checked EXCEPT ![k] = "bad"])
            BY <5>2, Zenon DEF downloadChecked
          <6>2. DOMAIN checked = Checked /\ "params" \in Checked
            BY Named DEF TypeOK, FilesTypeOK
          <6> QED
            BY <6>1, <6>2
        <5>3. CASE SetsUp
          BY <5>3 DEF SetsUp, dataVars, CreateFolder, CreateAndWrite, CreateAndWriteBreaks
        <5>4. CASE Purge
          BY <5>1, <5>4 DEF Purge
        <5>5. CASE \/ checkInstallDir \/ checkInstalledPackages \/ InstallPackage \/ install7z
                   \/ downloadComponents \/ downloadLatestSnapshot \/ increaseOpenFilesOnLinux
                   \/ Agrees \/ Declines \/ Remove \/ Returns \/ Fails \/ Interrupted
          BY <5>5
          DEF checkInstallDir, checkInstalledPackages, InstallPackage, install7z, downloadComponents,
              downloadLatestSnapshot, increaseOpenFilesOnLinux, Agrees, Declines, Remove, Returns,
              Fails, Interrupted, fileVars, dataVars
        <5> QED
          BY <5>2, <5>3, <5>4, <5>5 DEF Step
      <4> QED
        BY <3>0, <4>2, <4>4, <4>5 DEF Settled, Configured
    <3>2. CASE ~(Working /\ t \in Parts(cmd))
      <4>1. /\ conf'[t] = conf[t]
            /\ t = PastelD => checked'["params"] = checked["params"]
            /\ \A q \in packages : q \in packages' \/ (q = "venv" /\ t # DDService)
        BY <1>2, <3>0, <3>2, OthersKept
      <4> QED
        BY <3>0, <4>1 DEF Settled, Configured
    <3> QED
      BY <3>1, <3>2
  <2>2. CASE Returns /\ cmd.op = "install" /\ t \in Parts(cmd)
    <3>1. Working /\ todo = <<>> /\ UNCHANGED <<conf, checked, packages>>
      BY <2>2 DEF Returns, Working, fileVars, dataVars
    <3>2. Settled(t)
      BY <2>2, <3>1, AllDone
    <3> QED
      BY <3>1, <3>2 DEF Settled, Configured
  <2> QED
    BY <2>0, <2>1, <2>2
<1>3. ASSUME Working'
      PROVE  Parts(cmd') \subseteq halfway' /\ (cmd'.op = "install" => apps' \cap Parts(cmd') = {})
  <2>1. Working /\ ~Returns
    BY <1>1, <1>3, StepDrops DEF Working, Returns, Ends
  <2>2. (\A t \in apps' : t \in apps) /\ (\A t \in halfway : t \in halfway')
    BY <2>1, StepHistory
  <2> QED
    BY <1>1, <2>1, <2>2 DEF AppsInv
<1>4. begun' \in Nat /\ begun' <= release'
  BY <1>1 DEF AppsInv
<1> QED
  BY <1>1, <1>2, <1>3, <1>4 DEF AppsInv

LEMMA StepKeepsWhole ==
  ASSUME TypeOK, TodoInv, OwnInv, AppsInv, ProgressInv, InstalledIsWhole, Step
  PROVE  InstalledIsWhole'
<1>1. ASSUME NEW t \in apps' \ halfway' PROVE Whole(t)'
  <2>0. t \in Tool
    BY StepHistory, <1>1 DEF TypeOK, Parts
  <2>1. CASE Working /\ t \in Parts(cmd)
    <3>1. t \in halfway
      BY <2>1 DEF AppsInv
    <3>2. Returns /\ (SkipsSome => t # DDService)
      BY <1>1, <3>1, StepHistory
    <3>3. todo = <<>> /\ UNCHANGED <<exec, runnable, conf, checked, packages>>
      BY <3>2 DEF Returns, fileVars, binVars, dataVars
    <3>4. /\ \A f \in Files(t) : Fresh(f) /\ (t = DDService \/ f \in runnable)
          /\ {t} \cap AptPackage \subseteq packages
          /\ t = DDService /\ ~SkipsSome =>
               checked["dd support"] = "good" /\ {"chrome", "venv"} \subseteq packages
          /\ cmd.op = "install" => Settled(t)
      BY <2>1, <3>3, AllDone
    <3>5. Settled(t)
      BY <1>1, <3>4, StepHistory DEF AppsInv
    <3>6. \A f \in Files(t) : exec[f] \in Release /\ (t = DDService \/ f \in runnable)
      <4>1. begun .. MaxRelease \subseteq Release
        BY ReleaseAssumption DEF AppsInv, Release
      <4> QED
        BY <3>4, <4>1 DEF Fresh
    <3>7. Whole(t)
      <4>1. \A i \in DOMAIN Execs[t] : Execs[t][i] \in Files(t)
        BY DEF Files
      <4> QED
        BY <3>2, <3>4, <3>5, <3>6, <4>1 DEF Whole, Settled, Configured
    <3> QED
      BY <3>3, <3>7 DEF Whole
  <2>2. CASE ~(Working /\ t \in Parts(cmd))
    <3>1. t \in apps /\ t \in apps' /\ t \notin halfway
      <4>1. Returns => result = "running"
        BY DEF Returns
      <4> QED
        BY <1>1, <2>2, <4>1, StepHistory DEF Working
    <3>2. Whole(t)
      BY <3>1 DEF InstalledIsWhole
    <3>3. /\ \A f \in Files(t) : exec'[f] = exec[f] /\ (f \in runnable => f \in runnable')
          /\ conf'[t] = conf[t]
          /\ t = PastelD => checked'["params"] = checked["params"]
          /\ t = DDService => checked'["dd support"] = checked["dd support"]
          /\ \A q \in packages : q \in packages' \/ (q = "venv" /\ t # DDService)
      BY <2>0, <2>2, <3>1, OthersKept
    <3>4. conf'[t] \in {"default", "own"}
      BY <3>2, <3>3 DEF Whole
    <3> QED
      BY <2>0, <3>2, <3>3, <3>4, WholeKept
  <2> QED
    BY <2>1, <2>2
<1>2. ASSUME result' = "ok", cmd'.op # "uninstall", NEW t \in Parts(cmd'), NEW i \in DOMAIN Execs[t]
      PROVE  exec'[Execs[t][i]] \in begun' .. MaxRelease
  <2>1. Returns /\ cmd' = cmd /\ begun' = begun
    BY <1>2, StepHistory
  <2>2. Working /\ todo = <<>> /\ exec' = exec
    BY <1>2, <2>1 DEF Returns, Working, fileVars, binVars
  <2>3. Execs[t][i] \in Files(t) /\ t \in Parts(cmd)
    BY <1>2, <2>1 DEF Files
  <2>4. Fresh(Execs[t][i])
    BY <2>2, <2>3, AllDone
  <2> QED
    BY <2>1, <2>2, <2>4 DEF Fresh
<1> QED
  BY <1>1, <1>2 DEF InstalledIsWhole

WholeInv == OwnInv /\ OrderInv /\ ProgressInv /\ AppsInv /\ InstalledIsWhole

LEMMA StepKeepsWholeInv ==
  ASSUME TypeOK, TodoInv, WholeInv, Step PROVE WholeInv'
<1>1. ProgressInv'
  <2> SUFFICES ASSUME Working', NEW x \in Need(cmd') PROVE Done(x)' \/ Has(todo', x)
    BY DEF ProgressInv
  <2>1. Working /\ result' = "running" /\ cmd' = cmd
    BY StepDrops DEF Working
  <2>2. x \in Need(cmd)
    BY <2>1
  <2> QED
    BY <2>1, <2>2, StepKeepsProgress DEF WholeInv
<1> QED
  BY <1>1, StepKeepsOwn, StepKeepsOrder, StepKeepsApps, StepKeepsWhole DEF WholeInv

LEMMA BeginKeepsWholeInv ==
  ASSUME TypeOK, WholeInv, NEW c \in Commands, Begin(c) PROVE WholeInv'
<1>1. /\ cmd' = c /\ result' = "running" /\ begun' = release /\ c \in Command
      /\ UNCHANGED <<exec, runnable, zip, conf, checked, packages, release>>
  BY CommandsAssumption DEF Begin, fileVars, binVars, dataVars
<1>2. ASSUME c.op # "uninstall"
      PROVE  todo' = Installs(c) /\ Part(todo', {}, Need(c), Parts(c))
  <2>1. todo' = Installs(c)
    BY <1>2 DEF Begin
  <2> QED
    BY <1>1, <1>2, <2>1, InstallsPart
<1>3. Working' => c.op # "uninstall"
  BY <1>1 DEF Working
<1>4. OwnInv'
  <2>1. ASSUME Working', cmd'.op = "update" PROVE todo' \in Seq(NoConfig)
    BY <1>1, <1>2, <1>3, <2>1, UpdatesWriteNoConfig
  <2>2. ASSUME Working' PROVE todo' \in Seq(Concerns(Parts(cmd')))
    BY <1>1, <1>2, <1>3, <2>2 DEF Part, Block
  <2> QED
    BY <2>1, <2>2 DEF OwnInv
<1>5. OrderInv'
  <2> SUFFICES ASSUME Working'
               PROVE  /\ \A f \in Exec \ {DDService} : Followed(todo', Disturbs(f), To("chmod", f))
                      /\ \A t \in Zipped : ZipLed(t)'
    BY DEF OrderInv
  <2>1. Block(todo', {}, Parts(c))
    BY <1>2, <1>3 DEF Part
  <2> QED
    BY <2>1 DEF Block, ZipLed
<1>6. ProgressInv'
  <2> SUFFICES ASSUME Working', NEW x \in Need(cmd') PROVE Has(todo', x)
    BY DEF ProgressInv
  <2> QED
    BY <1>1, <1>2, <1>3 DEF Part
<1>7. AppsInv'
  <2>1. begun' \in Nat /\ begun' <= release'
    BY <1>1 DEF TypeOK, Release
  <2>2. ASSUME NEW t \in apps' PROVE Settled(t)'
    <3>1. t \in apps
      BY <2>2 DEF Begin
    <3> QED
      BY <1>1, <3>1 DEF WholeInv, AppsInv, Settled, Configured
  <2>3. Working' => Parts(cmd') \subseteq halfway'
    BY <1>1, <1>3 DEF Begin
  <2>4. cmd'.op = "install" => apps' \cap Parts(cmd') = {}
    BY <1>1 DEF Begin
  <2> QED
    BY <2>1, <2>2, <2>3, <2>4 DEF AppsInv
<1>8. InstalledIsWhole'
  <2>1. ASSUME NEW t \in apps' \ halfway' PROVE Whole(t)'
    <3>1. t \in apps \ halfway
      BY <2>1 DEF Begin
    <3> QED
      BY <1>1, <3>1 DEF WholeInv, InstalledIsWhole, Whole
  <2> QED
    BY <1>1, <2>1 DEF InstalledIsWhole
<1> QED
  BY <1>4, <1>5, <1>6, <1>7, <1>8 DEF WholeInv

LEMMA BesidesKeepsWholeInv ==
  ASSUME TypeOK, WholeInv,
         Publish \/ NodeSyncs \/ (\E t \in {PastelD, SuperNode} : UserSets(t)) \/ UNCHANGED vars
  PROVE  WholeInv'
<1>1. /\ UNCHANGED <<exec, runnable, zip, checked, packages, cmd, todo, begun, result, apps, halfway>>
      /\ release' \in Release /\ release <= release'
  <2>1. release \in Nat /\ release \in Release
    BY DEF TypeOK, Release
  <2>2. CASE Publish
    <3>1. release' \in Release /\ release <= release'
      BY <2>1, <2>2, ReleaseAssumption DEF Publish, Release
    <3> QED
      BY <2>2, <3>1 DEF Publish, cmdVars, history, fileVars, binVars, dataVars
  <2>3. CASE NodeSyncs
    BY <2>1, <2>3 DEF NodeSyncs, cmdVars, history, binVars
  <2>4. CASE \E t \in {PastelD, SuperNode} : UserSets(t)
    BY <2>1, <2>4 DEF UserSets, cmdVars, history, binVars
  <2>5. CASE UNCHANGED vars
    BY <2>1, <2>5 DEF vars, cmdVars, history, fileVars, binVars, dataVars
  <2> QED
    BY <2>2, <2>3, <2>4, <2>5
<1>2. \A t \in Tool : conf[t] \in {"default", "own"} => conf'[t] \in {"default", "own"}
  <2>1. CASE UNCHANGED conf
    BY <2>1
  <2>2. CASE \E t \in {PastelD, SuperNode} : UserSets(t)
    BY <2>2 DEF UserSets, TypeOK, FilesTypeOK
  <2> QED
    BY <2>1, <2>2 DEF Publish, NodeSyncs, vars, fileVars, dataVars
<1>3. result = "running" => UNCHANGED conf
  BY DEF Publish, NodeSyncs, UserSets, vars, fileVars, dataVars
<1>4. OwnInv'
  BY <1>1 DEF WholeInv, OwnInv, Working
<1>5. OrderInv'
  BY <1>1 DEF WholeInv, OrderInv, Working, ZipLed
<1>6. ProgressInv'
  <2> SUFFICES ASSUME Working', NEW x \in Need(cmd') PROVE Done(x)' \/ Has(todo', x)
    BY DEF ProgressInv
  <2>1. Working /\ x \in Need(cmd) /\ UNCHANGED conf
    BY <1>1, <1>3 DEF Working
  <2>2. Done(x) \/ Has(todo, x)
    BY <2>1 DEF WholeInv, ProgressInv
  <2>3. Done(x) => Done(x)'
    BY <1>1, <2>1 DEF Done, Fresh, Configured, Skips
  <2> QED
    BY <1>1, <2>2, <2>3
<1>7. AppsInv'
  <2>1. begun' \in Nat /\ begun' <= release'
    BY <1>1, ReleaseAssumption DEF WholeInv, AppsInv, TypeOK, Release
  <2>2. ASSUME NEW t \in apps' PROVE Settled(t)'
    <3>1. t \in Tool /\ Settled(t)
      BY <1>1, <2>2 DEF WholeInv, AppsInv, TypeOK
    <3> QED
      BY <1>1, <1>2, <3>1 DEF Settled, Configured
  <2> QED
    BY <1>1, <2>1, <2>2 DEF WholeInv, AppsInv, Working
<1>8. InstalledIsWhole'
  <2>1. ASSUME NEW t \in apps' \ halfway' PROVE Whole(t)'
    <3>1. t \in Tool /\ Whole(t)
      BY <1>1, <2>1 DEF WholeInv, InstalledIsWhole, TypeOK
    <3> QED
      BY <1>1, <1>2, <3>1 DEF Whole
  <2> QED
    BY <1>1, <2>1 DEF WholeInv, InstalledIsWhole
<1> QED
  BY <1>4, <1>5, <1>6, <1>7, <1>8 DEF WholeInv

\* What has been installed without an error is whole, whatever commands came after it and
\* wherever they failed, unless one that concerns it is under way or has failed; and a
\* command that has succeeded has left nothing older than the release of its beginning.
THEOREM InstalledIsWholeAlways == Spec => []InstalledIsWhole
<1>1. Init => WholeInv
  <2>1. ASSUME Init PROVE WholeInv
    <3>1. apps = {} /\ begun = 0 /\ release = 0 /\ result = "none"
      BY <2>1 DEF Init
    <3> QED
      BY <3>1 DEF WholeInv, OwnInv, OrderInv, ProgressInv, AppsInv, InstalledIsWhole, Working
  <2> QED
    BY <2>1
<1>2. TypeOK /\ TodoInv /\ WholeInv /\ [Next]_vars => WholeInv'
  <2> SUFFICES ASSUME TypeOK, TodoInv, WholeInv, [Next]_vars PROVE WholeInv'
    OBVIOUS
  <2>1. CASE Step
    BY <2>1, StepKeepsWholeInv
  <2>2. CASE \E c \in Commands : Begin(c)
    BY <2>2, BeginKeepsWholeInv
  <2>3. CASE Publish \/ NodeSyncs \/ (\E t \in {PastelD, SuperNode} : UserSets(t)) \/ UNCHANGED vars
    BY <2>3, BesidesKeepsWholeInv
  <2> QED
    BY <2>1, <2>2, <2>3 DEF Next
<1>3. Spec => []TypeOK
  BY TypeCorrect
<1>4. TodoInv /\ [Next]_vars => TodoInv'
  BY TodoKept
<1>5. WholeInv => InstalledIsWhole
  BY DEF WholeInv
<1> QED
  BY <1>1, <1>2, <1>3, <1>4, <1>5, InitType, PTL DEF Spec
=============================================================================
