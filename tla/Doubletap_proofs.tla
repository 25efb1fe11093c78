-------------------------- MODULE Doubletap_proofs --------------------------
(***************************************************************************)
(* Proofs about Doubletap, for any events and weapons, any depth of events *)
(* within events, and any window, sampling interval and limit of samples   *)
(* that cover the window (NetworkAssumption).                              *)
(*                                                                         *)
(* Three arguments.  The copies of events that wait are those of the       *)
(* innermost events being fired, so that the latest belongs to the event   *)
(* that ends (PendingIsInnermost).  Whatever happened within the window is *)
(* still to be seen in the gap or in a sample: samples are so far apart    *)
(* that the limit only takes those out of the window (Spaced), and Prune   *)
(* does, too (TroubleShows).  And what is to be seen did happen            *)
(* (GapIsTrouble, BadIsTrouble, ChangeIsUneasy).                           *)
(***************************************************************************)
EXTENDS Doubletap, WellFoundedInduction, SequenceTheorems, FiniteSetTheorems, TLAPS

-----------------------------------------------------------------------------

(***************************************************************************)
(* A set of natural numbers that is not empty has a least one.             *)
(***************************************************************************)
LEMMA HasMinimal ==
  ASSUME NEW R, IsWellFoundedOn(R, Nat), NEW T, T \subseteq Nat, T # {}
  PROVE  \E x \in T : \A y \in T : ~(<<y, x>> \in R)
BY WFMin

LEMMA LeastBy ==
  ASSUME NEW R, IsWellFoundedOn(R, Nat), \A x, y \in Nat : x < y => <<x, y>> \in R,
         NEW T, T \subseteq Nat, T # {}
  PROVE  \E x \in T : \A y \in T : x <= y
<1>1. PICK x \in T : \A y \in T : ~(<<y, x>> \in R)
  BY HasMinimal, Zenon
<1>2. ASSUME NEW y \in T PROVE x <= y
  <2>1. x \in Nat /\ y \in Nat
    OBVIOUS
  <2>2. ~(y < x)
    BY <1>1, <2>1
  <2> QED
    BY <2>1, <2>2
<1> QED
  BY <1>2

LEMMA LeastNumber ==
  ASSUME NEW T, T \subseteq Nat, T # {}
  PROVE  \E x \in T : \A y \in T : x <= y
<1>1. IsWellFoundedOn(OpToRel(<, Nat), Nat)
  BY NatLessThanWellFounded, Zenon
<1>2. \A x, y \in Nat : x < y => <<x, y>> \in OpToRel(<, Nat)
  BY Zenon DEF OpToRel
<1> QED
  BY <1>1, <1>2, LeastBy, Zenon

(***************************************************************************)
(* The numbers of the window and the limits.                               *)
(***************************************************************************)
LEMMA Numbers ==
  /\ Window \in Nat /\ Window >= 1 /\ Interval \in Nat /\ Interval >= 1
  /\ SampleLimit \in Nat /\ JitterShare \in Nat
  /\ Stale = Window + 1 /\ NoGap = Window + 2
BY NetworkAssumption DEF Stale, NoGap

\* The time that n sampling intervals take.
Span(n) == n * Interval

LEMMA Spans ==
  /\ Span(0) = 0
  /\ \A n \in Nat : Span(n) \in Nat /\ Span(n + 1) = Span(n) + Interval
  /\ Span(SampleLimit) > Window
<1>1. Span(0) = 0
  BY Numbers DEF Span
<1>2. ASSUME NEW n \in Nat
      PROVE  Span(n) \in Nat /\ Span(n + 1) = Span(n) + Interval
  <2>1. Interval \in Nat
    BY Numbers
  <2>2. n * Interval \in Nat
    BY <2>1
  <2>3. (n + 1) * Interval = n * Interval + Interval
    BY <2>1
  <2> QED
    BY <2>2, <2>3 DEF Span
<1> QED
  BY <1>1, <1>2, NetworkAssumption DEF Span

-----------------------------------------------------------------------------
\* What Prune leaves.

LEMMA OutdatedExists ==
  ASSUME NEW ss \in Seq(NetworkSafetySample)
  PROVE  /\ Outdated(ss) \in 0..Len(ss)
         /\ \A i \in 1..Outdated(ss) : ss[i].age > Window
         /\ Outdated(ss) < Len(ss) => ss[Outdated(ss) + 1].age <= Window
<1> DEFINE Stops == {n \in 0..Len(ss) : n < Len(ss) => ss[n + 1].age <= Window}
<1>1. Len(ss) \in Nat /\ Len(ss) \in Stops /\ Stops \subseteq Nat
  OBVIOUS
<1>2. PICK n \in Stops : \A m \in Stops : n <= m
  <2>1. \E n \in Stops : \A m \in Stops : n <= m
    BY <1>1, LeastNumber, Zenon
  <2> QED
    BY <2>1
<1>3. n \in 0..Len(ss) /\ (n < Len(ss) => ss[n + 1].age <= Window)
  BY <1>2
<1>4. ASSUME NEW i \in 1..n PROVE ss[i].age > Window
  <2>1. i - 1 \in 0..Len(ss) /\ i - 1 < n /\ (i - 1) + 1 = i /\ i \in 1..Len(ss)
    BY <1>1, <1>3
  <2>2. i - 1 \notin Stops
    BY <1>2, <2>1
  <2>3. ~(ss[i].age <= Window)
    BY <2>1, <2>2
  <2>4. ss[i] \in NetworkSafetySample
    BY <2>1
  <2> QED
    BY <2>3, <2>4, Numbers DEF NetworkSafetySample
<1>5. /\ n \in 0..Len(ss)
      /\ \A i \in 1..n : ss[i].age > Window
      /\ n < Len(ss) => ss[n + 1].age <= Window
  BY <1>3, <1>4
<1> QED
  BY <1>5 DEF Outdated

(***************************************************************************)
(* Recent(ss) is ss without its first samples, all of them too old.        *)
(***************************************************************************)
LEMMA RecentIsSuffix ==
  ASSUME NEW ss \in Seq(NetworkSafetySample)
  PROVE  \E n \in 0..Len(ss) :
           /\ Recent(ss) \in Seq(NetworkSafetySample)
           /\ Len(Recent(ss)) = Len(ss) - n
           /\ \A i \in 1..(Len(ss) - n) : Recent(ss)[i] = ss[n + i]
           /\ \A i \in 1..n : ss[i].age > Window
           /\ n < Len(ss) => ss[n + 1].age <= Window
<1> DEFINE n == Outdated(ss)
<1>1. n \in 0..Len(ss) /\ Len(ss) \in Nat
  BY OutdatedExists
<1>2. Recent(ss) = SubSeq(ss, n + 1, Len(ss))
  BY DEF Recent
<1> HIDE DEF n
<1>3. /\ Recent(ss) \in Seq(NetworkSafetySample)
      /\ Len(Recent(ss)) = Len(ss) - n
      /\ \A i \in 1..(Len(ss) - n) : Recent(ss)[i] = ss[n + i]
  <2>1. \A i \in (n + 1)..Len(ss) : ss[i] \in NetworkSafetySample
    BY <1>1
  <2>2. /\ Recent(ss) \in Seq(NetworkSafetySample)
        /\ Len(Recent(ss)) = IF n + 1 <= Len(ss) THEN Len(ss) - (n + 1) + 1 ELSE 0
        /\ \A i \in 1..(Len(ss) - (n + 1) + 1) : Recent(ss)[i] = ss[(n + 1) + i - 1]
    BY <1>1, <1>2
  <2>3. Len(ss) - (n + 1) + 1 = Len(ss) - n
    BY <1>1
  <2>4. Len(Recent(ss)) = Len(ss) - n
    <3>1. CASE n + 1 <= Len(ss)
      BY <2>2, <2>3, <3>1
    <3>2. CASE ~(n + 1 <= Len(ss))
      <4>1. n = Len(ss)
        BY <1>1, <3>2
      <4> QED
        BY <1>1, <2>2, <3>2, <4>1
    <3> QED
      BY <3>1, <3>2
  <2>5. ASSUME NEW i \in 1..(Len(ss) - n) PROVE Recent(ss)[i] = ss[n + i]
    <3>1. (n + 1) + i - 1 = n + i
      BY <1>1
    <3> QED
      BY <2>2, <2>3, <3>1
  <2> QED
    BY <2>2, <2>4, <2>5
<1> QED
  BY <1>1, <1>3, OutdatedExists DEF n

-----------------------------------------------------------------------------
\* What is known of samples ss, when the next is due in time next, the newest gap is
\* g old, and the trouble of the two histories b and u.

Sorted(ss) == \A i, j \in 1..Len(ss) : i <= j => ss[j].age <= ss[i].age

Spaced(ss, next) ==
  \A i \in 1..Len(ss) :
    ss[i].age = Stale \/ Span(Len(ss) - i) + Interval - next <= ss[i].age

BadIsTrouble(ss, b) == \A i \in 1..Len(ss) : ss[i].kind = "bad" => b <= ss[i].age

ChangeIsUneasy(ss, u) ==
  \A i \in 2..Len(ss) :
    ss[i].kind # "bad" /\ ss[i - 1].kind # "bad" /\ ss[i].kind # ss[i - 1].kind =>
      u <= ss[i].age

GapIsTrouble(g, b) == g # NoGap => b <= g

TroubleShows(ss, g, b) ==
  b <= Window => \/ g <= b
                 \/ \E i \in 1..Len(ss) : ss[i].kind = "bad" /\ ss[i].age <= b

NetworkIInv ==
  /\ NetworkTypeOK
  /\ Sorted(samples) /\ Spaced(samples, nextSample)
  /\ BadIsTrouble(samples, broken) /\ ChangeIsUneasy(samples, uneasy)
  /\ GapIsTrouble(gap, broken) /\ TroubleShows(samples, gap, broken)

(***************************************************************************)
(* All of it but TroubleShows holds of what remains of the samples.        *)
(***************************************************************************)
LEMMA SuffixKeeps ==
  ASSUME NEW ss \in Seq(NetworkSafetySample), NEW n \in 0..Len(ss),
         NEW t \in Seq(NetworkSafetySample), Len(t) = Len(ss) - n,
         \A i \in 1..(Len(ss) - n) : t[i] = ss[n + i],
         NEW next, NEW b, NEW u
  PROVE  /\ Sorted(ss) => Sorted(t)
         /\ Spaced(ss, next) => Spaced(t, next)
         /\ BadIsTrouble(ss, b) => BadIsTrouble(t, b)
         /\ ChangeIsUneasy(ss, u) => ChangeIsUneasy(t, u)
<1>1. Len(ss) \in Nat /\ Len(t) \in Nat /\ n \in Nat
  OBVIOUS
<1>2. ASSUME NEW i \in 1..Len(t)
      PROVE  /\ i \in Nat /\ n + i \in 1..Len(ss) /\ t[i] = ss[n + i]
             /\ Len(t) - i = Len(ss) - (n + i)
  BY <1>1
<1>3. Sorted(ss) => Sorted(t)
  <2> SUFFICES ASSUME Sorted(ss), NEW i \in 1..Len(t), NEW j \in 1..Len(t), i <= j
               PROVE  t[j].age <= t[i].age
    BY DEF Sorted
  <2>1. n + i <= n + j
    BY <1>1, <1>2
  <2> QED
    BY <1>2, <2>1 DEF Sorted
<1>4. Spaced(ss, next) => Spaced(t, next)
  BY <1>2 DEF Spaced
<1>5. BadIsTrouble(ss, b) => BadIsTrouble(t, b)
  BY <1>2 DEF BadIsTrouble
<1>6. ChangeIsUneasy(ss, u) => ChangeIsUneasy(t, u)
  <2> SUFFICES ASSUME ChangeIsUneasy(ss, u), NEW i \in 2..Len(t),
                      t[i].kind # "bad", t[i - 1].kind # "bad", t[i].kind # t[i - 1].kind
               PROVE  u <= t[i].age
    BY DEF ChangeIsUneasy
  <2>1. /\ t[i] = ss[n + i] /\ t[i - 1] = ss[(n + i) - 1]
        /\ n + i \in 2..Len(ss)
    <3>1. i \in 1..Len(t) /\ i - 1 \in 1..Len(t) /\ n + (i - 1) = (n + i) - 1
      BY <1>1
    <3>2. t[i] = ss[n + i] /\ t[i - 1] = ss[n + (i - 1)] /\ n + i \in 1..Len(ss)
      BY <1>2, <3>1
    <3>3. n + i \in 2..Len(ss)
      BY <1>1, <3>2
    <3> QED
      BY <3>1, <3>2, <3>3
  <2> QED
    BY <2>1 DEF ChangeIsUneasy
<1> QED
  BY <1>3, <1>4, <1>5, <1>6

(***************************************************************************)
(* Prune keeps what is known, and whatever the window still shows.         *)
(***************************************************************************)
LEMMA RecentKeeps ==
  ASSUME NEW ss \in Seq(NetworkSafetySample), NEW next, NEW b \in 0..Stale, NEW u,
         NEW g \in 0..NoGap
  PROVE  /\ Recent(ss) \in Seq(NetworkSafetySample) /\ Len(Recent(ss)) <= Len(ss)
         /\ Sorted(ss) => Sorted(Recent(ss))
         /\ Spaced(ss, next) => Spaced(Recent(ss), next)
         /\ BadIsTrouble(ss, b) => BadIsTrouble(Recent(ss), b)
         /\ ChangeIsUneasy(ss, u) => ChangeIsUneasy(Recent(ss), u)
         /\ TroubleShows(ss, g, b) => TroubleShows(Recent(ss), g, b)
<1> DEFINE t == Recent(ss)
<1>1. PICK n \in 0..Len(ss) :
           /\ t \in Seq(NetworkSafetySample)
           /\ Len(t) = Len(ss) - n
           /\ \A i \in 1..(Len(ss) - n) : t[i] = ss[n + i]
           /\ \A i \in 1..n : ss[i].age > Window
  BY RecentIsSuffix
<1> HIDE DEF t
<1>2. Len(t) <= Len(ss)
  BY <1>1
<1>3. ASSUME TroubleShows(ss, g, b)
      PROVE  TroubleShows(t, g, b)
  <2> SUFFICES ASSUME b <= Window, ~(g <= b)
               PROVE  \E i \in 1..Len(t) : t[i].kind = "bad" /\ t[i].age <= b
    BY DEF TroubleShows
  <2>1. PICK i \in 1..Len(ss) : ss[i].kind = "bad" /\ ss[i].age <= b
    BY <1>3 DEF TroubleShows
  <2>2. i \notin 1..n
    <3>0. ss[i] \in NetworkSafetySample
      BY <2>1
    <3>1. ss[i].age \in Nat /\ b \in Nat /\ Window \in Nat
      BY <3>0, Numbers DEF NetworkSafetySample
    <3> QED
      BY <1>1, <2>1, <3>1
  <2>3. i - n \in 1..Len(t) /\ i - n \in 1..(Len(ss) - n) /\ n + (i - n) = i
    BY <1>1, <2>2
  <2>4. t[i - n] = ss[i]
    BY <1>1, <2>3
  <2> QED
    BY <2>1, <2>3, <2>4
<1>4. /\ Sorted(ss) => Sorted(t)
      /\ Spaced(ss, next) => Spaced(t, next)
      /\ BadIsTrouble(ss, b) => BadIsTrouble(t, b)
      /\ ChangeIsUneasy(ss, u) => ChangeIsUneasy(t, u)
  BY <1>1, SuffixKeeps
<1> QED
  BY <1>1, <1>2, <1>3, <1>4 DEF t

(***************************************************************************)
(* A sample is taken an interval after the last.                           *)
(***************************************************************************)
LEMMA TakenKeeps ==
  ASSUME NEW ss \in Seq(NetworkSafetySample), NEW kind \in Kinds,
         NEW b \in 0..Stale, NEW u \in 0..Stale, NEW g \in 0..NoGap,
         Sorted(ss), Spaced(ss, 0), BadIsTrouble(ss, b), ChangeIsUneasy(ss, u),
         TroubleShows(ss, g, b)
  PROVE  LET t == Append(ss, [age |-> 0, kind |-> kind])
         IN  /\ t \in Seq(NetworkSafetySample) /\ Len(t) = Len(ss) + 1
             /\ \A i \in 1..Len(ss) : t[i] = ss[i]
             /\ Sorted(t) /\ Spaced(t, Interval)
             /\ BadIsTrouble(t, IF kind = "bad" THEN 0 ELSE b)
             /\ ChangeIsUneasy(t, IF Len(t) \in Changes(t) THEN 0 ELSE u)
             /\ TroubleShows(t, g, IF kind = "bad" THEN 0 ELSE b)
<1> DEFINE new == [age |-> 0, kind |-> kind]
           t == Append(ss, new)
           n == Len(ss) + 1
           b1 == IF kind = "bad" THEN 0 ELSE b
           u1 == IF n \in Changes(t) THEN 0 ELSE u
<1>1. /\ new \in NetworkSafetySample /\ new.age = 0 /\ new.kind = kind
      /\ Len(ss) \in Nat
  BY Numbers DEF NetworkSafetySample
<1>2. /\ t \in Seq(NetworkSafetySample) /\ Len(t) = n
      /\ \A i \in 1..Len(ss) : t[i] = ss[i]
      /\ t[n] = new
  BY <1>1
<1>3. \A i \in 1..Len(ss) : ss[i].age \in 0..Stale /\ ss[i].age \in Nat
  <2> TAKE i \in 1..Len(ss)
  <2>1. ss[i] \in NetworkSafetySample
    OBVIOUS
  <2> QED
    BY <2>1, Numbers DEF NetworkSafetySample
<1>4. /\ b1 <= b /\ b1 \in Nat /\ (kind = "bad" => b1 = 0)
      /\ (kind # "bad" => b1 = b)
      /\ u1 <= u /\ u1 \in Nat /\ (n \in Changes(t) => u1 = 0)
      /\ b \in Nat /\ u \in Nat
  BY Numbers
<1> HIDE DEF t, new, b1, u1
<1>5. Sorted(t)
  <2> SUFFICES ASSUME NEW i \in 1..n, NEW j \in 1..n, i <= j
               PROVE  t[j].age <= t[i].age
    BY <1>2 DEF Sorted
  <2>1. CASE j \in 1..Len(ss)
    <3>1. i \in 1..Len(ss)
      BY <2>1
    <3> QED
      BY <1>2, <2>1, <3>1 DEF Sorted
  <2>2. CASE j = n
    <3>1. t[j].age = 0
      BY <1>1, <1>2, <2>2
    <3>2. t[i].age \in Nat
      BY <1>1, <1>2, <1>3
    <3> QED
      BY <3>1, <3>2
  <2> QED
    BY <1>1, <2>1, <2>2
<1>6. Spaced(t, Interval)
  <2> SUFFICES ASSUME NEW i \in 1..n
               PROVE  t[i].age = Stale \/ Span(n - i) + Interval - Interval <= t[i].age
    BY <1>2 DEF Spaced
  <2>1. CASE i = n
    <3>1. n - i = 0 /\ t[i].age = 0
      BY <1>1, <1>2, <2>1
    <3>2. Span(n - i) = 0
      BY <3>1, Spans
    <3> QED
      BY <3>1, <3>2, Numbers
  <2>2. CASE i \in 1..Len(ss)
    <3> DEFINE k == Len(ss) - i
    <3>1. ss[i].age = Stale \/ Span(k) + Interval - 0 <= ss[i].age
      BY <2>2 DEF Spaced
    <3>2. k \in Nat /\ n - i = k + 1
      BY <1>1, <2>2
    <3> HIDE DEF k
    <3>3. Span(k) \in Nat /\ Span(n - i) = Span(k) + Interval
      BY <3>2, Spans
    <3>4. t[i] = ss[i] /\ ss[i].age \in Nat
      BY <1>2, <1>3, <2>2
    <3> QED
      BY <3>1, <3>3, <3>4, Numbers
  <2> QED
    BY <1>1, <2>1, <2>2
<1>7. BadIsTrouble(t, b1)
  <2> SUFFICES ASSUME NEW i \in 1..n, t[i].kind = "bad" PROVE b1 <= t[i].age
    BY <1>2 DEF BadIsTrouble
  <2>1. CASE i = n
    BY <1>1, <1>2, <1>4, <2>1
  <2>2. CASE i \in 1..Len(ss)
    <3>1. b <= ss[i].age /\ t[i] = ss[i]
      BY <1>2, <2>2 DEF BadIsTrouble
    <3> QED
      BY <1>3, <1>4, <2>2, <3>1
  <2> QED
    BY <1>1, <2>1, <2>2
<1>8. ChangeIsUneasy(t, u1)
  <2> SUFFICES ASSUME NEW i \in 2..n, t[i].kind # "bad", t[i - 1].kind # "bad",
                      t[i].kind # t[i - 1].kind
               PROVE  u1 <= t[i].age
    BY <1>2 DEF ChangeIsUneasy
  <2>1. CASE i = n
    <3>1. n \in Pings(t) /\ n - 1 \in Pings(t) /\ n - 1 < n
      BY <1>1, <1>2, <2>1 DEF Pings
    <3>2. \A k \in Pings(t) : k <= n - 1 \/ n <= k
      BY <1>1, <1>2 DEF Pings
    <3>3. n \in Changes(t)
      BY <2>1, <3>1, <3>2 DEF Changes
    <3> QED
      BY <1>1, <1>2, <1>4, <2>1, <3>3
  <2>2. CASE i \in 1..Len(ss)
    <3>1. t[i] = ss[i] /\ t[i - 1] = ss[i - 1] /\ i \in 2..Len(ss)
      BY <1>1, <1>2, <2>2
    <3>2. u <= ss[i].age
      BY <3>1 DEF ChangeIsUneasy
    <3> QED
      BY <1>3, <1>4, <2>2, <3>1, <3>2
  <2> QED
    BY <1>1, <2>1, <2>2
<1>9. TroubleShows(t, g, b1)
  <2>1. CASE kind = "bad"
    <3>1. n \in 1..Len(t) /\ t[n].kind = "bad" /\ t[n].age <= b1
      BY <1>1, <1>2, <1>4, <2>1
    <3> QED
      BY <3>1 DEF TroubleShows
  <2>2. CASE kind # "bad"
    <3>1. b1 = b /\ \A i \in 1..Len(ss) : i \in 1..Len(t) /\ t[i] = ss[i]
      BY <1>1, <1>2, <1>4, <2>2
    <3> QED
      BY <3>1 DEF TroubleShows
  <2> QED
    BY <2>1, <2>2
<1>10. /\ t \in Seq(NetworkSafetySample) /\ Len(t) = Len(ss) + 1
       /\ \A i \in 1..Len(ss) : t[i] = ss[i]
       /\ Sorted(t) /\ Spaced(t, Interval)
       /\ BadIsTrouble(t, b1) /\ ChangeIsUneasy(t, u1) /\ TroubleShows(t, g, b1)
  BY <1>2, <1>5, <1>6, <1>7, <1>8, <1>9
<1>11. u1 = IF Len(t) \in Changes(t) THEN 0 ELSE u
  BY <1>2 DEF u1
<1> QED
  BY <1>10, <1>11 DEF b1, t, new

(***************************************************************************)
(* The limit takes a sample only when it is out of the window.             *)
(***************************************************************************)
LEMMA LimitedKeeps ==
  ASSUME NEW ss \in Seq(NetworkSafetySample), Len(ss) <= SampleLimit, Spaced(ss, 0),
         NEW t \in Seq(NetworkSafetySample), Len(t) = Len(ss) + 1,
         \A i \in 1..Len(ss) : t[i] = ss[i],
         NEW g, NEW b \in 0..Stale, NEW u,
         Sorted(t), Spaced(t, Interval), BadIsTrouble(t, b), ChangeIsUneasy(t, u),
         TroubleShows(t, g, b)
  PROVE  LET l == Limited(t)
         IN  /\ l \in Seq(NetworkSafetySample) /\ Len(l) <= SampleLimit
             /\ Sorted(l) /\ Spaced(l, Interval)
             /\ BadIsTrouble(l, b) /\ ChangeIsUneasy(l, u) /\ TroubleShows(l, g, b)
<1>1. Len(ss) \in Nat
  OBVIOUS
<1>2. CASE Len(t) <= SampleLimit
  <2>1. Limited(t) = t
    BY <1>1, <1>2, Numbers DEF Limited
  <2> QED
    BY <1>2, <2>1
<1>3. CASE Len(t) > SampleLimit
  <2> DEFINE l == Tail(t)
  <2>1. Limited(t) = l /\ Len(ss) = SampleLimit
    BY <1>1, <1>3, Numbers DEF Limited
  <2>2. /\ l \in Seq(NetworkSafetySample) /\ Len(l) = Len(t) - 1
        /\ \A i \in 1..(Len(t) - 1) : l[i] = t[1 + i]
    <3>1. t # <<>>
      BY <1>1
    <3> QED
      BY <1>1, <3>1
  <2> HIDE DEF l
  <2>3. /\ Sorted(l) /\ Spaced(l, Interval)
        /\ BadIsTrouble(l, b) /\ ChangeIsUneasy(l, u)
    <3>1. 1 \in 0..Len(t)
      BY <1>1
    <3> QED
      BY <2>2, <3>1, SuffixKeeps
  <2>4. t[1].age > Window
    <3>1. Len(ss) >= 1 /\ 1 \in 1..Len(ss) /\ t[1] = ss[1] /\ Len(ss) - 1 \in Nat
      <4>1. SampleLimit # 0
        BY Spans, Numbers
      <4> QED
        BY <1>1, <2>1, <4>1, Numbers
    <3> DEFINE k == Len(ss) - 1
    <3>2. ss[1].age = Stale \/ Span(k) + Interval - 0 <= ss[1].age
      BY <3>1 DEF Spaced
    <3>3. k \in Nat /\ k + 1 = SampleLimit
      BY <1>1, <2>1, <3>1
    <3> HIDE DEF k
    <3>4. Span(k) \in Nat /\ Span(k) + Interval > Window
      <4>1. Span(k) \in Nat /\ Span(k + 1) = Span(k) + Interval
        BY <3>3, Spans
      <4>2. Span(k + 1) > Window
        BY <3>3, Spans
      <4> QED
        BY <4>1, <4>2
    <3>5. ss[1].age \in Nat
      <4>1. ss[1] \in NetworkSafetySample
        BY <3>1
      <4> QED
        BY <4>1, Numbers DEF NetworkSafetySample
    <3>6. ss[1].age > Window
      BY <3>2, <3>4, <3>5, Numbers
    <3> QED
      BY <3>1, <3>6
  <2>5. TroubleShows(l, g, b)
    <3> SUFFICES ASSUME b <= Window, ~(g <= b)
                 PROVE  \E i \in 1..Len(l) : l[i].kind = "bad" /\ l[i].age <= b
      BY DEF TroubleShows
    <3>1. PICK i \in 1..Len(t) : t[i].kind = "bad" /\ t[i].age <= b
      BY DEF TroubleShows
    <3>2. i # 1
      <4>1. t[1] \in NetworkSafetySample
        BY <1>1
      <4> QED
        BY <2>4, <3>1, <4>1, Numbers DEF NetworkSafetySample
    <3>3. i - 1 \in 1..Len(l) /\ 1 + (i - 1) = i
      BY <1>1, <2>2, <3>2
    <3>4. l[i - 1] = t[i]
      BY <2>2, <3>3
    <3> QED
      BY <3>1, <3>3, <3>4
  <2>6. Len(l) <= SampleLimit
    BY <1>1, <2>1, <2>2
  <2> QED
    BY <2>1, <2>2, <2>3, <2>5, <2>6
<1> QED
  BY <1>1, <1>2, <1>3, Numbers

-----------------------------------------------------------------------------
\* The steps of the connection.

LEMMA NetworkBegins ==
  ASSUME NetworkInit
  PROVE  NetworkIInv
<1>1. /\ gap = NoGap /\ broken = Stale /\ uneasy = Stale /\ samples = <<>>
      /\ known = FALSE /\ nextSample = 0 /\ Len(samples) = 0
  BY DEF NetworkInit
<1>2. NetworkTypeOK
  <2>1. samples \in Seq(NetworkSafetySample)
    BY <1>1
  <2>2. Len(samples) <= SampleLimit
    BY <1>1, Numbers
  <2>3. /\ nextSample \in 0..Interval /\ gap \in 0..NoGap
        /\ broken \in 0..Stale /\ uneasy \in 0..Stale
    BY <1>1, Numbers
  <2> QED
    BY <1>1, <2>1, <2>2, <2>3 DEF NetworkTypeOK
<1>3. /\ Sorted(samples) /\ Spaced(samples, nextSample)
      /\ BadIsTrouble(samples, broken) /\ ChangeIsUneasy(samples, uneasy)
  BY <1>1 DEF Sorted, Spaced, BadIsTrouble, ChangeIsUneasy
<1>4. GapIsTrouble(gap, broken) /\ TroubleShows(samples, gap, broken)
  BY <1>1, Numbers DEF GapIsTrouble, TroubleShows
<1> QED
  BY <1>2, <1>3, <1>4 DEF NetworkIInv

LEMMA ResetBegins ==
  ASSUME NetworkReset
  PROVE  NetworkIInv'
<1>1. /\ gap' = NoGap /\ broken' = Stale /\ uneasy' = Stale /\ samples' = <<>>
      /\ known' = FALSE /\ nextSample' = 0 /\ Len(samples') = 0
  BY DEF NetworkReset
<1>2. NetworkTypeOK'
  <2>1. samples' \in Seq(NetworkSafetySample)
    BY <1>1
  <2>2. Len(samples') <= SampleLimit
    BY <1>1, Numbers
  <2>3. /\ nextSample' \in 0..Interval /\ gap' \in 0..NoGap
        /\ broken' \in 0..Stale /\ uneasy' \in 0..Stale
    BY <1>1, Numbers
  <2> QED
    BY <1>1, <2>1, <2>2, <2>3 DEF NetworkTypeOK
<1>3. /\ Sorted(samples') /\ Spaced(samples', nextSample')
      /\ BadIsTrouble(samples', broken') /\ ChangeIsUneasy(samples', uneasy')
  BY <1>1 DEF Sorted, Spaced, BadIsTrouble, ChangeIsUneasy
<1>4. GapIsTrouble(gap', broken') /\ TroubleShows(samples', gap', broken')
  BY <1>1, Numbers DEF GapIsTrouble, TroubleShows
<1> QED
  BY <1>2, <1>3, <1>4 DEF NetworkIInv

(***************************************************************************)
(* Time makes everything older alike, up to the age that is out of the     *)
(* window.                                                                 *)
(***************************************************************************)
LEMMA Ageing ==
  /\ \A a \in 0..Stale : Older(a) \in 0..Stale /\ a <= Older(a)
  /\ \A a, c \in 0..Stale : a <= c => Older(a) <= Older(c)
  /\ \A a, c \in 0..Stale : Older(c) <= Window => c < Older(c) /\ c <= Window
  /\ \A a \in 0..Stale : Older(a) = Stale \/ Older(a) = a + 1
  /\ 0..Stale \subseteq Nat
BY Numbers DEF Older

LEMMA TimeKeeps ==
  ASSUME NetworkIInv, NetworkTimePasses
  PROVE  NetworkIInv'
<1> DEFINE t == samples'
<1>1. /\ samples \in Seq(NetworkSafetySample) /\ Len(samples) <= SampleLimit
      /\ Len(samples) \in Nat /\ nextSample \in 0..Interval /\ gap \in 0..NoGap
      /\ broken \in 0..Stale /\ uneasy \in 0..Stale /\ known \in BOOLEAN
  BY DEF NetworkIInv, NetworkTypeOK
<1>2. \A i \in 1..Len(samples) :
        /\ samples[i] \in NetworkSafetySample
        /\ samples[i].age \in 0..Stale /\ samples[i].kind \in Kinds
  <2> TAKE i \in 1..Len(samples)
  <2>1. samples[i] \in NetworkSafetySample
    BY <1>1
  <2> QED
    BY <2>1 DEF NetworkSafetySample
<1>3. /\ t = [i \in 1..Len(samples) |-> [samples[i] EXCEPT !.age = Older(@)]]
      /\ gap' = IF gap = NoGap THEN gap ELSE Older(gap)
      /\ broken' = Older(broken) /\ uneasy' = Older(uneasy)
      /\ nextSample' = IF nextSample > 0 THEN nextSample - 1 ELSE 0
      /\ known' = known
  BY DEF NetworkTimePasses
<1> HIDE DEF t
<1>4. \A i \in 1..Len(samples) :
        /\ t[i] = [samples[i] EXCEPT !.age = Older(@)]
        /\ t[i].age = Older(samples[i].age) /\ t[i].kind = samples[i].kind
        /\ t[i] \in NetworkSafetySample
  <2> SUFFICES ASSUME NEW i \in 1..Len(samples)
               PROVE  /\ t[i] = [samples[i] EXCEPT !.age = Older(@)]
                      /\ t[i].age = Older(samples[i].age) /\ t[i].kind = samples[i].kind
                      /\ t[i] \in NetworkSafetySample
    OBVIOUS
  <2>1. t[i] = [samples[i] EXCEPT !.age = Older(@)]
    BY <1>3
  <2>2. Older(samples[i].age) \in 0..Stale
    BY <1>2, Ageing
  <2> QED
    BY <1>2, <2>1, <2>2 DEF NetworkSafetySample
<1>5. t \in Seq(NetworkSafetySample) /\ Len(t) = Len(samples)
  <2>1. DOMAIN t = 1..Len(samples) /\ t = [i \in 1..Len(samples) |-> t[i]]
    BY <1>3
  <2>2. t \in [1..Len(samples) -> NetworkSafetySample]
    BY <1>4, <2>1
  <2> QED
    BY <1>1, <2>1, <2>2
<1>6. NetworkTypeOK'
  <2>1. gap' \in 0..NoGap
    <3>1. CASE gap = NoGap
      BY <1>1, <1>3, <3>1
    <3>2. CASE gap # NoGap
      <4>1. gap \in 0..Stale
        BY <1>1, <3>2, Numbers
      <4>2. Older(gap) \in 0..Stale
        BY <4>1, Ageing
      <4> QED
        BY <1>3, <3>2, <4>2, Numbers
    <3> QED
      BY <3>1, <3>2
  <2>2. broken' \in 0..Stale /\ uneasy' \in 0..Stale
    BY <1>1, <1>3, Ageing
  <2>3. nextSample' \in 0..Interval
    BY <1>1, <1>3, Numbers
  <2> QED
    BY <1>1, <1>3, <1>5, <2>1, <2>2, <2>3 DEF NetworkTypeOK, t
<1>7. Sorted(t)
  <2>1. Sorted(samples)
    BY DEF NetworkIInv
  <2> SUFFICES ASSUME NEW i \in 1..Len(t), NEW j \in 1..Len(t), i <= j
               PROVE  t[j].age <= t[i].age
    BY DEF Sorted
  <2>2. samples[j].age <= samples[i].age
    BY <1>5, <2>1 DEF Sorted
  <2>3. Older(samples[j].age) <= Older(samples[i].age)
    BY <1>2, <1>5, <2>2, Ageing
  <2> QED
    BY <1>4, <1>5, <2>3
<1>8. Spaced(t, nextSample')
  <2>1. Spaced(samples, nextSample)
    BY DEF NetworkIInv
  <2> SUFFICES ASSUME NEW i \in 1..Len(t), t[i].age # Stale
               PROVE  Span(Len(t) - i) + Interval - nextSample' <= t[i].age
    BY DEF Spaced
  <2>2. t[i].age = samples[i].age + 1 /\ samples[i].age # Stale /\ samples[i].age \in Nat
    <3>1. samples[i].age \in 0..Stale /\ t[i].age = Older(samples[i].age)
      BY <1>2, <1>4, <1>5
    <3> QED
      BY <3>1, Numbers DEF Older
  <2> DEFINE k == Len(t) - i
  <2>3. k \in Nat /\ Span(k) + Interval - nextSample <= samples[i].age
    BY <1>1, <1>5, <2>1, <2>2 DEF Spaced
  <2> HIDE DEF k
  <2>4. Span(k) \in Nat
    BY <2>3, Spans
  <2>5. nextSample - 1 <= nextSample' /\ nextSample \in Nat /\ nextSample' \in Nat
    BY <1>1, <1>3, Numbers
  <2>6. Span(k) + Interval - nextSample' <= t[i].age
    <3> DEFINE a == samples[i].age
               b == t[i].age
    <3>1. /\ a \in Nat /\ b = a + 1 /\ Interval \in Nat
          /\ Span(k) + Interval - nextSample <= a
      BY <2>2, <2>3, Numbers
    <3> HIDE DEF a, b
    <3>2. Span(k) + Interval - nextSample' <= b
      BY <2>4, <2>5, <3>1
    <3> QED
      BY <3>2 DEF b
  <2> QED
    BY <2>6 DEF k
<1>9. BadIsTrouble(t, broken')
  <2>1. BadIsTrouble(samples, broken)
    BY DEF NetworkIInv
  <2> SUFFICES ASSUME NEW i \in 1..Len(t), t[i].kind = "bad" PROVE broken' <= t[i].age
    BY DEF BadIsTrouble
  <2>2. broken <= samples[i].age
    BY <1>4, <1>5, <2>1 DEF BadIsTrouble
  <2>3. Older(broken) <= Older(samples[i].age)
    BY <1>1, <1>2, <1>5, <2>2, Ageing
  <2> QED
    BY <1>3, <1>4, <1>5, <2>3
<1>10. ChangeIsUneasy(t, uneasy')
  <2>1. ChangeIsUneasy(samples, uneasy)
    BY DEF NetworkIInv
  <2> SUFFICES ASSUME NEW i \in 2..Len(t), t[i].kind # "bad", t[i - 1].kind # "bad",
                      t[i].kind # t[i - 1].kind
               PROVE  uneasy' <= t[i].age
    BY DEF ChangeIsUneasy
  <2>2. i \in 1..Len(samples) /\ i - 1 \in 1..Len(samples) /\ i \in 2..Len(samples)
    BY <1>1, <1>5
  <2>3. uneasy <= samples[i].age
    BY <1>4, <2>1, <2>2 DEF ChangeIsUneasy
  <2>4. Older(uneasy) <= Older(samples[i].age)
    BY <1>1, <1>2, <2>2, <2>3, Ageing
  <2> QED
    BY <1>3, <1>4, <2>2, <2>4
<1>11. GapIsTrouble(gap', broken')
  <2>1. GapIsTrouble(gap, broken)
    BY DEF NetworkIInv
  <2>2. CASE gap = NoGap
    BY <1>3, <2>2 DEF GapIsTrouble
  <2>3. CASE gap # NoGap
    <3>1. gap \in 0..Stale /\ broken <= gap
      BY <1>1, <2>1, <2>3, Numbers DEF GapIsTrouble
    <3> QED
      BY <1>1, <1>3, <2>3, <3>1, Ageing DEF GapIsTrouble
  <2> QED
    BY <2>2, <2>3
<1>12. TroubleShows(t, gap', broken')
  <2>1. TroubleShows(samples, gap, broken)
    BY DEF NetworkIInv
  <2> SUFFICES ASSUME broken' <= Window, ~(gap' <= broken')
               PROVE  \E i \in 1..Len(t) : t[i].kind = "bad" /\ t[i].age <= broken'
    BY DEF TroubleShows
  <2>2. broken <= Window
    BY <1>1, <1>3, Ageing
  <2>3. ~(gap <= broken)
    <3> SUFFICES ASSUME gap <= broken PROVE gap' <= broken'
      OBVIOUS
    <3>1. gap # NoGap /\ gap \in 0..Stale
      BY <1>1, <2>2, Numbers
    <3> QED
      BY <1>1, <1>3, <3>1, Ageing
  <2>4. PICK i \in 1..Len(samples) : samples[i].kind = "bad" /\ samples[i].age <= broken
    BY <2>1, <2>2, <2>3 DEF TroubleShows
  <2>5. t[i].kind = "bad" /\ t[i].age <= broken'
    BY <1>1, <1>2, <1>3, <1>4, <2>4, Ageing
  <2> QED
    BY <1>5, <2>4, <2>5
<1> QED
  BY <1>6, <1>7, <1>8, <1>9, <1>10, <1>11, <1>12 DEF NetworkIInv, t

(***************************************************************************)
(* What every handler forgets first: the knowledge stays.                  *)
(***************************************************************************)
LEMMA Forgetting ==
  ASSUME NetworkIInv
  PROVE  /\ Recent(samples) \in Seq(NetworkSafetySample)
         /\ Len(Recent(samples)) <= SampleLimit
         /\ Sorted(Recent(samples)) /\ Spaced(Recent(samples), nextSample)
         /\ BadIsTrouble(Recent(samples), broken) /\ ChangeIsUneasy(Recent(samples), uneasy)
         /\ TroubleShows(Recent(samples), gap, broken)
<1>1. /\ samples \in Seq(NetworkSafetySample) /\ Len(samples) <= SampleLimit
      /\ gap \in 0..NoGap /\ broken \in 0..Stale
      /\ Sorted(samples) /\ Spaced(samples, nextSample)
      /\ BadIsTrouble(samples, broken) /\ ChangeIsUneasy(samples, uneasy)
      /\ TroubleShows(samples, gap, broken)
  BY DEF NetworkIInv, NetworkTypeOK
<1> DEFINE t == Recent(samples)
<1>2. /\ t \in Seq(NetworkSafetySample) /\ Len(t) <= Len(samples)
      /\ Sorted(t) /\ Spaced(t, nextSample) /\ BadIsTrouble(t, broken)
      /\ ChangeIsUneasy(t, uneasy) /\ TroubleShows(t, gap, broken)
  BY <1>1, RecentKeeps
<1> HIDE DEF t
<1>3. Len(t) <= SampleLimit
  <2>1. Len(t) \in Nat /\ Len(samples) \in Nat
    BY <1>1, <1>2
  <2> QED
    BY <1>1, <1>2, <2>1, Numbers
<1> QED
  BY <1>2, <1>3 DEF t

LEMMA GapRemains ==
  ASSUME gap \in 0..NoGap, NEW b \in 0..Stale, NEW ss
  PROVE  /\ RecentGap \in 0..NoGap
         /\ GapIsTrouble(gap, b) => GapIsTrouble(RecentGap, b)
         /\ TroubleShows(ss, gap, b) => TroubleShows(ss, RecentGap, b)
<1>1. RecentGap \in 0..NoGap
  BY Numbers DEF RecentGap
<1>2. GapIsTrouble(gap, b) => GapIsTrouble(RecentGap, b)
  BY DEF GapIsTrouble, RecentGap
<1>3. b <= Window /\ gap <= b => RecentGap = gap
  BY Numbers DEF RecentGap
<1>4. TroubleShows(ss, gap, b) => TroubleShows(ss, RecentGap, b)
  BY <1>3 DEF TroubleShows
<1> QED
  BY <1>1, <1>2, <1>4

\* A gap just seen.
LEMMA FreshGap ==
  ASSUME NEW ss \in Seq(NetworkSafetySample)
  PROVE  BadIsTrouble(ss, 0) /\ GapIsTrouble(0, 0) /\ TroubleShows(ss, 0, 0)
<1>1. ASSUME NEW i \in 1..Len(ss) PROVE 0 <= ss[i].age
  <2>1. ss[i] \in NetworkSafetySample
    OBVIOUS
  <2> QED
    BY <2>1, Numbers DEF NetworkSafetySample
<1> QED
  BY <1>1 DEF BadIsTrouble, GapIsTrouble, TroubleShows

LEMMA EvaluateKeeps ==
  ASSUME NetworkIInv, Evaluate
  PROVE  NetworkIInv'
<1>1. /\ samples' = Recent(samples) /\ gap' = RecentGap
      /\ known' = known /\ nextSample' = nextSample /\ broken' = broken /\ uneasy' = uneasy
  BY DEF Evaluate
<1>2. /\ gap \in 0..NoGap /\ broken \in 0..Stale /\ uneasy \in 0..Stale
      /\ known \in BOOLEAN /\ nextSample \in 0..Interval /\ GapIsTrouble(gap, broken)
  BY DEF NetworkIInv, NetworkTypeOK
<1>3. NetworkTypeOK'
  BY <1>1, <1>2, Forgetting, GapRemains DEF NetworkTypeOK
<1>4. /\ Sorted(samples') /\ Spaced(samples', nextSample')
      /\ BadIsTrouble(samples', broken') /\ ChangeIsUneasy(samples', uneasy')
  BY <1>1, Forgetting
<1>5. GapIsTrouble(gap', broken') /\ TroubleShows(samples', gap', broken')
  BY <1>1, <1>2, Forgetting, GapRemains
<1> QED
  BY <1>3, <1>4, <1>5 DEF NetworkIInv

LEMMA CommandKeeps ==
  ASSUME NetworkIInv, NEW command \in Commands, NetworkOnProcessUsercmds(command)
  PROVE  NetworkIInv'
<1>1. /\ samples' = Recent(samples) /\ known' = TRUE
      /\ gap' = (IF Discontinuity(command) THEN 0 ELSE RecentGap)
      /\ broken' = (IF Discontinuity(command) THEN 0 ELSE broken)
      /\ nextSample' = nextSample /\ uneasy' = uneasy
  BY DEF NetworkOnProcessUsercmds
<1>2. /\ gap \in 0..NoGap /\ broken \in 0..Stale /\ uneasy \in 0..Stale
      /\ nextSample \in 0..Interval /\ GapIsTrouble(gap, broken)
  BY DEF NetworkIInv, NetworkTypeOK
<1>3. /\ samples' \in Seq(NetworkSafetySample) /\ Len(samples') <= SampleLimit
      /\ Sorted(samples') /\ Spaced(samples', nextSample')
      /\ ChangeIsUneasy(samples', uneasy')
  BY <1>1, Forgetting
<1>4. CASE Discontinuity(command)
  <2>1. gap' = 0 /\ broken' = 0
    BY <1>1, <1>4
  <2>2. gap' \in 0..NoGap /\ broken' \in 0..Stale
    BY <2>1, Numbers
  <2>3. NetworkTypeOK'
    BY <1>1, <1>2, <1>3, <2>2 DEF NetworkTypeOK
  <2> QED
    BY <1>3, <2>1, <2>3, FreshGap DEF NetworkIInv
<1>5. CASE ~Discontinuity(command)
  <2>1. gap' = RecentGap /\ broken' = broken
    BY <1>1, <1>5
  <2>2. NetworkTypeOK'
    BY <1>1, <1>2, <1>3, <2>1, GapRemains DEF NetworkTypeOK
  <2>3. BadIsTrouble(samples', broken') /\ TroubleShows(samples', gap, broken')
    BY <1>1, <2>1, Forgetting
  <2>4. GapIsTrouble(gap', broken') /\ TroubleShows(samples', gap', broken')
    BY <1>2, <2>1, <2>3, GapRemains
  <2> QED
    BY <1>3, <2>2, <2>3, <2>4 DEF NetworkIInv
<1> QED
  BY <1>4, <1>5

LEMMA SampleKeeps ==
  ASSUME NetworkIInv, NEW kind \in Kinds, Sample(kind)
  PROVE  NetworkIInv'
<1> DEFINE t == Append(samples, [age |-> 0, kind |-> kind])
           l == Limited(t)
<1>1. /\ nextSample = 0 /\ nextSample' = Interval
      /\ samples' = Recent(l) /\ gap' = RecentGap /\ known' = known
      /\ broken' = (IF kind = "bad" THEN 0 ELSE broken)
      /\ uneasy' = (IF Len(t) \in Changes(t) THEN 0 ELSE uneasy)
  BY DEF Sample
<1>2. /\ samples \in Seq(NetworkSafetySample) /\ Len(samples) <= SampleLimit
      /\ gap \in 0..NoGap /\ broken \in 0..Stale /\ uneasy \in 0..Stale
      /\ known \in BOOLEAN
      /\ Sorted(samples) /\ Spaced(samples, 0)
      /\ BadIsTrouble(samples, broken) /\ ChangeIsUneasy(samples, uneasy)
      /\ GapIsTrouble(gap, broken) /\ TroubleShows(samples, gap, broken)
  BY <1>1 DEF NetworkIInv, NetworkTypeOK
<1>3. /\ t \in Seq(NetworkSafetySample) /\ Len(t) = Len(samples) + 1
      /\ \A i \in 1..Len(samples) : t[i] = samples[i]
      /\ Sorted(t) /\ Spaced(t, Interval)
      /\ BadIsTrouble(t, broken') /\ ChangeIsUneasy(t, uneasy')
      /\ TroubleShows(t, gap, broken')
  BY <1>1, <1>2, TakenKeeps
<1>4. broken' \in 0..Stale /\ uneasy' \in 0..Stale /\ broken' <= broken
  BY <1>1, <1>2, Numbers
<1> HIDE DEF t
<1>5. /\ l \in Seq(NetworkSafetySample) /\ Len(l) <= SampleLimit
      /\ Sorted(l) /\ Spaced(l, Interval)
      /\ BadIsTrouble(l, broken') /\ ChangeIsUneasy(l, uneasy')
      /\ TroubleShows(l, gap, broken')
  BY <1>2, <1>3, <1>4, LimitedKeeps
<1> HIDE DEF l
<1>6. /\ Recent(l) \in Seq(NetworkSafetySample) /\ Len(Recent(l)) <= Len(l)
      /\ Sorted(Recent(l)) /\ Spaced(Recent(l), Interval)
      /\ BadIsTrouble(Recent(l), broken') /\ ChangeIsUneasy(Recent(l), uneasy')
      /\ TroubleShows(Recent(l), gap, broken')
  BY <1>2, <1>4, <1>5, RecentKeeps
<1>7. Len(Recent(l)) <= SampleLimit
  <2>1. Len(l) \in Nat /\ Len(Recent(l)) \in Nat
    BY <1>5, <1>6
  <2> QED
    BY <1>5, <1>6, <2>1, Numbers
<1>8. GapIsTrouble(gap, broken')
  BY <1>2, <1>4, Numbers DEF GapIsTrouble
<1>9. /\ gap' \in 0..NoGap /\ GapIsTrouble(gap', broken')
      /\ TroubleShows(samples', gap', broken')
  BY <1>1, <1>2, <1>4, <1>6, <1>8, GapRemains
<1>10. nextSample' \in 0..Interval
  BY <1>1, Numbers
<1>11. NetworkTypeOK'
  BY <1>1, <1>2, <1>4, <1>6, <1>7, <1>9, <1>10 DEF NetworkTypeOK
<1> QED
  BY <1>1, <1>6, <1>9, <1>11 DEF NetworkIInv

LEMMA NetworkUnchanged ==
  ASSUME NetworkIInv, UNCHANGED networkVars
  PROVE  NetworkIInv'
BY DEF NetworkIInv, NetworkTypeOK, networkVars, GapIsTrouble, TroubleShows, Sorted, Spaced,
       BadIsTrouble, ChangeIsUneasy

LEMMA FrameKeeps ==
  ASSUME NetworkIInv, NetworkOnGameFrame
  PROVE  NetworkIInv'
BY SampleKeeps, NetworkUnchanged DEF NetworkOnGameFrame

-----------------------------------------------------------------------------
\* The verdict of the connection.

(***************************************************************************)
(* If the connection showed anything within the window, Evaluate vetoes.   *)
(***************************************************************************)
LEMMA TroubleIsVetoed ==
  ASSUME NetworkIInv, broken <= Window
  PROVE  Vetoed
<1>1. /\ gap \in 0..NoGap /\ broken \in 0..Stale
      /\ TroubleShows(Recent(samples), gap, broken)
  BY Forgetting DEF NetworkIInv, NetworkTypeOK
<1>2. CASE gap <= broken
  <2>1. RecentGap # NoGap
    BY <1>1, <1>2, Numbers DEF RecentGap
  <2> QED
    BY <2>1 DEF Vetoed, ShouldVeto
<1>3. CASE ~(gap <= broken)
  <2>1. \E i \in 1..Len(Recent(samples)) : Recent(samples)[i].kind = "bad"
    BY <1>1, <1>3 DEF TroubleShows
  <2> QED
    BY <2>1 DEF Vetoed, ShouldVeto
<1> QED
  BY <1>2, <1>3

(***************************************************************************)
(* If it has been quiet for longer than that, there is nothing to veto.    *)
(***************************************************************************)
LEMMA QuietIsSound ==
  ASSUME NetworkIInv
  PROVE  VetoHasCause
<1> SUFFICES ASSUME broken > Window, uneasy > Window, Len(Recent(samples)) >= 2
             PROVE  ~Vetoed
  BY DEF VetoHasCause
<1> DEFINE t == Recent(samples)
<1>1. /\ samples \in Seq(NetworkSafetySample)
      /\ gap \in 0..NoGap /\ broken \in 0..Stale /\ uneasy \in 0..Stale
      /\ GapIsTrouble(gap, broken)
  BY DEF NetworkIInv, NetworkTypeOK
<1>2. PICK n \in 0..Len(samples) :
           /\ t \in Seq(NetworkSafetySample)
           /\ Len(t) = Len(samples) - n
           /\ \A i \in 1..(Len(samples) - n) : t[i] = samples[n + i]
           /\ n < Len(samples) => samples[n + 1].age <= Window
  BY <1>1, RecentIsSuffix
<1>3. Sorted(t) /\ BadIsTrouble(t, broken) /\ ChangeIsUneasy(t, uneasy)
  BY Forgetting
<1>4. (Vetoed <=> ShouldVeto(t, RecentGap)) /\ Len(t) >= 2
  BY Zenon DEF Vetoed
<1> HIDE DEF t
<1>5. Len(t) \in Nat /\ Len(t) >= 2
  BY <1>2, <1>4
<1>6. ASSUME NEW i \in 1..Len(t) PROVE t[i].age \in Nat /\ t[i].age <= Window
  <2>1. t[1].age <= Window
    <3>1. n < Len(samples) /\ 1 \in 1..(Len(samples) - n)
      BY <1>1, <1>2, <1>5
    <3> QED
      BY <1>2, <3>1
  <2>2. t[i] \in NetworkSafetySample /\ t[1] \in NetworkSafetySample
    BY <1>2, <1>5
  <2>3. t[i].age <= t[1].age
    BY <1>3, <1>5 DEF Sorted
  <2> QED
    BY <2>1, <2>2, <2>3, Numbers DEF NetworkSafetySample
<1>7. ASSUME NEW i \in 1..Len(t) PROVE t[i].kind # "bad"
  <2> SUFFICES ASSUME t[i].kind = "bad" PROVE FALSE
    OBVIOUS
  <2>1. broken <= t[i].age
    BY <1>3 DEF BadIsTrouble
  <2> QED
    BY <1>1, <1>6, <2>1, Numbers
<1>8. ASSUME NEW i \in 2..Len(t) PROVE t[i].kind = t[i - 1].kind
  <2> SUFFICES ASSUME t[i].kind # t[i - 1].kind PROVE FALSE
    OBVIOUS
  <2>1. i \in 1..Len(t) /\ i - 1 \in 1..Len(t)
    BY <1>5
  <2>2. uneasy <= t[i].age
    BY <1>3, <1>7, <2>1 DEF ChangeIsUneasy
  <2> QED
    BY <1>1, <1>6, <2>1, <2>2, Numbers
<1>9. Pings(t) = 1..Len(t)
  BY <1>7 DEF Pings
<1>10. Changes(t) = {}
  <2> SUFFICES ASSUME NEW i \in 1..Len(t), NEW j \in 1..Len(t), j < i,
                      \A k \in 1..Len(t) : k <= j \/ i <= k,
                      t[j].kind # t[i].kind
               PROVE  FALSE
    BY <1>9 DEF Changes
  <2>1. j = i - 1 /\ i \in 2..Len(t)
    BY <1>5
  <2> QED
    BY <1>8, <2>1
<1>11. Cardinality(Pings(t)) = Len(t) /\ Cardinality(Changes(t)) = 0
  <2>1. Cardinality(1..Len(t)) = Len(t)
    <3>1. Len(t) \in Int /\ 1 \in Int /\ ~(1 > Len(t)) /\ Len(t) - 1 + 1 = Len(t)
      BY <1>5
    <3>2. Cardinality(1..Len(t)) = IF 1 > Len(t) THEN 0 ELSE Len(t) - 1 + 1
      BY <3>1, FS_Interval, Zenon
    <3> QED
      BY <3>1, <3>2
  <2> QED
    BY <1>9, <1>10, <2>1, FS_EmptySet
<1>12. ~Jittery(t)
  BY <1>5, <1>11, Numbers DEF Jittery
<1>13. RecentGap = NoGap
  <2> SUFFICES ASSUME gap # NoGap PROVE gap = Stale
    BY DEF RecentGap
  <2> QED
    BY <1>1, Numbers DEF GapIsTrouble
<1>14. ~ShouldVeto(t, RecentGap)
  BY <1>5, <1>7, <1>11, <1>12, <1>13 DEF ShouldVeto
<1> QED
  BY <1>4, <1>14, Zenon

-----------------------------------------------------------------------------
\* The events.

\* The depth of the event that copy i belongs to.
DepthOf(i) == Len(firing) - Len(pending) + i

(***************************************************************************)
(* The copies that wait are those of the innermost events, in order: an    *)
(* event that began while CS2AC was not loaded has none, and all of those  *)
(* are outer ones, for Cleanup drops what waits.                           *)
(***************************************************************************)
PendingIsInnermost ==
  \A i \in 1..Len(pending) : /\ pending[i].depth = DepthOf(i)
                             /\ pending[i].event \in {firing[DepthOf(i)], "none"}

NothingWaitsUnloaded == ~loaded => pending = <<>>

EventsIInv == EventsTypeOK /\ NothingWaitsUnloaded /\ PendingIsInnermost

LEMMA EventsBegin ==
  ASSUME EventsInit
  PROVE  EventsIInv
<1>1. loaded = FALSE /\ firing = <<>> /\ pending = <<>> /\ Len(firing) = 0 /\ Len(pending) = 0
  BY DEF EventsInit
<1>2. EventsTypeOK
  <2>1. firing \in Seq(Events) /\ pending \in Seq(PendingGameEvent)
    BY <1>1
  <2>2. Len(firing) <= MaxDepth /\ Len(pending) <= Len(firing)
    BY <1>1, EventsAssumption
  <2>3. loaded \in BOOLEAN
    BY <1>1, Zenon
  <2> QED
    BY <2>1, <2>2, <2>3 DEF EventsTypeOK
<1> QED
  BY <1>1, <1>2 DEF EventsIInv, NothingWaitsUnloaded, PendingIsInnermost

LEMMA EventsUnchanged ==
  ASSUME EventsIInv, UNCHANGED eventVars
  PROVE  EventsIInv'
BY DEF EventsIInv, EventsTypeOK, NothingWaitsUnloaded, PendingIsInnermost, DepthOf, eventVars

LEMMA BeforeKeeps ==
  ASSUME EventsIInv, NEW event \in Events, FireEventBefore(event)
  PROVE  EventsIInv'
<1>1. /\ Len(firing) < MaxDepth /\ firing' = Append(firing, event)
      /\ pending' = (IF loaded THEN Append(pending, Kept(event)) ELSE pending)
      /\ loaded' = loaded
  BY DEF FireEventBefore
<1>2. /\ loaded \in BOOLEAN /\ firing \in Seq(Events) /\ Len(firing) <= MaxDepth
      /\ pending \in Seq(PendingGameEvent) /\ Len(pending) <= Len(firing)
      /\ Len(firing) \in Nat /\ Len(pending) \in Nat
      /\ ~loaded => pending = <<>>
  BY DEF EventsIInv, EventsTypeOK, NothingWaitsUnloaded
<1>3. /\ firing' \in Seq(Events) /\ Len(firing') = Len(firing) + 1
      /\ Len(firing') <= MaxDepth /\ firing'[Len(firing) + 1] = event
      /\ \A i \in 1..Len(firing) : firing'[i] = firing[i]
  BY <1>1, <1>2, EventsAssumption
<1>4. CASE ~loaded
  <2>1. pending' = <<>> /\ Len(pending') = 0
    BY <1>1, <1>2, <1>4
  <2>2. pending' \in Seq(PendingGameEvent)
    BY <2>1
  <2>3. EventsTypeOK'
    BY <1>1, <1>2, <1>3, <2>1, <2>2 DEF EventsTypeOK
  <2> QED
    BY <1>1, <2>1, <2>3 DEF EventsIInv, NothingWaitsUnloaded, PendingIsInnermost
<1>5. CASE loaded
  <2> DEFINE copy == Kept(event)
  <2>1. /\ copy \in PendingGameEvent /\ copy.depth = Len(firing) + 1
        /\ copy.event \in {event, "none"}
    <3>1. Len(firing) + 1 \in 1..MaxDepth
      BY <1>1, <1>2, EventsAssumption
    <3>2. /\ copy = [event |-> IF event \in Consumed THEN event ELSE "none",
                     depth |-> Len(firing) + 1]
          /\ (IF event \in Consumed THEN event ELSE "none") \in Consumed \union {"none"}
      BY DEF Kept
    <3> QED
      BY <3>1, <3>2 DEF PendingGameEvent
  <2> HIDE DEF copy
  <2>2. /\ pending' = Append(pending, copy) /\ pending' \in Seq(PendingGameEvent)
        /\ Len(pending') = Len(pending) + 1 /\ pending'[Len(pending) + 1] = copy
        /\ \A i \in 1..Len(pending) : pending'[i] = pending[i]
    <3>1. pending' = Append(pending, copy)
      BY <1>1, <1>5 DEF copy
    <3> QED
      BY <1>2, <2>1, <3>1
  <2>3. EventsTypeOK'
    BY <1>1, <1>2, <1>3, <2>2 DEF EventsTypeOK
  <2>4. NothingWaitsUnloaded'
    BY <1>1, <1>5 DEF NothingWaitsUnloaded
  <2>5. PendingIsInnermost'
    <3> SUFFICES ASSUME NEW i \in 1..Len(pending')
                 PROVE  /\ pending'[i].depth = Len(firing') - Len(pending') + i
                        /\ pending'[i].event
                             \in {firing'[Len(firing') - Len(pending') + i], "none"}
      BY DEF PendingIsInnermost, DepthOf
    <3>1. CASE i = Len(pending) + 1
      <4>1. Len(firing') - Len(pending') + i = Len(firing) + 1
        BY <1>2, <1>3, <2>2, <3>1
      <4> QED
        BY <1>3, <2>1, <2>2, <3>1, <4>1
    <3>2. CASE i \in 1..Len(pending)
      <4> DEFINE d == Len(firing) - Len(pending) + i
      <4>1. Len(firing') - Len(pending') + i = d /\ d \in 1..Len(firing)
        BY <1>2, <1>3, <2>2, <3>2
      <4>2. pending[i].depth = d /\ pending[i].event \in {firing[d], "none"}
        BY <3>2 DEF EventsIInv, PendingIsInnermost, DepthOf
      <4> HIDE DEF d
      <4> QED
        BY <1>3, <2>2, <3>2, <4>1, <4>2
    <3> QED
      BY <1>2, <2>2, <3>1, <3>2
  <2> QED
    BY <2>3, <2>4, <2>5 DEF EventsIInv
<1> QED
  BY <1>4, <1>5

\* A sequence without its last element.
LEMMA WithoutLast ==
  ASSUME NEW S, NEW s \in Seq(S), Len(s) >= 1
  PROVE  /\ SubSeq(s, 1, Len(s) - 1) \in Seq(S)
         /\ Len(SubSeq(s, 1, Len(s) - 1)) = Len(s) - 1
         /\ \A i \in 1..(Len(s) - 1) : SubSeq(s, 1, Len(s) - 1)[i] = s[i]
<1> DEFINE n == Len(s) - 1
<1>1. n \in Nat /\ 1 \in 1..(Len(s) + 1) /\ n \in (1 - 1)..Len(s)
  OBVIOUS
<1>2. \A i \in 1..n : s[i] \in S
  OBVIOUS
<1> HIDE DEF n
<1>3. /\ SubSeq(s, 1, n) \in Seq(S)
      /\ Len(SubSeq(s, 1, n)) = n
      /\ \A i \in 1..n : SubSeq(s, 1, n)[i] = s[i]
  BY <1>1, <1>2, SubSeqProperties
<1> QED
  BY <1>3 DEF n

LEMMA AfterKeeps ==
  ASSUME EventsIInv, FireEventAfter
  PROVE  EventsIInv'
<1>1. /\ firing # <<>> /\ firing' = SubSeq(firing, 1, Len(firing) - 1)
      /\ pending' = (IF loaded /\ pending # <<>> THEN SubSeq(pending, 1, Len(pending) - 1)
                     ELSE pending)
      /\ loaded' = loaded
  BY DEF FireEventAfter
<1>2. /\ loaded \in BOOLEAN /\ firing \in Seq(Events) /\ Len(firing) <= MaxDepth
      /\ pending \in Seq(PendingGameEvent) /\ Len(pending) <= Len(firing)
      /\ Len(firing) \in Nat /\ Len(pending) \in Nat
      /\ ~loaded => pending = <<>>
  BY DEF EventsIInv, EventsTypeOK, NothingWaitsUnloaded
<1>3. /\ firing' \in Seq(Events) /\ Len(firing') = Len(firing) - 1 /\ Len(firing) >= 1
      /\ Len(firing') <= MaxDepth
      /\ \A i \in 1..(Len(firing) - 1) : firing'[i] = firing[i]
  <2>1. Len(firing) >= 1
    BY <1>1, <1>2
  <2>2. /\ firing' \in Seq(Events) /\ Len(firing') = Len(firing) - 1
        /\ \A i \in 1..(Len(firing) - 1) : firing'[i] = firing[i]
    BY <1>1, <1>2, <2>1, WithoutLast
  <2>3. Len(firing') <= MaxDepth
    BY <1>2, <2>2, EventsAssumption
  <2> QED
    BY <2>1, <2>2, <2>3
<1>4. CASE pending = <<>>
  <2>1. pending' = <<>> /\ Len(pending') = 0
    BY <1>1, <1>4
  <2>2. pending' \in Seq(PendingGameEvent)
    BY <2>1
  <2>3. EventsTypeOK'
    BY <1>1, <1>2, <1>3, <2>1, <2>2 DEF EventsTypeOK
  <2> QED
    BY <1>1, <2>1, <2>3 DEF EventsIInv, NothingWaitsUnloaded, PendingIsInnermost
<1>5. CASE pending # <<>>
  <2>1. loaded /\ loaded' = loaded
    BY <1>1, <1>2, <1>5
  <2>2. /\ pending' \in Seq(PendingGameEvent) /\ Len(pending') = Len(pending) - 1
        /\ Len(pending) >= 1
        /\ \A i \in 1..(Len(pending) - 1) : pending'[i] = pending[i]
    <3>1. pending' = SubSeq(pending, 1, Len(pending) - 1) /\ Len(pending) >= 1
      BY <1>1, <1>2, <1>5, <2>1
    <3> QED
      BY <1>2, <3>1, WithoutLast
  <2>3. EventsTypeOK'
    BY <1>1, <1>2, <1>3, <2>2 DEF EventsTypeOK
  <2>4. NothingWaitsUnloaded'
    BY <2>1 DEF NothingWaitsUnloaded
  <2>5. PendingIsInnermost'
    <3> SUFFICES ASSUME NEW i \in 1..Len(pending')
                 PROVE  /\ pending'[i].depth = Len(firing') - Len(pending') + i
                        /\ pending'[i].event
                             \in {firing'[Len(firing') - Len(pending') + i], "none"}
      BY DEF PendingIsInnermost, DepthOf
    <3> DEFINE d == Len(firing) - Len(pending) + i
    <3>1. /\ i \in 1..Len(pending) /\ i \in 1..(Len(pending) - 1)
          /\ Len(firing') - Len(pending') + i = d /\ d \in 1..(Len(firing) - 1)
      BY <1>2, <1>3, <2>2
    <3>2. pending[i].depth = d /\ pending[i].event \in {firing[d], "none"}
      BY <3>1 DEF EventsIInv, PendingIsInnermost, DepthOf
    <3> HIDE DEF d
    <3> QED
      BY <1>3, <2>2, <3>1, <3>2
  <2> QED
    BY <2>3, <2>4, <2>5 DEF EventsIInv
<1> QED
  BY <1>4, <1>5

LEMMA LoadingKeeps ==
  ASSUME EventsIInv, LoadHooks \/ Cleanup
  PROVE  EventsIInv'
<1>1. CASE LoadHooks
  <2>1. ~loaded /\ loaded' = TRUE /\ firing' = firing /\ pending' = pending
    BY <1>1 DEF LoadHooks
  <2> QED
    BY <2>1 DEF EventsIInv, EventsTypeOK, NothingWaitsUnloaded, PendingIsInnermost, DepthOf
<1>2. CASE Cleanup
  <2>1. loaded' = FALSE /\ firing' = firing /\ pending' = <<>> /\ Len(pending') = 0
    BY <1>2 DEF Cleanup, NonePending
  <2>2. pending' \in Seq(PendingGameEvent) /\ Len(firing) \in Nat
    BY <2>1 DEF EventsIInv, EventsTypeOK
  <2>3. EventsTypeOK'
    <3>1. Len(pending') <= Len(firing')
      BY <2>1, <2>2
    <3>2. loaded' \in BOOLEAN
      BY <2>1, Zenon
    <3> QED
      BY <2>1, <2>2, <3>1, <3>2 DEF EventsIInv, EventsTypeOK
  <2> QED
    BY <2>1, <2>3 DEF EventsIInv, NothingWaitsUnloaded, PendingIsInnermost
<1> QED
  BY <1>1, <1>2

LEMMA InnermostIsHandled ==
  ASSUME EventsIInv
  PROVE  HandlesItsOwn
<1> SUFFICES ASSUME pending # <<>>
             PROVE  /\ Latest.depth = Len(firing)
                    /\ Latest.event \in {firing[Len(firing)], "none"}
  BY DEF HandlesItsOwn
<1>1. Len(pending) \in 1..Len(pending) /\ DepthOf(Len(pending)) = Len(firing)
  BY DEF EventsIInv, EventsTypeOK, DepthOf
<1> QED
  BY <1>1 DEF EventsIInv, PendingIsInnermost, Latest

-----------------------------------------------------------------------------
\* The pairs.

DoubletapTypeOK ==
  /\ fired \in 0..TooLate
  /\ weapon \in Weapons \union {NoWeapon}
  /\ incidents \in 0..(Threshold - 1)
  /\ vetoed \in BOOLEAN
  /\ pairs \in Seq(BOOLEAN) /\ Len(pairs) = incidents
  /\ wronged = FALSE

(***************************************************************************)
(* What the connection showed at a pair is remembered until the verdict.   *)
(***************************************************************************)
PairsAreExcused == \A i \in 1..Len(pairs) : pairs[i] = TRUE => vetoed = TRUE

PairsIInv == DoubletapTypeOK /\ PairsAreExcused

IInv == NetworkIInv /\ EventsIInv /\ PairsIInv

LEMMA NoPairs ==
  ASSUME fired' \in 0..TooLate, weapon' = NoWeapon, incidents' = 0, vetoed' = FALSE,
         pairs' = <<>>, wronged' = wronged, PairsIInv
  PROVE  PairsIInv'
<1>1. pairs' \in Seq(BOOLEAN) /\ Len(pairs') = 0
  OBVIOUS
<1>2. vetoed' \in BOOLEAN
  BY Zenon
<1>3. incidents' \in 0..(Threshold - 1)
  BY DEF Threshold
<1>4. wronged' = FALSE
  BY DEF PairsIInv, DoubletapTypeOK
<1> QED
  BY <1>1, <1>2, <1>3, <1>4 DEF PairsIInv, DoubletapTypeOK, PairsAreExcused

LEMMA PairsUnchanged ==
  ASSUME PairsIInv, UNCHANGED <<incidents, vetoed, pairs, wronged>>,
         fired' \in 0..TooLate, weapon' \in Weapons \union {NoWeapon}
  PROVE  PairsIInv'
BY DEF PairsIInv, DoubletapTypeOK, PairsAreExcused

(***************************************************************************)
(* A pair counts with what the connection shows now; at the third, nobody  *)
(* is punished who was not sound at each.                                  *)
(***************************************************************************)
LEMMA PairKeeps ==
  ASSUME NetworkIInv, PairsIInv, NEW w \in Weapons, Pair(w)
  PROVE  NetworkIInv' /\ PairsIInv'
<1>1. /\ fired' = 0 /\ weapon' = weapon /\ Evaluate
      /\ Counted \/ Verdict
  BY DEF Pair
<1>2. /\ incidents \in 0..(Threshold - 1) /\ pairs \in Seq(BOOLEAN)
      /\ Len(pairs) = incidents /\ wronged = FALSE
      /\ weapon \in Weapons \union {NoWeapon}
      /\ Threshold = 3
  BY DEF PairsIInv, DoubletapTypeOK, Threshold
<1> DEFINE shown == (broken <= Window)
<1>3. shown \in BOOLEAN /\ (shown = TRUE => Vetoed)
  <2>1. shown \in BOOLEAN
    OBVIOUS
  <2>2. ASSUME shown = TRUE PROVE Vetoed
    <3>1. broken <= Window
      BY <2>2
    <3> QED
      BY <3>1, TroubleIsVetoed, Zenon
  <2> QED
    BY <2>1, <2>2, Zenon
<1>4. Paired = Append(pairs, shown)
  BY DEF Paired
<1> HIDE DEF shown
<1>5. /\ Paired \in Seq(BOOLEAN) /\ Len(Paired) = incidents + 1
      /\ \A i \in 1..incidents : Paired[i] = pairs[i]
      /\ Paired[incidents + 1] = shown
  BY <1>2, <1>3, <1>4
<1>6. ASSUME NEW i \in 1..(incidents + 1), Paired[i] = TRUE PROVE Merged
  <2>1. CASE i \in 1..incidents
    <3>1. pairs[i] = TRUE /\ i \in 1..Len(pairs)
      BY <1>2, <1>5, <1>6, <2>1
    <3>2. vetoed = TRUE
      BY <3>1 DEF PairsIInv, PairsAreExcused
    <3> QED
      BY <3>2, Zenon DEF Merged
  <2>2. CASE i = incidents + 1
    BY <1>3, <1>5, <1>6, <2>2, Zenon DEF Merged
  <2> QED
    BY <1>2, <2>1, <2>2
<1>7. CASE Counted
  <2>1. /\ incidents + 1 < Threshold /\ incidents' = incidents + 1
        /\ pairs' = Paired /\ wronged' = wronged
    BY <1>7 DEF Counted
  <2>2. vetoed' \in BOOLEAN /\ (Merged => vetoed' = TRUE)
    <3>1. vetoed' = Merged /\ Merged \in BOOLEAN
      BY <1>7, Zenon DEF Counted, Merged
    <3> QED
      BY <3>1, Zenon
  <2>3. PairsAreExcused'
    <3> SUFFICES ASSUME NEW i \in 1..Len(pairs'), pairs'[i] = TRUE PROVE vetoed' = TRUE
      BY DEF PairsAreExcused
    <3>1. i \in 1..(incidents + 1) /\ Paired[i] = TRUE
      BY <1>5, <2>1
    <3> QED
      BY <1>6, <2>2, <3>1
  <2>4. DoubletapTypeOK'
    <3>1. fired' \in 0..TooLate /\ incidents' \in 0..(Threshold - 1)
      BY <1>1, <1>2, <2>1 DEF TooLate
    <3> QED
      BY <1>1, <1>2, <1>5, <2>1, <2>2, <3>1 DEF DoubletapTypeOK
  <2> QED
    BY <1>1, <2>3, <2>4, EvaluateKeeps DEF PairsIInv
<1>8. CASE Verdict
  <2>1. /\ incidents + 1 = Threshold /\ incidents' = 0 /\ vetoed' = FALSE /\ pairs' = <<>>
        /\ wronged' = (wronged \/ (~Merged /\ Paired # [i \in 1..Threshold |-> FALSE]))
    BY <1>8 DEF Verdict
  <2>2. ~Merged => Paired = [i \in 1..Threshold |-> FALSE]
    <3> SUFFICES ASSUME ~Merged PROVE Paired = [i \in 1..Threshold |-> FALSE]
      OBVIOUS
    <3>1. \A i \in 1..Threshold : Paired[i] = FALSE
      <4> TAKE i \in 1..Threshold
      <4>1. Paired[i] \in BOOLEAN
        BY <1>5, <2>1
      <4>2. ~(Paired[i] = TRUE)
        BY <1>6, <2>1
      <4> QED
        BY <4>1, <4>2, Zenon
    <3>2. Len(Paired) = Threshold /\ Paired = [i \in 1..Len(Paired) |-> Paired[i]]
      BY <1>5, <2>1
    <3> QED
      BY <3>1, <3>2, Zenon
  <2>3. wronged' = FALSE
    BY <1>2, <2>1, <2>2, Zenon
  <2>4. vetoed' \in BOOLEAN
    BY <2>1, Zenon
  <2>5. DoubletapTypeOK' /\ PairsAreExcused'
    <3>1. /\ fired' \in 0..TooLate /\ incidents' \in 0..(Threshold - 1)
          /\ pairs' \in Seq(BOOLEAN) /\ Len(pairs') = incidents'
      BY <1>1, <1>2, <2>1 DEF TooLate
    <3> QED
      BY <1>1, <1>2, <2>1, <2>3, <2>4, <3>1 DEF DoubletapTypeOK, PairsAreExcused
  <2> QED
    BY <1>1, <2>5, EvaluateKeeps DEF PairsIInv
<1> QED
  BY <1>1, <1>7, <1>8

-----------------------------------------------------------------------------
\* The invariant.

LEMMA Begins ==
  ASSUME Init
  PROVE  IInv
<1>1. NetworkIInv /\ EventsIInv
  BY NetworkBegins, EventsBegin DEF Init
<1>2. /\ fired = TooLate /\ weapon = NoWeapon /\ incidents = 0 /\ vetoed = FALSE
      /\ pairs = <<>> /\ wronged = FALSE /\ Len(pairs) = 0
  BY DEF Init
<1>3. vetoed \in BOOLEAN
  BY <1>2, Zenon
<1>4. PairsIInv
  <2>1. pairs \in Seq(BOOLEAN) /\ fired \in 0..TooLate /\ incidents \in 0..(Threshold - 1)
    BY <1>2 DEF TooLate, Threshold
  <2> QED
    BY <1>2, <1>3, <2>1 DEF PairsIInv, DoubletapTypeOK, PairsAreExcused
<1> QED
  BY <1>1, <1>4 DEF IInv

LEMMA FiredKeeps ==
  ASSUME IInv, EventFired
  PROVE  IInv'
<1>1. EventsIInv'
  BY AfterKeeps DEF EventFired, IInv
<1>2. /\ NetworkIInv /\ PairsIInv
      /\ fired \in 0..TooLate /\ weapon \in Weapons \union {NoWeapon}
  BY DEF IInv, PairsIInv, DoubletapTypeOK
<1>3. \/ Handled \in Others /\ Interrupted
      \/ Handled \in Weapons /\ Single(Handled)
      \/ Handled \in Weapons /\ Pair(Handled)
      \/ Unaffected
  BY DEF EventFired, OnWeaponFire
<1>4. CASE Interrupted
  <2>1. /\ UNCHANGED networkVars /\ UNCHANGED <<incidents, vetoed, pairs, wronged>>
        /\ fired' \in 0..TooLate /\ weapon' \in Weapons \union {NoWeapon}
    BY <1>4 DEF Interrupted, TooLate
  <2> QED
    BY <1>1, <1>2, <2>1, NetworkUnchanged, PairsUnchanged DEF IInv
<1>5. CASE Handled \in Weapons /\ Single(Handled)
  <2>1. /\ UNCHANGED networkVars /\ UNCHANGED <<incidents, vetoed, pairs, wronged>>
        /\ fired' \in 0..TooLate /\ weapon' \in Weapons \union {NoWeapon}
    BY <1>5 DEF Single, TooLate
  <2> QED
    BY <1>1, <1>2, <2>1, NetworkUnchanged, PairsUnchanged DEF IInv
<1>6. CASE Handled \in Weapons /\ Pair(Handled)
  BY <1>1, <1>2, <1>6, PairKeeps DEF IInv
<1>7. CASE Unaffected
  <2>1. /\ UNCHANGED networkVars /\ UNCHANGED <<incidents, vetoed, pairs, wronged>>
        /\ fired' \in 0..TooLate /\ weapon' \in Weapons \union {NoWeapon}
    BY <1>2, <1>7 DEF Unaffected, doubletapVars
  <2> QED
    BY <1>1, <1>2, <2>1, NetworkUnchanged, PairsUnchanged DEF IInv
<1> QED
  BY <1>3, <1>4, <1>5, <1>6, <1>7

LEMMA StepKeeps ==
  ASSUME IInv, [Next]_vars
  PROVE  IInv'
<1>1. /\ NetworkIInv /\ EventsIInv /\ PairsIInv
      /\ fired \in 0..TooLate /\ weapon \in Weapons \union {NoWeapon}
  BY DEF IInv, PairsIInv, DoubletapTypeOK
<1>2. UNCHANGED doubletapVars => PairsIInv'
  BY <1>1, PairsUnchanged DEF doubletapVars
<1>3. Unaffected => NetworkIInv' /\ PairsIInv'
  BY <1>1, <1>2, NetworkUnchanged DEF Unaffected
<1>4. ASSUME NEW event \in Events, FireEvent(event) PROVE IInv'
  BY <1>1, <1>3, <1>4, BeforeKeeps DEF FireEvent, IInv
<1>5. ASSUME EventFired PROVE IInv'
  BY <1>5, FiredKeeps
<1>6. ASSUME NEW command \in Commands, OnProcessUsercmds(command) PROVE IInv'
  <2>1. NetworkIInv'
    BY <1>1, <1>6, CommandKeeps DEF OnProcessUsercmds
  <2>2. UNCHANGED eventVars /\ UNCHANGED doubletapVars
    BY <1>6 DEF OnProcessUsercmds
  <2> QED
    BY <1>1, <1>2, <2>1, <2>2, EventsUnchanged DEF IInv
<1>7. ASSUME OnGameFrame PROVE IInv'
  <2>1. NetworkIInv'
    BY <1>1, <1>7, FrameKeeps DEF OnGameFrame
  <2>2. /\ UNCHANGED eventVars /\ UNCHANGED <<incidents, vetoed, pairs, wronged>>
        /\ weapon' \in Weapons \union {NoWeapon}
        /\ fired' = IF fired < TooLate THEN fired + 1 ELSE fired
    BY <1>1, <1>7 DEF OnGameFrame
  <2>3. fired' \in 0..TooLate
    BY <1>1, <2>2 DEF TooLate
  <2> QED
    BY <1>1, <2>1, <2>2, <2>3, EventsUnchanged, PairsUnchanged DEF IInv
<1>8. ASSUME TimePasses PROVE IInv'
  <2>1. NetworkIInv'
    BY <1>1, <1>8, TimeKeeps DEF TimePasses
  <2>2. UNCHANGED eventVars /\ UNCHANGED doubletapVars
    BY <1>8 DEF TimePasses
  <2> QED
    BY <1>1, <1>2, <2>1, <2>2, EventsUnchanged DEF IInv
<1>9. ASSUME NetworkReset, ResetDoubletap PROVE NetworkIInv' /\ PairsIInv'
  <2>1. /\ fired' \in 0..TooLate /\ weapon' = NoWeapon /\ incidents' = 0
        /\ vetoed' = FALSE /\ pairs' = <<>> /\ wronged' = wronged
    BY <1>9 DEF ResetDoubletap, ResetState, TooLate
  <2> QED
    BY <1>1, <1>9, <2>1, ResetBegins, NoPairs
<1>10. ASSUME Reset PROVE IInv'
  <2>1. NetworkReset /\ ResetDoubletap /\ UNCHANGED eventVars
    BY <1>10 DEF Reset
  <2> QED
    BY <1>1, <1>9, <2>1, EventsUnchanged DEF IInv
<1>11. ASSUME Load PROVE IInv'
  BY <1>1, <1>3, <1>11, LoadingKeeps DEF Load, IInv
<1>12. ASSUME Unload PROVE IInv'
  <2>1. Cleanup /\ NetworkReset /\ ResetDoubletap
    BY <1>12 DEF Unload
  <2> QED
    BY <1>1, <1>9, <2>1, LoadingKeeps DEF IInv
<1>13. ASSUME UNCHANGED vars PROVE IInv'
  <2>1. UNCHANGED networkVars /\ UNCHANGED eventVars /\ UNCHANGED doubletapVars
    BY <1>13 DEF vars
  <2> QED
    BY <1>1, <1>2, <2>1, NetworkUnchanged, EventsUnchanged DEF IInv
<1> QED
  BY <1>4, <1>5, <1>6, <1>7, <1>8, <1>10, <1>11, <1>12, <1>13 DEF Next

THEOREM Invariance == Spec => []IInv
<1>1. Init => IInv
  BY Begins
<1>2. IInv /\ [Next]_vars => IInv'
  BY StepKeeps
<1> QED
  BY <1>1, <1>2, PTL DEF Spec

-----------------------------------------------------------------------------

(***************************************************************************)
(* Every variable has its type: the samples never exceed their limit, the  *)
(* copies of events never outnumber the events being fired, and a verdict  *)
(* falls at the third pair.                                                *)
(***************************************************************************)
THEOREM TypeCorrect == Spec => []TypeOK
<1>1. ASSUME IInv PROVE TypeOK
  <2>1. NetworkTypeOK /\ EventsTypeOK /\ DoubletapTypeOK
    BY <1>1 DEF IInv, NetworkIInv, EventsIInv, PairsIInv
  <2>2. wronged \in BOOLEAN
    BY <2>1, Zenon DEF DoubletapTypeOK
  <2>3. Len(pairs) < Threshold
    BY <2>1 DEF DoubletapTypeOK, Threshold
  <2> QED
    BY <2>1, <2>2, <2>3 DEF TypeOK, DoubletapTypeOK
<1> QED
  BY <1>1, Invariance, PTL

(***************************************************************************)
(* HookFireEventAfter handles the copy of the event that has just been     *)
(* fired, at any depth of events within events, whatever listeners load    *)
(* and unload.                                                             *)
(***************************************************************************)
THEOREM EachHookHandlesItsOwn == Spec => []HandlesItsOwn
<1>1. IInv => HandlesItsOwn
  BY InnermostIsHandled DEF IInv
<1> QED
  BY <1>1, Invariance, PTL

(***************************************************************************)
(* DOUBLETAP punishes nobody whose connection was disturbed within the     *)
(* window before any of the three pairs.                                   *)
(***************************************************************************)
THEOREM OnlySoundConnectionsArePunished == Spec => []PunishedOnSoundConnection
<1>1. IInv => PunishedOnSoundConnection
  BY Zenon DEF IInv, PairsIInv, DoubletapTypeOK, PunishedOnSoundConnection
<1> QED
  BY <1>1, Invariance, PTL

(***************************************************************************)
(* Evaluate vetoes nothing on a connection that was quiet for the window.  *)
(***************************************************************************)
THEOREM QuietConnectionsExcuseNobody == Spec => []VetoHasCause
<1>1. IInv => VetoHasCause
  BY QuietIsSound DEF IInv
<1> QED
  BY <1>1, Invariance, PTL

=============================================================================
