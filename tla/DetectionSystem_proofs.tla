------------------------ MODULE DetectionSystem_proofs -----------------------
(***************************************************************************)
(* Proofs about DetectionSystem, for any limits, bounds and settings: its  *)
(* types, and what its modules promise.                                    *)
(*                                                                         *)
(* The inductive invariant has a part for the slot, for the correlator's   *)
(* commands and shots, and for each module.  Every part says how what is   *)
(* stored agrees with the slot: its tick is not in the future, its command *)
(* was simulated or not yet, its connection is the one that is there.  A   *)
(* callback is taken apart the way the model composes it: what it does to  *)
(* the slot (StepsMoveTheSlot), to a deque, and to one module's data.      *)
(* Four parts relate two of them: which attempt belongs to which shot, in  *)
(* what order commands and shots are stored, which shot a hit that waits   *)
(* is of, and what anti-aim shows while it is silent.                      *)
(***************************************************************************)
EXTENDS DetectionSystem, WellFoundedInduction, SequenceTheorems, FiniteSetTheorems, TLAPS

(***************************************************************************)
(* A set of natural numbers that is not empty has a least one.             *)
(***************************************************************************)
LEMMA HasMinimal ==
  ASSUME NEW R, IsWellFoundedOn(R, Nat), NEW T, T \subseteq Nat, T # {}
  PROVE  \E x \in T : \A y \in T : ~(<<y, x>> \in R)
BY WFMin

LEMMA LeastBy ==
  ASSUME NEW R, IsWellFoundedOn(R, Nat), \A x, y \in Nat : x < y => <<x, y>> \in R,
         NEW T, T \subseteq Nat, T # {}
  PROVE  \E x \in T : \A y \in T : x <= y
<1>1. PICK x \in T : \A y \in T : ~(<<y, x>> \in R)
  BY HasMinimal, Zenon
<1>2. ASSUME NEW y \in T PROVE x <= y
  <2>1. x \in Nat /\ y \in Nat
    OBVIOUS
  <2>2. ~(y < x)
    BY <1>1, <2>1
  <2> QED
    BY <2>1, <2>2
<1> QED
  BY <1>2

LEMMA LeastNumber ==
  ASSUME NEW T, T \subseteq Nat, T # {}
  PROVE  \E x \in T : \A y \in T : x <= y
<1>1. IsWellFoundedOn(OpToRel(<, Nat), Nat)
  BY NatLessThanWellFounded, Zenon
<1>2. \A x, y \in Nat : x < y => <<x, y>> \in OpToRel(<, Nat)
  BY Zenon DEF OpToRel
<1> QED
  BY <1>1, <1>2, LeastBy, Zenon

-----------------------------------------------------------------------------
\* Deques.

\* What follows deque if e is appended and off elements of the front are lost.
IsPushed(pushed, deque, e, limit, off) ==
  /\ Len(pushed) = Len(deque) + 1 - off /\ Len(pushed) <= limit
  /\ off = 1 <=> Len(deque) = limit
  /\ \A k \in 1..Len(pushed) : /\ k + off <= Len(deque) => pushed[k] = deque[k + off]
                               /\ k + off = Len(deque) + 1 => pushed[k] = e

(***************************************************************************)
(* An element is appended, and the front lost beyond the limit.            *)
(***************************************************************************)
LEMMA PushedElements ==
  ASSUME NEW S, NEW deque \in Seq(S), NEW e \in S, NEW limit \in Nat \ {0}, Len(deque) <= limit,
         NEW pushed, pushed = Bounded(Append(deque, e), limit)
  PROVE  pushed \in Seq(S) /\ \E off \in {0, 1} : IsPushed(pushed, deque, e, limit, off)
<1> DEFINE a == Append(deque, e)
<1>1. /\ a \in Seq(S) /\ Len(a) = Len(deque) + 1 /\ Len(deque) \in Nat
      /\ \A i \in 1..Len(deque) : a[i] = deque[i]
      /\ a[Len(deque) + 1] = e
  OBVIOUS
<1>2. CASE Len(deque) = limit
  <2>1. Bounded(a, limit) = Tail(a)
    BY <1>1, <1>2 DEF Bounded
  <2>2. a # <<>>
    BY <1>1
  <2>3. /\ Tail(a) \in Seq(S) /\ Len(Tail(a)) = Len(a) - 1
        /\ \A i \in 1..Len(Tail(a)) : Tail(a)[i] = a[i + 1]
    BY <1>1, <2>2, HeadTailProperties
  <2> HIDE DEF a
  <2>4. \A k \in 1..Len(Tail(a)) : /\ k + 1 <= Len(deque) => Tail(a)[k] = deque[k + 1]
                                   /\ k + 1 = Len(deque) + 1 => Tail(a)[k] = e
    BY <1>1, <2>3
  <2>5. pushed = Tail(a)
    BY <2>1 DEF a
  <2>6. /\ pushed \in Seq(S) /\ Len(pushed) = Len(deque) + 1 - 1 /\ Len(pushed) <= limit
        /\ 1 = 1 <=> Len(deque) = limit
        /\ \A k \in 1..Len(pushed) : /\ k + 1 <= Len(deque) => pushed[k] = deque[k + 1]
                                     /\ k + 1 = Len(deque) + 1 => pushed[k] = e
    BY <1>1, <1>2, <2>5, <2>3, <2>4
  <2> QED
    BY <2>6 DEF IsPushed
<1>3. CASE Len(deque) < limit
  <2>1. Bounded(a, limit) = a
    BY <1>1, <1>3 DEF Bounded
  <2> HIDE DEF a
  <2>2. pushed = a
    BY <2>1 DEF a
  <2>3. /\ pushed \in Seq(S) /\ Len(pushed) = Len(deque) + 1 - 0 /\ Len(pushed) <= limit
        /\ 0 = 1 <=> Len(deque) = limit
        /\ \A k \in 1..Len(pushed) : /\ k + 0 <= Len(deque) => pushed[k] = deque[k + 0]
                                     /\ k + 0 = Len(deque) + 1 => pushed[k] = e
    BY <1>1, <1>3, <2>2
  <2> QED
    BY <2>3 DEF IsPushed
<1>4. Len(deque) = limit \/ Len(deque) < limit
  BY <1>1
<1> QED
  BY <1>2, <1>3, <1>4

(***************************************************************************)
(* The k-th of some places in a deque.                                     *)
(***************************************************************************)
Upto(places, i) == {j \in places : j <= i}

LEMMA KthPlace ==
  ASSUME NEW n \in Nat, NEW places \in SUBSET (1..n), NEW k \in 1..Cardinality(places)
  PROVE  \E i \in places : Cardinality(Upto(places, i)) = k
<1>0. \A j \in places : j \in Nat /\ j >= 1 /\ j <= n
  OBVIOUS
<1>1. IsFiniteSet(places) /\ Cardinality(places) \in Nat
  <2>1. IsFiniteSet(1..n)
    BY FS_Interval
  <2> QED
    BY <2>1, FS_Subset, FS_CardinalityType
<1>2. ASSUME NEW i \in Nat
      PROVE  IsFiniteSet(Upto(places, i)) /\ Cardinality(Upto(places, i)) \in Nat
  <2>1. Upto(places, i) \subseteq places
    BY DEF Upto
  <2> QED
    BY <1>1, <2>1, FS_Subset, FS_CardinalityType
<1> DEFINE T == {i \in Nat : Cardinality(Upto(places, i)) >= k}
<1>3. n \in T
  <2>1. Upto(places, n) = places
    BY <1>0 DEF Upto
  <2> QED
    BY <1>1, <2>1
<1>4. PICK i \in T : \A j \in T : i <= j
  <2>1. T \subseteq Nat /\ T # {}
    BY <1>3
  <2> HIDE DEF T
  <2> QED
    BY <2>1, LeastNumber, Zenon
<1>5. i # 0
  <2>0. \A j \in places : ~(j <= 0)
    BY <1>0
  <2>1. Upto(places, 0) = {}
    BY <2>0, Zenon DEF Upto
  <2>2. Cardinality(Upto(places, 0)) = 0
    BY <2>1, FS_EmptySet
  <2> QED
    BY <2>2
<1>6. Cardinality(Upto(places, i - 1)) < k
  <2>1. i - 1 \in Nat /\ i - 1 < i
    BY <1>5
  <2>2. i - 1 \notin T
    BY <1>4, <2>1
  <2> QED
    BY <1>1, <1>2, <2>1, <2>2
<1>7. i \in places
  <2>1. SUFFICES ASSUME i \notin places PROVE FALSE
    OBVIOUS
  <2>2. \A j \in places : j <= i <=> j <= i - 1
    BY <1>0, <1>5, <2>1
  <2>3. Upto(places, i) = Upto(places, i - 1)
    BY <2>2 DEF Upto
  <2> QED
    BY <1>1, <1>2, <1>5, <1>6, <2>3
<1>8. Cardinality(Upto(places, i)) = Cardinality(Upto(places, i - 1)) + 1
  <2>4. \A j \in places : j <= i <=> j <= i - 1 \/ j = i
    BY <1>0, <1>5, <1>7
  <2>1. Upto(places, i) = Upto(places, i - 1) \union {i}
    BY <1>7, <2>4 DEF Upto
  <2>2. i \notin Upto(places, i - 1)
    BY <1>5 DEF Upto
  <2>3. IsFiniteSet(Upto(places, i - 1))
    BY <1>2, <1>5
  <2> QED
    BY <2>1, <2>2, <2>3, FS_AddElement
<1>9. Cardinality(Upto(places, i)) = k
  <2>1. Cardinality(Upto(places, i)) >= k /\ i - 1 \in Nat
    BY <1>5
  <2> QED
    BY <1>1, <1>2, <1>6, <1>8, <2>1
<1> QED
  BY <1>7, <1>9

\* place tells where in a deque the elements of stayed come from: all of places, in order.
ComesFrom(stayed, deque, places, place) ==
  /\ \A k \in 1..Len(stayed) : place[k] \in places /\ stayed[k] = deque[place[k]]
  /\ \A k, l \in 1..Len(stayed) : k < l => place[k] < place[l]
  /\ \A i \in places : \E k \in 1..Len(stayed) : place[k] = i

(***************************************************************************)
(* What stays of a deque is at different places of it, in their order, and *)
(* nothing else does.                                                      *)
(***************************************************************************)
LEMMA StayingElements ==
  ASSUME NEW S, NEW deque \in Seq(S), NEW places \in SUBSET (1..Len(deque)),
         NEW stayed, stayed = Staying(deque, places)
  PROVE  /\ stayed \in Seq(S) /\ Len(stayed) <= Len(deque)
         /\ \E place : ComesFrom(stayed, deque, places, place)
<1>0. /\ Len(deque) \in Nat
      /\ \A j \in places : j \in 1..Len(deque) /\ j \in Nat /\ j <= j
  OBVIOUS
<1>1. /\ IsFiniteSet(places) /\ Cardinality(places) \in Nat
      /\ Cardinality(places) <= Len(deque)
  <2>1. IsFiniteSet(1..Len(deque)) /\ Cardinality(1..Len(deque)) = Len(deque)
    BY <1>0, FS_Interval
  <2> QED
    BY <2>1, FS_Subset, FS_CardinalityType
<1> DEFINE K == 1..Cardinality(places)
           At(k) == CHOOSE i \in places : Cardinality(Upto(places, i)) = k
           place == [k \in K |-> At(k)]
<1>2. \A k \in K : At(k) \in places /\ Cardinality(Upto(places, At(k))) = k
  <2> SUFFICES ASSUME NEW k \in K
               PROVE  At(k) \in places /\ Cardinality(Upto(places, At(k))) = k
    OBVIOUS
  <2>1. \E i \in places : Cardinality(Upto(places, i)) = k
    BY <1>0, KthPlace
  <2> QED
    BY <2>1, Zenon
<1>3. stayed = [k \in K |-> deque[At(k)]]
  BY DEF Staying, Upto
<1> HIDE DEF At
<1>4. stayed \in Seq(S) /\ Len(stayed) = Cardinality(places)
  <2>2. \A i \in 1..Len(deque) : deque[i] \in S
    OBVIOUS
  <2>1. \A k \in K : deque[At(k)] \in S
    BY <1>0, <1>2, <2>2, Zenon
  <2> QED
    BY <1>1, <1>3, <2>1
<1>5. 1..Len(stayed) = K
  BY <1>4
<1>6. place \in [K -> places]
  BY <1>2
<1>7. \A k \in K : stayed[k] = deque[place[k]]
  BY <1>3
<1>8. \A i, j \in places : i <= j => Cardinality(Upto(places, i)) <= Cardinality(Upto(places, j))
  <2> SUFFICES ASSUME NEW i \in places, NEW j \in places, i <= j
               PROVE  Cardinality(Upto(places, i)) <= Cardinality(Upto(places, j))
    OBVIOUS
  <2>1. \A h \in places : h <= i => h <= j
    BY <1>0
  <2>2. Upto(places, i) \subseteq Upto(places, j) /\ Upto(places, j) \subseteq places
    BY <2>1 DEF Upto
  <2> QED
    BY <1>1, <2>2, FS_Subset
<1>9. ASSUME NEW k \in K, NEW l \in K, k < l PROVE place[k] < place[l]
  <2>1. At(k) \in places /\ At(l) \in places /\ At(k) \in Nat /\ At(l) \in Nat
    BY <1>0, <1>2
  <2>2. CASE At(l) <= At(k)
    <3>1. Cardinality(Upto(places, At(l))) <= Cardinality(Upto(places, At(k)))
      BY <1>8, <2>1, <2>2
    <3>2. l <= k
      BY <1>2, <3>1
    <3> QED
      BY <1>1, <1>9, <3>2
  <2>3. CASE At(k) < At(l)
    BY <2>3
  <2> QED
    BY <2>1, <2>2, <2>3
<1>10. ASSUME NEW i \in places PROVE \E k \in K : place[k] = i
  <2> DEFINE k == Cardinality(Upto(places, i))
  <2>1. k \in K
    <3>1. i \in Upto(places, i) /\ Upto(places, i) \subseteq places
      BY <1>0 DEF Upto
    <3>2. IsFiniteSet(Upto(places, i)) /\ k <= Cardinality(places) /\ k \in Nat
      BY <1>1, <3>1, FS_Subset, FS_CardinalityType
    <3>3. k # 0
      BY <3>1, <3>2, FS_EmptySet
    <3> QED
      BY <1>1, <3>2, <3>3
  <2>2. At(k) \in places /\ Cardinality(Upto(places, At(k))) = k
    BY <1>2, <2>1
  <2>3. ASSUME NEW a \in places, NEW b \in places, a < b
        PROVE  Cardinality(Upto(places, a)) # Cardinality(Upto(places, b))
    <3>1. \A h \in places : h <= a => h <= b /\ h # b
      BY <1>0, <2>3
    <3>2. b \in Upto(places, b) /\ Upto(places, a) \subseteq Upto(places, b) \ {b}
      BY <1>0, <3>1, Zenon DEF Upto
    <3>3. IsFiniteSet(Upto(places, b))
      <4>1. Upto(places, b) \subseteq places
        BY DEF Upto
      <4> QED
        BY <1>1, <4>1, FS_Subset
    <3>4. /\ IsFiniteSet(Upto(places, b) \ {b})
          /\ Cardinality(Upto(places, b) \ {b}) = Cardinality(Upto(places, b)) - 1
      BY <3>2, <3>3, FS_RemoveElement
    <3>5. Cardinality(Upto(places, a)) <= Cardinality(Upto(places, b) \ {b})
      BY <3>2, <3>4, FS_Subset
    <3>6. IsFiniteSet(Upto(places, a)) /\ Cardinality(Upto(places, b)) \in Nat
      BY <3>2, <3>3, <3>4, FS_Subset, FS_CardinalityType
    <3>7. Cardinality(Upto(places, a)) \in Nat
      BY <3>6, FS_CardinalityType
    <3> QED
      BY <3>4, <3>5, <3>6, <3>7
  <2>4. At(k) = i
    <3>1. At(k) \in Nat /\ i \in Nat
      BY <1>0, <2>2
    <3>2. ~(At(k) < i) /\ ~(i < At(k))
      BY <2>2, <2>3
    <3> QED
      BY <3>1, <3>2
  <2> QED
    BY <2>1, <2>4
<1> HIDE DEF place
<1>11. ComesFrom(stayed, deque, places, place)
  BY <1>5, <1>6, <1>7, <1>9, <1>10 DEF ComesFrom
<1> QED
  BY <1>1, <1>4, <1>11

-----------------------------------------------------------------------------
\* The slot.

SlotIsSound ==
  /\ tick \in Ticks
  /\ connection \in {0} \union Connections
  /\ connected \in BOOLEAN
  /\ connected => connection \in Connections
  /\ simulated \in {0} \union Commands
  /\ enabled \in Settings

LEMMA Horizons ==
  ASSUME NEW s \in Settings
  PROVE  /\ Horizon[s].tick \in 0..MaxTick /\ Horizon[s].command \in 0..MaxCommand
         /\ Horizon[s].connection \in 0..MaxConnections
         /\ Horizon[s].attacks \in SUBSET (1..MaxCommand)
         /\ MaxTick \in Nat /\ MaxCommand \in Nat /\ MaxConnections \in Nat
BY SlotAssumption

LEMMA SlotNumbers ==
  ASSUME SlotIsSound
  PROVE  /\ tick \in Nat /\ connection \in Nat /\ simulated \in Nat
         /\ (tick + 1) \in Nat /\ Commands \subseteq Nat /\ Ticks \subseteq Nat
         /\ Connections \subseteq Nat
<1>1. MaxTick \in Nat /\ MaxCommand \in Nat /\ MaxConnections \in Nat
  BY SlotAssumption
<1> QED
  BY <1>1 DEF SlotIsSound, Ticks, Commands, Connections

\* Whose evidence may be there: the person's in the slot.
Own == IF connected THEN {connection} ELSE {}

\* What a step does to the slot; its clock never goes back.
SlotMoves ==
  \/ UNCHANGED slotVars
  \/ Join \/ Leave \/ Refreshed \/ Clock
  \/ \E c \in Commands : Simulates(c)

LEMMA StepsMoveTheSlot ==
  ASSUME Next
  PROVE  SlotMoves
<1>1. CASE Connect
  BY <1>1 DEF Connect, SlotMoves
<1>2. CASE OnClientReady \/ OnPlayerSpawn \/ OnFireBullets \/ OnPlayerHurt
  BY <1>2 DEF OnClientReady, OnPlayerSpawn, OnFireBullets, OnPlayerHurt, SlotMoves
<1>3. CASE OnClientDisconnect
  BY <1>3 DEF OnClientDisconnect, SlotMoves
<1>4. CASE Reset
  BY <1>4 DEF Reset, SlotMoves
<1>5. CASE OnGameFrame
  BY <1>5 DEF OnGameFrame, SlotMoves
<1>6. ASSUME NEW c \in Commands, OnProcessUsercmds(c) \/ OnSetupMove(c) PROVE SlotMoves
  BY <1>6 DEF OnProcessUsercmds, Arrives, OnSetupMove, SlotMoves
<1>7. ASSUME NEW w \in Weapons, OnWeaponFire(w) \/ OnPlayerDeath(w) PROVE SlotMoves
  BY <1>7 DEF OnWeaponFire, OnPlayerDeath, SlotMoves
<1>8. ASSUME NEW changed \in BOOLEAN, NEW lapsed \in 0..MaxNameChanges,
             OnClientSettingsChanged(changed, lapsed)
      PROVE  SlotMoves
  BY <1>8 DEF OnClientSettingsChanged, SlotMoves
<1> QED
  BY <1>1, <1>2, <1>3, <1>4, <1>5, <1>6, <1>7, <1>8 DEF Next

LEMMA SlotStep ==
  ASSUME SlotIsSound, SlotMoves
  PROVE  SlotIsSound'
<1> USE DEF SlotIsSound
<1>1. CASE UNCHANGED slotVars
  BY <1>1 DEF slotVars, Ticks, Connections, Commands
<1>2. CASE Join
  <2>1. connection < Horizon[enabled].connection /\ Horizon[enabled].connection \in 0..MaxConnections
    BY <1>2, Horizons DEF Join
  <2>2. connection \in Nat /\ MaxConnections \in Nat
    BY SlotNumbers, SlotAssumption
  <2>3. connection + 1 \in Connections
    BY <2>1, <2>2 DEF Connections
  <2> QED
    BY <1>2, <2>3 DEF Join, Ticks, Connections, Commands
<1>3. CASE Leave
  BY <1>3 DEF Leave, Ticks, Connections, Commands
<1>4. CASE Refreshed
  BY <1>4 DEF Refreshed, Ticks, Connections, Commands
<1>5. CASE Clock
  <2>1. tick < Horizon[enabled].tick /\ Horizon[enabled].tick \in 0..MaxTick
    BY <1>5, Horizons DEF Clock
  <2>2. tick \in Nat /\ MaxTick \in Nat
    BY SlotNumbers, SlotAssumption
  <2>3. tick + 1 \in Ticks
    BY <2>1, <2>2 DEF Ticks
  <2> QED
    BY <1>5, <2>3 DEF Clock, Ticks, Connections, Commands
<1>6. ASSUME NEW c \in Commands, Simulates(c) PROVE SlotIsSound'
  BY <1>6 DEF Simulates, Ticks, Connections, Commands
<1> QED
  BY <1>1, <1>2, <1>3, <1>4, <1>5, <1>6 DEF SlotMoves

-----------------------------------------------------------------------------
\* The commands of the correlator.

\* A command that was simulated was so in time, and is used up if it made a shot.
CommandIsSound(c) ==
  c.serverTick # NotSimulated =>
    /\ c.number <= simulated /\ c.serverTick <= tick
    /\ c.consumed \/ uses[c.number] = 0

CommandsAreSound ==
  /\ commands \in Seq(ShotCommand) /\ Len(commands) <= CommandLimit
  /\ commands # <<>> => connected
  /\ \A i \in 1..Len(commands) : CommandIsSound(commands[i])
  /\ \A i, j \in 1..Len(commands) :
       commands[i].number = commands[j].number => commands[i].serverTick = commands[j].serverTick
  /\ uses \in [Commands -> 0..2]
  /\ \A c \in Commands : uses[c] # 0 => c <= simulated
  /\ OneShotPerCommand

LEMMA NoCommandsAreSound ==
  ASSUME SlotIsSound, CommandsAreSound, commands' = <<>>, UNCHANGED <<uses, simulated>>
  PROVE  CommandsAreSound'
<1>1. CommandLimit \in Nat
  BY ShotAssumption
<1> QED
  BY <1>1 DEF CommandsAreSound, OneShotPerCommand, CommandIsSound, Commands, ShotCommand, Ticks

LEMMA FewerCommandsAreSound ==
  ASSUME SlotIsSound, CommandsAreSound, UNCHANGED <<uses, simulated, connected>>,
         tick' \in {tick, tick + 1},
         commands' \in Seq(ShotCommand), Len(commands') <= Len(commands),
         \A k \in 1..Len(commands') : \E i \in 1..Len(commands) : commands'[k] = commands[i]
  PROVE  CommandsAreSound'
<1>1. \A k \in 1..Len(commands') : CommandIsSound(commands[k])'
  <2> SUFFICES ASSUME NEW k \in 1..Len(commands') PROVE CommandIsSound(commands[k])'
    OBVIOUS
  <2>1. PICK i \in 1..Len(commands) : commands'[k] = commands[i]
    OBVIOUS
  <2>2. CommandIsSound(commands[i]) /\ commands[i] \in ShotCommand
    BY DEF CommandsAreSound
  <2>3. commands[i].serverTick \in Ticks \union {NotSimulated}
    BY <2>2 DEF ShotCommand
  <2>4. commands[i].serverTick # NotSimulated => commands[i].serverTick <= tick'
    BY <2>2, <2>3, SlotNumbers DEF CommandIsSound
  <2> QED
    BY <2>1, <2>2, <2>4 DEF CommandIsSound
<1>2. ASSUME NEW k \in 1..Len(commands'), NEW l \in 1..Len(commands'),
             commands'[k].number = commands'[l].number
      PROVE  commands'[k].serverTick = commands'[l].serverTick
  <2>1. PICK i \in 1..Len(commands) : commands'[k] = commands[i]
    OBVIOUS
  <2>2. PICK j \in 1..Len(commands) : commands'[l] = commands[j]
    OBVIOUS
  <2> QED
    BY <1>2, <2>1, <2>2 DEF CommandsAreSound
<1>3. Len(commands') <= CommandLimit /\ (commands' # <<>> => connected')
  <2>1. Len(commands) \in Nat /\ Len(commands') \in Nat /\ CommandLimit \in Nat
    BY ShotAssumption DEF CommandsAreSound
  <2>2. commands' # <<>> => Len(commands') # 0
    BY EmptySeq
  <2>3. commands = <<>> => Len(commands) = 0
    OBVIOUS
  <2> QED
    BY <2>1, <2>2, <2>3 DEF CommandsAreSound
<1> QED
  BY <1>1, <1>2, <1>3 DEF CommandsAreSound, OneShotPerCommand, Commands, ShotCommand, Ticks

LEMMA CommandArrives ==
  ASSUME SlotIsSound, CommandsAreSound, NEW c \in Commands, Arrives(c), ShotsOnProcessUsercmds(c)
  PROVE  CommandsAreSound'
<1> DEFINE new == [number |-> c, serverTick |-> NotSimulated, consumed |-> FALSE]
<1>1. connected /\ UNCHANGED slotVars /\ UNCHANGED uses
  BY DEF Arrives, ShotsOnProcessUsercmds
<1>2. UNCHANGED <<tick, simulated, connected>>
  BY <1>1 DEF slotVars
<1>3. CASE c \in Attacks /\ New(c, commands)
  <2>1. commands' = Bounded(Append(commands, new), CommandLimit)
    BY <1>3 DEF ShotsOnProcessUsercmds
  <2>2. new \in ShotCommand
    BY DEF ShotCommand
  <2>3. CommandLimit \in Nat \ {0} /\ commands \in Seq(ShotCommand) /\ Len(commands) <= CommandLimit
    BY ShotAssumption DEF CommandsAreSound
  <2> HIDE DEF new
  <2>9. commands' \in Seq(ShotCommand) /\ \E off \in {0, 1} : IsPushed(commands', commands, new, CommandLimit, off)
    BY <2>1, <2>2, <2>3, PushedElements
  <2>4. PICK off \in {0, 1} :
          /\ Len(commands') = Len(commands) + 1 - off /\ Len(commands') <= CommandLimit
          /\ \A k \in 1..Len(commands') :
               /\ k + off <= Len(commands) => commands'[k] = commands[k + off]
               /\ k + off = Len(commands) + 1 => commands'[k] = new
    BY <2>9 DEF IsPushed
  <2>5. \A k \in 1..Len(commands') :
          commands'[k] = new \/ \E i \in 1..Len(commands) : commands'[k] = commands[i]
    <3> SUFFICES ASSUME NEW k \in 1..Len(commands'), commands'[k] # new
                 PROVE  \E i \in 1..Len(commands) : commands'[k] = commands[i]
      OBVIOUS
    <3>1. Len(commands) \in Nat /\ k \in Nat /\ k >= 1 /\ k <= Len(commands) + 1 - off
      BY <2>3, <2>4
    <3>2. k + off # Len(commands) + 1
      BY <2>4
    <3>3. k + off \in 1..Len(commands)
      BY <3>1, <3>2
    <3>4. k + off <= Len(commands)
      BY <3>1, <3>2
    <3>5. commands'[k] = commands[k + off]
      BY <2>4, <3>4
    <3> QED
      BY <3>3, <3>5
  <2>6. \A i \in 1..Len(commands) : commands[i].number # c
    BY <1>3 DEF New
  <2>7. new.number = c /\ new.serverTick = NotSimulated
    BY DEF new
  <2>8. \A k \in 1..Len(commands') : CommandIsSound(commands[k])'
    <3> SUFFICES ASSUME NEW k \in 1..Len(commands') PROVE CommandIsSound(commands[k])'
      OBVIOUS
    <3>1. CASE commands'[k] = new
      BY <2>7, <3>1 DEF CommandIsSound
    <3>2. ASSUME NEW i \in 1..Len(commands), commands'[k] = commands[i]
          PROVE  CommandIsSound(commands[k])'
      BY <1>1, <1>2, <3>2 DEF CommandsAreSound, CommandIsSound
    <3> QED
      BY <2>5, <3>1, <3>2
  <2>10. ASSUME NEW k \in 1..Len(commands'), NEW l \in 1..Len(commands'),
               commands'[k].number = commands'[l].number
        PROVE  commands'[k].serverTick = commands'[l].serverTick
    <3>1. CASE commands'[k] = new /\ commands'[l] = new
      BY <3>1
    <3>2. ASSUME NEW i \in 1..Len(commands), commands'[k] = commands[i], commands'[l] = new
          PROVE  FALSE
      BY <2>6, <2>7, <2>10, <3>2
    <3>3. ASSUME NEW i \in 1..Len(commands), commands'[l] = commands[i], commands'[k] = new
          PROVE  FALSE
      BY <2>6, <2>7, <2>10, <3>3
    <3>4. ASSUME NEW i \in 1..Len(commands), NEW j \in 1..Len(commands),
                 commands'[k] = commands[i], commands'[l] = commands[j]
          PROVE  commands'[k].serverTick = commands'[l].serverTick
      BY <2>10, <3>4 DEF CommandsAreSound
    <3> QED
      BY <2>5, <3>1, <3>2, <3>3, <3>4
  <2> QED
    BY <1>1, <1>2, <2>4, <2>8, <2>9, <2>10 DEF CommandsAreSound, OneShotPerCommand, Commands, ShotCommand,
       Ticks
<1>4. CASE ~(c \in Attacks /\ New(c, commands))
  <2>1. commands' = commands
    BY <1>4 DEF ShotsOnProcessUsercmds
  <2> QED
    BY <1>1, <1>2, <2>1 DEF CommandsAreSound, CommandIsSound, OneShotPerCommand, Commands,
       ShotCommand, Ticks
<1> QED
  BY <1>3, <1>4

LEMMA CommandIsSimulated ==
  ASSUME SlotIsSound, CommandsAreSound, NEW c \in Commands, Simulates(c), ShotsOnSetupMove(c)
  PROVE  CommandsAreSound'
<1>1. /\ connected /\ c = simulated + 1 /\ simulated' = c
      /\ UNCHANGED <<tick, connected, uses>>
  BY DEF Simulates, ShotsOnSetupMove
<1>2. /\ tick \in Ticks /\ simulated \in Nat /\ c \in Nat /\ tick \in Nat
      /\ NotSimulated \notin Ticks
  BY <1>1, SlotNumbers DEF SlotIsSound, Ticks, NotSimulated
<1>3. /\ commands \in Seq(ShotCommand) /\ Len(commands) \in Nat
      /\ \A i \in 1..Len(commands) : commands[i] \in ShotCommand
  BY DEF CommandsAreSound
<1> DEFINE E(e) == IF e.number = c THEN [e EXCEPT !.serverTick = tick] ELSE e
<1>4. \A e \in ShotCommand :
        /\ E(e) \in ShotCommand /\ E(e).number = e.number /\ E(e).consumed = e.consumed
        /\ E(e).serverTick = IF e.number = c THEN tick ELSE e.serverTick
  BY <1>2 DEF ShotCommand
<1>5. commands' = [i \in 1..Len(commands) |-> E(commands[i])]
  BY DEF ShotsOnSetupMove
<1> HIDE DEF E
<1>6. /\ commands' \in Seq(ShotCommand) /\ Len(commands') = Len(commands)
      /\ \A i \in 1..Len(commands) : commands'[i] = E(commands[i])
  BY <1>3, <1>4, <1>5
<1>7. \A i \in 1..Len(commands) :
        /\ commands'[i].number = commands[i].number
        /\ commands'[i].consumed = commands[i].consumed
        /\ commands'[i].serverTick = IF commands[i].number = c THEN tick ELSE commands[i].serverTick
  BY <1>3, <1>4, <1>6
<1>8. ASSUME NEW i \in 1..Len(commands') PROVE CommandIsSound(commands[i])'
  <2>1. i \in 1..Len(commands)
    BY <1>6
  <2>2. CommandIsSound(commands[i]) /\ commands[i].number \in Nat /\ commands[i].number \in Commands
    BY <1>3, <2>1, SlotNumbers DEF CommandsAreSound, ShotCommand
  <2>3. CASE commands[i].number = c
    <3>1. uses[c] = 0
      BY <1>1, <1>2 DEF CommandsAreSound
    <3> QED
      BY <1>1, <1>2, <1>7, <2>1, <2>3, <3>1 DEF CommandIsSound
  <2>4. CASE commands[i].number # c
    BY <1>1, <1>2, <1>7, <2>1, <2>2, <2>4 DEF CommandIsSound
  <2> QED
    BY <2>3, <2>4
<1>9. ASSUME NEW i \in 1..Len(commands'), NEW j \in 1..Len(commands'),
             commands'[i].number = commands'[j].number
      PROVE  commands'[i].serverTick = commands'[j].serverTick
  <2>1. i \in 1..Len(commands) /\ j \in 1..Len(commands)
    BY <1>6
  <2>2. commands[i].number = commands[j].number
    BY <1>7, <1>9, <2>1
  <2>3. commands[i].serverTick = commands[j].serverTick
    BY <2>1, <2>2 DEF CommandsAreSound
  <2> QED
    BY <1>7, <2>1, <2>2, <2>3
<1>10. \A d \in Commands : uses'[d] # 0 => d <= simulated'
  <2>1. \A d \in Commands : d \in Nat /\ (uses[d] # 0 => d <= simulated)
    BY SlotNumbers DEF CommandsAreSound
  <2> QED
    BY <1>1, <1>2, <2>1
<1> QED
  BY <1>1, <1>6, <1>8, <1>9, <1>10 DEF CommandsAreSound, OneShotPerCommand, Commands, ShotCommand,
     Ticks

\* weapon_fire uses up whatever could be meant.
LEMMA ConsumedCommands ==
  ASSUME SlotIsSound, CommandsAreSound, commands' = Consume
  PROVE  /\ commands' \in Seq(ShotCommand) /\ Len(commands') = Len(commands)
         /\ \A i \in 1..Len(commands) :
              /\ commands'[i].number = commands[i].number
              /\ commands'[i].serverTick = commands[i].serverTick
              /\ commands'[i].consumed = (commands[i].consumed \/ Usable(i))
<1>1. /\ commands \in Seq(ShotCommand) /\ Len(commands) \in Nat
      /\ \A i \in 1..Len(commands) : commands[i] \in ShotCommand
  BY DEF CommandsAreSound
<1> DEFINE E(i) == IF Usable(i) THEN [commands[i] EXCEPT !.consumed = TRUE] ELSE commands[i]
<1>2. \A i \in 1..Len(commands) :
        /\ E(i) \in ShotCommand /\ E(i).number = commands[i].number
        /\ E(i).serverTick = commands[i].serverTick
        /\ Usable(i) => E(i).consumed = TRUE
        /\ ~Usable(i) => E(i).consumed = commands[i].consumed
  BY <1>1 DEF ShotCommand
<1>3. \A i \in 1..Len(commands) : E(i).consumed = (commands[i].consumed \/ Usable(i))
  <2>1. \A i \in 1..Len(commands) : commands[i].consumed \in BOOLEAN /\ Usable(i) \in BOOLEAN
    BY <1>1, Zenon DEF ShotCommand, Usable
  <2> QED
    BY <1>2, <2>1, Zenon
<1>4. commands' = [i \in 1..Len(commands) |-> E(i)]
  BY DEF Consume
<1> HIDE DEF E
<1> QED
  BY <1>1, <1>2, <1>3, <1>4

LEMMA CommandIsUsed ==
  ASSUME SlotIsSound, CommandsAreSound, UNCHANGED <<tick, simulated, connected>>,
         NEW i \in 1..Len(commands), UsableCommands = {i}, commands' = Consume,
         uses' = [uses EXCEPT ![commands[i].number] = Twice(@)]
  PROVE  CommandsAreSound'
<1> DEFINE c == commands[i].number
<1>1. /\ commands' \in Seq(ShotCommand) /\ Len(commands') = Len(commands)
      /\ \A j \in 1..Len(commands) :
           /\ commands'[j].number = commands[j].number
           /\ commands'[j].serverTick = commands[j].serverTick
           /\ commands'[j].consumed = (commands[j].consumed \/ Usable(j))
  BY ConsumedCommands
<1>2. /\ \A j \in 1..Len(commands) : Usable(j) <=> j = i
      /\ commands[i].serverTick # NotSimulated /\ ~commands[i].consumed
      /\ InWindow(commands[i].serverTick)
  <2>1. \A j \in 1..Len(commands) : Usable(j) <=> j = i
    BY DEF UsableCommands
  <2>2. Usable(i)
    BY <2>1
  <2> QED
    BY <2>1, <2>2 DEF Usable
<1>3. c \in Commands /\ c <= simulated /\ uses[c] = 0
  <2>1. commands[i] \in ShotCommand /\ CommandIsSound(commands[i])
    BY DEF CommandsAreSound
  <2> QED
    BY <1>2, <2>1 DEF CommandIsSound, ShotCommand
<1>4. /\ uses' \in [Commands -> 0..2] /\ uses'[c] = 1
      /\ \A d \in Commands : d # c => uses'[d] = uses[d]
  <2>1. uses \in [Commands -> 0..2]
    BY DEF CommandsAreSound
  <2>2. Twice(uses[c]) = 1
    BY <1>3 DEF Twice
  <2>3. uses' = [uses EXCEPT ![c] = 1]
    BY <1>3, <2>1, <2>2
  <2> HIDE DEF c
  <2> QED
    BY <1>3, <2>1, <2>3
<1>5. ASSUME NEW j \in 1..Len(commands') PROVE CommandIsSound(commands[j])'
  <2>1. j \in 1..Len(commands)
    BY <1>1
  <2>2. CommandIsSound(commands[j]) /\ commands[j] \in ShotCommand
    BY <2>1 DEF CommandsAreSound
  <2>3. commands[j].number \in Commands
    BY <2>2 DEF ShotCommand
  <2>4. CASE commands[j].serverTick = NotSimulated
    BY <1>1, <2>1, <2>4 DEF CommandIsSound
  <2>5. CASE commands[j].serverTick # NotSimulated /\ commands[j].number # c
    <3>1. uses'[commands[j].number] = uses[commands[j].number]
      BY <1>4, <2>3, <2>5
    <3>2. commands'[j].consumed \/ uses'[commands'[j].number] = 0
      <4>1. commands[j].consumed \/ uses[commands[j].number] = 0
        BY <2>2, <2>5 DEF CommandIsSound
      <4>2. commands'[j].consumed = (commands[j].consumed \/ Usable(j))
        BY <1>1, <2>1
      <4>3. commands'[j].number = commands[j].number
        BY <1>1, <2>1
      <4> QED
        BY <3>1, <4>1, <4>2, <4>3, Zenon
    <3> QED
      BY <1>1, <2>1, <2>2, <2>5, <3>2 DEF CommandIsSound
  <2>6. CASE commands[j].number = c
    \* Same number, same tick: used up with it, now or before.
    <3>1. commands[j].serverTick = commands[i].serverTick
      BY <2>1, <2>6 DEF CommandsAreSound
    <3>2. commands[j].consumed \/ Usable(j)
      BY <1>2, <3>1 DEF Usable
    <3>3. commands'[j].consumed
      <4>1. commands'[j].consumed = (commands[j].consumed \/ Usable(j))
        BY <1>1, <2>1
      <4> QED
        BY <3>2, <4>1, Zenon
    <3> QED
      BY <1>1, <2>1, <2>2, <3>3 DEF CommandIsSound
  <2> QED
    BY <2>4, <2>5, <2>6
<1>6. ASSUME NEW k \in 1..Len(commands'), NEW l \in 1..Len(commands'),
             commands'[k].number = commands'[l].number
      PROVE  commands'[k].serverTick = commands'[l].serverTick
  <2>1. k \in 1..Len(commands) /\ l \in 1..Len(commands)
    BY <1>1
  <2>2. commands[k].number = commands[l].number
    BY <1>1, <1>6, <2>1
  <2>3. commands[k].serverTick = commands[l].serverTick
    BY <2>1, <2>2 DEF CommandsAreSound
  <2> QED
    BY <1>1, <2>1, <2>3
<1>7. \A d \in Commands : uses'[d] <= 1 /\ (uses'[d] # 0 => d <= simulated)
  <2>1. \A d \in Commands : uses[d] <= 1 /\ (uses[d] # 0 => d <= simulated)
    BY DEF CommandsAreSound, OneShotPerCommand
  <2> HIDE DEF c
  <2> QED
    BY <1>3, <1>4, <2>1
<1>8. Len(commands') <= CommandLimit /\ (commands' # <<>> => connected')
  <2>1. commands' # <<>> => commands # <<>>
    BY <1>1, EmptySeq
  <2> QED
    BY <1>1, <2>1 DEF CommandsAreSound
<1> QED
  BY <1>1, <1>4, <1>5, <1>6, <1>7, <1>8 DEF CommandsAreSound, OneShotPerCommand, Commands,
     ShotCommand, Ticks

LEMMA CommandsAreDiscarded ==
  ASSUME SlotIsSound, CommandsAreSound, UNCHANGED <<tick, simulated, connected, uses>>,
         commands' = Consume
  PROVE  CommandsAreSound'
<1>1. /\ commands' \in Seq(ShotCommand) /\ Len(commands') = Len(commands)
      /\ \A j \in 1..Len(commands) :
           /\ commands'[j].number = commands[j].number
           /\ commands'[j].serverTick = commands[j].serverTick
           /\ commands'[j].consumed = (commands[j].consumed \/ Usable(j))
  BY ConsumedCommands
<1>2. ASSUME NEW j \in 1..Len(commands') PROVE CommandIsSound(commands[j])'
  <2>1. j \in 1..Len(commands)
    BY <1>1
  <2>2. CommandIsSound(commands[j])
    BY <2>1 DEF CommandsAreSound
  <2>3. commands[j].consumed => commands'[j].consumed
    BY <1>1, <2>1, Zenon
  <2> QED
    BY <1>1, <2>1, <2>2, <2>3 DEF CommandIsSound
<1>3. ASSUME NEW k \in 1..Len(commands'), NEW l \in 1..Len(commands'),
             commands'[k].number = commands'[l].number
      PROVE  commands'[k].serverTick = commands'[l].serverTick
  <2>1. k \in 1..Len(commands) /\ l \in 1..Len(commands)
    BY <1>1
  <2>2. commands[k].number = commands[l].number
    BY <1>1, <1>3, <2>1
  <2>3. commands[k].serverTick = commands[l].serverTick
    BY <2>1, <2>2 DEF CommandsAreSound
  <2> QED
    BY <1>1, <2>1, <2>3
<1>4. commands' # <<>> => commands # <<>>
  BY <1>1, EmptySeq
<1> QED
  BY <1>1, <1>2, <1>3, <1>4 DEF CommandsAreSound, OneShotPerCommand, Commands, ShotCommand, Ticks

LEMMA CommandsArePruned ==
  ASSUME SlotIsSound, CommandsAreSound, Clock, ShotsOnGameFrame
  PROVE  CommandsAreSound'
<1> DEFINE places == {i \in 1..Len(commands) : \/ commands[i].serverTick = NotSimulated
                                               \/ ~TooOld(tick - commands[i].serverTick)}
<1>1. commands' = Staying(commands, places) /\ UNCHANGED uses
  BY DEF ShotsOnGameFrame, Prune
<1>2. commands \in Seq(ShotCommand) /\ places \in SUBSET (1..Len(commands))
  BY DEF CommandsAreSound
<1> HIDE DEF places
<1>3. /\ commands' \in Seq(ShotCommand) /\ Len(commands') <= Len(commands)
      /\ \E place : ComesFrom(commands', commands, places, place)
  BY <1>1, <1>2, StayingElements
<1>4. \A k \in 1..Len(commands') : \E i \in 1..Len(commands) : commands'[k] = commands[i]
  <2>1. PICK place : ComesFrom(commands', commands, places, place)
    BY <1>3
  <2>2. \A k \in 1..Len(commands') : place[k] \in places /\ commands'[k] = commands[place[k]]
    BY <2>1 DEF ComesFrom
  <2> QED
    BY <1>2, <2>2
<1>5. tick' \in {tick, tick + 1} /\ UNCHANGED <<simulated, connected>>
  BY DEF Clock
<1> QED
  BY <1>1, <1>3, <1>4, <1>5, FewerCommandsAreSound

LEMMA CommandsStay ==
  ASSUME SlotIsSound, CommandsAreSound, UNCHANGED <<commands, uses, tick, simulated, connected>>
  PROVE  CommandsAreSound'
BY DEF CommandsAreSound, CommandIsSound, OneShotPerCommand, Commands, ShotCommand, Ticks

LEMMA CommandsStep ==
  ASSUME SlotIsSound, CommandsAreSound, Next
  PROVE  CommandsAreSound'
<1>1. CASE Connect
  <2>1. commands = <<>> /\ commands' = <<>> /\ uses' = Unused
    BY <1>1 DEF Connect, Join, ShotsOfNewcomer, CommandsAreSound
  <2>2. CommandLimit \in Nat
    BY ShotAssumption
  <2> QED
    BY <2>1, <2>2 DEF CommandsAreSound, OneShotPerCommand, Unused, Commands, ShotCommand, Ticks
<1>2. CASE OnClientDisconnect \/ Reset
  <2>1. commands' = <<>> /\ UNCHANGED <<uses, simulated>>
    BY <1>2 DEF OnClientDisconnect, Reset, ShotsCleared, Forget, Leave, Refreshed
  <2> QED
    BY <2>1, NoCommandsAreSound
<1>3. CASE OnClientReady \/ OnPlayerSpawn
  BY <1>3, CommandsStay DEF OnClientReady, OnPlayerSpawn, slotVars, shotVars
<1>4. CASE OnFireBullets \/ OnPlayerHurt
  BY <1>4, CommandsStay DEF OnFireBullets, ShotsOnFireBullets, OnPlayerHurt, Hurt, slotVars
<1>5. CASE OnGameFrame
  BY <1>5, CommandsArePruned DEF OnGameFrame
<1>6. ASSUME NEW c \in Commands, OnProcessUsercmds(c) \/ OnSetupMove(c) PROVE CommandsAreSound'
  BY <1>6, CommandArrives, CommandIsSimulated DEF OnProcessUsercmds, OnSetupMove
<1>7. ASSUME NEW w \in Weapons, OnWeaponFire(w) PROVE CommandsAreSound'
  <2>1. UNCHANGED <<tick, simulated, connected>>
    BY <1>7 DEF OnWeaponFire, slotVars
  <2>2. CASE Discarded
    BY <2>1, <2>2, CommandsAreDiscarded DEF Discarded
  <2>3. CASE Shoots(w)
    <3>1. PICK i \in UsableCommands, difficult \in BOOLEAN :
            /\ UsableCommands = {i}
            /\ Recorded(NewShot(commands[i].number, w, difficult))
      BY <2>3 DEF Shoots
    <3>2. /\ commands' = Consume
          /\ uses' = [uses EXCEPT ![commands[i].number] = Twice(@)]
      BY <3>1 DEF Recorded, NewShot
    <3>3. i \in 1..Len(commands)
      BY DEF UsableCommands
    <3> QED
      BY <2>1, <3>1, <3>2, <3>3, CommandIsUsed
  <2> QED
    BY <1>7, <2>2, <2>3 DEF OnWeaponFire
<1>8. ASSUME NEW w \in Weapons, OnPlayerDeath(w) PROVE CommandsAreSound'
  BY <1>8, CommandsStay DEF OnPlayerDeath, Died, slotVars
<1>9. ASSUME NEW changed \in BOOLEAN, NEW lapsed \in 0..MaxNameChanges,
             OnClientSettingsChanged(changed, lapsed)
      PROVE  CommandsAreSound'
  BY <1>9, CommandsStay DEF OnClientSettingsChanged, slotVars, shotVars
<1> QED
  BY <1>1, <1>2, <1>3, <1>4, <1>5, <1>6, <1>7, <1>8, <1>9 DEF Next

-----------------------------------------------------------------------------
\* The stored shots.

\* A shot is of this connection; whoever has not judged it may still do so, and nobody
\* judges it before its events are over.
ShotIsSound(s) ==
  /\ s.connection = connection
  /\ s.id <= recorded /\ s.fireTick <= tick
  /\ \A m \in Modules : m \notin s.consumed => s.judged[m] = 0
  /\ \A m \in Modules \intersect enabled : m \notin s.consumed => tick - s.fireTick <= 2
  /\ s.consumed # {} => tick - s.fireTick >= 2

ShotsAreSound ==
  /\ shots \in Seq(ShotRecord) /\ Len(shots) <= ShotLimit
  /\ recorded \in 0..MaxShots
  /\ shots # <<>> => connected
  /\ \A i \in 1..Len(shots) : ShotIsSound(shots[i])
  /\ \A i, j \in 1..Len(shots) :
       i < j => shots[i].id < shots[j].id /\ shots[i].fireTick <= shots[j].fireTick

LEMMA ShotNumbers ==
  /\ ShotLimit \in Nat \ {0} /\ MaxShots \in Nat /\ MaxTick \in Nat
  /\ \A s \in ShotRecord : s.id \in Nat /\ s.fireTick \in Nat
BY ShotAssumption, SlotAssumption DEF ShotRecord, Shots, Ticks

LEMMA IdsDiffer ==
  ASSUME ShotsAreSound, NEW i \in 1..Len(shots), NEW j \in 1..Len(shots), shots[i].id = shots[j].id
  PROVE  i = j
<1>1. shots[i].id \in Nat /\ shots[j].id \in Nat
  BY ShotNumbers DEF ShotsAreSound
<1>2. ~(i < j) /\ ~(j < i)
  BY <1>1 DEF ShotsAreSound
<1> QED
  BY <1>2

LEMMA NoShotsAreSound ==
  ASSUME ShotsAreSound, shots' = <<>>, UNCHANGED recorded
  PROVE  ShotsAreSound'
BY ShotNumbers DEF ShotsAreSound, ShotIsSound, ShotRecord, Shots, Connections, Commands, Ticks, Modules

\* An event marks a shot.
SameShot(s, t) ==
  /\ s.id = t.id /\ s.connection = t.connection /\ s.command = t.command
  /\ s.fireTick = t.fireTick /\ s.difficult = t.difficult
  /\ s.consumed = t.consumed /\ s.judged = t.judged
  /\ t.hurtSeen => s.hurtSeen

LEMMA MarkedShotsAreSound ==
  ASSUME ShotsAreSound, UNCHANGED <<tick, connection, connected, enabled, recorded>>,
         shots' \in Seq(ShotRecord), Len(shots') = Len(shots),
         \A i \in 1..Len(shots) : SameShot(shots'[i], shots[i])
  PROVE  ShotsAreSound'
<1>1. ASSUME NEW i \in 1..Len(shots') PROVE ShotIsSound(shots[i])'
  <2>1. ShotIsSound(shots[i]) /\ SameShot(shots'[i], shots[i])
    BY DEF ShotsAreSound
  <2> QED
    BY <2>1, Zenon DEF ShotIsSound, SameShot, Modules
<1>2. ASSUME NEW i \in 1..Len(shots'), NEW j \in 1..Len(shots'), i < j
      PROVE  shots'[i].id < shots'[j].id /\ shots'[i].fireTick <= shots'[j].fireTick
  BY <1>2 DEF ShotsAreSound, SameShot
<1>3. shots' # <<>> => shots # <<>>
  BY EmptySeq DEF ShotsAreSound
<1> QED
  BY <1>1, <1>2, <1>3 DEF ShotsAreSound, ShotRecord, Shots, Connections, Commands, Ticks, Modules

LEMMA ShotsStay ==
  ASSUME ShotsAreSound, UNCHANGED <<tick, connection, connected, enabled, recorded, shots>>
  PROVE  ShotsAreSound'
<1>1. shots \in Seq(ShotRecord) /\ \A i \in 1..Len(shots) : SameShot(shots'[i], shots[i])
  BY DEF ShotsAreSound, SameShot
<1> QED
  BY <1>1, MarkedShotsAreSound

\* What an event does to the deque of shots.
ShotMarked(i, s) == shots' = [shots EXCEPT ![i] = s]

LEMMA MarkedShot ==
  ASSUME ShotsAreSound, UNCHANGED <<tick, connection, connected, enabled, recorded>>,
         NEW i \in 1..Len(shots), NEW s \in ShotRecord, SameShot(s, shots[i]), ShotMarked(i, s)
  PROVE  /\ ShotsAreSound'
         /\ Len(shots') = Len(shots) /\ shots'[i] = s
         /\ \A j \in 1..Len(shots) : j # i => shots'[j] = shots[j]
<1>1. shots \in Seq(ShotRecord)
  BY DEF ShotsAreSound
<1>2. /\ shots' \in Seq(ShotRecord) /\ Len(shots') = Len(shots) /\ shots'[i] = s
      /\ \A j \in 1..Len(shots) : j # i => shots'[j] = shots[j]
  BY <1>1 DEF ShotMarked
<1>3. \A j \in 1..Len(shots) : SameShot(shots'[j], shots[j])
  BY <1>2 DEF SameShot
<1> QED
  BY <1>2, <1>3, MarkedShotsAreSound

LEMMA FireBulletsMarks ==
  ASSUME ShotsAreSound, ShotsOnFireBullets
  PROVE  \E i \in 1..Len(shots), s \in ShotRecord :
           /\ ShotMarked(i, s) /\ SameShot(s, shots[i]) /\ InWindow(shots[i].fireTick)
<1> DEFINE matches == {i \in 1..Len(shots) :
                         ~shots[i].silentFireSeen /\ InWindow(shots[i].fireTick)}
<1>1. PICK i \in matches : shots' = [shots EXCEPT ![i].silentFireSeen = TRUE]
  BY DEF ShotsOnFireBullets
<1> DEFINE s == [shots[i] EXCEPT !.silentFireSeen = TRUE]
<1>2. i \in 1..Len(shots) /\ shots[i] \in ShotRecord
  BY DEF ShotsAreSound
<1>3. s \in ShotRecord /\ SameShot(s, shots[i])
  BY <1>2 DEF ShotRecord, SameShot
<1>4. ShotMarked(i, s)
  BY <1>1 DEF ShotMarked
<1> HIDE DEF s
<1> QED
  BY <1>2, <1>3, <1>4

LEMMA HurtMarks ==
  ASSUME ShotsAreSound, NEW i \in 1..Len(shots), Hurt(i)
  PROVE  \E s \in ShotRecord :
           /\ ShotMarked(i, s) /\ SameShot(s, shots[i]) /\ InWindow(shots[i].fireTick)
<1> DEFINE s == [shots[i] EXCEPT !.hurtSeen = TRUE]
<1>1. shots[i] \in ShotRecord /\ i \in MatchEvent(Weapons)
  BY DEF ShotsAreSound, Hurt
<1>2. s \in ShotRecord /\ SameShot(s, shots[i]) /\ InWindow(shots[i].fireTick)
  BY <1>1 DEF ShotRecord, SameShot, MatchEvent
<1>3. ShotMarked(i, s)
  BY DEF ShotMarked, Hurt
<1> HIDE DEF s
<1> QED
  BY <1>2, <1>3

LEMMA DiedMarks ==
  ASSUME ShotsAreSound, NEW w, NEW i \in 1..Len(shots), Died(w, i)
  PROVE  \E s \in ShotRecord :
           /\ ShotMarked(i, s) /\ SameShot(s, shots[i]) /\ InWindow(shots[i].fireTick)
<1> DEFINE s == [shots[i] EXCEPT !.deathSeen = TRUE]
<1>0. MatchEvent({w}) = {i}
  BY DEF Died
<1>3. shots[i] \in ShotRecord
  BY DEF ShotsAreSound
<1>4. i \in MatchEvent({w})
  BY <1>0, Zenon
<1>1. shots[i] \in ShotRecord /\ i \in MatchEvent({w})
  BY <1>3, <1>4
<1>2. s \in ShotRecord /\ SameShot(s, shots[i]) /\ InWindow(shots[i].fireTick)
  BY <1>1 DEF ShotRecord, SameShot, MatchEvent
<1>5. ShotMarked(i, s)
  BY DEF ShotMarked, Died
<1> HIDE DEF s
<1> QED
  BY <1>2, <1>5

LEMMA NewShotIsRecorded ==
  ASSUME SlotIsSound, CommandsAreSound, ShotsAreSound, connected,
         UNCHANGED <<tick, connection, connected, enabled>>,
         NEW i \in 1..Len(commands), NEW w \in Weapons, NEW difficult \in BOOLEAN,
         Recorded(NewShot(commands[i].number, w, difficult))
  PROVE  /\ ShotsAreSound'
         /\ recorded' = recorded + 1
         /\ \E off \in {0, 1} :
              IsPushed(shots', shots, NewShot(commands[i].number, w, difficult), ShotLimit, off)
<1> DEFINE new == NewShot(commands[i].number, w, difficult)
<1>1. /\ recorded < MaxShots /\ recorded' = recorded + 1
      /\ shots' = Bounded(Append(shots, new), ShotLimit)
  BY DEF Recorded
<1>2. recorded \in Nat /\ MaxShots \in Nat /\ tick \in Nat /\ recorded + 1 \in 0..MaxShots
  BY <1>1, ShotNumbers, SlotNumbers DEF ShotsAreSound
<1>3. new \in ShotRecord
  <2>3. commands[i] \in ShotCommand
    BY DEF CommandsAreSound
  <2>1. commands[i].number \in Commands
    BY <2>3 DEF ShotCommand
  <2>2. recorded + 1 \in Shots /\ connection \in Connections /\ tick \in Ticks
    BY <1>1, <1>2 DEF Shots, SlotIsSound
  <2> QED
    BY <2>1, <2>2 DEF NewShot, ShotRecord, Modules
<1>4. /\ new.id = recorded + 1 /\ new.connection = connection /\ new.fireTick = tick
      /\ new.consumed = {} /\ \A m \in Modules : new.judged[m] = 0
  BY DEF NewShot
<1> HIDE DEF new
<1>5. ShotLimit \in Nat \ {0} /\ shots \in Seq(ShotRecord) /\ Len(shots) <= ShotLimit
  BY ShotNumbers DEF ShotsAreSound
<1>6. shots' \in Seq(ShotRecord) /\ \E off \in {0, 1} : IsPushed(shots', shots, new, ShotLimit, off)
  BY <1>1, <1>3, <1>5, PushedElements
<1>7. PICK off \in {0, 1} : IsPushed(shots', shots, new, ShotLimit, off)
  BY <1>6
<1>8. /\ Len(shots') = Len(shots) + 1 - off /\ Len(shots') <= ShotLimit
      /\ \A k \in 1..Len(shots') : /\ k + off <= Len(shots) => shots'[k] = shots[k + off]
                                   /\ k + off = Len(shots) + 1 => shots'[k] = new
  BY <1>7 DEF IsPushed
<1>9. Len(shots) \in Nat /\ \A i_1 \in 1..Len(shots) : shots[i_1] \in ShotRecord
  BY <1>5
<1>10. \A k \in 1..Len(shots') :
         \/ k + off = Len(shots) + 1 /\ shots'[k] = new
         \/ k + off \in 1..Len(shots) /\ shots'[k] = shots[k + off]
  <2> SUFFICES ASSUME NEW k \in 1..Len(shots')
               PROVE  \/ k + off = Len(shots) + 1 /\ shots'[k] = new
                      \/ k + off \in 1..Len(shots) /\ shots'[k] = shots[k + off]
    OBVIOUS
  <2>1. k \in Nat /\ k >= 1 /\ k <= Len(shots) + 1 - off
    BY <1>8, <1>9
  <2>2. k + off = Len(shots) + 1 \/ (k + off \in 1..Len(shots) /\ k + off <= Len(shots))
    BY <1>9, <2>1
  <2> QED
    BY <1>8, <2>2
<1>11. ASSUME NEW k \in 1..Len(shots') PROVE ShotIsSound(shots[k])'
  <2>1. CASE shots'[k] = new
    <3>1. tick - tick <= 2
      BY <1>2
    <3> QED
      BY <1>1, <1>2, <1>4, <2>1, <3>1 DEF ShotIsSound, Modules
  <2>2. CASE k + off \in 1..Len(shots) /\ shots'[k] = shots[k + off]
    <3>1. ShotIsSound(shots[k + off]) /\ shots[k + off].id \in Nat
      BY <1>9, <2>2, ShotNumbers DEF ShotsAreSound
    <3>2. shots[k + off].id <= recorded + 1
      BY <1>2, <3>1 DEF ShotIsSound
    <3> HIDE DEF ShotIsSound
    <3>3. ShotIsSound(shots[k + off])
      BY <3>1
    <3> QED
      BY <1>1, <2>2, <3>2, <3>3, Zenon DEF ShotIsSound, Modules
  <2> QED
    BY <1>10, <2>1, <2>2
<1>12. ASSUME NEW k \in 1..Len(shots'), NEW l \in 1..Len(shots'), k < l
       PROVE  shots'[k].id < shots'[l].id /\ shots'[k].fireTick <= shots'[l].fireTick
  <2>1. k + off < l + off /\ k + off # Len(shots) + 1
    BY <1>8, <1>9, <1>12
  <2>2. k + off \in 1..Len(shots) /\ shots'[k] = shots[k + off]
    BY <1>10, <2>1
  <2>3. CASE l + off \in 1..Len(shots) /\ shots'[l] = shots[l + off]
    BY <2>1, <2>2, <2>3 DEF ShotsAreSound
  <2>4. CASE shots'[l] = new
    <3>1. ShotIsSound(shots[k + off]) /\ shots[k + off].id \in Nat
      BY <1>9, <2>2, ShotNumbers DEF ShotsAreSound
    <3>2. shots[k + off].id < recorded + 1 /\ shots[k + off].fireTick <= tick
      BY <1>2, <3>1 DEF ShotIsSound
    <3> QED
      BY <1>4, <2>2, <2>4, <3>2
  <2> QED
    BY <1>10, <2>3, <2>4
<1>13. ShotsAreSound'
  BY <1>1, <1>2, <1>6, <1>8, <1>11, <1>12 DEF ShotsAreSound, ShotRecord, Shots, Connections,
     Commands, Ticks, Modules
<1> QED
  BY <1>1, <1>6, <1>13 DEF new

\* What the frame makes of a shot before Prune.
LEMMA JudgedShots ==
  ASSUME ShotsAreSound
  PROVE  /\ Judged \in Seq(ShotRecord) /\ Len(Judged) = Len(shots)
         /\ \A i \in 1..Len(shots) :
              /\ Judged[i].id = shots[i].id /\ Judged[i].connection = shots[i].connection
              /\ Judged[i].command = shots[i].command /\ Judged[i].fireTick = shots[i].fireTick
              /\ Judged[i].difficult = shots[i].difficult
              /\ Judged[i].silentFireSeen = shots[i].silentFireSeen
              /\ Judged[i].hurtSeen = shots[i].hurtSeen
              /\ Judged[i].deathSeen = shots[i].deathSeen
              /\ Judged[i].consumed = shots[i].consumed \union Judges(i)
              /\ \A m \in Modules : m \notin Judges(i) => Judged[i].judged[m] = shots[i].judged[m]
<1> DEFINE J(i) == Mark([shots[i] EXCEPT !.judged =
                   [m \in Modules |-> IF m \in Judges(i) THEN Twice(@[m]) ELSE @[m]]], Judges(i))
<1>1. shots \in Seq(ShotRecord) /\ \A i \in 1..Len(shots) : shots[i] \in ShotRecord
  BY DEF ShotsAreSound
<1>2. ASSUME NEW i \in 1..Len(shots)
      PROVE  /\ J(i) \in ShotRecord
             /\ J(i).id = shots[i].id /\ J(i).connection = shots[i].connection
             /\ J(i).command = shots[i].command
             /\ J(i).fireTick = shots[i].fireTick /\ J(i).difficult = shots[i].difficult
             /\ J(i).silentFireSeen = shots[i].silentFireSeen
             /\ J(i).hurtSeen = shots[i].hurtSeen /\ J(i).deathSeen = shots[i].deathSeen
             /\ J(i).consumed = shots[i].consumed \union Judges(i)
             /\ \A m \in Modules : m \notin Judges(i) => J(i).judged[m] = shots[i].judged[m]
  <2> DEFINE jj == [m \in Modules |-> IF m \in Judges(i) THEN Twice(shots[i].judged[m])
                                      ELSE shots[i].judged[m]]
             C == Judges(i)
  <2>1. shots[i].judged \in [Modules -> 0..2] /\ C \subseteq Modules
    BY <1>1 DEF ShotRecord, Judges
  <2>2. jj \in [Modules -> 0..2]
    BY <2>1 DEF Twice
  <2>3. \A m \in Modules : m \notin C => jj[m] = shots[i].judged[m]
    OBVIOUS
  <2>4. J(i) = Mark([shots[i] EXCEPT !.judged = jj], C)
    OBVIOUS
  <2> HIDE DEF jj, C, J
  <2>5. J(i) = [[shots[i] EXCEPT !.judged = jj] EXCEPT !.consumed = @ \union C]
    BY <2>4 DEF Mark
  <2>6. shots[i] \in ShotRecord
    BY <1>1
  <2>7. /\ J(i) \in ShotRecord
        /\ J(i).id = shots[i].id /\ J(i).connection = shots[i].connection
        /\ J(i).command = shots[i].command
        /\ J(i).fireTick = shots[i].fireTick /\ J(i).difficult = shots[i].difficult
        /\ J(i).silentFireSeen = shots[i].silentFireSeen
        /\ J(i).hurtSeen = shots[i].hurtSeen /\ J(i).deathSeen = shots[i].deathSeen
        /\ J(i).consumed = shots[i].consumed \union C
        /\ J(i).judged = jj
    BY <2>1, <2>2, <2>5, <2>6 DEF ShotRecord
  <2>8. C = Judges(i)
    BY DEF C
  <2> QED
    BY <2>3, <2>7, <2>8
<1>3. Judged = [i \in 1..Len(shots) |-> J(i)]
  BY DEF Judged
<1> HIDE DEF J
<1>4. Len(shots) \in Nat
  BY <1>1
<1>5. \A i \in 1..Len(shots) : Judged[i] = J(i)
  BY <1>3
<1>6. Judged \in Seq(ShotRecord) /\ Len(Judged) = Len(shots)
  BY <1>2, <1>3, <1>4
<1> QED
  BY <1>2, <1>5, <1>6

\* Prune, after the modules have judged: place[k] is where the k-th shot was.
IsPruned(place) ==
  /\ \A k \in 1..Len(shots') :
       /\ place[k] \in 1..Len(shots) /\ ~TooOld(Age(place[k]))
       /\ shots'[k] = Judged[place[k]]
  /\ \A k, l \in 1..Len(shots') : k < l => place[k] < place[l]
  /\ \A i \in 1..Len(shots) : ~TooOld(Age(i)) => \E k \in 1..Len(shots') : place[k] = i

LEMMA PrunedShots ==
  ASSUME ShotsAreSound, ShotsOnGameFrame
  PROVE  /\ shots' \in Seq(ShotRecord) /\ Len(shots') <= Len(shots) /\ recorded' = recorded
         /\ \E place : IsPruned(place)
<1> DEFINE places == {i \in 1..Len(shots) : ~TooOld(Age(i))}
<1>1. shots' = Staying(Judged, places) /\ recorded' = recorded
  BY DEF ShotsOnGameFrame, Prune
<1>2. Judged \in Seq(ShotRecord) /\ Len(Judged) = Len(shots)
  BY JudgedShots
<1>3. places \in SUBSET (1..Len(Judged))
  BY <1>2
<1>4. \A i : i \in places <=> i \in 1..Len(shots) /\ ~TooOld(Age(i))
  OBVIOUS
<1> HIDE DEF places
<1>5. /\ shots' \in Seq(ShotRecord) /\ Len(shots') <= Len(Judged)
      /\ \E place : ComesFrom(shots', Judged, places, place)
  BY <1>1, <1>2, <1>3, StayingElements
<1>6. PICK place : ComesFrom(shots', Judged, places, place)
  BY <1>5
<1>7. IsPruned(place)
  BY <1>4, <1>6, Zenon DEF IsPruned, ComesFrom
<1> QED
  BY <1>1, <1>2, <1>5, <1>7

LEMMA PrunedShotsAreSound ==
  ASSUME SlotIsSound, ShotsAreSound, Clock, ShotsOnGameFrame
  PROVE  ShotsAreSound'
<1>1. PICK place : IsPruned(place)
  BY PrunedShots
<1>2. /\ tick' = tick + 1 /\ tick \in Nat /\ UNCHANGED <<connection, connected, enabled, recorded>>
      /\ shots' \in Seq(ShotRecord) /\ Len(shots') <= Len(shots)
  BY PrunedShots, SlotNumbers DEF Clock
<1>3. ASSUME NEW k \in 1..Len(shots')
      PROVE  LET i == place[k] IN
             /\ i \in 1..Len(shots) /\ ShotIsSound(shots[i]) /\ shots[i].fireTick \in Nat
             /\ tick - shots[i].fireTick <= 2
             /\ shots'[k].id = shots[i].id /\ shots'[k].connection = shots[i].connection
             /\ shots'[k].fireTick = shots[i].fireTick
             /\ shots'[k].consumed = shots[i].consumed \union Judges(i)
             /\ \A m \in Modules : m \notin Judges(i) => shots'[k].judged[m] = shots[i].judged[m]
  <2> DEFINE i == place[k]
  <2>1. i \in 1..Len(shots) /\ ~TooOld(Age(i)) /\ shots'[k] = Judged[i]
    BY <1>1 DEF IsPruned
  <2>2. ShotIsSound(shots[i]) /\ shots[i].fireTick \in Nat
    BY <2>1, ShotNumbers DEF ShotsAreSound
  <2>3. tick - shots[i].fireTick <= 2
    BY <1>2, <2>1, <2>2 DEF TooOld, Age, LifetimeTicks
  <2> HIDE DEF i
  <2>4. /\ Judged[i].id = shots[i].id /\ Judged[i].connection = shots[i].connection
        /\ Judged[i].fireTick = shots[i].fireTick
        /\ Judged[i].consumed = shots[i].consumed \union Judges(i)
        /\ \A m \in Modules : m \notin Judges(i) => Judged[i].judged[m] = shots[i].judged[m]
    BY <2>1, JudgedShots
  <2>5. i = place[k]
    BY DEF i
  <2> QED
    BY <2>1, <2>2, <2>3, <2>4, <2>5
<1>4. ASSUME NEW k \in 1..Len(shots') PROVE ShotIsSound(shots[k])'
  <2> DEFINE i == place[k]
  <2>1. /\ i \in 1..Len(shots) /\ ShotIsSound(shots[i]) /\ shots[i].fireTick \in Nat
        /\ tick - shots[i].fireTick <= 2
        /\ shots'[k].id = shots[i].id /\ shots'[k].connection = shots[i].connection
        /\ shots'[k].fireTick = shots[i].fireTick
        /\ shots'[k].consumed = shots[i].consumed \union Judges(i)
        /\ \A m \in Modules : m \notin Judges(i) => shots'[k].judged[m] = shots[i].judged[m]
    BY <1>3
  <2> HIDE DEF i
  <2>2. /\ shots[i].connection = connection /\ shots[i].id <= recorded
        /\ shots[i].fireTick <= tick
        /\ \A m \in Modules : m \notin shots[i].consumed => shots[i].judged[m] = 0
        /\ shots[i].consumed # {} => tick - shots[i].fireTick >= 2
    BY <2>1 DEF ShotIsSound
  <2>3. \A m \in Modules : m \notin shots'[k].consumed => shots'[k].judged[m] = 0
    BY <2>1, <2>2, Zenon
  <2>4. \A m \in Modules \intersect enabled : m \notin shots'[k].consumed => tick + 1 - shots[i].fireTick <= 2
    <3> SUFFICES ASSUME NEW m \in Modules \intersect enabled, m \notin shots'[k].consumed
                 PROVE  tick + 1 - shots[i].fireTick <= 2
      OBVIOUS
    <3>1. m \notin Judges(i) /\ m \notin shots[i].consumed
      BY <2>1, Zenon
    <3>2. i \notin Due(m)
      BY <3>1, Zenon DEF Judges
    <3>3. ~(Age(i) >= 2)
      BY <2>1, <3>1, <3>2, Zenon DEF Due
    <3> QED
      BY <1>2, <2>1, <3>3 DEF Age
  <2>5. shots'[k].consumed # {} => tick + 1 - shots[i].fireTick >= 2
    <3>1. CASE shots[i].consumed # {}
      BY <1>2, <2>1, <2>2, <3>1
    <3>2. ASSUME NEW m \in Judges(i) PROVE tick + 1 - shots[i].fireTick >= 2
      <4>1. i \in Due(m)
        BY Zenon DEF Judges
      <4>2. Age(i) >= 2
        BY <4>1, Zenon DEF Due
      <4> QED
        BY <1>2, <2>1, <4>2 DEF Age
    <3> QED
      BY <2>1, <3>1, <3>2
  <2>6. shots[i].fireTick <= tick + 1
    BY <1>2, <2>1, <2>2
  <2>7. tick' = tick + 1 /\ connection' = connection /\ enabled' = enabled /\ recorded' = recorded
    BY <1>2
  <2>8. shots'[k].fireTick <= tick' /\ shots'[k].id <= recorded' /\ shots'[k].connection = connection'
    BY <2>1, <2>2, <2>6, <2>7
  <2>9. /\ \A m \in Modules \intersect enabled' : m \notin shots'[k].consumed => tick' - shots'[k].fireTick <= 2
        /\ shots'[k].consumed # {} => tick' - shots'[k].fireTick >= 2
    <3>1. shots'[k].fireTick = shots[i].fireTick
      BY <2>1, Zenon
    <3>2. shots[i].fireTick \in Nat /\ tick \in Nat
      BY <1>2, <2>1
    <3>3. \A f, t \in Nat : tick' = t + 1 /\ shots'[k].fireTick = f => tick' - shots'[k].fireTick = t + 1 - f
      OBVIOUS
    <3>4. tick' - shots'[k].fireTick = tick + 1 - shots[i].fireTick
      BY <2>7, <3>1, <3>2, <3>3, Zenon
    <3> QED
      BY <2>4, <2>5, <2>7, <3>4, Zenon
  <2> QED
    BY <2>3, <2>8, <2>9, Zenon DEF ShotIsSound, Modules
<1>5. ASSUME NEW k \in 1..Len(shots'), NEW l \in 1..Len(shots'), k < l
      PROVE  shots'[k].id < shots'[l].id /\ shots'[k].fireTick <= shots'[l].fireTick
  <2>1. place[k] < place[l] /\ place[k] \in 1..Len(shots) /\ place[l] \in 1..Len(shots)
    BY <1>1, <1>5 DEF IsPruned
  <2>2. /\ shots[place[k]].id < shots[place[l]].id
        /\ shots[place[k]].fireTick <= shots[place[l]].fireTick
    BY <2>1 DEF ShotsAreSound
  <2> QED
    BY <1>3, <2>2
<1>6. Len(shots') <= ShotLimit /\ (shots' # <<>> => connected')
  <2>1. Len(shots') \in Nat /\ Len(shots) \in Nat /\ ShotLimit \in Nat /\ Len(shots) <= ShotLimit
    BY <1>2, ShotNumbers DEF ShotsAreSound
  <2>2. shots' # <<>> => shots # <<>>
    <3>1. shots' # <<>> => Len(shots') # 0
      BY <1>2, EmptySeq
    <3>2. shots = <<>> => Len(shots) = 0
      OBVIOUS
    <3> QED
      BY <1>2, <2>1, <3>1, <3>2
  <2> QED
    BY <1>2, <2>1, <2>2 DEF ShotsAreSound
<1> QED
  BY <1>2, <1>4, <1>5, <1>6 DEF ShotsAreSound, ShotRecord, Shots, Connections, Commands, Ticks, Modules

LEMMA ShotsStep ==
  ASSUME SlotIsSound, CommandsAreSound, ShotsAreSound, Next
  PROVE  ShotsAreSound'
<1>1. CASE Connect
  <2>1. shots = <<>> /\ shots' = <<>> /\ UNCHANGED recorded
    BY <1>1 DEF Connect, Join, ShotsOfNewcomer, ShotsAreSound
  <2> QED
    BY <2>1, NoShotsAreSound
<1>2. CASE OnClientDisconnect \/ Reset
  <2>1. shots' = <<>> /\ UNCHANGED recorded
    BY <1>2 DEF OnClientDisconnect, Reset, ShotsCleared, Forget
  <2> QED
    BY <2>1, NoShotsAreSound
<1>3. CASE OnClientReady \/ OnPlayerSpawn
  BY <1>3, ShotsStay DEF OnClientReady, OnPlayerSpawn, slotVars, shotVars
<1>4. CASE OnFireBullets
  <2>1. PICK i \in 1..Len(shots), s \in ShotRecord :
          ShotMarked(i, s) /\ SameShot(s, shots[i]) /\ InWindow(shots[i].fireTick)
    BY <1>4, FireBulletsMarks DEF OnFireBullets
  <2>2. UNCHANGED <<tick, connection, connected, enabled, recorded>>
    BY <1>4 DEF OnFireBullets, ShotsOnFireBullets, slotVars
  <2> QED
    BY <2>1, <2>2, MarkedShot
<1>5. CASE OnPlayerHurt
  <2>1. PICK i \in 1..Len(shots) : Hurt(i)
    BY <1>5 DEF OnPlayerHurt
  <2>2. UNCHANGED <<tick, connection, connected, enabled, recorded>>
    BY <1>5, <2>1 DEF OnPlayerHurt, Hurt, slotVars
  <2>3. PICK s \in ShotRecord : ShotMarked(i, s) /\ SameShot(s, shots[i])
    BY <2>1, HurtMarks
  <2> QED
    BY <2>2, <2>3, MarkedShot
<1>6. CASE OnGameFrame
  BY <1>6, PrunedShotsAreSound DEF OnGameFrame
<1>7. ASSUME NEW c \in Commands, OnProcessUsercmds(c) \/ OnSetupMove(c) PROVE ShotsAreSound'
  BY <1>7, ShotsStay DEF OnProcessUsercmds, Arrives, ShotsOnProcessUsercmds, OnSetupMove, Simulates,
     ShotsOnSetupMove, slotVars
<1>8. ASSUME NEW w \in Weapons, OnWeaponFire(w) PROVE ShotsAreSound'
  <2>1. connected /\ UNCHANGED <<tick, connection, connected, enabled>>
    BY <1>8 DEF OnWeaponFire, slotVars
  <2>2. CASE Discarded
    BY <2>1, <2>2, ShotsStay DEF Discarded
  <2>3. CASE Shoots(w)
    <3>1. PICK i \in UsableCommands, difficult \in BOOLEAN :
            Recorded(NewShot(commands[i].number, w, difficult))
      BY <2>3 DEF Shoots
    <3>2. i \in 1..Len(commands)
      BY DEF UsableCommands
    <3> QED
      BY <2>1, <3>1, <3>2, NewShotIsRecorded
  <2> QED
    BY <1>8, <2>2, <2>3 DEF OnWeaponFire
<1>9. ASSUME NEW w \in Weapons, OnPlayerDeath(w) PROVE ShotsAreSound'
  <2>1. PICK i \in 1..Len(shots) : Died(w, i)
    BY <1>9 DEF OnPlayerDeath
  <2>2. UNCHANGED <<tick, connection, connected, enabled, recorded>>
    BY <1>9, <2>1 DEF OnPlayerDeath, Died, slotVars
  <2>3. PICK s \in ShotRecord : ShotMarked(i, s) /\ SameShot(s, shots[i])
    BY <2>1, DiedMarks
  <2> QED
    BY <2>2, <2>3, MarkedShot
<1>10. ASSUME NEW changed \in BOOLEAN, NEW lapsed \in 0..MaxNameChanges,
              OnClientSettingsChanged(changed, lapsed)
       PROVE  ShotsAreSound'
  BY <1>10, ShotsStay DEF OnClientSettingsChanged, slotVars, shotVars
<1> QED
  BY <1>1, <1>2, <1>3, <1>4, <1>5, <1>6, <1>7, <1>8, <1>9, <1>10 DEF Next

(***************************************************************************)
(* What FrozenOnceJudged says of a step.                                   *)
(***************************************************************************)
SameFlags(s, t) ==
  /\ s.silentFireSeen = t.silentFireSeen /\ s.hurtSeen = t.hurtSeen /\ s.deathSeen = t.deathSeen

Frozen ==
  \A i \in 1..Len(shots) : shots[i].consumed # {} =>
    \A j \in 1..Len(shots') : shots'[j].id = shots[i].id => SameFlags(shots'[j], shots[i])

LEMMA UnchangedIsFrozen ==
  ASSUME ShotsAreSound, UNCHANGED shots
  PROVE  Frozen
BY IdsDiffer DEF Frozen, SameFlags

LEMMA MarkedIsFrozen ==
  ASSUME SlotIsSound, ShotsAreSound, UNCHANGED <<tick, connection, connected, enabled, recorded>>,
         NEW i \in 1..Len(shots), NEW s \in ShotRecord,
         ShotMarked(i, s), SameShot(s, shots[i]), InWindow(shots[i].fireTick)
  PROVE  Frozen
<1>1. /\ Len(shots') = Len(shots) /\ shots'[i] = s
      /\ \A j \in 1..Len(shots) : j # i => shots'[j] = shots[j]
  BY MarkedShot
<1>2. shots[i].consumed = {}
  <2>1. ShotIsSound(shots[i]) /\ shots[i].fireTick \in Nat /\ tick \in Nat
    BY ShotNumbers, SlotNumbers DEF ShotsAreSound
  <2>2. tick - shots[i].fireTick <= 1
    BY <2>1 DEF InWindow, MatchTicks
  <2>3. ~(tick - shots[i].fireTick >= 2)
    BY <2>1, <2>2
  <2> QED
    BY <2>1, <2>3, Zenon DEF ShotIsSound
<1>3. ASSUME NEW k \in 1..Len(shots), shots[k].consumed # {},
             NEW j \in 1..Len(shots'), shots'[j].id = shots[k].id
      PROVE  SameFlags(shots'[j], shots[k])
  <2>1. j \in 1..Len(shots) /\ shots'[j].id = shots[j].id
    BY <1>1 DEF SameShot
  <2>2. j = k
    BY <1>3, <2>1, IdsDiffer
  <2> QED
    BY <1>1, <1>2, <1>3, <2>2 DEF SameFlags
<1> QED
  BY <1>3 DEF Frozen

LEMMA FrozenStep ==
  ASSUME SlotIsSound, CommandsAreSound, ShotsAreSound, [Next]_vars
  PROVE  Frozen
<1>1. CASE Connect \/ OnClientReady \/ OnPlayerSpawn \/ UNCHANGED vars
  BY <1>1, UnchangedIsFrozen DEF Connect, ShotsOfNewcomer, OnClientReady, OnPlayerSpawn, vars, shotVars
<1>2. CASE OnClientDisconnect \/ Reset
  <2>1. shots' = <<>>
    BY <1>2 DEF OnClientDisconnect, Reset, ShotsCleared, Forget
  <2> QED
    BY <2>1 DEF Frozen
<1>4. CASE OnFireBullets
  <2>1. PICK i \in 1..Len(shots), s \in ShotRecord :
          ShotMarked(i, s) /\ SameShot(s, shots[i]) /\ InWindow(shots[i].fireTick)
    BY <1>4, FireBulletsMarks DEF OnFireBullets
  <2>2. UNCHANGED <<tick, connection, connected, enabled, recorded>>
    BY <1>4 DEF OnFireBullets, ShotsOnFireBullets, slotVars
  <2> QED
    BY <2>1, <2>2, MarkedIsFrozen
<1>5. CASE OnPlayerHurt
  <2>1. PICK i \in 1..Len(shots) : Hurt(i)
    BY <1>5 DEF OnPlayerHurt
  <2>2. UNCHANGED <<tick, connection, connected, enabled, recorded>>
    BY <1>5, <2>1 DEF OnPlayerHurt, Hurt, slotVars
  <2>3. PICK s \in ShotRecord : ShotMarked(i, s) /\ SameShot(s, shots[i]) /\ InWindow(shots[i].fireTick)
    BY <2>1, HurtMarks
  <2> QED
    BY <2>2, <2>3, MarkedIsFrozen
<1>6. CASE OnGameFrame
  <2>1. PICK place : IsPruned(place)
    BY <1>6, PrunedShots DEF OnGameFrame
  <2>2. ASSUME NEW i \in 1..Len(shots), NEW j \in 1..Len(shots'), shots'[j].id = shots[i].id
        PROVE  SameFlags(shots'[j], shots[i])
    <3> DEFINE h == place[j]
    <3>1. h \in 1..Len(shots) /\ shots'[j] = Judged[h]
      BY <2>1 DEF IsPruned
    <3> HIDE DEF h
    <3>2. /\ Judged[h].id = shots[h].id
          /\ SameFlags(Judged[h], shots[h])
      BY <3>1, JudgedShots DEF SameFlags
    <3>3. h = i
      BY <2>2, <3>1, <3>2, IdsDiffer
    <3> QED
      BY <3>1, <3>2, <3>3
  <2> QED
    BY <2>2 DEF Frozen
<1>7. ASSUME NEW c \in Commands, OnProcessUsercmds(c) \/ OnSetupMove(c) PROVE Frozen
  BY <1>7, UnchangedIsFrozen DEF OnProcessUsercmds, ShotsOnProcessUsercmds, OnSetupMove, ShotsOnSetupMove
<1>8. ASSUME NEW w \in Weapons, OnWeaponFire(w) PROVE Frozen
  <2>1. connected /\ UNCHANGED <<tick, connection, connected, enabled>>
    BY <1>8 DEF OnWeaponFire, slotVars
  <2>2. CASE Discarded
    BY <2>2, UnchangedIsFrozen DEF Discarded
  <2>3. CASE Shoots(w)
    <3>1. PICK i \in UsableCommands, difficult \in BOOLEAN :
            Recorded(NewShot(commands[i].number, w, difficult))
      BY <2>3 DEF Shoots
    <3>2. i \in 1..Len(commands)
      BY DEF UsableCommands
    <3> DEFINE new == NewShot(commands[i].number, w, difficult)
    <3>3. PICK off \in {0, 1} : IsPushed(shots', shots, new, ShotLimit, off)
      BY <2>1, <3>1, <3>2, NewShotIsRecorded
    <3>4. new.id = recorded + 1
      BY DEF NewShot
    <3> HIDE DEF new
    <3>5. ASSUME NEW k \in 1..Len(shots), NEW j \in 1..Len(shots'), shots'[j].id = shots[k].id
          PROVE  SameFlags(shots'[j], shots[k])
      <4>1. /\ Len(shots') = Len(shots) + 1 - off
            /\ j + off <= Len(shots) => shots'[j] = shots[j + off]
            /\ j + off = Len(shots) + 1 => shots'[j] = new
        BY <3>3 DEF IsPushed
      <4>2. Len(shots) \in Nat /\ j \in Nat /\ j >= 1 /\ j <= Len(shots) + 1 - off
        BY <4>1 DEF ShotsAreSound
      <4>3. shots[k].id <= recorded /\ shots[k].id \in Nat /\ recorded \in Nat
        BY ShotNumbers DEF ShotsAreSound, ShotIsSound
      <4>4. j + off # Len(shots) + 1
        BY <3>4, <3>5, <4>1, <4>3
      <4>5. j + off \in 1..Len(shots) /\ j + off <= Len(shots)
        BY <4>2, <4>4
      <4>6. shots'[j] = shots[j + off]
        BY <4>1, <4>5
      <4>7. j + off = k
        BY <3>5, <4>5, <4>6, IdsDiffer
      <4> QED
        BY <4>6, <4>7 DEF SameFlags
    <3> QED
      BY <3>5 DEF Frozen
  <2> QED
    BY <1>8, <2>2, <2>3 DEF OnWeaponFire
<1>9. ASSUME NEW w \in Weapons, OnPlayerDeath(w) PROVE Frozen
  <2>1. PICK i \in 1..Len(shots) : Died(w, i)
    BY <1>9 DEF OnPlayerDeath
  <2>2. UNCHANGED <<tick, connection, connected, enabled, recorded>>
    BY <1>9, <2>1 DEF OnPlayerDeath, Died, slotVars
  <2>3. PICK s \in ShotRecord : ShotMarked(i, s) /\ SameShot(s, shots[i]) /\ InWindow(shots[i].fireTick)
    BY <2>1, DiedMarks
  <2> QED
    BY <2>2, <2>3, MarkedIsFrozen
<1>10. ASSUME NEW changed \in BOOLEAN, NEW lapsed \in 0..MaxNameChanges,
              OnClientSettingsChanged(changed, lapsed)
       PROVE  Frozen
  BY <1>10, UnchangedIsFrozen DEF OnClientSettingsChanged, shotVars
<1> QED
  BY <1>1, <1>2, <1>4, <1>5, <1>6, <1>7, <1>8, <1>9, <1>10 DEF Next

(***************************************************************************)
(* What JudgedBeforePruned says of a step.                                 *)
(***************************************************************************)
Stays(i) == \E j \in 1..Len(shots') : shots'[j].id = shots[i].id

NobodyPruned ==
  \A m \in Modules \intersect enabled, i \in 1..Len(shots) :
    \/ m \in shots[i].consumed
    \/ Stays(i)
    \/ shots' = <<>> /\ evidence' = Nothing /\ tick' = tick
    \/ i = 1 /\ Len(shots) = ShotLimit /\ recorded' > recorded

LEMMA UnchangedStays ==
  ASSUME UNCHANGED shots
  PROVE  NobodyPruned
BY DEF NobodyPruned, Stays

LEMMA MarkedStays ==
  ASSUME ShotsAreSound, UNCHANGED <<tick, connection, connected, enabled, recorded>>,
         NEW i \in 1..Len(shots), NEW s \in ShotRecord, SameShot(s, shots[i]), ShotMarked(i, s)
  PROVE  NobodyPruned
<1>1. /\ Len(shots') = Len(shots) /\ shots'[i] = s
      /\ \A j \in 1..Len(shots) : j # i => shots'[j] = shots[j]
  BY MarkedShot
<1>2. ASSUME NEW k \in 1..Len(shots) PROVE Stays(k)
  BY <1>1 DEF Stays, SameShot
<1> QED
  BY <1>2 DEF NobodyPruned

(***************************************************************************)
(* A shot that an enabled module still has to judge is at most two ticks   *)
(* old, and Prune keeps it.                                                *)
(***************************************************************************)
LEMMA PrunedStays ==
  ASSUME SlotIsSound, ShotsAreSound, ShotsOnGameFrame
  PROVE  NobodyPruned
<1>1. PICK place : IsPruned(place)
  BY PrunedShots
<1>2. ASSUME NEW m \in Modules \intersect enabled, NEW i \in 1..Len(shots), m \notin shots[i].consumed
      PROVE  Stays(i)
  <2>1. ShotIsSound(shots[i]) /\ shots[i].fireTick \in Nat /\ tick \in Nat
    BY ShotNumbers, SlotNumbers DEF ShotsAreSound
  <2>2. tick - shots[i].fireTick <= 2
    BY <1>2, <2>1 DEF ShotIsSound
  <2>3. ~TooOld(Age(i))
    BY <2>1, <2>2 DEF TooOld, Age, LifetimeTicks
  <2>4. PICK k \in 1..Len(shots') : place[k] = i
    BY <1>1, <2>3 DEF IsPruned
  <2>5. shots'[k] = Judged[i]
    BY <1>1, <2>4 DEF IsPruned
  <2>6. Judged[i].id = shots[i].id
    BY JudgedShots
  <2> QED
    BY <2>5, <2>6 DEF Stays
<1> QED
  BY <1>2 DEF NobodyPruned

LEMMA RecordedStays ==
  ASSUME ShotsAreSound, recorded' = recorded + 1,
         NEW new, NEW off \in {0, 1}, IsPushed(shots', shots, new, ShotLimit, off)
  PROVE  NobodyPruned
<1>1. /\ Len(shots') = Len(shots) + 1 - off
      /\ off = 1 <=> Len(shots) = ShotLimit
      /\ \A k \in 1..Len(shots') : k + off <= Len(shots) => shots'[k] = shots[k + off]
  BY DEF IsPushed
<1>2. Len(shots) \in Nat /\ recorded \in Nat
  BY ShotNumbers DEF ShotsAreSound
<1>3. ASSUME NEW i \in 1..Len(shots), i > off PROVE Stays(i)
  <2>1. i - off \in 1..Len(shots') /\ (i - off) + off = i
    BY <1>1, <1>2, <1>3
  <2>2. shots'[i - off] = shots[i]
    BY <1>1, <2>1
  <2> QED
    BY <2>1, <2>2 DEF Stays
<1>4. ASSUME NEW i \in 1..Len(shots), ~(i > off)
      PROVE  i = 1 /\ Len(shots) = ShotLimit /\ recorded' > recorded
  BY <1>1, <1>2, <1>4
<1> QED
  BY <1>3, <1>4 DEF NobodyPruned

LEMMA NobodyPrunedStep ==
  ASSUME SlotIsSound, CommandsAreSound, ShotsAreSound, [Next]_vars
  PROVE  NobodyPruned
<1>1. CASE Connect \/ OnClientReady \/ OnPlayerSpawn \/ UNCHANGED vars
  BY <1>1, UnchangedStays DEF Connect, ShotsOfNewcomer, OnClientReady, OnPlayerSpawn, vars, shotVars
<1>2. CASE OnClientDisconnect \/ Reset
  <2>1. shots' = <<>> /\ evidence' = Nothing /\ tick' = tick
    BY <1>2 DEF OnClientDisconnect, Reset, ShotsCleared, Forget, Leave, Refreshed
  <2> QED
    BY <2>1 DEF NobodyPruned
<1>4. CASE OnFireBullets
  <2>1. PICK i \in 1..Len(shots), s \in ShotRecord :
          ShotMarked(i, s) /\ SameShot(s, shots[i]) /\ InWindow(shots[i].fireTick)
    BY <1>4, FireBulletsMarks DEF OnFireBullets
  <2>2. UNCHANGED <<tick, connection, connected, enabled, recorded>>
    BY <1>4 DEF OnFireBullets, ShotsOnFireBullets, slotVars
  <2> QED
    BY <2>1, <2>2, MarkedStays
<1>5. CASE OnPlayerHurt
  <2>1. PICK i \in 1..Len(shots) : Hurt(i)
    BY <1>5 DEF OnPlayerHurt
  <2>2. UNCHANGED <<tick, connection, connected, enabled, recorded>>
    BY <1>5, <2>1 DEF OnPlayerHurt, Hurt, slotVars
  <2>3. PICK s \in ShotRecord : ShotMarked(i, s) /\ SameShot(s, shots[i])
    BY <2>1, HurtMarks
  <2> QED
    BY <2>2, <2>3, MarkedStays
<1>6. CASE OnGameFrame
  BY <1>6, PrunedStays DEF OnGameFrame
<1>7. ASSUME NEW c \in Commands, OnProcessUsercmds(c) \/ OnSetupMove(c) PROVE NobodyPruned
  BY <1>7, UnchangedStays DEF OnProcessUsercmds, ShotsOnProcessUsercmds, OnSetupMove, ShotsOnSetupMove
<1>8. ASSUME NEW w \in Weapons, OnWeaponFire(w) PROVE NobodyPruned
  <2>1. connected /\ UNCHANGED <<tick, connection, connected, enabled>>
    BY <1>8 DEF OnWeaponFire, slotVars
  <2>2. CASE Discarded
    BY <2>2, UnchangedStays DEF Discarded
  <2>3. CASE Shoots(w)
    <3>1. PICK i \in UsableCommands, difficult \in BOOLEAN :
            Recorded(NewShot(commands[i].number, w, difficult))
      BY <2>3 DEF Shoots
    <3>2. i \in 1..Len(commands)
      BY DEF UsableCommands
    <3>3. /\ recorded' = recorded + 1
          /\ \E off \in {0, 1} :
               IsPushed(shots', shots, NewShot(commands[i].number, w, difficult), ShotLimit, off)
      BY <2>1, <3>1, <3>2, NewShotIsRecorded
    <3> QED
      BY <3>3, RecordedStays
  <2> QED
    BY <1>8, <2>2, <2>3 DEF OnWeaponFire
<1>9. ASSUME NEW w \in Weapons, OnPlayerDeath(w) PROVE NobodyPruned
  <2>1. PICK i \in 1..Len(shots) : Died(w, i)
    BY <1>9 DEF OnPlayerDeath
  <2>2. UNCHANGED <<tick, connection, connected, enabled, recorded>>
    BY <1>9, <2>1 DEF OnPlayerDeath, Died, slotVars
  <2>3. PICK s \in ShotRecord : ShotMarked(i, s) /\ SameShot(s, shots[i])
    BY <2>1, DiedMarks
  <2> QED
    BY <2>2, <2>3, MarkedStays
<1>10. ASSUME NEW changed \in BOOLEAN, NEW lapsed \in 0..MaxNameChanges,
              OnClientSettingsChanged(changed, lapsed)
       PROVE  NobodyPruned
  BY <1>10, UnchangedStays DEF OnClientSettingsChanged, shotVars
<1> QED
  BY <1>1, <1>2, <1>4, <1>5, <1>6, <1>7, <1>8, <1>9, <1>10 DEF Next

-----------------------------------------------------------------------------
\* Aimlock.

TrackWhole(t) ==
  t # NoTrack => t.samples = t.last - t.start + 1 /\ \A l \in Lags : t.on[l] <= t.samples

\* A break begins after the aim was last on the latched target.
LatchIsSound(d) ==
  d.latched => /\ d.lastOn \in Ticks /\ d.lastOn <= tick
               /\ d.breakStart # NoTick => d.breakStart >= d.lastOn

AimlockDataIsSound(d) ==
  /\ d \in AimlockData /\ TrackWhole(d.track) /\ LatchIsSound(d)
  /\ d.evidence \subseteq Own

AimlockIsSound == AimlockDataIsSound(aimlock)

\* What RearmedAfterABreak says of a step from d to e.
Rearmed(d, e) ==
  d.latched /\ ~e.latched /\ e.lastOn # NoTick => tick - d.lastOn >= RearmTicks

\* A callback that leaves the latch alone.
SameLatch(d, e) ==
  e.latched = d.latched /\ e.lastOn = d.lastOn /\ e.breakStart = d.breakStart

LEMMA CleanAimlock ==
  /\ AimlockDataIsSound(AimlockClean)
  /\ \A d : AimlockDataIsSound(d) => /\ AimlockDataIsSound(ClearRuntime(d))
                                    /\ Rearmed(d, ClearRuntime(d))
<1>1. NoTick \in Ticks \union {NoTick}
  OBVIOUS
<1> QED
  BY DEF AimlockDataIsSound, AimlockClean, AimlockData, ClearRuntime, LatchIsSound, TrackWhole,
         Rearmed

LEMMA AnotherTrack ==
  ASSUME NEW d, AimlockDataIsSound(d), NEW t \in Track \union {NoTrack}, TrackWhole(t)
  PROVE  /\ AimlockDataIsSound([d EXCEPT !.track = t])
         /\ SameLatch(d, [d EXCEPT !.track = t])
BY DEF AimlockDataIsSound, AimlockData, LatchIsSound, SameLatch

LEMMA NoTrackIsWhole ==
  NoTrack \in Track \union {NoTrack} /\ TrackWhole(NoTrack)
BY DEF TrackWhole

LEMMA AimIsSimulated ==
  ASSUME NEW d, AimlockDataIsSound(d), NEW usable \in BOOLEAN
  PROVE  /\ AimlockDataIsSound(AimlockOnSetupMove(d, usable))
         /\ SameLatch(d, AimlockOnSetupMove(d, usable))
<1>1. d \in AimlockData
  BY DEF AimlockDataIsSound
<1> DEFINE e == AimlockOnSetupMove(d, usable)
<1>2. /\ e \in AimlockData /\ SameLatch(d, e)
      /\ e.track = d.track \/ e.track = NoTrack
      /\ e.evidence = d.evidence
  BY <1>1 DEF AimlockData, AimlockOnSetupMove, SameLatch
<1> HIDE DEF e
<1>3. TrackWhole(e.track) /\ LatchIsSound(e)
  BY <1>2, NoTrackIsWhole DEF AimlockDataIsSound, LatchIsSound, SameLatch
<1> QED
  BY <1>2, <1>3 DEF AimlockDataIsSound, e

LEMMA TrackStarts ==
  ASSUME SlotIsSound, NEW d, AimlockDataIsSound(d), NEW seen \in SUBSET Lags, NEW on \in SUBSET Lags
  PROVE  /\ AimlockDataIsSound(StartTrack(d, seen, on))
         /\ SameLatch(d, StartTrack(d, seen, on))
<1> DEFINE t == [start |-> tick, last |-> tick, samples |-> 1, valid |-> seen,
                 on |-> [l \in Lags |-> IF l \in on \intersect seen THEN 1 ELSE 0]]
<1>1. tick \in Ticks /\ tick \in Nat
  BY SlotNumbers DEF SlotIsSound
<1>2. t \in Track
  BY <1>1 DEF Track
<1>3. TrackWhole(t)
  BY <1>1 DEF TrackWhole
<1> HIDE DEF t
<1>4. StartTrack(d, seen, on) = [d EXCEPT !.track = IF on \intersect seen = {} THEN NoTrack ELSE t]
  BY DEF StartTrack, t
<1> QED
  BY <1>2, <1>3, <1>4, AnotherTrack, NoTrackIsWhole

\* A track with the sample of this tick.
Continued(track, valid, on) ==
  [track EXCEPT !.last = tick, !.samples = @ + 1, !.valid = valid,
     !.on = [l \in Lags |-> IF l \in valid \intersect on THEN @[l] + 1 ELSE @[l]]]

LEMMA TrackGoesOn ==
  ASSUME SlotIsSound, NEW d, AimlockDataIsSound(d), d.track # NoTrack, Consecutive(d.track),
         NEW valid \in SUBSET Lags, NEW on \in SUBSET Lags
  PROVE  /\ Continued(d.track, valid, on) \in Track
         /\ TrackWhole(Continued(d.track, valid, on))
<1> DEFINE t == Continued(d.track, valid, on)
<1>1. d.track \in Track /\ tick \in Ticks /\ tick \in Nat
  BY SlotNumbers DEF SlotIsSound, AimlockDataIsSound, AimlockData
<1>2. /\ d.track.start \in Nat /\ d.track.last \in Nat /\ d.track.samples \in Nat
      /\ d.track.on \in [Lags -> Nat]
  BY <1>1, SlotNumbers DEF Track
<1>3. /\ d.track.samples = d.track.last - d.track.start + 1
      /\ \A l \in Lags : d.track.on[l] <= d.track.samples
  BY DEF AimlockDataIsSound, TrackWhole
<1>4. tick = d.track.last + 1
  BY <1>1, <1>2 DEF Consecutive
<1> DEFINE counts == [l \in Lags |-> IF l \in valid \intersect on THEN d.track.on[l] + 1
                                     ELSE d.track.on[l]]
<1>5. counts \in [Lags -> Nat] /\ \A l \in Lags : counts[l] <= d.track.samples + 1
  BY <1>2, <1>3
<1> DEFINE samples == d.track.samples + 1
<1>6. t = [d.track EXCEPT !.last = tick, !.samples = samples, !.valid = valid, !.on = counts]
  BY DEF Continued
<1>9. samples \in Nat
  BY <1>2
<1> HIDE DEF counts, t, samples
<1>7. /\ t \in Track /\ t.start = d.track.start /\ t.last = tick
      /\ t.samples = samples /\ t.on = counts
  BY <1>1, <1>5, <1>6, <1>9 DEF Track
<1>8. t.samples = t.last - t.start + 1
  BY <1>1, <1>2, <1>3, <1>4, <1>7 DEF samples
<1> QED
  BY <1>5, <1>7, <1>8 DEF TrackWhole, t, samples

LEMMA AnIncidentIsAdded ==
  ASSUME SlotIsSound, connected, NEW d, AimlockDataIsSound(d), NEW detected \in BOOLEAN
  PROVE  /\ AimlockDataIsSound(AddIncident(d, detected))
         /\ AddIncident(d, detected).latched \/ SameLatch(d, AddIncident(d, detected))
<1>1. /\ d \in AimlockData /\ tick \in Ticks /\ tick \in Nat /\ connection \in Connections
  BY SlotNumbers DEF SlotIsSound, AimlockDataIsSound
<1> DEFINE e == AddIncident(d, detected)
<1>2. /\ e \in AimlockData /\ e.track = NoTrack
      /\ e.evidence = {} \/ e.evidence = d.evidence \union {connection}
  BY <1>1 DEF AddIncident, AimlockData
<1>5. e.evidence \subseteq Own
  BY <1>2 DEF AimlockDataIsSound, Own
<1>3. CASE detected
  <2>1. e.latched = TRUE /\ e.lastOn = tick /\ e.breakStart = NoTick
    BY <1>1, <1>3 DEF AddIncident, AimlockData
  <2> HIDE DEF e
  <2>2. LatchIsSound(e)
    BY <1>1, <2>1 DEF LatchIsSound
  <2> QED
    BY <1>2, <1>5, <2>1, <2>2, NoTrackIsWhole DEF AimlockDataIsSound, e
<1>4. CASE ~detected
  <2>1. SameLatch(d, e)
    BY <1>1, <1>4 DEF AddIncident, AimlockData, SameLatch
  <2> HIDE DEF e
  <2>2. LatchIsSound(e)
    BY <2>1 DEF SameLatch, AimlockDataIsSound, LatchIsSound
  <2> QED
    BY <1>2, <1>5, <2>1, <2>2, NoTrackIsWhole DEF AimlockDataIsSound, e
<1> QED
  BY <1>3, <1>4

LEMMA TargetIsFollowed ==
  ASSUME SlotIsSound, connected, NEW d, AimlockDataIsSound(d), NEW seen \in SUBSET Lags,
         NEW on \in SUBSET Lags, NEW moved \in {{}, Lags}, NEW detected \in BOOLEAN,
         NEW e, e = Follow(d, seen, on, moved, detected)
  PROVE  AimlockDataIsSound(e) /\ (e.latched \/ SameLatch(d, e))
<1>1. CASE e = StartTrack(d, seen, on)
  BY <1>1, TrackStarts
<1>2. CASE d.track # NoTrack /\ e = Continue(d, seen, on, moved, detected)
  <2> DEFINE valid == d.track.valid \intersect seen
             t == Continued(d.track, valid, on)
             passing == {l \in valid \intersect moved : MeetsCoverage(t.on[l], t.samples)}
  <2>1. valid \in SUBSET Lags
    OBVIOUS
  <2>2. Consecutive(d.track) => t \in Track /\ TrackWhole(t)
    BY <1>2, <2>1, TrackGoesOn
  <2>3. Continue(d, seen, on, moved, detected) =
          IF ~Consecutive(d.track) \/ valid = {} THEN StartTrack(d, seen, on)
          ELSE IF tick - d.track.start < TrackingTicks THEN [d EXCEPT !.track = t]
          ELSE IF passing = {} THEN [d EXCEPT !.track = NoTrack]
          ELSE AddIncident([d EXCEPT !.track = t], detected)
    BY DEF Continue, Continued
  <2> HIDE DEF t, passing, valid
  <2>4. Consecutive(d.track) => /\ AimlockDataIsSound([d EXCEPT !.track = t])
                                /\ SameLatch(d, [d EXCEPT !.track = t])
    BY <2>2, AnotherTrack
  <2>5. CASE e = StartTrack(d, seen, on)
    BY <2>5, TrackStarts
  <2>6. CASE Consecutive(d.track) /\ e = [d EXCEPT !.track = t]
    BY <2>4, <2>6
  <2>7. CASE e = [d EXCEPT !.track = NoTrack]
    BY <2>7, AnotherTrack, NoTrackIsWhole
  <2>8. CASE Consecutive(d.track) /\ e = AddIncident([d EXCEPT !.track = t], detected)
    <3>1. AimlockDataIsSound(e) /\ (e.latched \/ SameLatch([d EXCEPT !.track = t], e))
      BY <2>4, <2>8, AnIncidentIsAdded
    <3> QED
      BY <2>4, <2>8, <3>1 DEF SameLatch
  <2> QED
    BY <1>2, <2>3, <2>5, <2>6, <2>7, <2>8
<1> QED
  BY <1>1, <1>2 DEF Follow

LEMMA AimIsEvaluated ==
  ASSUME SlotIsSound, connected, NEW d, AimlockDataIsSound(d), NEW seen \in SUBSET Lags,
         NEW on \in SUBSET Lags, NEW moved \in {{}, Lags}, NEW detected \in BOOLEAN,
         NEW e, e = EvaluateAim(d, seen, on, moved, detected)
  PROVE  AimlockDataIsSound(e) /\ Rearmed(d, e)
<1> DEFINE breakStart == IF d.breakStart = NoTick THEN tick ELSE d.breakStart
           released == [d EXCEPT !.latched = FALSE, !.breakStart = NoTick]
<1>1. /\ d \in AimlockData /\ tick \in Ticks /\ tick \in Nat /\ RearmTicks \in Nat \ {0}
      /\ NoTick \notin Ticks /\ Ticks \subseteq Nat
  BY SlotNumbers, AimlockAssumption DEF SlotIsSound, AimlockDataIsSound, Ticks, NoTick
<1>2. CASE ~d.latched /\ e = Follow(d, seen, on, moved, detected)
  BY <1>2, TargetIsFollowed DEF Rearmed
<1>3. CASE d.latched /\ e = StillLocked(d)
  <2>1. /\ e \in AimlockData /\ e.track = d.track /\ e.evidence = d.evidence
        /\ e.latched = TRUE /\ e.lastOn = tick /\ e.breakStart = NoTick
    BY <1>1, <1>3 DEF StillLocked, AimlockData
  <2> QED
    BY <1>1, <2>1 DEF AimlockDataIsSound, LatchIsSound, Rearmed
<1>4. CASE d.latched /\ e = [d EXCEPT !.breakStart = breakStart]
  <2>1. breakStart \in Ticks /\ breakStart >= d.lastOn
    BY <1>1, <1>4 DEF AimlockDataIsSound, LatchIsSound, AimlockData
  <2> HIDE DEF breakStart
  <2>2. /\ e \in AimlockData /\ e.track = d.track /\ e.latched = d.latched /\ e.lastOn = d.lastOn
        /\ e.breakStart = breakStart /\ e.evidence = d.evidence
    BY <1>1, <1>4, <2>1 DEF AimlockData
  <2> QED
    BY <1>4, <2>1, <2>2 DEF AimlockDataIsSound, LatchIsSound, Rearmed
<1>5. CASE /\ d.latched /\ ~(tick - breakStart < RearmTicks)
           /\ e = Follow(released, seen, on, moved, detected)
  <2>1. d.breakStart # NoTick /\ tick - d.breakStart >= RearmTicks
    BY <1>1, <1>5 DEF AimlockData
  <2>2. d.lastOn \in Nat /\ d.breakStart \in Nat /\ d.breakStart >= d.lastOn
    BY <1>1, <1>5, <2>1 DEF AimlockDataIsSound, LatchIsSound, AimlockData
  <2>3. tick - d.lastOn >= RearmTicks
    BY <1>1, <2>1, <2>2
  <2>4. AimlockDataIsSound(released)
    BY <1>1 DEF AimlockDataIsSound, AimlockData, LatchIsSound
  <2> HIDE DEF released
  <2>5. AimlockDataIsSound(e)
    BY <1>5, <2>4, TargetIsFollowed
  <2> QED
    BY <2>3, <2>5 DEF Rearmed
<1> QED
  BY <1>2, <1>3, <1>4, <1>5 DEF EvaluateAim

LEMMA AimlockFrame ==
  ASSUME SlotIsSound, connected, NEW d, AimlockDataIsSound(d), NEW e \in AimlockOnGameFrame(d)
  PROVE  AimlockDataIsSound(e) /\ Rearmed(d, e)
<1>1. d \in AimlockData /\ tick \in Ticks
  BY DEF AimlockDataIsSound, SlotIsSound
<1>2. CASE e = ClearRuntime(d)
  BY <1>1, <1>2, CleanAimlock
<1>3. CASE e = d
  BY <1>3 DEF Rearmed
<1> DEFINE taken == [d EXCEPT !.pending = FALSE, !.lastProcessed = tick]
<1>4. AimlockDataIsSound(taken) /\ SameLatch(d, taken)
  BY <1>1 DEF AimlockDataIsSound, AimlockData, LatchIsSound, SameLatch
<1> HIDE DEF taken
<1>5. ASSUME NEW seen \in SUBSET Lags, NEW on \in SUBSET Lags, NEW moved \in {{}, Lags},
             NEW detected \in BOOLEAN, e = EvaluateAim(taken, seen, on, moved, detected)
      PROVE  AimlockDataIsSound(e) /\ Rearmed(d, e)
  <2>1. AimlockDataIsSound(e) /\ Rearmed(taken, e)
    BY <1>4, <1>5, AimIsEvaluated
  <2> QED
    BY <1>4, <2>1 DEF SameLatch, Rearmed
<1> DEFINE evaluations ==
             {EvaluateAim(taken, seen, on, moved, detected) :
                seen \in SUBSET Lags, on \in SUBSET Lags, moved \in {{}, Lags}, detected \in BOOLEAN}
<1>6. e \in evaluations => AimlockDataIsSound(e) /\ Rearmed(d, e)
  <2>1. SUFFICES ASSUME e \in evaluations PROVE AimlockDataIsSound(e) /\ Rearmed(d, e)
    OBVIOUS
  <2>2. PICK seen \in SUBSET Lags, on \in SUBSET Lags, moved \in {{}, Lags}, detected \in BOOLEAN :
          e = EvaluateAim(taken, seen, on, moved, detected)
    BY <2>1
  <2> QED
    BY <1>5, <2>2
<1> USE DEF taken
<1>7. AimlockOnGameFrame(d) = {ClearRuntime(d)} \union (IF ~d.pending THEN {d} ELSE evaluations)
  BY SMT DEF AimlockOnGameFrame
<1> HIDE DEF taken, evaluations
<1>8. e \in evaluations \/ e = d \/ e = ClearRuntime(d)
  BY <1>7
<1> QED
  BY <1>2, <1>3, <1>6, <1>8

LEMMA AimlockStep ==
  ASSUME SlotIsSound, AimlockIsSound, [Next]_vars
  PROVE  AimlockIsSound' /\ Rearmed(aimlock, aimlock')
<1> USE DEF AimlockIsSound
<1>0. tick \in Nat /\ Ticks \subseteq Nat
  BY SlotNumbers
<1>1. ASSUME AimlockDataIsSound(aimlock'), tick' \in {tick, tick + 1}, aimlock'.evidence \subseteq Own'
      PROVE  AimlockIsSound'
  <2>1. TrackWhole(aimlock') => TrackWhole(aimlock)'
    BY DEF TrackWhole
  <2>2. LatchIsSound(aimlock)'
    BY <1>0, <1>1 DEF AimlockDataIsSound, LatchIsSound, Ticks
  <2> QED
    BY <1>1, <2>1, <2>2 DEF AimlockDataIsSound, AimlockData, TrackWhole, Track, Ticks, Connections
<1>2. ASSUME aimlock' = aimlock, tick' \in {tick, tick + 1},
             UNCHANGED <<connection, connected>> \/ ~connected
      PROVE  AimlockIsSound' /\ Rearmed(aimlock, aimlock')
  <2>1. aimlock'.evidence \subseteq Own'
    BY <1>2 DEF Own, AimlockDataIsSound
  <2> QED
    BY <1>1, <1>2, <2>1 DEF Rearmed
<1>3. CASE Connect \/ OnClientReady \/ OnPlayerSpawn \/ OnFireBullets \/ OnPlayerHurt \/ UNCHANGED vars
  BY <1>2, <1>3 DEF Connect, Join, OnClientReady, OnPlayerSpawn, OnFireBullets, OnPlayerHurt, vars,
     moduleVars, slotVars
<1>4. CASE OnClientDisconnect \/ Reset
  <2>1. aimlock' = AimlockClean /\ tick' = tick
    BY <1>4 DEF OnClientDisconnect, Reset, AimlockGone, Leave, Refreshed
  <2>2. Rearmed(aimlock, aimlock') /\ aimlock'.evidence = {}
    BY <2>1 DEF Rearmed, AimlockClean
  <2> QED
    BY <1>1, <2>1, <2>2, CleanAimlock
<1>5. CASE OnGameFrame
  <2>1. tick' = tick + 1 /\ UNCHANGED <<connection, connected>>
    BY <1>5 DEF OnGameFrame, Clock
  <2>2. aimlock' = aimlock \/ (connected /\ aimlock' \in AimlockOnGameFrame(aimlock))
    BY <1>5 DEF OnGameFrame, Handled
  <2>3. AimlockDataIsSound(aimlock') => aimlock'.evidence \subseteq Own'
    BY <2>1 DEF AimlockDataIsSound, Own
  <2> QED
    BY <1>1, <1>2, <2>1, <2>2, <2>3, AimlockFrame
<1>6. ASSUME NEW c \in Commands, OnSetupMove(c) PROVE AimlockIsSound' /\ Rearmed(aimlock, aimlock')
  <2>1. tick' = tick /\ UNCHANGED <<connection, connected>>
    BY <1>6 DEF OnSetupMove, Simulates
  <2>2. aimlock' = aimlock \/ \E usable \in BOOLEAN : aimlock' = AimlockOnSetupMove(aimlock, usable)
    BY <1>6 DEF OnSetupMove, Handled
  <2>3. ASSUME NEW usable \in BOOLEAN, aimlock' = AimlockOnSetupMove(aimlock, usable)
        PROVE  AimlockDataIsSound(aimlock') /\ SameLatch(aimlock, aimlock')
    BY <2>3, AimIsSimulated
  <2>4. SameLatch(aimlock, aimlock') => Rearmed(aimlock, aimlock')
    BY DEF SameLatch, Rearmed
  <2>5. AimlockDataIsSound(aimlock') => aimlock'.evidence \subseteq Own'
    BY <2>1 DEF AimlockDataIsSound, Own
  <2> QED
    BY <1>1, <1>2, <2>1, <2>2, <2>3, <2>4, <2>5
<1>7. ASSUME NEW c \in Commands, OnProcessUsercmds(c)
      PROVE  AimlockIsSound' /\ Rearmed(aimlock, aimlock')
  BY <1>2, <1>7 DEF OnProcessUsercmds, Arrives, slotVars
<1>8. ASSUME NEW w \in Weapons, OnWeaponFire(w) \/ OnPlayerDeath(w)
      PROVE  AimlockIsSound' /\ Rearmed(aimlock, aimlock')
  BY <1>2, <1>8 DEF OnWeaponFire, OnPlayerDeath, slotVars
<1>9. ASSUME NEW changed \in BOOLEAN, NEW lapsed \in 0..MaxNameChanges,
             OnClientSettingsChanged(changed, lapsed)
      PROVE  AimlockIsSound' /\ Rearmed(aimlock, aimlock')
  BY <1>2, <1>9 DEF OnClientSettingsChanged, slotVars
<1> QED
  BY <1>3, <1>4, <1>5, <1>6, <1>7, <1>8, <1>9 DEF Next

-----------------------------------------------------------------------------
\* Aimbot.

\* A movement that counted is not after the last hit that counted; a hit waits, and
\* counts, only for who is connected.
AimbotDataIsSound(d) ==
  /\ d \in AimbotData /\ Len(d.commands) <= AimHistory
  /\ \A c \in Commands :
       d.counted[c] <= 1 /\ (d.counted[c] > 0 => c <= d.lastCountedIncidentCommand)
  /\ d.pendingShot # NoCommand => connected
  /\ d.evidence \subseteq Own

AimbotIsSound == AimbotDataIsSound(aimbot)

LEMMA CleanAimbot ==
  /\ AimbotDataIsSound(AimbotClean)
  /\ AimbotClean.pendingShot = NoCommand /\ AimbotClean.evidence = {}
BY AimbotAssumption DEF AimbotDataIsSound, AimbotClean, AimbotData

\* A callback of the module that only touches the stored commands, or what waits.
LEMMA OtherCommands ==
  ASSUME NEW d, AimbotDataIsSound(d), NEW s \in Seq(AimCommand), Len(s) <= AimHistory
  PROVE  AimbotDataIsSound([d EXCEPT !.commands = s])
BY DEF AimbotDataIsSound, AimbotData

LEMMA HitRejected ==
  ASSUME NEW d, AimbotDataIsSound(d)
  PROVE  AimbotDataIsSound(Rejected(d))
BY DEF AimbotDataIsSound, AimbotData, Rejected

LEMMA HitReplaced ==
  ASSUME NEW d, AimbotDataIsSound(d), connected, NEW shot \in Commands
  PROVE  AimbotDataIsSound(Replaced(d, shot))
<1> DEFINE forgotten == d.forgotten \/ Decidable(d)
<1>1. forgotten \in BOOLEAN
  OBVIOUS
<1>2. Replaced(d, shot) = [d EXCEPT !.pendingShot = shot, !.forgotten = forgotten]
  BY DEF Replaced
<1> HIDE DEF forgotten
<1> QED
  BY <1>1, <1>2 DEF AimbotDataIsSound, AimbotData

(***************************************************************************)
(* An incident counts movements up to its shot that come after the last    *)
(* shot that counted, or the shot itself does.                             *)
(***************************************************************************)
LEMMA IncidentCounts ==
  ASSUME SlotIsSound, NEW d, AimbotDataIsSound(d), d.pendingShot # NoCommand,
         NEW converged, converged \subseteq {c \in 1..d.pendingShot : Fresh(d, c)},
         converged # {} \/ Fresh(d, d.pendingShot), NEW detected \in BOOLEAN
  PROVE  AimbotDataIsSound(Incident(d, converged, detected))
<1> DEFINE shot == d.pendingShot
           last == d.lastCountedIncidentCommand
           guilty == IF detected THEN {} ELSE d.evidence \union {connection}
           counted == [c \in Commands |-> IF c \in converged THEN Twice(d.counted[c])
                                          ELSE d.counted[c]]
           e == Incident(d, converged, detected)
<1>1. /\ d \in AimbotData /\ connected /\ connection \in Connections
      /\ Commands \subseteq Nat /\ MaxCommand \in Nat
  BY SlotNumbers, SlotAssumption DEF SlotIsSound, AimbotDataIsSound
<1>2. /\ shot \in Commands /\ shot \in Nat /\ last \in Nat
      /\ d.counted \in [Commands -> 0..2]
  BY <1>1 DEF AimbotData, NoCommand
<1>3. shot > last
  <2>1. CASE Fresh(d, shot)
    BY <1>2, <2>1 DEF Fresh
  <2>2. CASE converged # {}
    <3>1. PICK c \in converged : TRUE
      BY <2>2
    <3>2. c \in 1..shot /\ Fresh(d, c)
      BY <3>1
    <3> QED
      BY <1>2, <3>2 DEF Fresh
  <2> QED
    BY <2>1, <2>2
<1>4. guilty \in SUBSET Connections /\ guilty \subseteq Own
  BY <1>1 DEF AimbotDataIsSound, Own, AimbotData
<1>5. ASSUME NEW c \in Commands
      PROVE  /\ counted[c] \in 0..2 /\ counted[c] <= 1
             /\ counted[c] > 0 => c <= shot
  <2>1. /\ d.counted[c] \in 0..2 /\ d.counted[c] <= 1
        /\ d.counted[c] > 0 => c <= last
    BY <1>2 DEF AimbotDataIsSound
  <2>2. c \in Nat
    BY <1>1
  <2>3. CASE c \in converged
    <3>1. c <= shot /\ c > last
      BY <1>2, <2>2, <2>3 DEF Fresh
    <3>2. d.counted[c] = 0
      BY <1>2, <2>1, <2>2, <3>1
    <3> QED
      BY <2>3, <3>1, <3>2 DEF Twice
  <2>4. CASE c \notin converged
    BY <1>2, <1>3, <2>1, <2>2, <2>4
  <2> QED
    BY <2>3, <2>4
<1>6. counted \in [Commands -> 0..2]
  BY <1>5
<1>7. e = [d EXCEPT !.pendingShot = NoCommand, !.lastCountedIncidentCommand = shot,
                    !.evidence = guilty, !.counted = counted]
  BY DEF Incident
<1> HIDE DEF counted, guilty, e
<1>8. /\ e \in AimbotData /\ e.commands = d.commands /\ e.pendingShot = NoCommand
      /\ e.lastCountedIncidentCommand = shot /\ e.evidence = guilty /\ e.counted = counted
  BY <1>1, <1>2, <1>4, <1>6, <1>7 DEF AimbotData
<1> QED
  BY <1>4, <1>5, <1>8 DEF AimbotDataIsSound, e

LEMMA HitEvaluated ==
  ASSUME SlotIsSound, NEW d, AimbotDataIsSound(d), NEW now, NEW captured,
         NEW present \in BOOLEAN, NEW fair \in BOOLEAN, NEW snaps, NEW returned \in BOOLEAN,
         NEW detected \in BOOLEAN,
         NEW e, e = Evaluate(d, now, captured, present, fair, snaps, returned, detected)
  PROVE  AimbotDataIsSound(e)
<1> DEFINE shot == d.pendingShot
           converged == Converged(d, shot, snaps)
<1>1. converged \subseteq {c \in 1..shot : Fresh(d, c)}
  BY DEF Converged, Movements
<1>2. e = d \/ e = Rejected(d)
      \/ /\ shot # NoCommand /\ e = Incident(d, converged, detected)
         /\ converged # {} \/ SnapReturn(d, shot, returned)
  BY Zenon DEF Evaluate
<1>3. SnapReturn(d, shot, returned) => Fresh(d, shot)
  BY DEF SnapReturn
<1> HIDE DEF converged
<1> QED
  BY <1>1, <1>2, <1>3, HitRejected, IncidentCounts

LEMMA HitsEvaluated ==
  ASSUME SlotIsSound, NEW d, AimbotDataIsSound(d), NEW now, NEW captured,
         NEW e \in Evaluated(d, now, captured)
  PROVE  AimbotDataIsSound(e)
<1>1. PICK present \in BOOLEAN, fair \in BOOLEAN, snaps \in SUBSET Movements(d, d.pendingShot),
           returned \in BOOLEAN, detected \in BOOLEAN :
        e = Evaluate(d, now, captured, present, fair, snaps, returned, detected)
  BY DEF Evaluated
<1> QED
  BY <1>1, HitEvaluated

LEMMA AimCommandArrives ==
  ASSUME NEW d, AimbotDataIsSound(d), NEW c \in Commands
  PROVE  AimbotDataIsSound(AimbotOnProcessUsercmds(d, c))
<1> DEFINE new == [number |-> c, serverTick |-> NotSimulated]
           s == Bounded(Append(d.commands, new), AimHistory)
<1>1. new \in AimCommand /\ d.commands \in Seq(AimCommand) /\ AimHistory \in Nat \ {0}
  BY AimbotAssumption DEF AimCommand, AimbotDataIsSound, AimbotData
<1> HIDE DEF new
<1>2. s \in Seq(AimCommand) /\ Len(s) <= AimHistory
  <2>1. Len(d.commands) <= AimHistory
    BY DEF AimbotDataIsSound
  <2> HIDE DEF s
  <2>2. s \in Seq(AimCommand) /\ \E off \in {0, 1} : IsPushed(s, d.commands, new, AimHistory, off)
    BY <1>1, <2>1, PushedElements DEF s
  <2> QED
    BY <2>2 DEF IsPushed
<1> HIDE DEF s
<1>3. AimbotDataIsSound([d EXCEPT !.commands = s])
  BY <1>2, OtherCommands
<1> QED
  BY <1>3, Zenon DEF AimbotOnProcessUsercmds, s, new

LEMMA AimCommandIsSimulated ==
  ASSUME SlotIsSound, NEW d, AimbotDataIsSound(d), NEW c \in Commands
  PROVE  AimbotDataIsSound(AimSimulates(d, c))
<1>1. d.commands \in Seq(AimCommand) /\ Len(d.commands) \in Nat /\ tick \in Ticks
  BY DEF AimbotDataIsSound, AimbotData, SlotIsSound
<1> DEFINE E(i) == IF d.commands[i].number = c THEN [d.commands[i] EXCEPT !.serverTick = tick]
                   ELSE d.commands[i]
           s == [i \in 1..Len(d.commands) |-> E(i)]
<1>2. ASSUME NEW i \in 1..Len(d.commands) PROVE E(i) \in AimCommand
  <2>1. d.commands[i] \in AimCommand
    BY <1>1
  <2> QED
    BY <1>1, <2>1 DEF AimCommand
<1>3. AimSimulates(d, c) = [d EXCEPT !.commands = s]
  BY DEF AimSimulates
<1> HIDE DEF E
<1>4. s \in Seq(AimCommand) /\ Len(s) = Len(d.commands)
  BY <1>1, <1>2
<1> HIDE DEF s
<1> QED
  BY <1>3, <1>4, OtherCommands DEF AimbotDataIsSound

LEMMA AimbotStep ==
  ASSUME SlotIsSound, ShotsAreSound, AimbotIsSound, [Next]_vars
  PROVE  AimbotIsSound'
<1> USE DEF AimbotIsSound
<1>1. ASSUME AimbotDataIsSound(aimbot'), UNCHANGED <<connection, connected>> PROVE AimbotIsSound'
  BY <1>1 DEF AimbotDataIsSound, AimbotData, AimCommand, Own, Commands, Ticks, Connections
<1>2. ASSUME UNCHANGED <<aimbot, connection, connected>> PROVE AimbotIsSound'
  BY <1>1, <1>2
<1>3. CASE Connect
  <2>1. aimbot' = aimbot /\ ~connected
    BY <1>3 DEF Connect, Join, moduleVars
  <2> QED
    BY <2>1 DEF AimbotDataIsSound, AimbotData, AimCommand, Own, Commands, Ticks, Connections
<1>4. CASE OnClientDisconnect \/ Reset
  <2>1. aimbot' = AimbotClean
    BY <1>4 DEF OnClientDisconnect, Reset
  <2> QED
    BY <2>1, CleanAimbot DEF AimbotDataIsSound, AimbotData, AimCommand, Commands, Ticks, Connections
<1>5. CASE OnClientReady \/ OnPlayerSpawn \/ OnFireBullets \/ UNCHANGED vars
  BY <1>2, <1>5 DEF OnClientReady, OnPlayerSpawn, OnFireBullets, vars, moduleVars, slotVars
<1>6. CASE OnPlayerHurt
  <2>1. connected /\ UNCHANGED <<connection, connected>>
    BY <1>6 DEF OnPlayerHurt, slotVars
  <2>2. PICK i \in 1..Len(shots) :
          aimbot' \in Handled(AimbotDetection, aimbot,
                        AimbotOnPlayerHurt(aimbot, shots[i].command, shots[i].fireTick))
    BY <1>6 DEF OnPlayerHurt
  <2>3. shots[i].command \in Commands
    <3>1. shots[i] \in ShotRecord
      BY DEF ShotsAreSound
    <3> QED
      BY <3>1 DEF ShotRecord
  <2>4. CASE aimbot' = aimbot
    BY <1>2, <2>1, <2>4
  <2>5. CASE aimbot' \in AimbotOnPlayerHurt(aimbot, shots[i].command, shots[i].fireTick)
    <3> DEFINE fireTick == shots[i].fireTick
               command == shots[i].command
    <3>1. PICK e \in Evaluated(aimbot, fireTick, tick - 1) :
            aimbot' \in Evaluated(Replaced(e, command), fireTick, tick - 1)
      BY <2>5 DEF AimbotOnPlayerHurt
    <3>2. AimbotDataIsSound(Replaced(e, command))
      BY <2>1, <2>3, <3>1, HitsEvaluated, HitReplaced
    <3>3. AimbotDataIsSound(aimbot')
      BY <3>1, <3>2, HitsEvaluated
    <3> QED
      BY <1>1, <2>1, <3>3
  <2> QED
    BY <2>2, <2>4, <2>5 DEF Handled
<1>7. CASE OnGameFrame
  <2>1. UNCHANGED <<connection, connected>>
    BY <1>7 DEF OnGameFrame, Clock
  <2>2. aimbot' = aimbot \/ aimbot' \in Evaluated(aimbot, tick, tick)
    BY <1>7 DEF OnGameFrame, Handled, AimbotOnGameFrame
  <2> QED
    BY <1>1, <1>2, <2>1, <2>2, HitsEvaluated
<1>8. ASSUME NEW c \in Commands, OnProcessUsercmds(c) PROVE AimbotIsSound'
  <2>1. UNCHANGED <<connection, connected>>
    BY <1>8 DEF OnProcessUsercmds, Arrives, slotVars
  <2>2. aimbot' = aimbot \/ aimbot' = AimbotOnProcessUsercmds(aimbot, c)
    BY <1>8 DEF OnProcessUsercmds, Handled
  <2> QED
    BY <1>1, <1>2, <2>1, <2>2, AimCommandArrives
<1>9. ASSUME NEW c \in Commands, OnSetupMove(c) PROVE AimbotIsSound'
  <2>1. UNCHANGED <<connection, connected>>
    BY <1>9 DEF OnSetupMove, Simulates
  <2>2. aimbot' = aimbot \/ aimbot' \in Evaluated(AimSimulates(aimbot, c), tick, tick - 1)
    BY <1>9 DEF OnSetupMove, Handled, AimbotOnSetupMove
  <2>3. AimbotDataIsSound(AimSimulates(aimbot, c))
    BY AimCommandIsSimulated
  <2> QED
    BY <1>1, <1>2, <2>1, <2>2, <2>3, HitsEvaluated
<1>10. ASSUME NEW w \in Weapons, OnWeaponFire(w) \/ OnPlayerDeath(w) PROVE AimbotIsSound'
  BY <1>2, <1>10 DEF OnWeaponFire, OnPlayerDeath, slotVars
<1>11. ASSUME NEW changed \in BOOLEAN, NEW lapsed \in 0..MaxNameChanges,
              OnClientSettingsChanged(changed, lapsed)
       PROVE  AimbotIsSound'
  BY <1>2, <1>11 DEF OnClientSettingsChanged, slotVars
<1> QED
  BY <1>3, <1>4, <1>5, <1>6, <1>7, <1>8, <1>9, <1>10, <1>11 DEF Next

-----------------------------------------------------------------------------
\* Irregular behavior.

IrregularEvidence == [success : BOOLEAN, connection : Connections]

IrregularData ==
  [pending : Seq(IrregularPending), evidence : Seq(IrregularEvidence), cleared : SUBSET Nat]

\* Attempts are the connected player's, and wait only for who is connected.
IrregularDataIsSound(d) ==
  /\ d \in IrregularData /\ Len(d.pending) <= PendingLimit
  /\ \A i \in 1..Len(d.evidence) : d.evidence[i].connection \in Own
  /\ d.pending # <<>> => connected

IrregularIsSound == IrregularDataIsSound(irregular)

LEMMA CleanIrregular ==
  /\ IrregularDataIsSound(IrregularClean)
  /\ IrregularClean.pending = <<>> /\ IrregularClean.evidence = <<>>
BY IrregularAssumption, EmptySeq DEF IrregularDataIsSound, IrregularClean, IrregularData

LEMMA AttemptsFinished ==
  ASSUME SlotIsSound, NEW d, IrregularDataIsSound(d), NEW n \in 0..Len(d.pending)
  PROVE  /\ IrregularDataIsSound(Finished(d, n))
         /\ Len(Finished(d, n).pending) = Len(d.pending) - n
<1> DEFINE added == [i \in 1..n |-> [success |-> d.pending[i].success, connection |-> connection]]
           left == SubSeq(d.pending, n + 1, Len(d.pending))
           evidence_ == d.evidence \o added
           e == Finished(d, n)
<1>1. /\ d \in IrregularData /\ d.pending \in Seq(IrregularPending)
      /\ d.evidence \in Seq(IrregularEvidence) /\ Len(d.pending) \in Nat /\ n \in Nat
      /\ PendingLimit \in Nat /\ Len(d.pending) <= PendingLimit
  BY IrregularAssumption DEF IrregularDataIsSound, IrregularData
<1>2. n > 0 => connected /\ connection \in Connections /\ connection \in Own
  <2>1. n > 0 => d.pending # <<>>
    BY <1>1
  <2> QED
    BY <2>1 DEF IrregularDataIsSound, SlotIsSound, Own
<1>3. left \in Seq(IrregularPending) /\ Len(left) = Len(d.pending) - n
  BY <1>1
<1>4. /\ added \in Seq(IrregularEvidence) /\ Len(added) = n
      /\ \A i \in 1..n : added[i].connection = connection
  <2>1. \A i \in 1..n : d.pending[i] \in IrregularPending
    BY <1>1
  <2>2. \A i \in 1..n : [success |-> d.pending[i].success, connection |-> connection]
                          \in IrregularEvidence
    BY <1>1, <1>2, <2>1 DEF IrregularPending, IrregularEvidence
  <2> QED
    BY <1>1, <2>2
<1> HIDE DEF added
<1>5. /\ evidence_ \in Seq(IrregularEvidence)
      /\ \A i \in 1..Len(evidence_) : evidence_[i].connection \in Own
  <2>1. /\ evidence_ \in Seq(IrregularEvidence) /\ Len(evidence_) = Len(d.evidence) + n
        /\ Len(d.evidence) \in Nat
        /\ \A i \in 1..Len(evidence_) :
             evidence_[i] = IF i <= Len(d.evidence) THEN d.evidence[i]
                            ELSE added[i - Len(d.evidence)]
    <3> DEFINE old == d.evidence
    <3>1. old \in Seq(IrregularEvidence) /\ added \in Seq(IrregularEvidence) /\ Len(added) = n
      BY <1>1, <1>4
    <3> HIDE DEF old
    <3>2. /\ old \o added \in Seq(IrregularEvidence)
          /\ Len(old \o added) = Len(old) + Len(added)
          /\ \A i \in 1..Len(old) + Len(added) :
               (old \o added)[i] = IF i <= Len(old) THEN old[i] ELSE added[i - Len(old)]
      BY <3>1, ConcatProperties, Zenon
    <3>3. Len(old) \in Nat
      BY <3>1
    <3> QED
      BY <3>1, <3>2, <3>3, Zenon DEF old
  <2> HIDE DEF evidence_
  <2>2. ASSUME NEW i \in 1..Len(evidence_) PROVE evidence_[i].connection \in Own
    <3>1. CASE i <= Len(d.evidence)
      BY <2>1, <3>1 DEF IrregularDataIsSound
    <3>2. CASE ~(i <= Len(d.evidence))
      <4>1. i - Len(d.evidence) \in 1..n /\ n > 0
        BY <1>1, <2>1, <3>2
      <4> QED
        BY <1>2, <1>4, <2>1, <3>2, <4>1
    <3> QED
      BY <3>1, <3>2
  <2> QED
    BY <2>1, <2>2
<1>6. e = [d EXCEPT !.pending = left, !.evidence = evidence_]
  BY DEF Finished, added
<1>7. left # <<>> => d.pending # <<>>
  <2>1. left # <<>> => Len(left) # 0
    BY <1>3, EmptySeq
  <2>2. d.pending = <<>> => Len(d.pending) = 0
    OBVIOUS
  <2> QED
    BY <1>1, <1>3, <2>1, <2>2
<1> HIDE DEF left, evidence_, e
<1>8. e \in IrregularData /\ e.pending = left /\ e.evidence = evidence_
  BY <1>1, <1>3, <1>5, <1>6 DEF IrregularData
<1> QED
  BY <1>1, <1>3, <1>5, <1>7, <1>8 DEF IrregularDataIsSound, e

LEMMA AttemptsAnnounced ==
  ASSUME NEW d, IrregularDataIsSound(d)
  PROVE  IrregularDataIsSound(Announced(d)) /\ Announced(d).pending = <<>>
<1> DEFINE cleared == d.cleared \union {d.pending[i].shotId : i \in 1..Len(d.pending)}
<1>1. d.pending \in Seq(IrregularPending) /\ d.cleared \in SUBSET Nat /\ PendingLimit \in Nat
  BY IrregularAssumption DEF IrregularDataIsSound, IrregularData
<1>2. cleared \in SUBSET Nat
  <2>1. \A i \in 1..Len(d.pending) : d.pending[i] \in IrregularPending
    BY <1>1
  <2>2. \A i \in 1..Len(d.pending) : d.pending[i].shotId \in Nat
    BY <2>1 DEF IrregularPending
  <2> QED
    BY <1>1, <2>2
<1>3. Announced(d) = [pending |-> <<>>, evidence |-> <<>>, cleared |-> cleared]
  BY DEF Announced
<1> HIDE DEF cleared
<1>4. <<>> \in Seq(IrregularPending) /\ <<>> \in Seq(IrregularEvidence) /\ Len(<<>>) = 0
  BY EmptySeq
<1> QED
  BY <1>1, <1>2, <1>3, <1>4 DEF IrregularDataIsSound, IrregularData

LEMMA AttemptsFinalized ==
  ASSUME SlotIsSound, NEW d, IrregularDataIsSound(d), NEW n \in 0..Len(d.pending), NEW enough,
         NEW e, e = Finalize(d, n, enough)
  PROVE  /\ IrregularDataIsSound(e)
         /\ n > 0 => Len(e.pending) < PendingLimit
<1> DEFINE announcing == {k \in 1..n : enough /\ Convinces(Finished(d, k).evidence)}
           first == CHOOSE k \in announcing : \A j \in announcing : k <= j
<1>1. Len(d.pending) \in Nat /\ PendingLimit \in Nat \ {0} /\ Len(d.pending) <= PendingLimit
  BY IrregularAssumption DEF IrregularDataIsSound, IrregularData
<1>2. CASE announcing = {}
  <2>1. e = Finished(d, n)
    BY <1>2 DEF Finalize
  <2> QED
    BY <1>1, <2>1, AttemptsFinished
<1>3. CASE announcing # {}
  <2>1. \A k \in announcing : k \in 0..Len(d.pending) /\ k \in Nat
    OBVIOUS
  <2>2. e = Announced(Finished(d, first))
    BY <1>3 DEF Finalize
  <2>3. first \in announcing
    <3>1. \E k \in announcing : \A j \in announcing : k <= j
      <4> HIDE DEF announcing
      <4> QED
        BY <1>3, <2>1, LeastNumber
    <3> HIDE DEF announcing
    <3> QED
      BY <3>1, Zenon
  <2> HIDE DEF announcing, first
  <2>4. IrregularDataIsSound(Finished(d, first))
    BY <2>1, <2>3, AttemptsFinished
  <2>5. IrregularDataIsSound(e) /\ e.pending = <<>>
    BY <2>2, <2>4, AttemptsAnnounced
  <2> QED
    BY <1>1, <2>5
<1> QED
  BY <1>2, <1>3

(***************************************************************************)
(* The ripe attempts at the front of those that wait can be counted.       *)
(***************************************************************************)
LEMMA RipeAttemptsCounted ==
  ASSUME NEW d, d.pending \in Seq(IrregularPending)
  PROVE  /\ RipeAttempts(d) \in 0..Len(d.pending)
         /\ \A i \in 1..RipeAttempts(d) : Ripe(d.pending[i])
<1> DEFINE T == {n \in 0..Len(d.pending) : n < Len(d.pending) => ~Ripe(d.pending[n + 1])}
<1>1. Len(d.pending) \in Nat
  OBVIOUS
<1>2. Len(d.pending) \in T /\ T \subseteq Nat
  BY <1>1
<1>3. PICK n \in T : \A j \in T : n <= j
  <2> HIDE DEF T
  <2> QED
    BY <1>2, LeastNumber
<1>4. ASSUME NEW i \in 1..n PROVE Ripe(d.pending[i])
  <2>1. i - 1 \in 0..Len(d.pending) /\ i - 1 < n /\ i - 1 < Len(d.pending) /\ (i - 1) + 1 = i
    BY <1>1, <1>3
  <2>2. i - 1 \notin T
    BY <1>2, <1>3, <2>1
  <2> QED
    BY <2>1, <2>2
<1>5. \E k \in 0..Len(d.pending) : /\ \A i \in 1..k : Ripe(d.pending[i])
                                   /\ k < Len(d.pending) => ~Ripe(d.pending[k + 1])
  BY <1>3, <1>4
<1> QED
  BY <1>5, Zenon DEF RipeAttempts

LEMMA AttemptIsMade ==
  ASSUME SlotIsSound, connected, NEW d, IrregularDataIsSound(d), NEW shotId \in Nat, NEW enough
  PROVE  IrregularDataIsSound(IrregularOnWeaponFire(d, shotId, enough))
<1> DEFINE room == IF Full(d) THEN Finalize(d, 1, enough) ELSE d
           new == [shotId |-> shotId, fireTick |-> tick, success |-> FALSE]
           pending == Append(room.pending, new)
           e == [room EXCEPT !.pending = pending]
<1>1. Len(d.pending) \in Nat /\ PendingLimit \in Nat \ {0} /\ Len(d.pending) <= PendingLimit
  BY IrregularAssumption DEF IrregularDataIsSound, IrregularData
<1>2. IrregularDataIsSound(room) /\ Len(room.pending) < PendingLimit
  <2>1. CASE Full(d)
    <3>1. 1 \in 0..Len(d.pending) /\ 1 > 0
      BY <1>1, <2>1 DEF Full
    <3>2. /\ IrregularDataIsSound(Finalize(d, 1, enough))
          /\ Len(Finalize(d, 1, enough).pending) < PendingLimit
      BY <3>1, AttemptsFinalized
    <3> QED
      BY <2>1, <3>2
  <2>2. CASE ~Full(d)
    BY <1>1, <2>2 DEF Full
  <2> QED
    BY <2>1, <2>2
<1>3. new \in IrregularPending
  BY DEF IrregularPending, SlotIsSound
<1>4. IrregularOnWeaponFire(d, shotId, enough) = e
  BY DEF IrregularOnWeaponFire
<1> HIDE DEF room, new
<1>5. room \in IrregularData /\ room.pending \in Seq(IrregularPending)
  BY <1>2 DEF IrregularDataIsSound, IrregularData
<1>6. pending \in Seq(IrregularPending) /\ Len(pending) = Len(room.pending) + 1 /\ Len(room.pending) \in Nat
  BY <1>3, <1>5
<1>7. Len(pending) <= PendingLimit
  BY <1>1, <1>2, <1>6
<1> HIDE DEF pending
<1>8. e \in IrregularData /\ e.pending = pending /\ e.evidence = room.evidence
  BY <1>5, <1>6 DEF IrregularData
<1> QED
  BY <1>2, <1>4, <1>7, <1>8 DEF IrregularDataIsSound

LEMMA AttemptSucceeds ==
  ASSUME connected, NEW d, IrregularDataIsSound(d), NEW shotId, NEW fair
  PROVE  IrregularDataIsSound(IrregularOnPlayerDeath(d, shotId, fair))
<1> DEFINE E(i) == IF d.pending[i].shotId = shotId /\ fair
                   THEN [d.pending[i] EXCEPT !.success = TRUE] ELSE d.pending[i]
           pending == [i \in 1..Len(d.pending) |-> E(i)]
           e == [d EXCEPT !.pending = pending]
<1>1. d \in IrregularData /\ d.pending \in Seq(IrregularPending) /\ Len(d.pending) \in Nat
  BY DEF IrregularDataIsSound, IrregularData
<1>2. ASSUME NEW i \in 1..Len(d.pending) PROVE E(i) \in IrregularPending
  <2>1. d.pending[i] \in IrregularPending
    BY <1>1
  <2> QED
    BY <2>1 DEF IrregularPending
<1>3. IrregularOnPlayerDeath(d, shotId, fair) = e
  BY DEF IrregularOnPlayerDeath
<1> HIDE DEF E
<1>4. pending \in Seq(IrregularPending) /\ Len(pending) = Len(d.pending)
  BY <1>1, <1>2
<1> HIDE DEF pending
<1>5. e \in IrregularData /\ e.pending = pending /\ e.evidence = d.evidence
  BY <1>1, <1>4 DEF IrregularData
<1> QED
  BY <1>3, <1>4, <1>5 DEF IrregularDataIsSound

LEMMA IrregularFrame ==
  ASSUME SlotIsSound, NEW d, IrregularDataIsSound(d), NEW e \in IrregularOnGameFrame(d)
  PROVE  IrregularDataIsSound(e)
<1>1. d.pending \in Seq(IrregularPending)
  BY DEF IrregularDataIsSound, IrregularData
<1> DEFINE n == RipeAttempts(d)
<1>2. n \in 0..Len(d.pending)
  BY <1>1, RipeAttemptsCounted
<1>3. PICK enough \in BOOLEAN :
        e = Finalize(d, n, enough) \/ e = Lapsed(Finalize(d, n, enough))
  BY DEF IrregularOnGameFrame
<1> HIDE DEF n
<1> DEFINE f == Finalize(d, n, enough)
<1>4. IrregularDataIsSound(f)
  BY <1>2, AttemptsFinalized
<1> HIDE DEF f
<1>5. IrregularDataIsSound(Lapsed(f))
  <2>1. CASE f.evidence = <<>>
    BY <1>4, <2>1 DEF Lapsed
  <2>2. CASE f.evidence # <<>>
    <3> DEFINE rest == Tail(f.evidence)
               g == [f EXCEPT !.evidence = rest]
    <3>1. f \in IrregularData /\ f.evidence \in Seq(IrregularEvidence)
      BY <1>4 DEF IrregularDataIsSound, IrregularData
    <3>2. /\ rest \in Seq(IrregularEvidence) /\ Len(rest) = Len(f.evidence) - 1
          /\ \A i \in 1..Len(rest) : rest[i] = f.evidence[i + 1]
      BY <2>2, <3>1, HeadTailProperties
    <3>3. Lapsed(f) = g
      BY <2>2 DEF Lapsed
    <3> HIDE DEF rest
    <3>4. /\ g \in IrregularData /\ g.pending = f.pending /\ g.evidence = rest
      BY <3>1, <3>2 DEF IrregularData
    <3>5. ASSUME NEW i \in 1..Len(rest) PROVE rest[i].connection \in Own
      <4>1. i + 1 \in 1..Len(f.evidence)
        BY <3>1, <3>2
      <4> QED
        BY <1>4, <3>2, <4>1 DEF IrregularDataIsSound
    <3> QED
      BY <1>4, <3>3, <3>4, <3>5 DEF IrregularDataIsSound
  <2> QED
    BY <2>1, <2>2
<1> QED
  BY <1>3, <1>4, <1>5 DEF f

LEMMA IrregularStep ==
  ASSUME SlotIsSound, ShotsAreSound, IrregularIsSound, [Next]_vars
  PROVE  IrregularIsSound'
<1> USE DEF IrregularIsSound
<1>1. ASSUME IrregularDataIsSound(irregular'), UNCHANGED <<connection, connected>>
      PROVE  IrregularIsSound'
  BY <1>1 DEF IrregularDataIsSound, IrregularData, IrregularPending, IrregularEvidence, Own, Ticks, Connections
<1>2. ASSUME UNCHANGED <<irregular, connection, connected>> PROVE IrregularIsSound'
  BY <1>1, <1>2
<1>3. CASE Connect
  <2>1. irregular' = irregular /\ ~connected
    BY <1>3 DEF Connect, Join, moduleVars
  <2> QED
    BY <2>1 DEF IrregularDataIsSound, IrregularData, IrregularPending, IrregularEvidence, Own, Ticks, Connections
<1>4. CASE OnClientDisconnect \/ Reset
  <2>1. irregular' = IrregularClean
    BY <1>4 DEF OnClientDisconnect, Reset
  <2>2. /\ irregular' \in IrregularData /\ Len(irregular'.pending) <= PendingLimit
        /\ irregular'.pending = <<>> /\ irregular'.evidence = <<>>
    BY <2>1, CleanIrregular DEF IrregularDataIsSound
  <2> QED
    BY <2>2 DEF IrregularDataIsSound, IrregularData, IrregularPending, IrregularEvidence, Ticks, Connections
<1>5. CASE OnClientReady \/ OnPlayerSpawn \/ OnFireBullets \/ OnPlayerHurt \/ UNCHANGED vars
  BY <1>2, <1>5 DEF OnClientReady, OnPlayerSpawn, OnFireBullets, OnPlayerHurt, vars, moduleVars, slotVars
<1>6. CASE OnGameFrame
  <2>1. UNCHANGED <<connection, connected>>
    BY <1>6 DEF OnGameFrame, Clock
  <2>2. irregular' = irregular \/ irregular' \in IrregularOnGameFrame(irregular)
    BY <1>6 DEF OnGameFrame, Handled
  <2> QED
    BY <1>1, <1>2, <2>1, <2>2, IrregularFrame
<1>7. ASSUME NEW c \in Commands, OnProcessUsercmds(c) \/ OnSetupMove(c) PROVE IrregularIsSound'
  BY <1>2, <1>7 DEF OnProcessUsercmds, Arrives, OnSetupMove, Simulates, slotVars
<1>8. ASSUME NEW w \in Weapons, OnWeaponFire(w) PROVE IrregularIsSound'
  <2>1. connected /\ UNCHANGED <<connection, connected>>
    BY <1>8 DEF OnWeaponFire, slotVars
  <2>2. irregular' = irregular
        \/ \E shotId \in Nat, enough \in BOOLEAN :
             irregular' = IrregularOnWeaponFire(irregular, shotId, enough)
    <3>1. CASE Discarded /\ UNCHANGED <<antiAim, irregular>>
      BY <3>1
    <3>2. CASE Shoots(w)
      <4>1. PICK i \in UsableCommands, difficult \in BOOLEAN :
              irregular' \in IF difficult
                             THEN {IrregularOnWeaponFire(irregular,
                                     NewShot(commands[i].number, w, difficult).id, enough) :
                                     enough \in BOOLEAN}
                             ELSE {irregular}
        BY <3>2 DEF Shoots
      <4>2. NewShot(commands[i].number, w, difficult).id = recorded + 1 /\ recorded + 1 \in Nat
        BY ShotAssumption DEF NewShot, ShotsAreSound
      <4> QED
        BY <4>1, <4>2
    <3> QED
      BY <1>8, <3>1, <3>2 DEF OnWeaponFire
  <2>3. ASSUME NEW shotId \in Nat, NEW enough \in BOOLEAN,
               irregular' = IrregularOnWeaponFire(irregular, shotId, enough)
        PROVE  IrregularDataIsSound(irregular')
    BY <2>1, <2>3, AttemptIsMade
  <2> QED
    BY <1>1, <1>2, <2>1, <2>2, <2>3
<1>9. ASSUME NEW w \in Weapons, OnPlayerDeath(w) PROVE IrregularIsSound'
  <2>1. connected /\ UNCHANGED <<connection, connected>>
    BY <1>9 DEF OnPlayerDeath, slotVars
  <2>2. irregular' = irregular
        \/ \E i \in 1..Len(shots), fair \in BOOLEAN :
             irregular' = IrregularOnPlayerDeath(irregular, shots[i].id, fair)
    BY <1>9 DEF OnPlayerDeath, Handled
  <2> QED
    BY <1>1, <1>2, <2>1, <2>2, AttemptSucceeds
<1>10. ASSUME NEW changed \in BOOLEAN, NEW lapsed \in 0..MaxNameChanges,
              OnClientSettingsChanged(changed, lapsed)
       PROVE  IrregularIsSound'
  BY <1>2, <1>10 DEF OnClientSettingsChanged, slotVars
<1> QED
  BY <1>3, <1>4, <1>5, <1>6, <1>7, <1>8, <1>9, <1>10 DEF Next

-----------------------------------------------------------------------------
\* Name changer.

NameDataIsSound(d) ==
  /\ d \in NameData /\ Len(d.changes) < MaxNameChanges
  /\ \A i \in 1..Len(d.changes) : d.changes[i] \in Own

NamesAreSound == NameDataIsSound(names)

LEMMA CleanNames ==
  /\ NameDataIsSound(NameClean) /\ NameDataIsSound(NameOnClientReady)
  /\ NameClean.changes = <<>> /\ NameOnClientReady.changes = <<>>
<1>1. <<>> \in Seq(Connections) /\ Len(<<>>) = 0 /\ MaxNameChanges \in Nat \ {0}
  BY NameAssumption, EmptySeq
<1>2. NameClean \in NameData /\ NameClean.changes = <<>>
  BY <1>1 DEF NameClean, NameData
<1>4. NameOnClientReady \in NameData /\ NameOnClientReady.changes = <<>>
  BY <1>1, <1>2 DEF NameOnClientReady, NameData
<1> QED
  BY <1>1, <1>2, <1>4 DEF NameDataIsSound

LEMMA NameChanges ==
  ASSUME SlotIsSound, connected, NEW d, NameDataIsSound(d), NEW changed \in BOOLEAN,
         NEW lapsed \in 0..Len(d.changes)
  PROVE  NameDataIsSound(NameOnClientSettingsChanged(d, changed, lapsed))
<1> DEFINE kept == SubSeq(d.changes, lapsed + 1, Len(d.changes))
           changes == Append(kept, connection)
           next == IF Len(changes) >= MaxNameChanges THEN <<>> ELSE changes
           e == NameOnClientSettingsChanged(d, changed, lapsed)
<1>1. /\ d \in NameData /\ d.changes \in Seq(Connections) /\ Len(d.changes) \in Nat
      /\ connection \in Connections /\ connection \in Own /\ MaxNameChanges \in Nat \ {0}
      /\ Len(d.changes) < MaxNameChanges
  BY NameAssumption DEF NameDataIsSound, NameData, SlotIsSound, Own
<1>2. /\ kept \in Seq(Connections) /\ Len(kept) \in Nat
      /\ \A i \in 1..Len(kept) : kept[i] \in Own
  <2>1. /\ kept \in Seq(Connections) /\ Len(kept) = Len(d.changes) - lapsed
        /\ \A i \in 1..Len(kept) : kept[i] = d.changes[i + lapsed]
    BY <1>1
  <2> HIDE DEF kept
  <2>2. \A i \in 1..Len(kept) : i + lapsed \in 1..Len(d.changes)
    BY <1>1, <2>1
  <2> QED
    BY <2>1, <2>2 DEF NameDataIsSound
<1> HIDE DEF kept
<1>3. /\ changes \in Seq(Connections) /\ Len(changes) = Len(kept) + 1
      /\ \A i \in 1..Len(changes) : changes[i] \in Own
  BY <1>1, <1>2
<1> HIDE DEF changes
<1>4. /\ next \in Seq(Connections) /\ Len(next) < MaxNameChanges
      /\ \A i \in 1..Len(next) : next[i] \in Own
  <2>1. CASE Len(changes) >= MaxNameChanges
    BY <1>1, <2>1, EmptySeq
  <2>2. CASE ~(Len(changes) >= MaxNameChanges)
    BY <1>1, <1>3, <2>2
  <2> QED
    BY <2>1, <2>2
<1>5. e \in {d, [d EXCEPT !.initialized = TRUE], [d EXCEPT !.changes = next]}
  BY DEF NameOnClientSettingsChanged, changes, kept
<1> HIDE DEF next, e
<1>6. CASE e = d
  BY <1>6 DEF e
<1>7. CASE e = [d EXCEPT !.initialized = TRUE]
  <2>1. e \in NameData /\ e.changes = d.changes
    BY <1>1, <1>7 DEF NameData
  <2> QED
    BY <2>1 DEF NameDataIsSound, e
<1>8. CASE e = [d EXCEPT !.changes = next]
  <2>1. e \in NameData /\ e.changes = next
    BY <1>1, <1>4, <1>8 DEF NameData
  <2> QED
    BY <1>4, <2>1 DEF NameDataIsSound, e
<1> QED
  BY <1>5, <1>6, <1>7, <1>8

LEMMA NamesStep ==
  ASSUME SlotIsSound, NamesAreSound, [Next]_vars
  PROVE  NamesAreSound'
<1> USE DEF NamesAreSound
<1>1. ASSUME NameDataIsSound(names'), UNCHANGED <<connection, connected>> PROVE NamesAreSound'
  BY <1>1 DEF NameDataIsSound, NameData, Own, Connections
<1>2. ASSUME UNCHANGED <<names, connection, connected>> PROVE NamesAreSound'
  BY <1>1, <1>2
<1>3. CASE Connect
  <2>1. names' = names /\ ~connected
    BY <1>3 DEF Connect, Join, moduleVars
  <2> QED
    BY <2>1 DEF NameDataIsSound, NameData, Own, Connections
<1>4. CASE OnClientDisconnect \/ Reset
  <2>1. names' = NameClean \/ names' = NameOnClientReady
    BY <1>4 DEF OnClientDisconnect, Reset, NameReset
  <2>2. names' \in NameData /\ Len(names'.changes) < MaxNameChanges /\ names'.changes = <<>>
    BY <2>1, CleanNames DEF NameDataIsSound
  <2> QED
    BY <2>2 DEF NameDataIsSound, NameData, Connections
<1>5. CASE OnClientReady
  BY <1>1, <1>5, CleanNames DEF OnClientReady, slotVars
<1>6. CASE OnPlayerSpawn \/ OnFireBullets \/ OnPlayerHurt \/ OnGameFrame \/ UNCHANGED vars
  BY <1>2, <1>6 DEF OnPlayerSpawn, OnFireBullets, OnPlayerHurt, OnGameFrame, Clock, vars, moduleVars,
     slotVars
<1>7. ASSUME NEW c \in Commands, OnProcessUsercmds(c) \/ OnSetupMove(c) PROVE NamesAreSound'
  BY <1>2, <1>7 DEF OnProcessUsercmds, Arrives, OnSetupMove, Simulates, slotVars
<1>8. ASSUME NEW w \in Weapons, OnWeaponFire(w) \/ OnPlayerDeath(w) PROVE NamesAreSound'
  BY <1>2, <1>8 DEF OnWeaponFire, OnPlayerDeath, slotVars
<1>9. ASSUME NEW changed \in BOOLEAN, NEW lapsed \in 0..MaxNameChanges,
             OnClientSettingsChanged(changed, lapsed)
      PROVE  NamesAreSound'
  <2>1. /\ connected /\ UNCHANGED <<connection, connected>>
        /\ names' = NameOnClientSettingsChanged(names, changed, lapsed)
        /\ lapsed <= Len(names.changes)
    BY <1>9 DEF OnClientSettingsChanged, slotVars
  <2>2. Len(names.changes) \in Nat /\ lapsed \in Nat
    BY NameAssumption DEF NameDataIsSound, NameData
  <2>3. lapsed \in 0..Len(names.changes)
    BY <2>1, <2>2
  <2> QED
    BY <1>1, <2>1, <2>3, NameChanges
<1> QED
  BY <1>3, <1>4, <1>5, <1>6, <1>7, <1>8, <1>9 DEF Next

-----------------------------------------------------------------------------
\* The evidence of SilentAim and InhumanAccuracy.

EvidenceIsOwn ==
  evidence \in [Modules -> SUBSET Connections] /\ \A m \in Modules : evidence[m] \subseteq Own

LEMMA EvidenceStep ==
  ASSUME SlotIsSound, ShotsAreSound, EvidenceIsOwn, [Next]_vars
  PROVE  EvidenceIsOwn'
<1>1. ASSUME UNCHANGED evidence, UNCHANGED <<connection, connected>> \/ ~connected
      PROVE  EvidenceIsOwn'
  BY <1>1 DEF EvidenceIsOwn, Own, Modules, Connections
<1>2. CASE Connect \/ OnClientReady \/ OnPlayerSpawn \/ UNCHANGED vars
  BY <1>1, <1>2 DEF Connect, Join, ShotsOfNewcomer, OnClientReady, OnPlayerSpawn, vars, shotVars,
     slotVars
<1>3. CASE OnClientDisconnect \/ Reset
  BY <1>3 DEF OnClientDisconnect, Reset, ShotsCleared, Nothing, EvidenceIsOwn, Modules, Connections
<1>4. CASE OnFireBullets \/ OnPlayerHurt
  BY <1>1, <1>4 DEF OnFireBullets, ShotsOnFireBullets, OnPlayerHurt, Hurt, slotVars
<1>5. CASE OnGameFrame
  <2>1. UNCHANGED <<connection, connected>>
    BY <1>5 DEF OnGameFrame, Clock
  <2>2. PICK telling, cleared : evidence' = Evidence(telling, cleared)
    BY <1>5 DEF OnGameFrame, ShotsOnGameFrame
  <2>3. ASSUME NEW m \in Modules
        PROVE  Counted(m, telling) \in SUBSET Connections /\ Counted(m, telling) \subseteq Own
    <3>1. \A i \in Due(m) : shots[i].connection \in Own /\ shots[i].connection \in Connections
      <4>1. SUFFICES ASSUME NEW i \in Due(m)
                     PROVE  shots[i].connection \in Own /\ shots[i].connection \in Connections
        OBVIOUS
      <4>2. i \in 1..Len(shots) /\ shots[i].connection = connection /\ shots # <<>>
        BY DEF Due, ShotsAreSound, ShotIsSound
      <4> QED
        BY <4>2 DEF Own, ShotsAreSound, SlotIsSound
    <3>2. \A x \in Counted(m, telling) : \E i \in Due(m) : x = shots[i].connection
      BY DEF Counted
    <3> QED
      BY <3>1, <3>2
  <2>4. \A m \in Modules : evidence'[m] = IF m \in cleared THEN {}
                                          ELSE evidence[m] \union Counted(m, telling)
    BY <2>2 DEF Evidence
  <2>5. evidence' = [m \in Modules |-> evidence'[m]]
    BY <2>2 DEF Evidence
  <2>6. \A m \in Modules : evidence'[m] \in SUBSET Connections /\ evidence'[m] \subseteq Own
    BY <2>3, <2>4 DEF EvidenceIsOwn
  <2>7. Own' = Own
    BY <2>1 DEF Own
  <2> QED
    BY <2>5, <2>6, <2>7 DEF EvidenceIsOwn, Modules, Connections
<1>6. ASSUME NEW c \in Commands, OnProcessUsercmds(c) \/ OnSetupMove(c) PROVE EvidenceIsOwn'
  BY <1>1, <1>6 DEF OnProcessUsercmds, Arrives, ShotsOnProcessUsercmds, OnSetupMove, Simulates,
     ShotsOnSetupMove, slotVars
<1>7. ASSUME NEW w \in Weapons, OnWeaponFire(w) PROVE EvidenceIsOwn'
  BY <1>1, <1>7 DEF OnWeaponFire, Shoots, Recorded, Discarded, slotVars
<1>8. ASSUME NEW w \in Weapons, OnPlayerDeath(w) PROVE EvidenceIsOwn'
  BY <1>1, <1>8 DEF OnPlayerDeath, Died, slotVars
<1>9. ASSUME NEW changed \in BOOLEAN, NEW lapsed \in 0..MaxNameChanges,
             OnClientSettingsChanged(changed, lapsed)
      PROVE  EvidenceIsOwn'
  BY <1>1, <1>9 DEF OnClientSettingsChanged, shotVars, slotVars
<1> QED
  BY <1>2, <1>3, <1>4, <1>5, <1>6, <1>7, <1>8, <1>9 DEF Next

-----------------------------------------------------------------------------
\* Scans.

\* The slots before s that will not be scanned before s was waiting as long as there are slots.
Behind(d, s) ==
  {r \in 1..(s - 1) : d.nextScan[r] = Unset \/ d.nextScan[r] >= SlotCount - d.waited[s] + 1}

\* Whoever waits is due, and for each frame of his waiting one slot before him was scanned,
\* another each time.
ScanDataIsSound(d) ==
  /\ d \in ScanData
  /\ \A s \in Slots : /\ d.waited[s] > 0 => d.nextScan[s] = 0
                      /\ Cardinality(Behind(d, s)) >= d.waited[s]

ScansAreSound == ScanDataIsSound(scans)

LEMMA ScanNumbers ==
  /\ SlotCount \in Nat /\ InitialDelay \in Nat /\ ScanInterval \in Nat
  /\ InitialDelay > SlotCount /\ ScanInterval > SlotCount
  /\ Slots \subseteq Nat
BY ScanAssumption DEF Slots

LEMMA BehindIsFinite ==
  ASSUME NEW d, NEW s \in Slots
  PROVE  /\ IsFiniteSet(Behind(d, s)) /\ Cardinality(Behind(d, s)) \in Nat
         /\ Cardinality(Behind(d, s)) <= s - 1 /\ s - 1 \in Nat
         /\ Behind(d, s) \subseteq Slots
<1>1. s \in Nat /\ s >= 1 /\ s <= SlotCount /\ SlotCount \in Nat
  BY ScanNumbers DEF Slots
<1>2. IsFiniteSet(1..(s - 1)) /\ Cardinality(1..(s - 1)) = s - 1 /\ s - 1 \in Nat
  BY <1>1, FS_Interval
<1>3. Behind(d, s) \subseteq 1..(s - 1)
  BY DEF Behind
<1>4. 1..(s - 1) \subseteq Slots
  BY <1>1 DEF Slots
<1> QED
  BY <1>2, <1>3, <1>4, FS_Subset, FS_CardinalityType

(***************************************************************************)
(* A slot waits no longer than there are slots before it.                  *)
(***************************************************************************)
LEMMA WaitsForOthers ==
  ASSUME NEW d, ScanDataIsSound(d), NEW s \in Slots
  PROVE  d.waited[s] < SlotCount
<1>1. d.waited[s] \in Nat /\ s \in Nat /\ s <= SlotCount /\ SlotCount \in Nat
  BY ScanNumbers DEF ScanDataIsSound, ScanData, Slots
<1>2. d.waited[s] <= Cardinality(Behind(d, s))
  BY DEF ScanDataIsSound
<1> QED
  BY <1>1, <1>2, BehindIsFinite

LEMMA CleanScans == ScanDataIsSound(ScanClean)
<1>1. ScanClean \in ScanData /\ \A s \in Slots : ScanClean.waited[s] = 0
  BY ScanNumbers DEF ScanClean, ScanData, Unset
<1>2. \A s \in Slots : Cardinality(Behind(ScanClean, s)) >= 0
  BY BehindIsFinite
<1> QED
  BY <1>1, <1>2 DEF ScanDataIsSound

LEMMA SlotsDepart ==
  ASSUME NEW d, ScanDataIsSound(d), NEW left \in SUBSET Slots
  PROVE  ScanDataIsSound(Departed(d, left))
<1> DEFINE e == Departed(d, left)
<1>1. d \in ScanData /\ ScanInterval \in Nat /\ InitialDelay \in Nat /\ SlotCount \in Nat
  BY ScanNumbers DEF ScanDataIsSound
<1>2. /\ e \in ScanData
      /\ \A s \in Slots : /\ e.nextScan[s] = IF s \in left THEN Unset ELSE d.nextScan[s]
                          /\ e.waited[s] = IF s \in left THEN 0 ELSE d.waited[s]
  BY <1>1 DEF Departed, ScanData, Unset
<1> HIDE DEF e
<1>3. ASSUME NEW s \in Slots
      PROVE  e.waited[s] > 0 => e.nextScan[s] = 0
  BY <1>2 DEF ScanDataIsSound
<1>4. ASSUME NEW s \in Slots
      PROVE  Cardinality(Behind(e, s)) >= e.waited[s]
  <2>1. CASE s \in left
    BY <1>2, <2>1, BehindIsFinite
  <2>2. CASE s \notin left
    <3>1. e.waited[s] = d.waited[s]
      BY <1>2, <2>2
    <3>2. Behind(d, s) \subseteq Behind(e, s)
      <4>1. Behind(d, s) \subseteq Slots
        BY BehindIsFinite
      <4> QED
        BY <1>2, <3>1, <4>1 DEF Behind
    <3>3. Cardinality(Behind(d, s)) <= Cardinality(Behind(e, s))
      BY <3>2, BehindIsFinite, FS_Subset
    <3>4. Cardinality(Behind(d, s)) >= d.waited[s] /\ d.waited[s] \in Nat
      BY <1>1 DEF ScanDataIsSound, ScanData
    <3> QED
      BY <3>1, <3>3, <3>4, BehindIsFinite
  <2> QED
    BY <2>1, <2>2
<1> QED
  BY <1>2, <1>3, <1>4 DEF ScanDataIsSound, e

LEMMA SlotsScanned ==
  ASSUME NEW d, ScanDataIsSound(d), NEW inGame \in SUBSET Slots, NEW listening \in SUBSET Slots
  PROVE  ScanDataIsSound(OnFrame(d, inGame, listening))
<1> DEFINE due == {s \in inGame : d.nextScan[s] = 0}
           ready == due \intersect listening
           scanned == {s \in ready : \A r \in ready : s <= r}
           asked(s) == \A r \in scanned : s <= r
           next(s) ==
             IF s \in inGame /\ d.nextScan[s] = Unset THEN InitialDelay
             ELSE IF s \in scanned THEN ScanInterval
             ELSE IF s \in due /\ asked(s) THEN InitialDelay
             ELSE IF s \in due THEN StillDue
             ELSE d.nextScan[s]
           after(n) == IF n > 0 THEN n - 1 ELSE n
           waits(s) ==
             IF s \notin inGame \/ (s \in due /\ asked(s)) THEN 0
             ELSE IF (s \in due \/ d.waited[s] > 0) /\ d.waited[s] < SlotCount
                  THEN d.waited[s] + 1 ELSE d.waited[s]
           e == OnFrame(d, inGame, listening)
<1>1. /\ d \in ScanData /\ ScanInterval \in Nat /\ InitialDelay \in Nat /\ SlotCount \in Nat
      /\ InitialDelay > SlotCount /\ ScanInterval > SlotCount
      /\ \A s \in Slots : d.nextScan[s] \in Unset..(ScanInterval + InitialDelay)
      /\ \A s \in Slots : d.waited[s] \in 0..SlotCount
  BY ScanNumbers DEF ScanDataIsSound, ScanData
<1>2. e = [nextScan |-> [s \in Slots |-> after(next(s))], waited |-> [s \in Slots |-> waits(s)]]
  BY DEF OnFrame
<1>3. \A s : s \in due <=> s \in inGame /\ d.nextScan[s] = 0
  OBVIOUS
<1>4. \A s : s \in scanned => s \in due
  OBVIOUS
<1>5. \A s : ~asked(s) => \E r \in scanned : ~(s <= r)
  OBVIOUS
<1> HIDE DEF due, scanned, asked, ready
<1>6. \A s \in Slots : /\ after(next(s)) \in Unset..(ScanInterval + InitialDelay)
                       /\ waits(s) \in 0..SlotCount
  BY <1>1 DEF Unset, StillDue
<1>7. /\ e \in ScanData
      /\ \A s \in Slots : e.nextScan[s] = after(next(s)) /\ e.waited[s] = waits(s)
  BY <1>2, <1>6 DEF ScanData
<1> HIDE DEF e
<1>8. \A s \in Slots :
        /\ d.nextScan[s] = Unset => e.nextScan[s] \in {Unset, InitialDelay - 1}
        /\ d.nextScan[s] > 0 => e.nextScan[s] = d.nextScan[s] - 1
        /\ s \in scanned => e.nextScan[s] = ScanInterval - 1
  BY <1>1, <1>3, <1>4, <1>7 DEF Unset, StillDue
<1>9. ASSUME NEW s \in Slots, e.waited[s] > 0
      PROVE  s \in due /\ ~asked(s) /\ e.nextScan[s] = 0 /\ e.waited[s] = d.waited[s] + 1
  <2>1. d.waited[s] < SlotCount /\ (d.waited[s] > 0 => d.nextScan[s] = 0)
    BY WaitsForOthers DEF ScanDataIsSound
  <2>2. s \in due /\ ~asked(s) /\ e.waited[s] = d.waited[s] + 1
    BY <1>1, <1>3, <1>7, <1>9, <2>1
  <2>3. s \notin scanned
    <3>1. s \in scanned => asked(s)
      BY DEF scanned, asked
    <3> QED
      BY <2>2, <3>1
  <2> QED
    BY <1>3, <1>7, <2>2, <2>3 DEF StillDue, Unset
<1>10. ASSUME NEW s \in Slots
       PROVE  Cardinality(Behind(e, s)) >= e.waited[s]
  <2>1. CASE e.waited[s] = 0
    BY <2>1, BehindIsFinite
  <2>2. CASE e.waited[s] > 0
    <3> DEFINE k == d.waited[s]
    <3>1. s \in due /\ ~asked(s) /\ e.waited[s] = k + 1 /\ k \in Nat /\ k < SlotCount
      BY <1>1, <1>9, <2>2, WaitsForOthers
    <3>2. PICK r \in scanned : ~(s <= r)
      BY <1>5, <3>1
    <3>3. r \in Slots /\ r \in 1..(s - 1) /\ d.nextScan[r] = 0
      <4>1. r \in Slots /\ d.nextScan[r] = 0
        BY <1>3, <1>4, <3>2
      <4> QED
        BY <3>2, <4>1, ScanNumbers DEF Slots
    <3> HIDE DEF k
    <3>4. r \notin Behind(d, s)
      BY <1>1, <3>1, <3>3 DEF Behind, Unset, k
    <3>5. r \in Behind(e, s)
      <4>1. e.nextScan[r] = ScanInterval - 1
        BY <1>8, <3>2, <3>3
      <4>2. ScanInterval - 1 >= SlotCount - (k + 1) + 1
        BY <1>1, <3>1
      <4> QED
        BY <3>1, <3>3, <4>1, <4>2 DEF Behind
    <3>6. ASSUME NEW q \in Behind(d, s) PROVE q \in Behind(e, s)
      <4>1. q \in 1..(s - 1) /\ q \in Slots
        BY BehindIsFinite DEF Behind
      <4>2. e.nextScan[q] = Unset \/ e.nextScan[q] >= SlotCount - (k + 1) + 1
        <5>1. CASE d.nextScan[q] = Unset
          <6>1. InitialDelay - 1 >= SlotCount - (k + 1) + 1
            BY <1>1, <3>1
          <6> QED
            BY <1>8, <4>1, <5>1, <6>1
        <5>2. CASE d.nextScan[q] >= SlotCount - k + 1
          <6>1. d.nextScan[q] \in Int
            BY <1>1, <4>1 DEF Unset
          <6>2. d.nextScan[q] > 0
            BY <1>1, <3>1, <5>2, <6>1
          <6>3. e.nextScan[q] = d.nextScan[q] - 1
            BY <1>8, <4>1, <6>2
          <6> QED
            BY <1>1, <3>1, <5>2, <6>1, <6>3
        <5> QED
          BY <5>1, <5>2 DEF Behind, k
      <4> QED
        BY <3>1, <4>1, <4>2 DEF Behind
    <3>7. Behind(d, s) \union {r} \subseteq Behind(e, s)
      BY <3>5, <3>6
    <3>8. /\ IsFiniteSet(Behind(d, s) \union {r})
          /\ Cardinality(Behind(d, s) \union {r}) = Cardinality(Behind(d, s)) + 1
      BY <3>4, BehindIsFinite, FS_AddElement
    <3>9. Cardinality(Behind(d, s) \union {r}) <= Cardinality(Behind(e, s))
      BY <3>7, BehindIsFinite, FS_Subset
    <3>10. Cardinality(Behind(d, s)) >= k
      BY DEF ScanDataIsSound, k
    <3> QED
      BY <3>1, <3>8, <3>9, <3>10, BehindIsFinite
  <2> QED
    BY <1>1, <1>7, <2>1, <2>2 DEF ScanData
<1> QED
  BY <1>7, <1>9, <1>10 DEF ScanDataIsSound, e

LEMMA ScansStep ==
  ASSUME ScansAreSound, [Next]_vars
  PROVE  ScansAreSound'
<1> USE DEF ScansAreSound
<1>1. ASSUME ScanDataIsSound(scans') PROVE ScansAreSound'
  BY <1>1 DEF ScanDataIsSound, ScanData, Behind, Slots
<1>2. ASSUME UNCHANGED scans PROVE ScansAreSound'
  BY <1>1, <1>2
<1>3. CASE \/ Connect \/ OnClientReady \/ OnClientDisconnect \/ OnPlayerSpawn \/ OnFireBullets
           \/ OnPlayerHurt \/ UNCHANGED vars
  BY <1>2, <1>3 DEF Connect, OnClientReady, OnClientDisconnect, OnPlayerSpawn, OnFireBullets,
     OnPlayerHurt, vars, moduleVars
<1>4. CASE Reset
  BY <1>1, <1>4, CleanScans DEF Reset
<1>5. CASE OnGameFrame
  <2>1. CASE UNCHANGED scans
    BY <1>2, <2>1
  <2>2. CASE scans' \in Scanned
    <3>1. PICK left \in SUBSET Slots, inGame \in SUBSET Slots, listening \in SUBSET Slots :
            scans' = OnFrame(Departed(scans, left), inGame, listening)
      BY <2>2 DEF Scanned
    <3> QED
      BY <1>1, <3>1, SlotsDepart, SlotsScanned
  <2> QED
    BY <1>5, <2>1, <2>2 DEF OnGameFrame, Handled
<1>6. ASSUME NEW c \in Commands, OnProcessUsercmds(c) \/ OnSetupMove(c) PROVE ScansAreSound'
  BY <1>2, <1>6 DEF OnProcessUsercmds, OnSetupMove
<1>7. ASSUME NEW w \in Weapons, OnWeaponFire(w) \/ OnPlayerDeath(w) PROVE ScansAreSound'
  BY <1>2, <1>7 DEF OnWeaponFire, OnPlayerDeath
<1>8. ASSUME NEW changed \in BOOLEAN, NEW lapsed \in 0..MaxNameChanges,
             OnClientSettingsChanged(changed, lapsed)
      PROVE  ScansAreSound'
  BY <1>2, <1>8 DEF OnClientSettingsChanged
<1> QED
  BY <1>3, <1>4, <1>5, <1>6, <1>7, <1>8 DEF Next

-----------------------------------------------------------------------------
\* Anti-aim: its data.

AntiAimData ==
  [commands : Seq(AntiAimCommand), score : Nat, mismatchScore : Nat,
   spin : [Tiers -> Nat], spinBreak : [Tiers -> 0..BreakTicks],
   jitter : Nat, jitterBreak : 0..BreakTicks,
   pendingShot : Commands \union {Unknown}, pendingShotTick : Ticks \union {Unknown},
   lastMotion : Ticks \union {Unknown}, lastMismatch : Commands \union {Unknown},
   invalidActive : BOOLEAN, inconsistencyActive : BOOLEAN, spinActive : BOOLEAN,
   jitterActive : BOOLEAN, suppressContinuous : BOOLEAN,
   moving : BOOLEAN, quiet : BOOLEAN, repeated : BOOLEAN]

\* The types, the score below the threshold, and no motion from the future.
AntiAimDataIsSound(a) ==
  /\ a \in AntiAimData /\ Len(a.commands) <= AntiAimHistory
  /\ a.score + a.mismatchScore < Threshold
  /\ a.lastMotion <= tick

\* A shot waits only while its next command has not been simulated, and not for long.
ShotWaits(a) ==
  a.pendingShot # Unknown =>
    /\ Find(a, a.pendingShot + 1) = {}
    /\ a.pendingShotTick \in Ticks /\ tick - a.pendingShotTick <= 2

\* The commands and the shot that waits are left alone.
SameReturn(a, e) ==
  /\ e.commands = a.commands
  /\ e.pendingShot = a.pendingShot /\ e.pendingShotTick = a.pendingShotTick

LEMMA AntiAimNumbers ==
  /\ AntiAimHistory \in Nat \ {0} /\ Threshold \in Nat \ {0} /\ InvalidWeight \in Nat
  /\ ReturnWeight \in Nat /\ BreakTicks \in Nat /\ GapTicks \in Nat
BY AntiAimAssumption

LEMMA CleanAntiAim ==
  ASSUME SlotIsSound
  PROVE  /\ AntiAimDataIsSound(AntiAimClean)
         /\ AntiAimClean.commands = <<>> /\ AntiAimClean.pendingShot = Unknown
<1>1. <<>> \in Seq(AntiAimCommand) /\ Len(<<>>) = 0 /\ tick \in Nat
  BY EmptySeq, SlotNumbers
<1>2. AntiAimClean \in AntiAimData
  BY <1>1, AntiAimNumbers DEF AntiAimData, AntiAimClean
<1> QED
  BY <1>1, <1>2, AntiAimNumbers DEF AntiAimDataIsSound, AntiAimClean, Unknown

LEMMA EvidenceAdded ==
  ASSUME SlotIsSound, NEW a, AntiAimDataIsSound(a), NEW weight \in Nat,
         NEW continuous \in BOOLEAN, NEW mismatch \in BOOLEAN,
         NEW e, e = AddEvidence(a, weight, continuous, mismatch)
  PROVE  /\ AntiAimDataIsSound(e) /\ SameReturn(a, e)
         /\ e.lastMotion = a.lastMotion
<1> DEFINE more == a.mismatchScore + weight
           score == a.score + weight
           added == IF mismatch THEN [a EXCEPT !.mismatchScore = more]
                    ELSE [a EXCEPT !.score = score]
<1>1. a \in AntiAimData /\ a.score \in Nat /\ a.mismatchScore \in Nat
  BY DEF AntiAimDataIsSound, AntiAimData
<1>7. more \in Nat /\ score \in Nat
  BY <1>1
<1>3. \/ e = a
      \/ e = added /\ added.score + added.mismatchScore < Threshold
      \/ e = Announce(added, continuous)
  BY DEF AddEvidence
<1> HIDE DEF more, score
<1>2. /\ added \in AntiAimData /\ SameReturn(a, added)
      /\ added.lastMotion = a.lastMotion
  BY <1>1, <1>7 DEF AntiAimData, SameReturn
<1> HIDE DEF added
<1>4. CASE e = a
  BY <1>4 DEF SameReturn
<1>5. CASE e = added /\ added.score + added.mismatchScore < Threshold
  BY <1>2, <1>5 DEF AntiAimDataIsSound, SameReturn
<1>6. CASE e = Announce(added, continuous)
  <2> DEFINE repeated == added.repeated \/ (continuous /\ ~added.quiet)
             quiet == added.quiet /\ ~continuous
  <2>1. repeated \in BOOLEAN /\ quiet \in BOOLEAN
    OBVIOUS
  <2>2. e = [added EXCEPT !.score = 0, !.mismatchScore = 0, !.suppressContinuous = continuous,
                          !.repeated = repeated, !.quiet = quiet]
    BY <1>6 DEF Announce
  <2> HIDE DEF repeated, quiet
  <2> DEFINE cleared == [added EXCEPT !.score = 0, !.mismatchScore = 0]
  <2>5. cleared \in AntiAimData /\ cleared.score = 0 /\ cleared.mismatchScore = 0
    BY <1>2 DEF AntiAimData
  <2>6. e = [cleared EXCEPT !.suppressContinuous = continuous, !.repeated = repeated, !.quiet = quiet]
    BY <2>2
  <2> HIDE DEF cleared
  <2>3. e \in AntiAimData /\ e.score = 0 /\ e.mismatchScore = 0
    BY <2>1, <2>5, <2>6 DEF AntiAimData
  <2>4. SameReturn(added, e) /\ e.lastMotion = added.lastMotion
    BY <1>2, <2>2 DEF AntiAimData, SameReturn
  <2> QED
    BY <1>2, <2>3, <2>4, AntiAimNumbers DEF AntiAimDataIsSound, SameReturn
<1> QED
  BY <1>3, <1>4, <1>5, <1>6

LEMMA MotionReset ==
  ASSUME SlotIsSound, NEW a, AntiAimDataIsSound(a)
  PROVE  AntiAimDataIsSound(ResetMotion(a)) /\ SameReturn(a, ResetMotion(a))
<1> DEFINE none == [t \in Tiers |-> 0]
           e == ResetMotion(a)
<1>1. a \in AntiAimData /\ none \in [Tiers -> Nat] /\ none \in [Tiers -> 0..BreakTicks] /\ tick \in Nat
  BY SlotNumbers, AntiAimNumbers DEF AntiAimDataIsSound
<1>2. e = [a EXCEPT !.spin = none, !.spinBreak = none,
             !.jitter = 0, !.jitterBreak = 0, !.lastMotion = Unknown,
             !.spinActive = FALSE, !.jitterActive = FALSE, !.moving = FALSE]
  BY DEF ResetMotion
<1> HIDE DEF none, e
<1> DEFINE still == [a EXCEPT !.spin = none, !.spinBreak = none, !.jitter = 0]
           early == [still EXCEPT !.jitterBreak = 0, !.lastMotion = Unknown]
<1>5. still \in AntiAimData
  BY <1>1 DEF AntiAimData
<1>6. e = [early EXCEPT !.spinActive = FALSE, !.jitterActive = FALSE, !.moving = FALSE]
  BY <1>2
<1> HIDE DEF still
<1>8. 0 \in 0..BreakTicks /\ Unknown \in Ticks \union {Unknown}
  BY AntiAimNumbers
<1>7. early \in AntiAimData
  BY <1>5, <1>8 DEF AntiAimData
<1> HIDE DEF early
<1>3. e \in AntiAimData
  BY <1>6, <1>7 DEF AntiAimData
<1>4. SameReturn(a, e) /\ e.lastMotion = Unknown /\ e.score = a.score /\ e.mismatchScore = a.mismatchScore
  BY <1>1, <1>2 DEF AntiAimData, SameReturn
<1> QED
  BY <1>1, <1>3, <1>4 DEF AntiAimDataIsSound, SameReturn, Unknown, e

LEMMA ShotGivenUp ==
  ASSUME NEW a, AntiAimDataIsSound(a)
  PROVE  /\ AntiAimDataIsSound(NoShot(a))
         /\ NoShot(a).pendingShot = Unknown /\ NoShot(a).commands = a.commands
         /\ NoShot(a).lastMotion = a.lastMotion
BY DEF AntiAimDataIsSound, AntiAimData, NoShot

LEMMA CounterProgresses ==
  ASSUME NEW count \in Nat, NEW break \in 0..BreakTicks, NEW matches \in BOOLEAN,
         NEW silent \in BOOLEAN, NEW gap \in Nat
  PROVE  /\ Progress(count, break, matches, silent, gap).count \in Nat
         /\ Progress(count, break, matches, silent, gap).break \in 0..BreakTicks
         /\ Progress(count, break, matches, silent, gap).active \in BOOLEAN
BY AntiAimNumbers DEF Progress

LEMMA SpinEvaluated ==
  ASSUME SlotIsSound, NEW a, AntiAimDataIsSound(a), NEW fast, NEW gap \in Nat
  PROVE  /\ AntiAimDataIsSound(EvaluateSpin(a, fast, gap)) /\ SameReturn(a, EvaluateSpin(a, fast, gap))
         /\ EvaluateSpin(a, fast, gap).lastMotion = a.lastMotion
<1> DEFINE tier(t) == Progress(a.spin[t], a.spinBreak[t], t <= fast /\ gap = 1,
                               a.suppressContinuous, gap)
           spin == [t \in Tiers |-> tier(t).count]
           spinBreak == [t \in Tiers |-> tier(t).break]
           spinActive == \E t \in Tiers : tier(t).active
           progressed == [a EXCEPT !.spin = spin, !.spinBreak = spinBreak, !.spinActive = spinActive]
           added == AddEvidence(progressed, Threshold, TRUE, FALSE)
           e == EvaluateSpin(a, fast, gap)
<1>1. /\ a \in AntiAimData /\ a.spin \in [Tiers -> Nat] /\ a.spinBreak \in [Tiers -> 0..BreakTicks]
      /\ a.suppressContinuous \in BOOLEAN
  BY DEF AntiAimDataIsSound, AntiAimData
<1>2. \A t \in Tiers : tier(t).count \in Nat /\ tier(t).break \in 0..BreakTicks
  BY <1>1, CounterProgresses
<1>3. e = progressed \/ e = [added EXCEPT !.spinActive = TRUE]
  BY DEF EvaluateSpin
<1> HIDE DEF tier
<1>4. spin \in [Tiers -> Nat] /\ spinBreak \in [Tiers -> 0..BreakTicks] /\ spinActive \in BOOLEAN
  BY <1>2
<1> HIDE DEF spin, spinBreak, spinActive
<1>5. AntiAimDataIsSound(progressed) /\ SameReturn(a, progressed) /\ progressed.lastMotion = a.lastMotion
  BY <1>1, <1>4 DEF AntiAimDataIsSound, AntiAimData, SameReturn
<1> HIDE DEF progressed
<1>6. AntiAimDataIsSound(added) /\ SameReturn(progressed, added) /\ added.lastMotion = progressed.lastMotion
  BY <1>5, EvidenceAdded, AntiAimNumbers
<1> HIDE DEF added, e
<1>7. CASE e = [added EXCEPT !.spinActive = TRUE]
  BY <1>5, <1>6, <1>7 DEF AntiAimDataIsSound, AntiAimData, SameReturn, e
<1> QED
  BY <1>3, <1>5, <1>7 DEF e

LEMMA JitterEvaluated ==
  ASSUME SlotIsSound, NEW a, AntiAimDataIsSound(a), NEW jitters \in BOOLEAN, NEW gap \in Nat
  PROVE  /\ AntiAimDataIsSound(EvaluateJitter(a, jitters, gap))
         /\ SameReturn(a, EvaluateJitter(a, jitters, gap))
<1> DEFINE p == Progress(a.jitter, a.jitterBreak, jitters /\ gap = 1, a.suppressContinuous, gap)
           progressed == [a EXCEPT !.jitter = p.count, !.jitterBreak = p.break,
                                   !.jitterActive = p.active]
           added == AddEvidence(progressed, Threshold, TRUE, FALSE)
           e == EvaluateJitter(a, jitters, gap)
<1>1. /\ a \in AntiAimData /\ a.jitter \in Nat /\ a.jitterBreak \in 0..BreakTicks
      /\ a.suppressContinuous \in BOOLEAN /\ (jitters /\ gap = 1) \in BOOLEAN
  BY DEF AntiAimDataIsSound, AntiAimData
<1>2. p.count \in Nat /\ p.break \in 0..BreakTicks /\ p.active \in BOOLEAN
  BY <1>1, CounterProgresses
<1>3. e = progressed \/ e = [added EXCEPT !.jitterActive = TRUE]
  BY DEF EvaluateJitter
<1> HIDE DEF p
<1>5. AntiAimDataIsSound(progressed) /\ SameReturn(a, progressed)
  BY <1>1, <1>2 DEF AntiAimDataIsSound, AntiAimData, SameReturn
<1> HIDE DEF progressed
<1>6. AntiAimDataIsSound(added) /\ SameReturn(progressed, added)
  BY <1>5, EvidenceAdded, AntiAimNumbers
<1> HIDE DEF added, e
<1>7. CASE e = [added EXCEPT !.jitterActive = TRUE]
  BY <1>5, <1>6, <1>7 DEF AntiAimDataIsSound, AntiAimData, SameReturn, e
<1> QED
  BY <1>3, <1>5, <1>7 DEF e

LEMMA MotionEvaluated ==
  ASSUME SlotIsSound, NEW a, AntiAimDataIsSound(a), NEW fast, NEW jitters \in BOOLEAN
  PROVE  /\ AntiAimDataIsSound(EvaluateMotion(a, fast, jitters))
         /\ SameReturn(a, EvaluateMotion(a, fast, jitters))
<1> DEFINE gap == IF a.lastMotion = Unknown THEN 1 ELSE tick - a.lastMotion
           kept == IF gap > GapTicks THEN ResetMotion(a) ELSE a
           timed == [kept EXCEPT !.lastMotion = tick]
           spun == EvaluateSpin(timed, fast, gap)
           judged == EvaluateJitter(spun, jitters, gap)
           moving == fast > 0 \/ jitters
           e == EvaluateMotion(a, fast, jitters)
<1>1. tick \in Ticks /\ tick \in Nat /\ Ticks \subseteq Nat
  BY SlotNumbers DEF SlotIsSound
<1>2. a \in AntiAimData /\ a.lastMotion <= tick /\ a.lastMotion \in Ticks \union {Unknown}
  BY DEF AntiAimDataIsSound, AntiAimData
<1>3. gap \in Nat
  <2>1. CASE a.lastMotion = Unknown
    BY <2>1
  <2>2. CASE a.lastMotion # Unknown
    <3>1. a.lastMotion \in Nat
      BY <1>1, <1>2, <2>2
    <3>2. tick - a.lastMotion \in Nat
      BY <1>1, <1>2, <3>1
    <3> QED
      BY <2>2, <3>2
  <2> QED
    BY <2>1, <2>2
<1>4. e = a \/ e = [judged EXCEPT !.moving = moving]
  BY DEF EvaluateMotion
<1> HIDE DEF gap
<1>5. AntiAimDataIsSound(kept) /\ SameReturn(a, kept)
  BY MotionReset DEF SameReturn
<1> HIDE DEF kept
<1>6. AntiAimDataIsSound(timed) /\ SameReturn(kept, timed)
  <2>1. kept \in AntiAimData
    BY <1>5 DEF AntiAimDataIsSound
  <2>2. timed \in AntiAimData /\ timed.lastMotion = tick
    BY <1>1, <2>1 DEF AntiAimData
  <2>3. SameReturn(kept, timed) /\ timed.score = kept.score /\ timed.mismatchScore = kept.mismatchScore
    BY <2>1 DEF AntiAimData, SameReturn
  <2> HIDE DEF timed
  <2> QED
    BY <1>1, <1>5, <2>2, <2>3 DEF AntiAimDataIsSound, SameReturn
<1> HIDE DEF timed
<1>7. AntiAimDataIsSound(spun) /\ SameReturn(timed, spun)
  BY <1>3, <1>6, SpinEvaluated
<1> HIDE DEF spun
<1>8. AntiAimDataIsSound(judged) /\ SameReturn(spun, judged)
  BY <1>3, <1>7, JitterEvaluated
<1>9. moving \in BOOLEAN
  OBVIOUS
<1> HIDE DEF judged, moving, e
<1>10. CASE e = [judged EXCEPT !.moving = moving]
  <2>1. AntiAimDataIsSound(e) /\ SameReturn(judged, e)
    BY <1>8, <1>9, <1>10 DEF AntiAimDataIsSound, AntiAimData, SameReturn
  <2> QED
    BY <1>5, <1>6, <1>7, <1>8, <2>1 DEF SameReturn, e
<1>11. CASE e = a
  BY <1>11 DEF SameReturn, e
<1> QED
  BY <1>4, <1>10, <1>11

LEMMA InconsistencyMarked ==
  ASSUME SlotIsSound, NEW a, AntiAimDataIsSound(a), NEW c \in Commands, NEW view \in Views
  PROVE  /\ AntiAimDataIsSound(Inconsistent(a, c, view))
         /\ SameReturn(a, Inconsistent(a, c, view))
<1> DEFINE active == view.problem \/ view.mismatch
           marked == [a EXCEPT !.inconsistencyActive = active]
           spaced == [marked EXCEPT !.lastMismatch = c]
           e == Inconsistent(a, c, view)
<1>1. a \in AntiAimData /\ active \in BOOLEAN
  BY DEF AntiAimDataIsSound
<1>2. \/ e = marked
      \/ e = AddEvidence(marked, 1, TRUE, FALSE)
      \/ e = AddEvidence(spaced, 1, TRUE, TRUE)
  BY DEF Inconsistent
<1> HIDE DEF active, e
<1>3. AntiAimDataIsSound(marked) /\ SameReturn(a, marked)
  BY <1>1 DEF AntiAimDataIsSound, AntiAimData, SameReturn
<1> HIDE DEF marked
<1>4. AntiAimDataIsSound(spaced) /\ SameReturn(marked, spaced)
  BY <1>3 DEF AntiAimDataIsSound, AntiAimData, SameReturn
<1> HIDE DEF spaced
<1>5. ASSUME e = AddEvidence(marked, 1, TRUE, FALSE)
      PROVE  AntiAimDataIsSound(e) /\ SameReturn(marked, e)
  BY <1>3, <1>5, EvidenceAdded
<1>6. ASSUME e = AddEvidence(spaced, 1, TRUE, TRUE)
      PROVE  AntiAimDataIsSound(e) /\ SameReturn(spaced, e)
  BY <1>4, <1>6, EvidenceAdded
<1> QED
  BY <1>2, <1>3, <1>4, <1>5, <1>6 DEF SameReturn, e

LEMMA InvalidMarked ==
  ASSUME SlotIsSound, NEW a, AntiAimDataIsSound(a), NEW view \in Views
  PROVE  AntiAimDataIsSound(Invalid(a, view)) /\ SameReturn(a, Invalid(a, view))
<1> DEFINE marked == [a EXCEPT !.invalidActive = view.invalid]
           e == Invalid(a, view)
<1>1. view.invalid \in BOOLEAN
  BY DEF Views
<1>2. e = marked \/ e = AddEvidence(marked, InvalidWeight, TRUE, FALSE)
  BY DEF Invalid
<1>3. AntiAimDataIsSound(marked) /\ SameReturn(a, marked)
  BY <1>1 DEF AntiAimDataIsSound, AntiAimData, SameReturn
<1> HIDE DEF marked, e
<1>4. ASSUME e = AddEvidence(marked, InvalidWeight, TRUE, FALSE)
      PROVE  AntiAimDataIsSound(e) /\ SameReturn(marked, e)
  BY <1>3, <1>4, EvidenceAdded, AntiAimNumbers
<1> QED
  BY <1>2, <1>3, <1>4 DEF SameReturn, e

LEMMA EpisodeEnded ==
  ASSUME NEW a, AntiAimDataIsSound(a), NEW view \in Views
  PROVE  AntiAimDataIsSound(EpisodeEnd(a, view)) /\ SameReturn(a, EpisodeEnd(a, view))
<1> DEFINE suppress == a.suppressContinuous /\ ~Ends(a)
           quiet == a.quiet \/ ~(view.problem \/ view.mismatch \/ view.invalid \/ a.moving)
<1>1. suppress \in BOOLEAN /\ quiet \in BOOLEAN
  OBVIOUS
<1>2. EpisodeEnd(a, view) = [a EXCEPT !.suppressContinuous = suppress, !.quiet = quiet]
  BY DEF EpisodeEnd
<1> HIDE DEF suppress, quiet
<1> QED
  BY <1>1, <1>2 DEF AntiAimDataIsSound, AntiAimData, SameReturn

-----------------------------------------------------------------------------
\* Anti-aim: attack returns.

\* The ticks of the commands of s are those of commands of t.
TicksFrom(s, t) ==
  \A k \in 1..Len(s) :
    \/ s[k].serverTick = NotSimulated
    \/ \E j \in 1..Len(t) : s[k].number = t[j].number /\ s[k].serverTick = t[j].serverTick

\* The same, but command c is simulated in this tick.
TicksWith(s, t, c) ==
  \A k \in 1..Len(s) :
    \/ s[k].serverTick = NotSimulated
    \/ s[k].number = c /\ s[k].serverTick = tick
    \/ \E j \in 1..Len(t) : s[k].number = t[j].number /\ s[k].serverTick = t[j].serverTick

\* The shot that waits was not simulated long ago.
ShotIsRecent(a) ==
  a.pendingShot # Unknown => a.pendingShotTick \in Ticks /\ tick - a.pendingShotTick <= 2

LEMMA WaitingIsRecent ==
  ASSUME NEW a, ShotWaits(a)
  PROVE  ShotIsRecent(a)
BY DEF ShotWaits, ShotIsRecent

(***************************************************************************)
(* What EvaluatePendingShot leaves waiting is of this tick or the one      *)
(* before, and its next command has not been simulated.                    *)
(***************************************************************************)
LEMMA PendingShotEvaluated ==
  ASSUME SlotIsSound, NEW a, AntiAimDataIsSound(a), ShotIsRecent(a), NEW returned \in BOOLEAN,
         NEW e, e = EvaluatePendingShot(a, returned)
  PROVE  /\ AntiAimDataIsSound(e) /\ e.commands = a.commands /\ ShotWaits(e)
         /\ e.pendingShot # Unknown => tick - e.pendingShotTick <= 1
<1>0. tick \in Nat /\ Ticks \subseteq Nat
  BY SlotNumbers
<1> DEFINE added == AddEvidence(NoShot(a), ReturnWeight, FALSE, FALSE)
<1>1. \/ e = a /\ a.pendingShot = Unknown
      \/ e = a /\ Find(a, a.pendingShot + 1) = {} /\ ~Overdue(a) /\ a.pendingShot # Unknown
      \/ e = NoShot(a)
      \/ e = added
  BY DEF EvaluatePendingShot
<1>2. AntiAimDataIsSound(added) /\ SameReturn(NoShot(a), added)
  BY ShotGivenUp, EvidenceAdded, AntiAimNumbers
<1> HIDE DEF added
<1>3. CASE e = a /\ a.pendingShot = Unknown
  BY <1>3 DEF ShotWaits
<1>4. CASE e = a /\ Find(a, a.pendingShot + 1) = {} /\ ~Overdue(a) /\ a.pendingShot # Unknown
  <2>1. ~(tick - a.pendingShotTick > 1)
    BY <1>4 DEF Overdue
  <2>2. a.pendingShotTick \in Nat /\ a.pendingShotTick \in Ticks
    BY <1>0, <1>4 DEF ShotIsRecent
  <2>3. tick - a.pendingShotTick <= 1 /\ tick - a.pendingShotTick <= 2
    BY <1>0, <2>1, <2>2
  <2> QED
    BY <1>4, <2>2, <2>3 DEF ShotWaits
<1>5. CASE e = NoShot(a) \/ e = added
  <2>1. AntiAimDataIsSound(e) /\ e.commands = a.commands /\ e.pendingShot = Unknown
    BY <1>2, <1>5, ShotGivenUp DEF SameReturn
  <2> QED
    BY <2>1 DEF ShotWaits
<1> QED
  BY <1>1, <1>3, <1>4, <1>5

LEMMA ShotFired ==
  ASSUME SlotIsSound, NEW a, AntiAimDataIsSound(a), ShotWaits(a), NEW c \in Commands,
         NEW returned \in BOOLEAN,
         \A j \in 1..Len(a.commands) :
           a.commands[j].number = c /\ a.commands[j].serverTick # NotSimulated
             => InWindow(a.commands[j].serverTick),
         NEW e, e = AntiAimOnWeaponFire(a, c, returned)
  PROVE  AntiAimDataIsSound(e) /\ e.commands = a.commands /\ ShotWaits(e)
<1> DEFINE f == Fired(a, c)
           found == CHOOSE x \in Find(a, c) : TRUE
           t == found.serverTick
<1>1. tick \in Nat /\ Ticks \subseteq Nat /\ a \in AntiAimData
  BY SlotNumbers DEF AntiAimDataIsSound
<1>2. CASE Find(a, c) = {}
  <2>1. f = a
    BY <1>2 DEF Fired
  <2> QED
    BY <2>1, PendingShotEvaluated, WaitingIsRecent DEF AntiAimOnWeaponFire
<1>3. CASE Find(a, c) # {}
  <2>1. found \in Find(a, c)
    BY <1>3
  <2>2. PICK j \in 1..Len(a.commands) :
          /\ found = a.commands[j] /\ a.commands[j].number = c
          /\ a.commands[j].serverTick # NotSimulated
    BY <2>1 DEF Find
  <2>3. a.commands[j] \in AntiAimCommand
    BY <1>1 DEF AntiAimData
  <2>4. t \in Ticks /\ InWindow(t)
    BY <2>2, <2>3 DEF AntiAimCommand
  <2>5. t \in Nat /\ tick - t <= 2
    BY <1>1, <2>4 DEF InWindow, MatchTicks
  <2>6. f = [a EXCEPT !.pendingShot = c, !.pendingShotTick = t]
    BY <1>3 DEF Fired
  <2> HIDE DEF t, found, f
  <2>7. /\ AntiAimDataIsSound(f) /\ f.commands = a.commands
        /\ f.pendingShotTick = t
    BY <2>4, <2>6 DEF AntiAimDataIsSound, AntiAimData
  <2>8. ShotIsRecent(f)
    BY <2>4, <2>5, <2>7 DEF ShotIsRecent
  <2> QED
    BY <2>7, <2>8, PendingShotEvaluated DEF AntiAimOnWeaponFire, f
<1> QED
  BY <1>2, <1>3

\* The tick of the frame has ended: what still waits may do so in the next tick.
LEMMA ReturnFrame ==
  ASSUME SlotIsSound, NEW a, AntiAimDataIsSound(a), ShotWaits(a), NEW returned \in BOOLEAN,
         NEW e, e = AntiAimOnGameFrame(a, returned)
  PROVE  /\ AntiAimDataIsSound(e) /\ e.commands = a.commands /\ ShotWaits(e)
         /\ e.pendingShot # Unknown => tick - e.pendingShotTick <= 1
<1>1. CASE a.pendingShot # Unknown /\ tick - a.pendingShotTick > 1
  <2>1. e = EvaluatePendingShot(a, returned)
    BY <1>1 DEF AntiAimOnGameFrame
  <2> QED
    BY <2>1, PendingShotEvaluated, WaitingIsRecent
<1>2. CASE ~(a.pendingShot # Unknown /\ tick - a.pendingShotTick > 1)
  <2>1. e = a
    BY <1>2 DEF AntiAimOnGameFrame
  <2>2. a.pendingShot # Unknown => tick - a.pendingShotTick <= 1
    <3>1. SUFFICES ASSUME a.pendingShot # Unknown PROVE tick - a.pendingShotTick <= 1
      OBVIOUS
    <3>2. a.pendingShotTick \in Nat /\ tick \in Nat
      BY <3>1, SlotNumbers DEF ShotWaits
    <3> QED
      BY <1>2, <3>1, <3>2
  <2> QED
    BY <2>1, <2>2
<1> QED
  BY <1>1, <1>2

LEMMA ReturnCommandArrives ==
  ASSUME SlotIsSound, NEW a, AntiAimDataIsSound(a), ShotWaits(a), NEW c \in Commands,
         NEW e, e = AntiAimOnProcessUsercmds(a, c)
  PROVE  AntiAimDataIsSound(e) /\ TicksFrom(e.commands, a.commands) /\ ShotWaits(e)
<1> DEFINE new == [number |-> c, serverTick |-> NotSimulated]
           s == Bounded(Append(a.commands, new), AntiAimHistory)
<1>1. /\ a \in AntiAimData /\ a.commands \in Seq(AntiAimCommand) /\ Len(a.commands) <= AntiAimHistory
      /\ new \in AntiAimCommand /\ new.serverTick = NotSimulated /\ Len(a.commands) \in Nat
  BY DEF AntiAimDataIsSound, AntiAimData, AntiAimCommand
<1>2. CASE Stored(a, c)
  <2>1. e = a
    BY <1>2 DEF AntiAimOnProcessUsercmds
  <2> QED
    BY <2>1 DEF TicksFrom
<1>3. CASE ~Stored(a, c)
  <2>1. e = [a EXCEPT !.commands = s]
    BY <1>3 DEF AntiAimOnProcessUsercmds
  <2> HIDE DEF new
  <2>2. PICK off \in {0, 1} : IsPushed(s, a.commands, new, AntiAimHistory, off)
    <3> HIDE DEF s
    <3> QED
      BY <1>1, AntiAimNumbers, PushedElements DEF s
  <2>3. s \in Seq(AntiAimCommand)
    <3> HIDE DEF s
    <3> QED
      BY <1>1, AntiAimNumbers, PushedElements DEF s
  <2> HIDE DEF s
  <2>4. AntiAimDataIsSound(e) /\ e.commands = s /\ e.pendingShot = a.pendingShot /\ e.pendingShotTick = a.pendingShotTick
    BY <1>1, <2>1, <2>2, <2>3 DEF AntiAimDataIsSound, AntiAimData, IsPushed
  <2>5. ASSUME NEW k \in 1..Len(s), s[k].serverTick # NotSimulated
        PROVE  \E j \in 1..Len(a.commands) : s[k] = a.commands[j]
    <3>1. Len(s) = Len(a.commands) + 1 - off
      BY <2>2 DEF IsPushed
    <3>2. CASE k + off <= Len(a.commands)
      <4>1. k + off \in 1..Len(a.commands)
        BY <1>1, <3>1, <3>2
      <4> QED
        BY <2>2, <3>2, <4>1 DEF IsPushed
    <3>3. CASE ~(k + off <= Len(a.commands))
      <4>1. k + off = Len(a.commands) + 1
        BY <1>1, <3>1, <3>3
      <4>2. s[k] = new
        BY <2>2, <4>1 DEF IsPushed
      <4> QED
        BY <1>1, <2>5, <4>2
    <3> QED
      BY <3>2, <3>3
  <2>6. TicksFrom(e.commands, a.commands)
    BY <2>4, <2>5 DEF TicksFrom
  <2>7. \A n : Find(a, n) = {} => Find(e, n) = {}
    <3>1. \A n : \A x \in Find(e, n) : x \in Find(a, n)
      BY <2>4, <2>5 DEF Find
    <3> QED
      BY <3>1
  <2> QED
    BY <2>4, <2>6, <2>7 DEF ShotWaits
<1> QED
  BY <1>2, <1>3

LEMMA ScoreDecays ==
  ASSUME NEW a, AntiAimDataIsSound(a), NEW e \in ApplyDecay(a)
  PROVE  AntiAimDataIsSound(e) /\ SameReturn(a, e)
<1>1. /\ a \in AntiAimData /\ a.score \in Nat /\ a.mismatchScore \in Nat
      /\ a.score + a.mismatchScore < Threshold
  BY DEF AntiAimDataIsSound, AntiAimData
<1>2. PICK s \in {a.score, a.score - 1} \intersect Nat,
           n \in {a.mismatchScore, a.mismatchScore - 1} \intersect Nat :
        e = Scored(a, s, n)
  BY DEF ApplyDecay
<1>3. /\ e \in AntiAimData /\ SameReturn(a, e)
      /\ e.score = s /\ e.mismatchScore = n /\ e.lastMotion = a.lastMotion
  BY <1>1, <1>2 DEF AntiAimData, SameReturn, Scored
<1>4. s + n < Threshold
  BY <1>1, AntiAimNumbers
<1> QED
  BY <1>3, <1>4 DEF AntiAimDataIsSound, SameReturn

LEMMA ReturnCommandSimulated ==
  ASSUME SlotIsSound, NEW a, AntiAimDataIsSound(a), NEW c \in Commands,
         NEW e, e = Simulated(a, c)
  PROVE  /\ AntiAimDataIsSound(e) /\ TicksWith(e.commands, a.commands, c)
         /\ e.pendingShot = a.pendingShot /\ e.pendingShotTick = a.pendingShotTick
<1> DEFINE E(i) == IF a.commands[i].number = c THEN [a.commands[i] EXCEPT !.serverTick = tick]
                   ELSE a.commands[i]
           s == [i \in 1..Len(a.commands) |-> E(i)]
<1>1. /\ a \in AntiAimData /\ a.commands \in Seq(AntiAimCommand) /\ Len(a.commands) \in Nat
      /\ tick \in Ticks
  BY DEF AntiAimDataIsSound, AntiAimData, SlotIsSound
<1>2. ASSUME NEW i \in 1..Len(a.commands)
      PROVE  /\ E(i) \in AntiAimCommand
             /\ \/ E(i).number = c /\ E(i).serverTick = tick
                \/ E(i) = a.commands[i]
  <2>1. a.commands[i] \in AntiAimCommand
    BY <1>1
  <2> QED
    BY <1>1, <2>1 DEF AntiAimCommand
<1>3. e = [a EXCEPT !.commands = s]
  BY DEF Simulated
<1> HIDE DEF E
<1>4. s \in Seq(AntiAimCommand) /\ Len(s) = Len(a.commands) /\ \A i \in 1..Len(s) : s[i] = E(i)
  BY <1>1, <1>2
<1> HIDE DEF s
<1>5. e \in AntiAimData /\ SameReturn([a EXCEPT !.commands = s], e) /\ e.commands = s
      /\ e.pendingShot = a.pendingShot /\ e.pendingShotTick = a.pendingShotTick
  BY <1>1, <1>3, <1>4 DEF AntiAimData, SameReturn
<1>6. e.score = a.score /\ e.mismatchScore = a.mismatchScore /\ e.lastMotion = a.lastMotion
  BY <1>1, <1>3 DEF AntiAimData
<1>7. TicksWith(s, a.commands, c)
  BY <1>2, <1>4 DEF TicksWith
<1> QED
  BY <1>4, <1>5, <1>6, <1>7 DEF AntiAimDataIsSound

LEMMA AimCommandJudged ==
  ASSUME SlotIsSound, NEW a, AntiAimDataIsSound(a), ShotIsRecent(a), NEW c \in Commands,
         NEW view \in Views, NEW fast, NEW jitters \in BOOLEAN, NEW returned \in BOOLEAN,
         NEW e, e = JudgeCommand(a, c, view, fast, jitters, returned)
  PROVE  AntiAimDataIsSound(e) /\ e.commands = a.commands /\ ShotWaits(e)
<1> DEFINE marked == Inconsistent(a, c, view)
           evident == Invalid(marked, view)
           quick == IF InARow(a, SpinSamples) THEN fast ELSE 0
           shaky == jitters /\ InARow(a, JitterSamples)
           moved == EvaluateMotion(evident, quick, shaky)
           settled == EvaluatePendingShot(moved, returned)
<1>1. AntiAimDataIsSound(marked) /\ SameReturn(a, marked)
  BY InconsistencyMarked
<1>2. e = EpisodeEnd(settled, view)
  BY DEF JudgeCommand
<1>3. shaky \in BOOLEAN
  OBVIOUS
<1> HIDE DEF marked, quick, shaky
<1>4. AntiAimDataIsSound(evident) /\ SameReturn(marked, evident)
  BY <1>1, InvalidMarked
<1> HIDE DEF evident
<1>5. AntiAimDataIsSound(moved) /\ SameReturn(evident, moved)
  BY <1>3, <1>4, MotionEvaluated
<1> HIDE DEF moved
<1>6. SameReturn(a, moved) /\ ShotIsRecent(moved)
  BY <1>1, <1>4, <1>5 DEF SameReturn, ShotIsRecent
<1>7. AntiAimDataIsSound(settled) /\ settled.commands = a.commands /\ ShotWaits(settled)
  BY <1>5, <1>6, PendingShotEvaluated DEF SameReturn
<1> HIDE DEF settled
<1>8. AntiAimDataIsSound(e) /\ SameReturn(settled, e)
  BY <1>2, <1>7, EpisodeEnded
<1>9. /\ e.commands = settled.commands /\ e.pendingShot = settled.pendingShot
      /\ e.pendingShotTick = settled.pendingShotTick
  BY <1>8 DEF SameReturn
<1>10. \A n : Find(e, n) = Find(settled, n)
  BY <1>9 DEF Find
<1>11. ShotWaits(e)
  BY <1>7, <1>9, <1>10 DEF ShotWaits
<1> QED
  BY <1>7, <1>8, <1>9, <1>11

LEMMA AimCommandDropped ==
  ASSUME SlotIsSound, NEW a, AntiAimDataIsSound(a)
  PROVE  /\ AntiAimDataIsSound(NoShot(ResetMotion(a))) /\ ShotWaits(NoShot(ResetMotion(a)))
         /\ NoShot(ResetMotion(a)).commands = a.commands
         /\ AntiAimDataIsSound(Grace(a)) /\ ShotWaits(Grace(a)) /\ Grace(a).commands = a.commands
         /\ AntiAimDataIsSound(Dead(a)) /\ ShotWaits(Dead(a)) /\ Dead(a).commands = <<>>
<1> DEFINE still == ResetMotion(a)
           e == NoShot(still)
<1>1. AntiAimDataIsSound(still) /\ still.commands = a.commands
  BY MotionReset DEF SameReturn
<1> HIDE DEF still
<1>2. AntiAimDataIsSound(e) /\ e.pendingShot = Unknown /\ e.commands = a.commands
  BY <1>1, ShotGivenUp
<1>3. /\ Grace(a) = [e EXCEPT !.invalidActive = FALSE, !.inconsistencyActive = FALSE]
      /\ Dead(a) = [e EXCEPT !.commands = <<>>, !.lastMismatch = Unknown, !.invalidActive = FALSE,
                             !.inconsistencyActive = FALSE, !.suppressContinuous = FALSE, !.quiet = TRUE]
  BY DEF Grace, Dead, still
<1> HIDE DEF e
<1>4. AntiAimDataIsSound(Grace(a)) /\ Grace(a).pendingShot = Unknown /\ Grace(a).commands = a.commands
  BY <1>2, <1>3 DEF AntiAimDataIsSound, AntiAimData
<1>5. AntiAimDataIsSound(Dead(a)) /\ Dead(a).pendingShot = Unknown /\ Dead(a).commands = <<>>
  <2> DEFINE empty == [e EXCEPT !.commands = <<>>, !.lastMismatch = Unknown, !.invalidActive = FALSE]
  <2>1. e \in AntiAimData /\ <<>> \in Seq(AntiAimCommand) /\ Len(<<>>) = 0
    BY <1>2, EmptySeq DEF AntiAimDataIsSound
  <2>2. /\ empty \in AntiAimData /\ empty.commands = <<>> /\ empty.pendingShot = e.pendingShot
        /\ empty.score = e.score /\ empty.mismatchScore = e.mismatchScore
        /\ empty.lastMotion = e.lastMotion
    BY <2>1 DEF AntiAimData
  <2>3. Dead(a) = [empty EXCEPT !.inconsistencyActive = FALSE, !.suppressContinuous = FALSE, !.quiet = TRUE]
    BY <1>3
  <2> HIDE DEF empty
  <2> DEFINE dead == Dead(a)
  <2>4. dead \in AntiAimData /\ dead.commands = empty.commands /\ dead.pendingShot = empty.pendingShot
        /\ dead.score = empty.score /\ dead.mismatchScore = empty.mismatchScore
        /\ dead.lastMotion = empty.lastMotion
    BY <2>2, <2>3 DEF AntiAimData
  <2> HIDE DEF dead
  <2>5. /\ e.score + e.mismatchScore < Threshold /\ 0 <= AntiAimHistory
        /\ e.lastMotion <= tick
    BY <1>2, AntiAimNumbers DEF AntiAimDataIsSound
  <2>6. /\ dead.score + dead.mismatchScore < Threshold
        /\ dead.lastMotion <= tick
    BY <2>2, <2>4, <2>5
  <2>7. Len(dead.commands) <= AntiAimHistory
    BY <2>1, <2>2, <2>4, <2>5
  <2>8. AntiAimDataIsSound(dead)
    BY <2>4, <2>6, <2>7 DEF AntiAimDataIsSound
  <2> QED
    BY <1>2, <2>2, <2>4, <2>8 DEF dead
<1> QED
  BY <1>2, <1>4, <1>5 DEF ShotWaits, e, still

LEMMA AimCommandSimulated ==
  ASSUME SlotIsSound, NEW a, AntiAimDataIsSound(a), ShotWaits(a), NEW c \in Commands,
         NEW attack, NEW e \in AntiAimOnSetupMove(a, c, attack)
  PROVE  /\ AntiAimDataIsSound(e) /\ ShotWaits(e)
         /\ e.commands = <<>> \/ TicksWith(e.commands, a.commands, c)
<1>1. CASE e = Dead(a)
  BY <1>1, AimCommandDropped
<1>2. ASSUME NEW d \in ApplyDecay(a),
             e \in IF ~Stored(d, c) THEN {NoShot(ResetMotion(d))}
                   ELSE {Grace(Simulated(d, c))} \union
                        {JudgeCommand(Simulated(d, c), c, v, fast, jitters, returned) :
                           v \in Shown(attack), fast \in 0..Len(SpinTicks),
                           jitters \in BOOLEAN, returned \in BOOLEAN}
      PROVE  AntiAimDataIsSound(e) /\ ShotWaits(e) /\ TicksWith(e.commands, a.commands, c)
  <2> DEFINE s == Simulated(d, c)
             judgements == {JudgeCommand(s, c, v, fast, jitters, returned) :
                              v \in Shown(attack), fast \in 0..Len(SpinTicks),
                              jitters \in BOOLEAN, returned \in BOOLEAN}
  <2>1. AntiAimDataIsSound(d) /\ SameReturn(a, d)
    BY <1>2, ScoreDecays
  <2>2. \/ e = NoShot(ResetMotion(d))
        \/ e = Grace(s)
        \/ e \in judgements
    BY <1>2
  <2>3. /\ AntiAimDataIsSound(s) /\ TicksWith(s.commands, a.commands, c)
        /\ s.pendingShot = a.pendingShot /\ s.pendingShotTick = a.pendingShotTick
    BY <2>1, ReturnCommandSimulated DEF SameReturn
  <2>4. ShotIsRecent(s)
    BY <2>3 DEF ShotWaits, ShotIsRecent
  <2>5. TicksWith(d.commands, a.commands, c)
    BY <2>1 DEF SameReturn, TicksWith
  <2> HIDE DEF s
  <2>6. CASE e \in judgements
    <3>1. PICK v \in Shown(attack), fast \in 0..Len(SpinTicks), jitters \in BOOLEAN,
               returned \in BOOLEAN :
            e = JudgeCommand(s, c, v, fast, jitters, returned)
      BY <2>6
    <3>2. v \in Views
      BY DEF Shown
    <3>3. AntiAimDataIsSound(e) /\ e.commands = s.commands /\ ShotWaits(e)
      BY <2>3, <2>4, <3>1, <3>2, AimCommandJudged
    <3> QED
      BY <2>3, <3>3
  <2> HIDE DEF judgements
  <2> QED
    BY <2>1, <2>2, <2>3, <2>5, <2>6, AimCommandDropped
<1> QED
  BY <1>1, <1>2 DEF AntiAimOnSetupMove

\* Anti-aim and the correlator know the same times of the commands, so that a shot found by
\* the one is recent for the other.
SameTimes ==
  /\ antiAim.commands # <<>> => connected
  /\ \A j \in 1..Len(antiAim.commands) : antiAim.commands[j].serverTick # NotSimulated =>
       /\ antiAim.commands[j].number <= simulated
       /\ \A i \in 1..Len(commands) :
            commands[i].number = antiAim.commands[j].number /\ commands[i].serverTick # NotSimulated
              => commands[i].serverTick = antiAim.commands[j].serverTick

AntiAimIsSound ==
  /\ AntiAimDataIsSound(antiAim)
  /\ ShotWaits(antiAim)
  /\ SameTimes
  /\ ~On(AntiAimDetection) => antiAim.pendingShot = Unknown

LEMMA TimesKept ==
  ASSUME SameTimes, UNCHANGED simulated, antiAim'.commands # <<>> => connected',
         TicksFrom(commands', commands), TicksFrom(antiAim'.commands, antiAim.commands)
  PROVE  SameTimes'
<1> SUFFICES ASSUME NEW j \in 1..Len(antiAim'.commands),
                    antiAim'.commands[j].serverTick # NotSimulated
             PROVE  /\ antiAim'.commands[j].number <= simulated'
                    /\ \A i \in 1..Len(commands') :
                         commands'[i].number = antiAim'.commands[j].number
                         /\ commands'[i].serverTick # NotSimulated
                           => commands'[i].serverTick = antiAim'.commands[j].serverTick
  BY DEF SameTimes
<1>1. PICK l \in 1..Len(antiAim.commands) :
        /\ antiAim'.commands[j].number = antiAim.commands[l].number
        /\ antiAim'.commands[j].serverTick = antiAim.commands[l].serverTick
  BY DEF TicksFrom
<1>2. /\ antiAim.commands[l].number <= simulated
      /\ \A i \in 1..Len(commands) :
           commands[i].number = antiAim.commands[l].number /\ commands[i].serverTick # NotSimulated
             => commands[i].serverTick = antiAim.commands[l].serverTick
  BY <1>1 DEF SameTimes
<1>3. ASSUME NEW i \in 1..Len(commands'), commands'[i].number = antiAim'.commands[j].number,
             commands'[i].serverTick # NotSimulated
      PROVE  commands'[i].serverTick = antiAim'.commands[j].serverTick
  <2>1. PICK k \in 1..Len(commands) : commands'[i].number = commands[k].number
                                      /\ commands'[i].serverTick = commands[k].serverTick
    BY <1>3 DEF TicksFrom
  <2> QED
    BY <1>1, <1>2, <1>3, <2>1
<1> QED
  BY <1>1, <1>2, <1>3

LEMMA TimesSimulated ==
  ASSUME SlotIsSound, CommandsAreSound, AntiAimDataIsSound(antiAim), SameTimes,
         NEW c \in Commands, Simulates(c), TicksWith(commands', commands, c),
         antiAim'.commands = <<>> \/ TicksWith(antiAim'.commands, antiAim.commands, c)
  PROVE  SameTimes'
<1>1. /\ connected' /\ simulated' = c /\ c = simulated + 1
      /\ simulated \in Nat /\ c \in Nat
  BY SlotNumbers DEF Simulates, SlotIsSound
<1> SUFFICES ASSUME NEW j \in 1..Len(antiAim'.commands),
                    antiAim'.commands[j].serverTick # NotSimulated
             PROVE  /\ antiAim'.commands[j].number <= simulated'
                    /\ \A i \in 1..Len(commands') :
                         commands'[i].number = antiAim'.commands[j].number
                         /\ commands'[i].serverTick # NotSimulated
                           => commands'[i].serverTick = antiAim'.commands[j].serverTick
  BY <1>1 DEF SameTimes
<1>2. TicksWith(antiAim'.commands, antiAim.commands, c)
  <2>1. antiAim'.commands # <<>>
    <3> SUFFICES ASSUME antiAim'.commands = <<>> PROVE FALSE
      OBVIOUS
    <3>1. Len(antiAim'.commands) = 0
      OBVIOUS
    <3> QED
      BY <3>1
  <2> QED
    BY <2>1
<1>3. \A i \in 1..Len(commands') :
        \/ commands'[i].serverTick = NotSimulated
        \/ commands'[i].number = c /\ commands'[i].serverTick = tick
        \/ \E k \in 1..Len(commands) : /\ commands'[i].number = commands[k].number
                                       /\ commands'[i].serverTick = commands[k].serverTick
  BY DEF TicksWith
<1>4. ASSUME NEW k \in 1..Len(commands), commands[k].serverTick # NotSimulated
      PROVE  commands[k].number <= simulated /\ commands[k].number # c
  <2>1. CommandIsSound(commands[k]) /\ commands[k] \in ShotCommand
    BY DEF CommandsAreSound
  <2>2. commands[k].number \in Nat
    BY <2>1, SlotNumbers DEF ShotCommand
  <2> QED
    BY <1>1, <1>4, <2>1, <2>2 DEF CommandIsSound
<1>5. CASE antiAim'.commands[j].number = c /\ antiAim'.commands[j].serverTick = tick
  BY <1>1, <1>3, <1>4, <1>5
<1>6. CASE \E l \in 1..Len(antiAim.commands) :
             /\ antiAim'.commands[j].number = antiAim.commands[l].number
             /\ antiAim'.commands[j].serverTick = antiAim.commands[l].serverTick
  <2>1. PICK l \in 1..Len(antiAim.commands) :
             /\ antiAim'.commands[j].number = antiAim.commands[l].number
             /\ antiAim'.commands[j].serverTick = antiAim.commands[l].serverTick
    BY <1>6
  <2>2. /\ antiAim.commands[l].number <= simulated
        /\ \A i \in 1..Len(commands) :
             commands[i].number = antiAim.commands[l].number
             /\ commands[i].serverTick # NotSimulated
               => commands[i].serverTick = antiAim.commands[l].serverTick
    BY <2>1 DEF SameTimes
  <2>3. antiAim.commands[l].number \in Nat
    <3>1. antiAim.commands[l] \in AntiAimCommand
      BY DEF AntiAimDataIsSound, AntiAimData
    <3> QED
      BY <3>1, SlotNumbers DEF AntiAimCommand
  <2>4. antiAim.commands[l].number # c /\ antiAim.commands[l].number <= c
    BY <1>1, <2>2, <2>3
  <2> QED
    BY <1>1, <1>3, <2>1, <2>2, <2>4
<1> QED
  BY <1>2, <1>5, <1>6 DEF TicksWith

LEMMA PushedTicks ==
  ASSUME NEW S, NEW deque \in Seq(S), NEW e \in S, NEW limit \in Nat \ {0}, Len(deque) <= limit,
         e.serverTick = NotSimulated
  PROVE  TicksFrom(Bounded(Append(deque, e), limit), deque)
<1> DEFINE s == Bounded(Append(deque, e), limit)
<1>1. s \in Seq(S) /\ \E off \in {0, 1} : IsPushed(s, deque, e, limit, off)
  <2> HIDE DEF s
  <2> QED
    BY PushedElements DEF s
<1> HIDE DEF s
<1>2. PICK off \in {0, 1} : IsPushed(s, deque, e, limit, off)
  BY <1>1
<1>3. Len(s) = Len(deque) + 1 - off /\ Len(deque) \in Nat
  BY <1>2 DEF IsPushed
<1>4. ASSUME NEW k \in 1..Len(s), s[k].serverTick # NotSimulated
      PROVE  \E j \in 1..Len(deque) : s[k] = deque[j]
  <2>2. CASE k + off <= Len(deque)
    <3>1. k + off \in 1..Len(deque)
      BY <1>3, <2>2
    <3> QED
      BY <1>2, <2>2, <3>1 DEF IsPushed
  <2>3. CASE ~(k + off <= Len(deque))
    <3>1. k + off = Len(deque) + 1
      BY <1>3, <2>3
    <3>2. s[k] = e
      BY <1>2, <3>1 DEF IsPushed
    <3> QED
      BY <1>4, <3>2
  <2> QED
    BY <2>2, <2>3
<1>5. TicksFrom(s, deque)
  BY <1>4 DEF TicksFrom
<1> QED
  BY <1>5 DEF s

\* A step other than OnSetupMove gives no stored command of the correlator a tick.
LEMMA TicksStay ==
  ASSUME SlotIsSound, CommandsAreSound,
         \/ UNCHANGED commands
         \/ commands' = <<>>
         \/ commands' = Consume
         \/ ShotsOnGameFrame
         \/ \E c \in Commands : ShotsOnProcessUsercmds(c)
  PROVE  TicksFrom(commands', commands)
<1>1. commands \in Seq(ShotCommand) /\ Len(commands) <= CommandLimit /\ CommandLimit \in Nat \ {0}
  BY ShotAssumption DEF CommandsAreSound
<1>2. CASE UNCHANGED commands
  BY <1>2 DEF TicksFrom
<1>3. CASE commands' = <<>>
  BY <1>3 DEF TicksFrom
<1>4. CASE commands' = Consume
  BY <1>4, ConsumedCommands DEF TicksFrom
<1>5. CASE ShotsOnGameFrame
  <2> DEFINE places == {i \in 1..Len(commands) : \/ commands[i].serverTick = NotSimulated
                                                 \/ ~TooOld(tick - commands[i].serverTick)}
  <2>1. commands' = Staying(commands, places) /\ places \in SUBSET (1..Len(commands))
    BY <1>5 DEF ShotsOnGameFrame, Prune
  <2> HIDE DEF places
  <2>2. PICK place : ComesFrom(commands', commands, places, place)
    BY <1>1, <2>1, StayingElements
  <2>3. \A k \in 1..Len(commands') : place[k] \in places /\ commands'[k] = commands[place[k]]
    BY <2>2 DEF ComesFrom
  <2> QED
    BY <2>1, <2>3 DEF TicksFrom
<1>6. ASSUME NEW c \in Commands, ShotsOnProcessUsercmds(c) PROVE TicksFrom(commands', commands)
  <2> DEFINE new == [number |-> c, serverTick |-> NotSimulated, consumed |-> FALSE]
  <2>1. commands' = Bounded(Append(commands, new), CommandLimit) \/ UNCHANGED commands
    BY <1>6 DEF ShotsOnProcessUsercmds
  <2>2. new \in ShotCommand /\ new.serverTick = NotSimulated
    BY DEF ShotCommand
  <2> HIDE DEF new
  <2>3. TicksFrom(Bounded(Append(commands, new), CommandLimit), commands)
    BY <1>1, <2>2, PushedTicks
  <2> QED
    BY <1>2, <2>1, <2>3
<1> QED
  BY <1>2, <1>3, <1>4, <1>5, <1>6

LEMMA TicksSimulated ==
  ASSUME SlotIsSound, CommandsAreSound, NEW c \in Commands, ShotsOnSetupMove(c)
  PROVE  TicksWith(commands', commands, c)
<1> DEFINE E(e) == IF e.number = c THEN [e EXCEPT !.serverTick = tick] ELSE e
<1>1. \A i \in 1..Len(commands) : commands[i] \in ShotCommand
  BY DEF CommandsAreSound
<1>2. \A e \in ShotCommand : \/ E(e).number = c /\ E(e).serverTick = tick
                             \/ E(e) = e
  BY DEF ShotCommand
<1>3. commands' = [i \in 1..Len(commands) |-> E(commands[i])] /\ Len(commands) \in Nat
  BY DEF ShotsOnSetupMove, CommandsAreSound
<1> HIDE DEF E
<1>4. Len(commands') = Len(commands) /\ \A i \in 1..Len(commands) : commands'[i] = E(commands[i])
  BY <1>3
<1> QED
  BY <1>1, <1>2, <1>4 DEF TicksWith

LEMMA AntiAimEstablished ==
  ASSUME SlotIsSound, AntiAimDataIsSound(antiAim'), ShotWaits(antiAim'), SameTimes',
         \/ tick' = tick
         \/ /\ tick' = tick + 1
            /\ antiAim'.pendingShot # Unknown => tick - antiAim'.pendingShotTick <= 1,
         ~On(AntiAimDetection)' => antiAim'.pendingShot = Unknown
  PROVE  AntiAimIsSound'
<1>1. tick \in Nat /\ Ticks \subseteq Nat
  BY SlotNumbers
<1>2. AntiAimDataIsSound(antiAim)'
  <2>1. antiAim' \in AntiAimData /\ antiAim'.lastMotion <= tick
    BY DEF AntiAimDataIsSound
  <2>2. antiAim'.lastMotion \in Ticks \union {Unknown}
    BY <2>1 DEF AntiAimData
  <2>3. antiAim'.lastMotion <= tick'
    <3>1. \A m \in Ticks \union {Unknown} : m \in Int
      BY SlotAssumption DEF Unknown, Ticks
    <3>2. antiAim'.lastMotion \in Int /\ tick \in Int
      BY <2>2, <3>1 DEF SlotIsSound
    <3>3. \A m, t \in Int : m <= t => m <= t + 1
      OBVIOUS
    <3> QED
      BY <2>1, <3>2, <3>3, Zenon
  <2>4. AntiAimData' = AntiAimData
    BY DEF AntiAimData, AntiAimCommand, Commands, Ticks, Tiers
  <2> QED
    BY <2>1, <2>3, <2>4 DEF AntiAimDataIsSound
<1>3. ShotWaits(antiAim)'
  <2> SUFFICES ASSUME antiAim'.pendingShot # Unknown
               PROVE  /\ Find(antiAim', antiAim'.pendingShot + 1) = {}
                      /\ antiAim'.pendingShotTick \in Ticks /\ tick' - antiAim'.pendingShotTick <= 2
    BY DEF ShotWaits, Find, Ticks
  <2>1. /\ Find(antiAim', antiAim'.pendingShot + 1) = {}
        /\ antiAim'.pendingShotTick \in Ticks /\ tick - antiAim'.pendingShotTick <= 2
    BY DEF ShotWaits
  <2>2. antiAim'.pendingShotTick \in Nat
    BY <1>1, <2>1
  <2>3. tick' - antiAim'.pendingShotTick <= 2
    BY <1>1, <2>1, <2>2
  <2> QED
    BY <2>1, <2>3
<1> QED
  BY <1>2, <1>3 DEF AntiAimIsSound

LEMMA AntiAimAnew ==
  ASSUME SlotIsSound, antiAim' = AntiAimClean, tick' = tick
  PROVE  AntiAimIsSound'
<1>1. /\ AntiAimDataIsSound(antiAim') /\ antiAim'.commands = <<>> /\ antiAim'.pendingShot = Unknown
  BY CleanAntiAim
<1>2. SameTimes' /\ ShotWaits(antiAim')
  BY <1>1 DEF SameTimes, ShotWaits
<1> QED
  BY <1>1, <1>2, AntiAimEstablished

LEMMA AntiAimStays ==
  ASSUME SlotIsSound, AntiAimIsSound, UNCHANGED <<antiAim, tick, connected, simulated, enabled>>,
         TicksFrom(commands', commands)
  PROVE  AntiAimIsSound'
<1>1. TicksFrom(antiAim'.commands, antiAim.commands)
  BY DEF TicksFrom
<1>2. SameTimes'
  BY <1>1, TimesKept DEF AntiAimIsSound, SameTimes
<1> QED
  BY <1>2, AntiAimEstablished DEF AntiAimIsSound, On

(***************************************************************************)
(* A shot that waits for its next command is younger than the frame after  *)
(* the next tick: the commands that weapon_fire finds are of this tick or  *)
(* the one before, and each frame gives up what is older.                  *)
(***************************************************************************)
LEMMA AntiAimStep ==
  ASSUME SlotIsSound, CommandsAreSound, AntiAimIsSound, [Next]_vars
  PROVE  AntiAimIsSound'
<1>0. AntiAimDataIsSound(antiAim) /\ ShotWaits(antiAim) /\ SameTimes
  BY DEF AntiAimIsSound
<1>1. CASE UNCHANGED vars \/ OnClientReady \/ OnFireBullets \/ OnPlayerHurt
  <2>1. UNCHANGED <<antiAim, tick, connected, simulated, enabled, commands>>
    BY <1>1 DEF OnClientReady, OnFireBullets, ShotsOnFireBullets, OnPlayerHurt, Hurt, slotVars,
       shotVars, moduleVars, vars
  <2> QED
    BY <2>1, TicksStay, AntiAimStays
<1>2. CASE Connect
  <2>1. antiAim' = antiAim /\ antiAim.commands = <<>> /\ UNCHANGED <<tick, enabled>>
    BY <1>0, <1>2 DEF Connect, Join, moduleVars, SameTimes
  <2>2. SameTimes'
    BY <2>1 DEF SameTimes
  <2> QED
    BY <1>0, <2>1, <2>2, AntiAimEstablished DEF AntiAimIsSound, On
<1>3. CASE OnClientDisconnect \/ Reset \/ OnPlayerSpawn
  <2>1. antiAim' = AntiAimClean /\ tick' = tick
    BY <1>3 DEF OnClientDisconnect, Reset, OnPlayerSpawn, Leave, Refreshed, slotVars
  <2> QED
    BY <2>1, AntiAimAnew
<1>4. CASE OnGameFrame
  <2>1. tick' = tick + 1 /\ UNCHANGED <<connected, simulated, enabled>> /\ ShotsOnGameFrame
    BY <1>4 DEF OnGameFrame, Clock
  <2>2. \/ antiAim' = antiAim /\ ~On(AntiAimDetection)
        \/ \E returned \in BOOLEAN : /\ antiAim' = AntiAimOnGameFrame(antiAim, returned)
                                     /\ On(AntiAimDetection)
    BY <1>4 DEF OnGameFrame, Handled
  <2>3. /\ AntiAimDataIsSound(antiAim') /\ antiAim'.commands = antiAim.commands /\ ShotWaits(antiAim')
        /\ antiAim'.pendingShot # Unknown => tick - antiAim'.pendingShotTick <= 1
    <3>1. CASE antiAim' = antiAim /\ ~On(AntiAimDetection)
      BY <1>0, <3>1 DEF AntiAimIsSound
    <3>2. ASSUME NEW returned \in BOOLEAN, antiAim' = AntiAimOnGameFrame(antiAim, returned)
          PROVE  /\ AntiAimDataIsSound(antiAim') /\ antiAim'.commands = antiAim.commands
                 /\ ShotWaits(antiAim')
                 /\ antiAim'.pendingShot # Unknown => tick - antiAim'.pendingShotTick <= 1
      BY <1>0, <3>2, ReturnFrame
    <3> QED
      BY <2>2, <3>1, <3>2
  <2>4. TicksFrom(antiAim'.commands, antiAim.commands) /\ TicksFrom(commands', commands)
    BY <2>1, <2>3, TicksStay DEF TicksFrom
  <2>5. SameTimes'
    BY <1>0, <2>1, <2>3, <2>4, TimesKept DEF SameTimes
  <2>6. ~On(AntiAimDetection)' => antiAim'.pendingShot = Unknown
    BY <2>1, <2>2 DEF On, AntiAimIsSound
  <2> QED
    BY <2>1, <2>3, <2>5, <2>6, AntiAimEstablished
<1>5. ASSUME NEW c \in Commands, OnProcessUsercmds(c) PROVE AntiAimIsSound'
  <2>1. /\ connected /\ UNCHANGED <<tick, connected, simulated, enabled>>
        /\ TicksFrom(commands', commands)
    BY <1>5, TicksStay DEF OnProcessUsercmds, Arrives, slotVars
  <2>2. \/ antiAim' = antiAim
        \/ antiAim' = AntiAimOnProcessUsercmds(antiAim, c) /\ On(AntiAimDetection)
    BY <1>5 DEF OnProcessUsercmds, Handled
  <2>3. CASE antiAim' = antiAim
    BY <2>1, <2>3, AntiAimStays
  <2>4. CASE antiAim' = AntiAimOnProcessUsercmds(antiAim, c) /\ On(AntiAimDetection)
    <3>1. /\ AntiAimDataIsSound(antiAim') /\ TicksFrom(antiAim'.commands, antiAim.commands)
          /\ ShotWaits(antiAim')
      BY <1>0, <2>4, ReturnCommandArrives
    <3>2. SameTimes'
      BY <1>0, <2>1, <3>1, TimesKept
    <3>3. On(AntiAimDetection)'
      BY <2>1, <2>4 DEF On
    <3> QED
      BY <2>1, <3>1, <3>2, <3>3, AntiAimEstablished
  <2> QED
    BY <2>2, <2>3, <2>4
<1>6. ASSUME NEW c \in Commands, OnSetupMove(c) PROVE AntiAimIsSound'
  <2>1. /\ Simulates(c) /\ UNCHANGED <<tick, connected, enabled>>
        /\ TicksWith(commands', commands, c)
    BY <1>6, TicksSimulated DEF OnSetupMove, Simulates
  <2>2. \/ antiAim' = antiAim /\ ~On(AntiAimDetection)
        \/ antiAim' \in AntiAimOnSetupMove(antiAim, c, c \in Attacks) /\ On(AntiAimDetection)
    BY <1>6 DEF OnSetupMove, Handled
  <2>3. /\ AntiAimDataIsSound(antiAim') /\ ShotWaits(antiAim')
        /\ antiAim'.commands = <<>> \/ TicksWith(antiAim'.commands, antiAim.commands, c)
        /\ ~On(AntiAimDetection)' => antiAim'.pendingShot = Unknown
    <3>1. CASE antiAim' = antiAim /\ ~On(AntiAimDetection)
      BY <1>0, <2>1, <3>1 DEF TicksWith, AntiAimIsSound, On
    <3>2. CASE antiAim' \in AntiAimOnSetupMove(antiAim, c, c \in Attacks) /\ On(AntiAimDetection)
      <4>1. On(AntiAimDetection)'
        BY <2>1, <3>2 DEF On
      <4> QED
        BY <1>0, <3>2, <4>1, AimCommandSimulated
    <3> QED
      BY <2>2, <3>1, <3>2
  <2>4. SameTimes'
    BY <1>0, <2>1, <2>3, TimesSimulated
  <2> QED
    BY <2>1, <2>3, <2>4, AntiAimEstablished
<1>7. ASSUME NEW w \in Weapons, OnWeaponFire(w) PROVE AntiAimIsSound'
  <2>1. UNCHANGED <<tick, connected, simulated, enabled>>
    BY <1>7 DEF OnWeaponFire, slotVars
  <2>2. CASE Discarded /\ UNCHANGED antiAim
    BY <2>1, <2>2, TicksStay, AntiAimStays DEF Discarded
  <2>3. CASE Shoots(w)
    <3>1. PICK i \in UsableCommands :
            /\ commands' = Consume
            /\ antiAim' \in Handled(AntiAimDetection, antiAim,
                 {AntiAimOnWeaponFire(antiAim, commands[i].number, returned) : returned \in BOOLEAN})
      BY <2>3 DEF Shoots, Recorded
    <3>2. TicksFrom(commands', commands)
      BY <3>1, TicksStay
    <3>3. CASE antiAim' = antiAim
      BY <2>1, <3>2, <3>3, AntiAimStays
    <3>4. ASSUME NEW returned \in BOOLEAN, On(AntiAimDetection),
                 antiAim' = AntiAimOnWeaponFire(antiAim, commands[i].number, returned)
          PROVE  AntiAimIsSound'
      <4>1. /\ i \in 1..Len(commands) /\ commands[i].serverTick # NotSimulated
            /\ InWindow(commands[i].serverTick)
        BY DEF UsableCommands, Usable
      <4>2. commands[i].number \in Commands
        <5>1. commands[i] \in ShotCommand
          BY <4>1 DEF CommandsAreSound
        <5> QED
          BY <5>1 DEF ShotCommand
      <4>3. \A j \in 1..Len(antiAim.commands) :
              antiAim.commands[j].number = commands[i].number
              /\ antiAim.commands[j].serverTick # NotSimulated
                => InWindow(antiAim.commands[j].serverTick)
        <5> SUFFICES ASSUME NEW j \in 1..Len(antiAim.commands),
                            antiAim.commands[j].number = commands[i].number,
                            antiAim.commands[j].serverTick # NotSimulated
                     PROVE  InWindow(antiAim.commands[j].serverTick)
          OBVIOUS
        <5>1. commands[i].serverTick = antiAim.commands[j].serverTick
          BY <1>0, <4>1 DEF SameTimes
        <5> QED
          BY <4>1, <5>1
      <4>4. /\ AntiAimDataIsSound(antiAim') /\ antiAim'.commands = antiAim.commands
            /\ ShotWaits(antiAim')
        BY <1>0, <3>4, <4>2, <4>3, ShotFired
      <4>5. TicksFrom(antiAim'.commands, antiAim.commands)
        BY <4>4 DEF TicksFrom
      <4>6. SameTimes' /\ On(AntiAimDetection)'
        BY <1>0, <2>1, <3>2, <3>4, <4>4, <4>5, TimesKept DEF SameTimes, On
      <4> QED
        BY <2>1, <4>4, <4>6, AntiAimEstablished
    <3> QED
      BY <3>1, <3>3, <3>4 DEF Handled
  <2> QED
    BY <1>7, <2>2, <2>3 DEF OnWeaponFire
<1>8. ASSUME NEW w \in Weapons, OnPlayerDeath(w) PROVE AntiAimIsSound'
  <2>1. UNCHANGED <<antiAim, tick, connected, simulated, enabled, commands>>
    BY <1>8 DEF OnPlayerDeath, Died, slotVars
  <2> QED
    BY <2>1, TicksStay, AntiAimStays
<1>9. ASSUME NEW changed \in BOOLEAN, NEW lapsed \in 0..MaxNameChanges,
             OnClientSettingsChanged(changed, lapsed)
      PROVE  AntiAimIsSound'
  <2>1. UNCHANGED <<antiAim, tick, connected, simulated, enabled, commands>>
    BY <1>9 DEF OnClientSettingsChanged, slotVars, shotVars
  <2> QED
    BY <2>1, TicksStay, AntiAimStays
<1> QED
  BY <1>1, <1>2, <1>3, <1>4, <1>5, <1>6, <1>7, <1>8, <1>9 DEF Next

-----------------------------------------------------------------------------
\* The order of the shots.

LEMMA StayingSuffix ==
  ASSUME NEW S, NEW deque \in Seq(S), NEW off \in 0..Len(deque),
         NEW stayed, stayed = Staying(deque, (off + 1)..Len(deque))
  PROVE  /\ Len(stayed) = Len(deque) - off
         /\ \A k \in 1..Len(stayed) : k + off \in 1..Len(deque) /\ stayed[k] = deque[k + off]
<1> DEFINE n == Len(deque)
           places == (off + 1)..n
           At(k) == CHOOSE i \in places : Cardinality(Upto(places, i)) = k
<1>1. n \in Nat /\ off \in Nat /\ off <= n /\ off + 1 \in Int
  OBVIOUS
<1>2. Cardinality(places) = n - off
  <2> DEFINE a == off + 1
  <2>1. a \in Int /\ n \in Int
    BY <1>1
  <2> HIDE DEF a, n
  <2>2. Cardinality(a..n) = IF a > n THEN 0 ELSE n - a + 1
    BY <2>1, FS_Interval
  <2> QED
    BY <1>1, <2>2 DEF a
<1>3. ASSUME NEW i \in places PROVE Cardinality(Upto(places, i)) = i - off
  <2>1. i \in Int /\ off + 1 <= i
    BY <1>1
  <2>2. Upto(places, i) = (off + 1)..i
    BY <1>1, <2>1 DEF Upto
  <2> QED
    BY <1>1, <2>1, <2>2, FS_Interval
<1>4. ASSUME NEW k \in 1..(n - off) PROVE k + off \in places /\ At(k) = k + off
  <2>1. k + off \in places /\ (k + off) - off = k
    BY <1>1
  <2>2. \A i \in places : i - off = k => i = k + off
    BY <1>1
  <2>3. \A i \in places : Cardinality(Upto(places, i)) = k <=> i = k + off
    BY <1>3, <2>1, <2>2
  <2> HIDE DEF places
  <2> QED
    BY <2>1, <2>3
<1>5. stayed = [k \in 1..Cardinality(places) |-> deque[At(k)]]
  BY DEF Staying, Upto
<1> HIDE DEF At
<1>6. Len(stayed) = n - off /\ \A k \in 1..(n - off) : stayed[k] = deque[At(k)]
  <2>1. n - off \in Nat
    BY <1>1
  <2> HIDE DEF places
  <2> QED
    BY <1>2, <1>5, <2>1
<1>7. ASSUME NEW k \in 1..Len(stayed) PROVE k + off \in 1..n /\ stayed[k] = deque[k + off]
  <2>1. k \in 1..(n - off) /\ k + off \in 1..n
    BY <1>1, <1>6
  <2> QED
    BY <1>4, <1>6, <2>1
<1> QED
  BY <1>6, <1>7

\* Prune takes the first off shots, which are too old.
SuffixStays(off) ==
  /\ Len(shots') = Len(shots) - off
  /\ \A k \in 1..Len(shots') : k + off \in 1..Len(shots) /\ shots'[k] = Judged[k + off]
  /\ \A i \in 1..Len(shots) : i <= off => TooOld(Age(i))

LEMMA PruneTakesTheFirst ==
  ASSUME SlotIsSound, ShotsAreSound, ShotsOnGameFrame
  PROVE  \E off \in 0..Len(shots) : SuffixStays(off)
<1> DEFINE T == {i \in 1..Len(shots) : ~TooOld(Age(i))}
           n == Len(shots)
<1>1. shots' = Staying(Judged, T)
  BY DEF ShotsOnGameFrame, Prune
<1>2. Judged \in Seq(ShotRecord) /\ Len(Judged) = n /\ n \in Nat
  BY JudgedShots DEF ShotsAreSound
<1>3. ASSUME NEW off \in 0..n, T = (off + 1)..n PROVE SuffixStays(off)
  <2>1. /\ Len(shots') = n - off
        /\ \A k \in 1..Len(shots') : k + off \in 1..n /\ shots'[k] = Judged[k + off]
    <3>1. shots' = Staying(Judged, (off + 1)..Len(Judged)) /\ off \in 0..Len(Judged)
      BY <1>1, <1>2, <1>3
    <3> HIDE DEF n, T
    <3> QED
      BY <1>2, <3>1, StayingSuffix
  <2>2. \A i \in 1..n : i <= off => i \notin T
    BY <1>2, <1>3
  <2> QED
    BY <2>1, <2>2 DEF SuffixStays
<1>4. CASE T = {}
  <2>1. (n + 1)..n = {} /\ n \in 0..n
    BY <1>2
  <2>2. SuffixStays(n)
    BY <1>3, <1>4, <2>1
  <2> QED
    BY <2>1, <2>2
<1>5. CASE T # {}
  <2>1. PICK m \in T : \A i \in T : m <= i
    <3>1. T \subseteq Nat
      BY <1>2
    <3> HIDE DEF T
    <3> QED
      BY <1>5, <3>1, LeastNumber
  <2>2. ASSUME NEW i \in 1..n, m <= i PROVE i \in T
    <3>1. /\ shots[m].fireTick <= shots[i].fireTick
          /\ shots[m].fireTick \in Nat /\ shots[i].fireTick \in Nat /\ tick \in Nat
      <4>1. shots[m] \in ShotRecord /\ shots[i] \in ShotRecord
        BY DEF ShotsAreSound
      <4>2. m = i \/ m < i
        BY <1>2, <2>2
      <4>3. shots[m].fireTick \in Nat /\ shots[i].fireTick \in Nat /\ tick \in Nat
        BY <4>1, ShotNumbers, SlotNumbers
      <4>4. CASE m = i
        BY <4>3, <4>4
      <4>5. CASE m < i
        BY <4>3, <4>5 DEF ShotsAreSound
      <4> QED
        BY <4>2, <4>4, <4>5
    <3>2. ~TooOld(Age(m))
      BY <2>1
    <3>3. ~TooOld(Age(i))
      <4>1. ~(tick - shots[m].fireTick > 2)
        BY <3>2 DEF TooOld, Age, LifetimeTicks
      <4>2. ~(tick - shots[i].fireTick > 2)
        <5>1. \A a, b, c \in Nat : a <= b /\ ~(c - a > 2) => ~(c - b > 2)
          OBVIOUS
        <5> QED
          BY <3>1, <4>1, <5>1, Zenon
      <4> QED
        BY <4>2 DEF TooOld, Age, LifetimeTicks
    <3> QED
      BY <3>3
  <2>3. m - 1 \in 0..n /\ (m - 1) + 1 = m /\ m \in 1..n
    BY <1>2
  <2>4. T = m..n
    <3>1. \A i \in T : i \in m..n
      BY <1>2, <2>1
    <3>2. \A i \in m..n : i \in T
      BY <1>2, <2>2, <2>3
    <3> QED
      BY <3>1, <3>2
  <2>5. SuffixStays(m - 1)
    <3> HIDE DEF T
    <3> QED
      BY <1>3, <2>3, <2>4
  <2> QED
    BY <2>3, <2>5
<1> QED
  BY <1>4, <1>5

-----------------------------------------------------------------------------
\* Kills and attempts.

Held(d) == d.cleared \union {d.pending[k].shotId : k \in 1..Len(d.pending)}

\* The first n attempts have left, and either the others too, with an announcement, or not.
FirstLeave(e, d, n) ==
  /\ d.cleared \subseteq e.cleared
  /\ \A k \in 1..Len(d.pending) : k > n => d.pending[k].shotId \in Held(e)
  /\ \/ e.pending = <<>>
     \/ /\ Len(e.pending) = Len(d.pending) - n
        /\ \A k \in 1..Len(e.pending) : /\ e.pending[k].shotId = d.pending[k + n].shotId
                                        /\ e.pending[k].fireTick = d.pending[k + n].fireTick

LEMMA FinishedLeave ==
  ASSUME SlotIsSound, NEW d, IrregularDataIsSound(d), NEW n \in 0..Len(d.pending)
  PROVE  /\ Finished(d, n).cleared = d.cleared
         /\ Len(Finished(d, n).pending) = Len(d.pending) - n
         /\ \A k \in 1..(Len(d.pending) - n) : Finished(d, n).pending[k] = d.pending[k + n]
<1> DEFINE left == SubSeq(d.pending, n + 1, Len(d.pending))
           more == d.evidence \o [i \in 1..n |-> [success |-> d.pending[i].success,
                                                  connection |-> connection]]
<1>1. d \in IrregularData /\ d.pending \in Seq(IrregularPending) /\ Len(d.pending) \in Nat
  BY DEF IrregularDataIsSound, IrregularData
<1>2. /\ Len(left) = Len(d.pending) - n
      /\ \A k \in 1..(Len(d.pending) - n) : left[k] = d.pending[k + n]
  BY <1>1
<1>3. Finished(d, n) = [d EXCEPT !.pending = left, !.evidence = more]
  BY DEF Finished
<1> HIDE DEF left, more
<1>4. Finished(d, n).cleared = d.cleared /\ Finished(d, n).pending = left
  BY <1>1, <1>3 DEF IrregularData
<1> QED
  BY <1>2, <1>4

LEMMA AttemptsLeave ==
  ASSUME SlotIsSound, NEW d, IrregularDataIsSound(d), NEW n \in 0..Len(d.pending), NEW enough,
         NEW e, e = Finalize(d, n, enough)
  PROVE  FirstLeave(e, d, n)
<1> DEFINE announcing == {k \in 1..n : enough /\ Convinces(Finished(d, k).evidence)}
           first == CHOOSE k \in announcing : \A j \in announcing : k <= j
<1>1. Len(d.pending) \in Nat /\ n \in Nat /\ n <= Len(d.pending)
  BY DEF IrregularDataIsSound, IrregularData
<1>2. CASE announcing = {}
  <2>1. e = Finished(d, n)
    BY <1>2 DEF Finalize
  <2> HIDE DEF announcing
  <2>2. /\ e.cleared = d.cleared /\ Len(e.pending) = Len(d.pending) - n
        /\ \A k \in 1..(Len(d.pending) - n) : e.pending[k] = d.pending[k + n]
    BY <2>1, FinishedLeave
  <2>3. ASSUME NEW k \in 1..Len(d.pending), k > n PROVE d.pending[k].shotId \in Held(e)
    <3>1. k - n \in 1..Len(e.pending) /\ (k - n) + n = k
      BY <1>1, <2>2, <2>3
    <3>2. e.pending[k - n] = d.pending[k]
      BY <2>2, <3>1
    <3> QED
      BY <3>1, <3>2 DEF Held
  <2> QED
    BY <2>2, <2>3 DEF FirstLeave
<1>3. CASE announcing # {}
  <2>1. \A k \in announcing : k \in 0..Len(d.pending) /\ k \in Nat /\ k <= n
    BY <1>1
  <2>2. e = Announced(Finished(d, first))
    BY <1>3 DEF Finalize
  <2>3. first \in announcing
    <3>1. \E k \in announcing : \A j \in announcing : k <= j
      <4> HIDE DEF announcing
      <4> QED
        BY <1>3, <2>1, LeastNumber
    <3> HIDE DEF announcing
    <3> QED
      BY <3>1, Zenon
  <2> HIDE DEF announcing
  <2>4. first \in 0..Len(d.pending) /\ first <= n
    BY <2>1, <2>3
  <2> HIDE DEF first
  <2> DEFINE f == Finished(d, first)
  <2>5. /\ f.cleared = d.cleared /\ Len(f.pending) = Len(d.pending) - first
        /\ \A k \in 1..(Len(d.pending) - first) : f.pending[k] = d.pending[k + first]
    BY <2>4, FinishedLeave
  <2> HIDE DEF f
  <2>6. /\ e.pending = <<>>
        /\ e.cleared = f.cleared \union {f.pending[i].shotId : i \in 1..Len(f.pending)}
    BY <2>2 DEF Announced, f
  <2>7. ASSUME NEW k \in 1..Len(d.pending), k > n PROVE d.pending[k].shotId \in Held(e)
    <3>1. k - first \in 1..Len(f.pending) /\ (k - first) + first = k
      BY <1>1, <2>4, <2>5, <2>7
    <3>2. f.pending[k - first] = d.pending[k]
      BY <2>5, <3>1
    <3> QED
      BY <2>6, <3>1, <3>2 DEF Held
  <2> QED
    BY <2>5, <2>6, <2>7 DEF FirstLeave
<1> QED
  BY <1>2, <1>3

\* Where the stored shots are in the history, and the attempts with them.
ShotsAreNumbered == \A i \in 1..Len(shots) : shots[i].id = recorded - Len(shots) + i

AttemptsFit(d) ==
  \A k \in 1..Len(d.pending) :
    /\ d.pending[k].shotId <= recorded - Len(d.pending) + k
    /\ \A i \in 1..Len(shots) :
         d.pending[k].shotId = shots[i].id => d.pending[k].fireTick = shots[i].fireTick

KillsFind(d) ==
  \A i \in 1..Len(shots) :
    shots[i].difficult /\ InWindow(shots[i].fireTick) => shots[i].id \in Held(d)

AttemptsAreSound == ShotsAreNumbered /\ AttemptsFit(irregular) /\ KillsFind(irregular)

\* off shots have left at the front; the others are what they were, up to marks.
ShotsKept(off) ==
  /\ Len(shots') = Len(shots) - off
  /\ \A k \in 1..Len(shots') :
       /\ k + off \in 1..Len(shots)
       /\ shots'[k].id = shots[k + off].id /\ shots'[k].command = shots[k + off].command
       /\ shots'[k].fireTick = shots[k + off].fireTick
       /\ shots'[k].difficult = shots[k + off].difficult
       /\ shots[k + off].hurtSeen => shots'[k].hurtSeen

LEMMA KeptAreNumbered ==
  ASSUME ShotsAreSound, ShotsAreNumbered, UNCHANGED recorded,
         NEW off \in 0..Len(shots), ShotsKept(off)
  PROVE  ShotsAreNumbered'
<1>1. Len(shots) \in Nat /\ recorded \in Int /\ Len(shots') = Len(shots) - off
  BY ShotNumbers DEF ShotsAreSound, ShotsKept
<1>2. ASSUME NEW k \in 1..Len(shots') PROVE shots'[k].id = recorded - Len(shots') + k
  <2>1. k + off \in 1..Len(shots) /\ shots'[k].id = shots[k + off].id
    BY DEF ShotsKept
  <2>2. shots[k + off].id = recorded - Len(shots) + (k + off)
    BY <2>1 DEF ShotsAreNumbered
  <2> QED
    BY <1>1, <2>1, <2>2
<1> QED
  BY <1>2 DEF ShotsAreNumbered

LEMMA KeptFindKills ==
  ASSUME SlotIsSound, ShotsAreSound, IrregularIsSound, AttemptsAreSound,
         UNCHANGED recorded, tick' = tick \/ tick' = tick + 1,
         NEW off \in 0..Len(shots), ShotsKept(off),
         NEW n \in 0..Len(irregular.pending), FirstLeave(irregular', irregular, n),
         \A k \in 1..n : Ripe(irregular.pending[k])
  PROVE  AttemptsAreSound'
<1> DEFINE d == irregular
           e == irregular'
<1>1. /\ d.pending \in Seq(IrregularPending) /\ Len(d.pending) \in Nat /\ Len(shots) \in Nat
      /\ recorded \in Nat /\ tick \in Nat
  BY ShotNumbers, SlotNumbers DEF ShotsAreSound, IrregularIsSound, IrregularDataIsSound, IrregularData
<1>2. ShotsAreNumbered'
  BY KeptAreNumbered DEF AttemptsAreSound
<1>3. AttemptsFit(irregular)'
  <2>1. CASE e.pending = <<>>
    BY <2>1 DEF AttemptsFit
  <2>2. CASE /\ Len(e.pending) = Len(d.pending) - n
             /\ \A k \in 1..Len(e.pending) : /\ e.pending[k].shotId = d.pending[k + n].shotId
                                             /\ e.pending[k].fireTick = d.pending[k + n].fireTick
    <3>1. ASSUME NEW k \in 1..Len(e.pending)
          PROVE  /\ k + n \in 1..Len(d.pending)
                 /\ e.pending[k].shotId <= recorded - Len(e.pending) + k
      <4>1. k + n \in 1..Len(d.pending)
        BY <1>1, <2>2
      <4>2. d.pending[k + n].shotId <= recorded - Len(d.pending) + (k + n)
        BY <4>1 DEF AttemptsAreSound, AttemptsFit
      <4>3. recorded - Len(d.pending) + (k + n) = recorded - Len(e.pending) + k
        BY <1>1, <2>2
      <4> QED
        BY <2>2, <4>1, <4>2, <4>3
    <3>2. ASSUME NEW k \in 1..Len(e.pending), NEW i \in 1..Len(shots'),
                 e.pending[k].shotId = shots'[i].id
          PROVE  e.pending[k].fireTick = shots'[i].fireTick
      <4>1. /\ i + off \in 1..Len(shots) /\ shots'[i].id = shots[i + off].id
            /\ shots'[i].fireTick = shots[i + off].fireTick
        BY DEF ShotsKept
      <4>2. d.pending[k + n].shotId = shots[i + off].id
        BY <2>2, <3>2, <4>1
      <4>3. d.pending[k + n].fireTick = shots[i + off].fireTick
        BY <3>1, <4>1, <4>2 DEF AttemptsAreSound, AttemptsFit
      <4> QED
        BY <2>2, <4>1, <4>3
    <3> QED
      BY <3>1, <3>2 DEF AttemptsFit
  <2> QED
    BY <2>1, <2>2 DEF FirstLeave
<1>4. ASSUME NEW i \in 1..Len(shots'), shots'[i].difficult, tick' - shots'[i].fireTick \in 0..MatchTicks
      PROVE  shots'[i].id \in Held(e)
  <2> DEFINE s == shots[i + off]
  <2>1. /\ i + off \in 1..Len(shots) /\ shots'[i].id = s.id
        /\ shots'[i].fireTick = s.fireTick /\ shots'[i].difficult = s.difficult
    BY DEF ShotsKept
  <2>2. s.fireTick \in Nat /\ s.fireTick <= tick
    BY <2>1, ShotNumbers DEF ShotsAreSound, ShotIsSound
  <2> HIDE DEF s
  <2>3. tick - s.fireTick \in 0..1
    <3>1. tick' - s.fireTick \in 0..1
      BY <1>4, <2>1 DEF MatchTicks
    <3>2. \A t, f \in Nat : f <= t /\ (t - f \in 0..1 \/ (t + 1) - f \in 0..1) => t - f \in 0..1
      OBVIOUS
    <3>3. tick - s.fireTick \in 0..1 \/ (tick + 1) - s.fireTick \in 0..1
      BY <3>1, Zenon
    <3> QED
      BY <1>1, <2>2, <3>2, <3>3, Zenon
  <2>4. s.id \in Held(d)
    BY <1>4, <2>1, <2>3 DEF AttemptsAreSound, KillsFind, InWindow, MatchTicks, s
  <2>5. CASE s.id \in d.cleared
    BY <2>1, <2>5 DEF FirstLeave, Held
  <2>6. ASSUME NEW k \in 1..Len(d.pending), s.id = d.pending[k].shotId
        PROVE  s.id \in Held(e)
    <3>1. d.pending[k].fireTick = s.fireTick
      BY <2>1, <2>6 DEF AttemptsAreSound, AttemptsFit, s
    <3>2. ~(tick - d.pending[k].fireTick >= 2)
      <4>1. \A t, f \in Nat : t - f \in 0..1 => ~(t - f >= 2)
        OBVIOUS
      <4> QED
        BY <1>1, <2>2, <2>3, <3>1, <4>1, Zenon
    <3>3. k \notin 1..n
      BY <3>2 DEF Ripe
    <3>4. k > n
      BY <1>1, <3>3
    <3> QED
      BY <2>6, <3>4 DEF FirstLeave
  <2> QED
    BY <2>1, <2>4, <2>5, <2>6 DEF Held
<1>5. KillsFind(irregular)'
  BY <1>4 DEF KillsFind, InWindow, Held
<1> QED
  BY <1>2, <1>3, <1>5 DEF AttemptsAreSound

\* e is d with a new attempt.
AttemptAdded(e, d, shotId) ==
  /\ e.cleared = d.cleared /\ Len(e.pending) = Len(d.pending) + 1
  /\ \A k \in 1..Len(d.pending) : e.pending[k] = d.pending[k]
  /\ e.pending[Len(d.pending) + 1].shotId = shotId
  /\ e.pending[Len(d.pending) + 1].fireTick = tick

\* There is room for it when the first n have left.
AttemptReplaces(e, room, d, n, shotId) ==
  /\ n \in 0..Len(d.pending)
  /\ n = 1 => Len(d.pending) = PendingLimit
  /\ IrregularDataIsSound(room)
  /\ FirstLeave(room, d, n)
  /\ AttemptAdded(e, room, shotId)

LEMMA AttemptIsAdded ==
  ASSUME SlotIsSound, NEW d, IrregularDataIsSound(d), NEW shotId \in Nat, NEW enough,
         NEW e, e = IrregularOnWeaponFire(d, shotId, enough)
  PROVE  \E n \in {0, 1} : \E room : AttemptReplaces(e, room, d, n, shotId)
<1> DEFINE room == IF Full(d) THEN Finalize(d, 1, enough) ELSE d
           n == IF Full(d) THEN 1 ELSE 0
           new == [shotId |-> shotId, fireTick |-> tick, success |-> FALSE]
           pending == Append(room.pending, new)
<1>1. /\ Len(d.pending) \in Nat /\ PendingLimit \in Nat \ {0} /\ Len(d.pending) <= PendingLimit
      /\ d.pending \in Seq(IrregularPending)
  BY IrregularAssumption DEF IrregularDataIsSound, IrregularData
<1>2. n \in {0, 1} /\ n \in 0..Len(d.pending) /\ (n = 1 => Len(d.pending) = PendingLimit)
  BY <1>1 DEF Full
<1>3. IrregularDataIsSound(room) /\ FirstLeave(room, d, n)
  <2>1. CASE Full(d)
    <3>1. 1 \in 0..Len(d.pending)
      BY <1>1, <2>1 DEF Full
    <3>2. IrregularDataIsSound(Finalize(d, 1, enough)) /\ FirstLeave(Finalize(d, 1, enough), d, 1)
      BY <3>1, AttemptsFinalized, AttemptsLeave
    <3> QED
      BY <2>1, <3>2
  <2>2. CASE ~Full(d)
    <3>1. FirstLeave(d, d, 0)
      BY <1>1 DEF FirstLeave, Held
    <3> QED
      BY <2>2, <3>1
  <2> QED
    BY <2>1, <2>2
<1>4. e = [room EXCEPT !.pending = pending]
  BY DEF IrregularOnWeaponFire
<1> HIDE DEF room, n
<1>5. room \in IrregularData /\ room.pending \in Seq(IrregularPending)
  BY <1>3 DEF IrregularDataIsSound, IrregularData
<1>6. new \in IrregularPending
  BY DEF IrregularPending, SlotIsSound
<1>7. /\ Len(pending) = Len(room.pending) + 1
      /\ \A k \in 1..Len(room.pending) : pending[k] = room.pending[k]
      /\ pending[Len(room.pending) + 1] = new
  <2> HIDE DEF new
  <2> QED
    BY <1>5, <1>6
<1> HIDE DEF pending
<1>8. e.cleared = room.cleared /\ e.pending = pending
  BY <1>4, <1>5 DEF IrregularData
<1>9. AttemptAdded(e, room, shotId)
  BY <1>7, <1>8 DEF AttemptAdded
<1>10. AttemptReplaces(e, room, d, n, shotId)
  BY <1>2, <1>3, <1>9 DEF AttemptReplaces
<1> QED
  BY <1>2, <1>10

LEMMA PushedAreNumbered ==
  ASSUME ShotsAreSound, ShotsAreNumbered, recorded' = recorded + 1,
         NEW new, new.id = recorded + 1,
         NEW off \in {0, 1}, IsPushed(shots', shots, new, ShotLimit, off)
  PROVE  ShotsAreNumbered'
<1> DEFINE m == Len(shots')
<1>1. Len(shots) \in Int /\ recorded \in Int /\ m = Len(shots) + 1 - off /\ m \in Int
  BY ShotNumbers DEF ShotsAreSound, IsPushed
<1>2. ASSUME NEW k \in 1..m PROVE shots'[k].id = (recorded + 1) - m + k
  <2>1. CASE k + off = Len(shots) + 1
    <3>1. shots'[k].id = recorded + 1
      BY <2>1 DEF IsPushed
    <3> HIDE DEF m
    <3>2. m = k
      BY <1>1, <2>1
    <3>3. \A r, p \in Int : r = r - p + p
      OBVIOUS
    <3>4. recorded + 1 = (recorded + 1) - m + k
      BY <1>1, <3>2, <3>3
    <3> QED
      BY <3>1, <3>4, Zenon
  <2>2. CASE k + off <= Len(shots)
    <3>1. shots'[k] = shots[k + off] /\ k + off \in 1..Len(shots)
      BY <1>1, <2>2 DEF IsPushed
    <3>2. shots[k + off].id = recorded - Len(shots) + (k + off)
      BY <3>1 DEF ShotsAreNumbered
    <3> HIDE DEF m
    <3>3. recorded - Len(shots) + (k + off) = (recorded + 1) - m + k
      BY <1>1
    <3> QED
      BY <3>1, <3>2, <3>3, Zenon
  <2>3. k + off = Len(shots) + 1 \/ k + off <= Len(shots)
    BY <1>1
  <2> QED
    BY <2>1, <2>2, <2>3, Zenon
<1> QED
  BY <1>2 DEF ShotsAreNumbered

LEMMA PushedElsewhere ==
  ASSUME ShotsAreSound, ShotsAreNumbered,
         NEW new, NEW off \in {0, 1}, IsPushed(shots', shots, new, ShotLimit, off),
         NEW i \in 1..Len(shots')
  PROVE  \/ shots'[i] = new
         \/ /\ i + off \in 1..Len(shots) /\ shots'[i] = shots[i + off]
            /\ shots[i + off].id <= recorded /\ shots[i + off].id >= recorded - ShotLimit + 2
<1>1. /\ Len(shots) \in Int /\ recorded \in Int /\ ShotLimit \in Int
      /\ Len(shots') = Len(shots) + 1 - off /\ Len(shots) + 1 - off <= ShotLimit
  BY ShotNumbers DEF ShotsAreSound, IsPushed
<1>2. CASE i + off = Len(shots) + 1
  BY <1>2 DEF IsPushed
<1>3. CASE i + off <= Len(shots)
  <2>1. shots'[i] = shots[i + off] /\ i + off \in 1..Len(shots) /\ i >= 1 /\ i \in Int
    BY <1>1, <1>3 DEF IsPushed
  <2>2. shots[i + off].id = recorded - Len(shots) + (i + off)
    BY <2>1 DEF ShotsAreNumbered
  <2>3. /\ recorded - Len(shots) + (i + off) <= recorded
        /\ recorded - Len(shots) + (i + off) >= recorded - ShotLimit + 2
    BY <1>1, <1>3, <2>1
  <2> QED
    BY <2>1, <2>2, <2>3
<1>4. i + off = Len(shots) + 1 \/ i + off <= Len(shots)
  BY <1>1
<1> QED
  BY <1>2, <1>3, <1>4

LEMMA OtherShotsFindKills ==
  ASSUME SlotIsSound, ShotsAreSound, IrregularIsSound, AttemptsAreSound,
         recorded' = recorded + 1, tick' = tick,
         NEW new, new.id = recorded + 1, ~new.difficult,
         NEW off \in {0, 1}, IsPushed(shots', shots, new, ShotLimit, off),
         irregular' = irregular
  PROVE  AttemptsAreSound'
<1> DEFINE d == irregular
<1>1. Len(d.pending) \in Int /\ recorded \in Int
  BY ShotNumbers DEF ShotsAreSound, IrregularIsSound, IrregularDataIsSound, IrregularData
<1>2. ASSUME NEW k \in 1..Len(d.pending)
      PROVE  d.pending[k].shotId <= (recorded + 1) - Len(d.pending) + k /\ d.pending[k].shotId # recorded + 1
  <2>1. d.pending[k].shotId <= recorded - Len(d.pending) + k /\ d.pending[k].shotId \in Int
    <3>1. d.pending[k] \in IrregularPending
      BY DEF IrregularIsSound, IrregularDataIsSound, IrregularData
    <3> QED
      BY <3>1 DEF AttemptsAreSound, AttemptsFit, IrregularPending
  <2>2. k \in Int /\ k <= Len(d.pending)
    BY <1>1
  <2>3. \A id, r, l, j \in Int : id <= r - l + j /\ j <= l => id <= (r + 1) - l + j /\ id # r + 1
    OBVIOUS
  <2> QED
    BY <1>1, <2>1, <2>2, <2>3, Zenon
<1>3. ASSUME NEW k \in 1..Len(d.pending), NEW i \in 1..Len(shots'), d.pending[k].shotId = shots'[i].id
      PROVE  d.pending[k].fireTick = shots'[i].fireTick
  <2>1. i + off \in 1..Len(shots) /\ shots'[i] = shots[i + off]
    BY <1>2, <1>3, PushedElsewhere DEF AttemptsAreSound
  <2> QED
    BY <1>3, <2>1 DEF AttemptsAreSound, AttemptsFit
<1>4. AttemptsFit(irregular)'
  <2>1. ASSUME NEW k \in 1..Len(irregular'.pending)
        PROVE  /\ irregular'.pending[k].shotId <= (recorded + 1) - Len(irregular'.pending) + k
               /\ \A i \in 1..Len(shots') :
                    irregular'.pending[k].shotId = shots'[i].id =>
                      irregular'.pending[k].fireTick = shots'[i].fireTick
    BY <1>2, <1>3, Zenon
  <2> QED
    BY <2>1 DEF AttemptsFit
<1>5. ASSUME NEW i \in 1..Len(shots'), shots'[i].difficult, InWindow(shots'[i].fireTick)
      PROVE  shots'[i].id \in Held(d)
  <2>1. i + off \in 1..Len(shots) /\ shots'[i] = shots[i + off]
    BY <1>5, PushedElsewhere DEF AttemptsAreSound
  <2> QED
    BY <1>5, <2>1 DEF AttemptsAreSound, KillsFind
<1>6. KillsFind(irregular)'
  BY <1>5 DEF KillsFind, InWindow, Held
<1>7. ShotsAreNumbered'
  BY PushedAreNumbered DEF AttemptsAreSound
<1> QED
  BY <1>4, <1>6, <1>7 DEF AttemptsAreSound

LEMMA DifficultShotsFindKills ==
  ASSUME SlotIsSound, ShotsAreSound, IrregularIsSound, AttemptsAreSound,
         recorded' = recorded + 1, tick' = tick,
         NEW new, new.id = recorded + 1, new.fireTick = tick,
         NEW off \in {0, 1}, IsPushed(shots', shots, new, ShotLimit, off),
         NEW n \in {0, 1}, NEW room, AttemptReplaces(irregular', room, irregular, n, recorded + 1)
  PROVE  AttemptsAreSound'
<1> DEFINE d == irregular
           e == irregular'
           m == Len(room.pending)
<1>1. /\ Len(d.pending) \in Int /\ recorded \in Int /\ m \in Nat /\ n \in 0..Len(d.pending)
      /\ Len(e.pending) = m + 1 /\ ShotLimit \in Int /\ PendingLimit \in Int
  BY ShotNumbers, IrregularAssumption
     DEF ShotsAreSound, IrregularIsSound, IrregularDataIsSound, IrregularData, AttemptReplaces, AttemptAdded
<1>2. ASSUME NEW k \in 1..Len(d.pending)
      PROVE  d.pending[k].shotId <= recorded - Len(d.pending) + k /\ d.pending[k].shotId \in Int
  <2>1. d.pending[k] \in IrregularPending
    BY DEF IrregularIsSound, IrregularDataIsSound, IrregularData
  <2> QED
    BY <2>1 DEF AttemptsAreSound, AttemptsFit, IrregularPending
<1>3. ASSUME NEW k \in 1..m
      PROVE  /\ k + n \in 1..Len(d.pending) /\ m = Len(d.pending) - n
             /\ e.pending[k].shotId = d.pending[k + n].shotId
             /\ e.pending[k].fireTick = d.pending[k + n].fireTick
  <2>1. room.pending # <<>>
    <3>1. room.pending = <<>> => m = 0
      OBVIOUS
    <3> QED
      BY <1>1, <3>1
  <2>2. /\ m = Len(d.pending) - n
        /\ room.pending[k].shotId = d.pending[k + n].shotId
        /\ room.pending[k].fireTick = d.pending[k + n].fireTick
    BY <2>1 DEF AttemptReplaces, FirstLeave
  <2>3. e.pending[k] = room.pending[k]
    BY DEF AttemptReplaces, AttemptAdded
  <2> HIDE DEF m
  <2>4. k + n \in 1..Len(d.pending)
    BY <1>1, <2>2
  <2> QED
    BY <2>2, <2>3, <2>4
<1>4. e.pending[m + 1].shotId = recorded + 1 /\ e.pending[m + 1].fireTick = tick
  BY DEF AttemptReplaces, AttemptAdded
<1> HIDE DEF m
<1>5. ASSUME NEW k \in 1..Len(e.pending)
      PROVE  /\ e.pending[k].shotId <= (recorded + 1) - Len(e.pending) + k
             /\ \A i \in 1..Len(shots') :
                  e.pending[k].shotId = shots'[i].id => e.pending[k].fireTick = shots'[i].fireTick
  <2>1. CASE k = m + 1
    <3>1. e.pending[k].shotId <= (recorded + 1) - Len(e.pending) + k
      BY <1>1, <1>4, <2>1
    <3>2. ASSUME NEW i \in 1..Len(shots'), e.pending[k].shotId = shots'[i].id
          PROVE  e.pending[k].fireTick = shots'[i].fireTick
      <4>1. ~(shots'[i].id <= recorded)
        BY <1>1, <1>4, <2>1, <3>2
      <4>2. shots'[i] = new
        BY <4>1, PushedElsewhere DEF AttemptsAreSound
      <4> QED
        BY <1>4, <2>1, <4>2
    <3> QED
      BY <3>1, <3>2
  <2>2. CASE k # m + 1
    <3>1. k \in 1..m
      BY <1>1, <2>2
    <3>2. /\ k + n \in 1..Len(d.pending) /\ m = Len(d.pending) - n
          /\ e.pending[k].shotId = d.pending[k + n].shotId
          /\ e.pending[k].fireTick = d.pending[k + n].fireTick
      BY <1>3, <3>1
    <3>3. /\ d.pending[k + n].shotId <= recorded - Len(d.pending) + (k + n)
          /\ d.pending[k + n].shotId \in Int
      BY <1>2, <3>2
    <3>4. \A id, r, l, o, j \in Int :
            id <= r - l + (j + o) => id <= (r + 1) - ((l - o) + 1) + j
      OBVIOUS
    <3>5. k \in Int /\ n \in Int /\ Len(e.pending) = (Len(d.pending) - n) + 1 /\ k + n <= Len(d.pending)
      BY <1>1, <3>2
    <3>6. e.pending[k].shotId <= (recorded + 1) - Len(e.pending) + k
      BY <1>1, <3>2, <3>3, <3>4, <3>5, Zenon
    <3>7. ASSUME NEW i \in 1..Len(shots'), e.pending[k].shotId = shots'[i].id
          PROVE  e.pending[k].fireTick = shots'[i].fireTick
      <4>1. shots'[i].id # recorded + 1
        <5>1. \A id, r, l, j \in Int : id <= r - l + j /\ j <= l => id # r + 1
          OBVIOUS
        <5>2. k + n \in Int
          BY <3>5
        <5> QED
          BY <1>1, <3>2, <3>3, <3>7, <3>5, <5>1, <5>2, Zenon
      <4>2. i + off \in 1..Len(shots) /\ shots'[i] = shots[i + off]
        BY <4>1, PushedElsewhere DEF AttemptsAreSound
      <4>3. d.pending[k + n].shotId = shots[i + off].id
        BY <3>2, <3>7, <4>2
      <4>4. d.pending[k + n].fireTick = shots[i + off].fireTick
        BY <3>2, <4>2, <4>3 DEF AttemptsAreSound, AttemptsFit
      <4> QED
        BY <3>2, <4>2, <4>4
    <3> QED
      BY <3>6, <3>7
  <2> QED
    BY <2>1, <2>2
<1>6. AttemptsFit(irregular)'
  BY <1>5 DEF AttemptsFit
<1>7. ASSUME NEW i \in 1..Len(shots'), shots'[i].difficult, InWindow(shots'[i].fireTick)
      PROVE  shots'[i].id \in Held(e)
  <2>1. Held(room) \subseteq Held(e)
    <3>1. \A k \in 1..m : e.pending[k] = room.pending[k]
      BY DEF AttemptReplaces, AttemptAdded, m
    <3>2. 1..m \subseteq 1..Len(e.pending) /\ e.cleared = room.cleared
      BY <1>1 DEF AttemptReplaces, AttemptAdded
    <3> QED
      BY <3>1, <3>2 DEF Held, m
  <2>2. CASE shots'[i] = new
    <3>1. m + 1 \in 1..Len(e.pending) /\ e.pending[m + 1].shotId = shots'[i].id
      BY <1>1, <1>4, <2>2
    <3> QED
      BY <3>1 DEF Held
  <2>3. CASE /\ i + off \in 1..Len(shots) /\ shots'[i] = shots[i + off]
             /\ shots[i + off].id <= recorded /\ shots[i + off].id >= recorded - ShotLimit + 2
    <3>1. shots[i + off].id \in Held(d)
      BY <1>7, <2>3 DEF AttemptsAreSound, KillsFind
    <3>2. CASE shots[i + off].id \in d.cleared
      <4>1. shots[i + off].id \in Held(room)
        BY <3>2 DEF AttemptReplaces, FirstLeave, Held
      <4> QED
        BY <2>1, <2>3, <4>1
    <3>3. ASSUME NEW k \in 1..Len(d.pending), shots[i + off].id = d.pending[k].shotId
          PROVE  shots'[i].id \in Held(e)
      <4>1. k > n
        <5> SUFFICES ASSUME ~(k > n) PROVE FALSE
          OBVIOUS
        <5>1. n = 1 /\ k = 1
          BY <1>1
        <5>2. Len(d.pending) = PendingLimit /\ ShotLimit <= PendingLimit
          BY <5>1, LimitAssumption DEF AttemptReplaces
        <5>3. d.pending[k].shotId <= recorded - PendingLimit + 1 /\ d.pending[k].shotId \in Int
          BY <1>2, <5>1, <5>2
        <5>4. \A id, r, l, p \in Int : id <= r - p + 1 /\ l <= p => ~(id >= r - l + 2)
          OBVIOUS
        <5> QED
          BY <1>1, <2>3, <3>3, <5>2, <5>3, <5>4, Zenon
      <4>2. d.pending[k].shotId \in Held(room)
        BY <4>1 DEF AttemptReplaces, FirstLeave
      <4> QED
        BY <2>1, <2>3, <3>3, <4>2
    <3> QED
      BY <3>1, <3>2, <3>3 DEF Held
  <2> QED
    BY <2>2, <2>3, PushedElsewhere DEF AttemptsAreSound
<1>8. KillsFind(irregular)'
  BY <1>7 DEF KillsFind, InWindow, Held
<1>9. ShotsAreNumbered'
  BY PushedAreNumbered DEF AttemptsAreSound
<1> QED
  BY <1>6, <1>8, <1>9 DEF AttemptsAreSound

LEMMA MarkedAreKept ==
  ASSUME ShotsAreSound, UNCHANGED <<tick, connection, connected, enabled, recorded>>,
         NEW i \in 1..Len(shots), NEW s \in ShotRecord, SameShot(s, shots[i]), ShotMarked(i, s)
  PROVE  0 \in 0..Len(shots) /\ ShotsKept(0)
<1>1. /\ Len(shots') = Len(shots) /\ shots'[i] = s /\ Len(shots) \in Nat
      /\ \A j \in 1..Len(shots) : j # i => shots'[j] = shots[j]
  BY MarkedShot DEF ShotsAreSound
<1>2. ASSUME NEW k \in 1..Len(shots')
      PROVE  /\ k + 0 = k /\ k \in 1..Len(shots)
             /\ shots'[k].id = shots[k].id /\ shots'[k].command = shots[k].command
             /\ shots'[k].fireTick = shots[k].fireTick
             /\ shots'[k].difficult = shots[k].difficult
             /\ shots[k].hurtSeen => shots'[k].hurtSeen
  <2>1. CASE k = i
    BY <1>1, <2>1 DEF SameShot
  <2>2. CASE k # i
    BY <1>1, <2>2
  <2> QED
    BY <2>1, <2>2
<1> QED
  BY <1>1, <1>2 DEF ShotsKept

LEMMA UnchangedAreKept ==
  ASSUME ShotsAreSound, UNCHANGED shots
  PROVE  0 \in 0..Len(shots) /\ ShotsKept(0)
<1>1. Len(shots) \in Nat /\ \A k \in 1..Len(shots) : k + 0 = k
  BY DEF ShotsAreSound
<1> QED
  BY <1>1 DEF ShotsKept

LEMMA PrunedAreKept ==
  ASSUME SlotIsSound, ShotsAreSound, ShotsOnGameFrame
  PROVE  \E off \in 0..Len(shots) : ShotsKept(off) /\ SuffixStays(off)
<1>1. PICK off \in 0..Len(shots) : SuffixStays(off)
  BY PruneTakesTheFirst
<1>2. ASSUME NEW k \in 1..Len(shots')
      PROVE  /\ k + off \in 1..Len(shots)
             /\ shots'[k].id = shots[k + off].id /\ shots'[k].command = shots[k + off].command
             /\ shots'[k].fireTick = shots[k + off].fireTick
             /\ shots'[k].difficult = shots[k + off].difficult
             /\ shots[k + off].hurtSeen => shots'[k].hurtSeen
  <2>1. k + off \in 1..Len(shots) /\ shots'[k] = Judged[k + off]
    BY <1>1 DEF SuffixStays
  <2> QED
    BY <2>1, JudgedShots
<1>3. ShotsKept(off)
  BY <1>1, <1>2 DEF ShotsKept, SuffixStays
<1> QED
  BY <1>1, <1>3

(***************************************************************************)
(* Every step keeps what is stored for a kill that may still come.         *)
(***************************************************************************)
LEMMA SameAttempts ==
  ASSUME SlotIsSound, ShotsAreSound, IrregularIsSound, AttemptsAreSound,
         UNCHANGED <<tick, recorded, irregular>>, 0 \in 0..Len(shots), ShotsKept(0)
  PROVE  AttemptsAreSound'
<1>1. 0 \in 0..Len(irregular.pending) /\ Len(irregular.pending) \in Nat
  BY DEF IrregularIsSound, IrregularDataIsSound, IrregularData
<1>2. FirstLeave(irregular', irregular, 0)
  BY <1>1 DEF FirstLeave, Held
<1>3. \A k \in 1..0 : Ripe(irregular.pending[k])
  OBVIOUS
<1> QED
  BY <1>1, <1>2, <1>3, KeptFindKills

LEMMA NoAttempts ==
  ASSUME shots' = <<>>, irregular' = IrregularClean \/ (irregular' = irregular /\ irregular.pending = <<>>)
  PROVE  AttemptsAreSound'
<1>1. irregular'.pending = <<>>
  BY DEF IrregularClean
<1> QED
  BY <1>1 DEF AttemptsAreSound, ShotsAreNumbered, AttemptsFit, KillsFind

LEMMA SuccessLeavesNone ==
  ASSUME NEW d, IrregularDataIsSound(d), NEW shotId, NEW e,
         e = d \/ \E fair \in BOOLEAN : e = IrregularOnPlayerDeath(d, shotId, fair)
  PROVE  0 \in 0..Len(d.pending) /\ FirstLeave(e, d, 0)
<1>1. d \in IrregularData /\ d.pending \in Seq(IrregularPending) /\ Len(d.pending) \in Nat
  BY DEF IrregularDataIsSound, IrregularData
<1>2. ASSUME e.cleared = d.cleared, Len(e.pending) = Len(d.pending),
             \A k \in 1..Len(d.pending) : /\ e.pending[k].shotId = d.pending[k].shotId
                                          /\ e.pending[k].fireTick = d.pending[k].fireTick
      PROVE  FirstLeave(e, d, 0)
  BY <1>1, <1>2 DEF FirstLeave, Held
<1>3. CASE e = d
  BY <1>2, <1>3
<1>4. ASSUME NEW fair \in BOOLEAN, e = IrregularOnPlayerDeath(d, shotId, fair)
      PROVE  FirstLeave(e, d, 0)
  <2> DEFINE E(i) == IF d.pending[i].shotId = shotId /\ fair
                     THEN [d.pending[i] EXCEPT !.success = TRUE] ELSE d.pending[i]
             pending == [i \in 1..Len(d.pending) |-> E(i)]
  <2>1. ASSUME NEW i \in 1..Len(d.pending)
        PROVE  E(i).shotId = d.pending[i].shotId /\ E(i).fireTick = d.pending[i].fireTick
    <3>1. d.pending[i] \in IrregularPending
      BY <1>1
    <3> QED
      BY <3>1 DEF IrregularPending
  <2>2. e = [d EXCEPT !.pending = pending]
    BY <1>4 DEF IrregularOnPlayerDeath
  <2> HIDE DEF E
  <2>3. Len(pending) = Len(d.pending) /\ \A i \in 1..Len(d.pending) : pending[i] = E(i)
    BY <1>1
  <2> HIDE DEF pending
  <2>4. e.cleared = d.cleared /\ e.pending = pending
    BY <1>1, <2>2 DEF IrregularData
  <2> QED
    BY <1>2, <2>1, <2>3, <2>4
<1> QED
  BY <1>1, <1>3, <1>4

LEMMA AttemptsStep ==
  ASSUME SlotIsSound, CommandsAreSound, ShotsAreSound, IrregularIsSound, AttemptsAreSound, [Next]_vars
  PROVE  AttemptsAreSound'
<1>1. CASE Connect
  <2>1. shots' = <<>> /\ irregular' = irregular /\ ~connected
    BY <1>1 DEF Connect, Join, ShotsOfNewcomer, ShotsAreSound, moduleVars
  <2>2. irregular.pending = <<>>
    BY <2>1 DEF IrregularIsSound, IrregularDataIsSound
  <2> QED
    BY <2>1, <2>2, NoAttempts
<1>2. CASE OnClientDisconnect \/ Reset
  <2>1. shots' = <<>> /\ irregular' = IrregularClean
    BY <1>2 DEF OnClientDisconnect, Reset, ShotsCleared, Forget
  <2> QED
    BY <2>1, NoAttempts
<1>3. ASSUME UNCHANGED <<tick, recorded, irregular, shots>> PROVE AttemptsAreSound'
  BY <1>3, UnchangedAreKept, SameAttempts
<1>4. CASE OnClientReady \/ OnPlayerSpawn \/ UNCHANGED vars
  BY <1>3, <1>4 DEF OnClientReady, OnPlayerSpawn, vars, slotVars, shotVars, moduleVars
<1>5. CASE OnFireBullets
  <2>1. PICK i \in 1..Len(shots), s \in ShotRecord :
          ShotMarked(i, s) /\ SameShot(s, shots[i]) /\ InWindow(shots[i].fireTick)
    BY <1>5, FireBulletsMarks DEF OnFireBullets
  <2>2. UNCHANGED <<tick, connection, connected, enabled, recorded, irregular>>
    BY <1>5 DEF OnFireBullets, ShotsOnFireBullets, slotVars, moduleVars
  <2> QED
    BY <2>1, <2>2, MarkedAreKept, SameAttempts
<1>6. CASE OnPlayerHurt
  <2>1. PICK i \in 1..Len(shots) : Hurt(i)
    BY <1>6 DEF OnPlayerHurt
  <2>2. UNCHANGED <<tick, connection, connected, enabled, recorded, irregular>>
    BY <1>6, <2>1 DEF OnPlayerHurt, Hurt, slotVars
  <2>3. PICK s \in ShotRecord : ShotMarked(i, s) /\ SameShot(s, shots[i])
    BY <2>1, HurtMarks
  <2> QED
    BY <2>2, <2>3, MarkedAreKept, SameAttempts
<1>7. CASE OnGameFrame
  <2> DEFINE d == irregular
  <2>1. PICK off \in 0..Len(shots) : ShotsKept(off)
    BY <1>7, PrunedAreKept DEF OnGameFrame
  <2>2. tick' = tick + 1 /\ UNCHANGED recorded
    BY <1>7 DEF OnGameFrame, Clock, ShotsOnGameFrame
  <2>3. irregular' = d \/ irregular' \in IrregularOnGameFrame(d)
    BY <1>7 DEF OnGameFrame, Handled
  <2>4. IrregularDataIsSound(d) /\ d.pending \in Seq(IrregularPending) /\ Len(d.pending) \in Nat
    BY DEF IrregularIsSound, IrregularDataIsSound, IrregularData
  <2>5. CASE irregular' = d
    <3>1. FirstLeave(irregular', irregular, 0) /\ 0 \in 0..Len(d.pending)
      BY <2>4, <2>5 DEF FirstLeave, Held
    <3>2. \A k \in 1..0 : Ripe(irregular.pending[k])
      OBVIOUS
    <3> QED
      BY <2>1, <2>2, <3>1, <3>2, KeptFindKills
  <2>6. CASE irregular' \in IrregularOnGameFrame(d)
    <3> DEFINE n == RipeAttempts(d)
    <3>1. n \in 0..Len(d.pending) /\ \A k \in 1..n : Ripe(d.pending[k])
      BY <2>4, RipeAttemptsCounted
    <3>2. PICK enough \in BOOLEAN :
            irregular' = Finalize(d, n, enough) \/ irregular' = Lapsed(Finalize(d, n, enough))
      BY <2>6 DEF IrregularOnGameFrame
    <3> HIDE DEF n
    <3> DEFINE f == Finalize(d, n, enough)
    <3>3. IrregularDataIsSound(f) /\ FirstLeave(f, d, n)
      BY <2>4, <3>1, AttemptsFinalized, AttemptsLeave
    <3> HIDE DEF f
    <3>4. irregular'.pending = f.pending /\ irregular'.cleared = f.cleared
      <4>1. f \in IrregularData
        BY <3>3 DEF IrregularDataIsSound
      <4>2. irregular' = f \/ irregular' = [f EXCEPT !.evidence = Tail(@)]
        BY <3>2 DEF f, Lapsed
      <4> QED
        BY <4>1, <4>2 DEF IrregularData
    <3>5. FirstLeave(irregular', irregular, n)
      BY <3>3, <3>4 DEF FirstLeave, Held
    <3> QED
      BY <2>1, <2>2, <3>1, <3>5, KeptFindKills
  <2> QED
    BY <2>3, <2>5, <2>6
<1>8. ASSUME NEW c \in Commands, OnProcessUsercmds(c) \/ OnSetupMove(c) PROVE AttemptsAreSound'
  BY <1>3, <1>8 DEF OnProcessUsercmds, Arrives, ShotsOnProcessUsercmds, OnSetupMove, Simulates,
     ShotsOnSetupMove, slotVars
<1>9. ASSUME NEW w \in Weapons, OnWeaponFire(w) PROVE AttemptsAreSound'
  <2>1. connected /\ UNCHANGED <<tick, connection, connected, enabled>>
    BY <1>9 DEF OnWeaponFire, slotVars
  <2>2. CASE Discarded /\ UNCHANGED <<antiAim, irregular>>
    BY <1>3, <2>1, <2>2 DEF Discarded
  <2>3. CASE Shoots(w)
    <3>1. PICK i \in UsableCommands, difficult \in BOOLEAN :
            LET shot == NewShot(commands[i].number, w, difficult) IN
            /\ Recorded(shot)
            /\ irregular' \in IF difficult
                              THEN {IrregularOnWeaponFire(irregular, shot.id, enough) :
                                      enough \in BOOLEAN}
                              ELSE {irregular}
      BY <2>3 DEF Shoots
    <3> DEFINE new == NewShot(commands[i].number, w, difficult)
    <3>2. i \in 1..Len(commands)
      BY DEF UsableCommands
    <3>3. PICK off \in {0, 1} : recorded' = recorded + 1 /\ IsPushed(shots', shots, new, ShotLimit, off)
      BY <2>1, <3>1, <3>2, NewShotIsRecorded
    <3>4. new.id = recorded + 1 /\ new.fireTick = tick /\ new.difficult = difficult
      BY DEF NewShot
    <3>5. irregular' \in IF difficult
                         THEN {IrregularOnWeaponFire(irregular, new.id, enough) : enough \in BOOLEAN}
                         ELSE {irregular}
      BY <3>1
    <3> HIDE DEF new
    <3>6. CASE ~difficult
      BY <2>1, <3>3, <3>4, <3>5, <3>6, OtherShotsFindKills
    <3>7. CASE difficult
      <4>1. PICK enough \in BOOLEAN : irregular' = IrregularOnWeaponFire(irregular, recorded + 1, enough)
        BY <3>4, <3>5, <3>7
      <4>2. recorded + 1 \in Nat
        BY ShotNumbers DEF ShotsAreSound
      <4>3. PICK n \in {0, 1} : \E room : AttemptReplaces(irregular', room, irregular, n, recorded + 1)
        BY <4>1, <4>2, AttemptIsAdded DEF IrregularIsSound
      <4>4. PICK room : AttemptReplaces(irregular', room, irregular, n, recorded + 1)
        BY <4>3
      <4> QED
        BY <2>1, <3>3, <3>4, <4>4, DifficultShotsFindKills
    <3> QED
      BY <3>6, <3>7
  <2> QED
    BY <1>9, <2>2, <2>3 DEF OnWeaponFire
<1>10. ASSUME NEW w \in Weapons, OnPlayerDeath(w) PROVE AttemptsAreSound'
  <2>1. PICK i \in 1..Len(shots) :
          /\ Died(w, i)
          /\ irregular' \in Handled(IrregularDetection, irregular,
                              {IrregularOnPlayerDeath(irregular, shots[i].id, fair) :
                                 fair \in BOOLEAN})
    BY <1>10 DEF OnPlayerDeath
  <2>2. UNCHANGED <<tick, connection, connected, enabled, recorded>>
    BY <1>10, <2>1 DEF OnPlayerDeath, Died, slotVars
  <2>3. PICK s \in ShotRecord : ShotMarked(i, s) /\ SameShot(s, shots[i])
    BY <2>1, DiedMarks
  <2>4. 0 \in 0..Len(shots) /\ ShotsKept(0)
    BY <2>2, <2>3, MarkedAreKept
  <2>5. irregular' = irregular
        \/ \E fair \in BOOLEAN : irregular' = IrregularOnPlayerDeath(irregular, shots[i].id, fair)
    BY <2>1 DEF Handled
  <2>6. 0 \in 0..Len(irregular.pending) /\ FirstLeave(irregular', irregular, 0)
    BY <2>5, SuccessLeavesNone DEF IrregularIsSound
  <2>7. \A k \in 1..0 : Ripe(irregular.pending[k])
    OBVIOUS
  <2> QED
    BY <2>2, <2>4, <2>6, <2>7, KeptFindKills
<1>11. ASSUME NEW changed \in BOOLEAN, NEW lapsed \in 0..MaxNameChanges,
              OnClientSettingsChanged(changed, lapsed)
       PROVE  AttemptsAreSound'
  BY <1>3, <1>11 DEF OnClientSettingsChanged, slotVars, shotVars
<1> QED
  BY <1>1, <1>2, <1>4, <1>5, <1>6, <1>7, <1>8, <1>9, <1>10, <1>11 DEF Next

-----------------------------------------------------------------------------
\* The newest command.

\* A command that weapon_fire may still use is newer than all that were used.
Newest(c) ==
  c.serverTick # NotSimulated /\ ~c.consumed /\ InWindow(c.serverTick) =>
    \A p \in Commands : uses[p] # 0 => p < c.number

UsableAreNewest == \A i \in 1..Len(commands) : Newest(commands[i])

\* Nothing new among the simulated commands.
CommandsKept ==
  \A k \in 1..Len(commands') :
    \/ commands'[k].serverTick = NotSimulated
    \/ \E j \in 1..Len(commands) : commands'[k] = commands[j]

LEMMA CommandsAreKept ==
  ASSUME SlotIsSound, CommandsAreSound,
         \/ UNCHANGED commands
         \/ commands' = <<>>
         \/ ShotsOnGameFrame
         \/ \E c \in Commands : ShotsOnProcessUsercmds(c)
  PROVE  CommandsKept
<1>1. commands \in Seq(ShotCommand) /\ Len(commands) <= CommandLimit /\ CommandLimit \in Nat \ {0}
  BY ShotAssumption DEF CommandsAreSound
<1>2. CASE UNCHANGED commands \/ commands' = <<>>
  BY <1>2 DEF CommandsKept
<1>3. CASE ShotsOnGameFrame
  <2> DEFINE places == {i \in 1..Len(commands) : \/ commands[i].serverTick = NotSimulated
                                                 \/ ~TooOld(tick - commands[i].serverTick)}
  <2>1. commands' = Staying(commands, places) /\ places \in SUBSET (1..Len(commands))
    BY <1>3 DEF ShotsOnGameFrame, Prune
  <2> HIDE DEF places
  <2>2. PICK place : ComesFrom(commands', commands, places, place)
    BY <1>1, <2>1, StayingElements
  <2>3. \A k \in 1..Len(commands') : place[k] \in places /\ commands'[k] = commands[place[k]]
    BY <2>2 DEF ComesFrom
  <2> QED
    BY <2>1, <2>3 DEF CommandsKept
<1>4. ASSUME NEW c \in Commands, ShotsOnProcessUsercmds(c) PROVE CommandsKept
  <2> DEFINE new == [number |-> c, serverTick |-> NotSimulated, consumed |-> FALSE]
  <2>1. commands' = Bounded(Append(commands, new), CommandLimit) \/ UNCHANGED commands
    BY <1>4 DEF ShotsOnProcessUsercmds
  <2>2. new \in ShotCommand /\ new.serverTick = NotSimulated
    BY DEF ShotCommand
  <2> HIDE DEF new
  <2>3. CASE commands' = Bounded(Append(commands, new), CommandLimit)
    <3>1. PICK off \in {0, 1} : IsPushed(commands', commands, new, CommandLimit, off)
      BY <1>1, <2>2, <2>3, PushedElements
    <3>2. ASSUME NEW k \in 1..Len(commands')
          PROVE  \/ commands'[k].serverTick = NotSimulated
                 \/ \E j \in 1..Len(commands) : commands'[k] = commands[j]
      <4>1. Len(commands) \in Nat /\ Len(commands') = Len(commands) + 1 - off
        BY <1>1, <3>1 DEF IsPushed
      <4>2. k + off = Len(commands) + 1 \/ k + off \in 1..Len(commands)
        BY <4>1
      <4>3. CASE k + off = Len(commands) + 1
        BY <2>2, <3>1, <4>3 DEF IsPushed
      <4>4. CASE k + off \in 1..Len(commands)
        <5>1. k + off <= Len(commands)
          BY <4>1, <4>4
        <5> QED
          BY <3>1, <4>4, <5>1 DEF IsPushed
      <4> QED
        BY <4>2, <4>3, <4>4
    <3> QED
      BY <3>2 DEF CommandsKept
  <2> QED
    BY <1>2, <2>1, <2>3
<1> QED
  BY <1>2, <1>3, <1>4

LEMMA KeptAreNewest ==
  ASSUME SlotIsSound, CommandsAreSound, UsableAreNewest, CommandsKept,
         UNCHANGED uses, tick' = tick \/ tick' = tick + 1
  PROVE  UsableAreNewest'
<1>1. ASSUME NEW k \in 1..Len(commands'), commands'[k].serverTick # NotSimulated,
             ~commands'[k].consumed, tick' - commands'[k].serverTick \in 0..1,
             NEW p \in Commands, uses[p] # 0
      PROVE  p < commands'[k].number
  <2>1. PICK j \in 1..Len(commands) : commands'[k] = commands[j]
    BY <1>1 DEF CommandsKept
  <2>2. commands[j] \in ShotCommand /\ CommandIsSound(commands[j]) /\ tick \in Nat
    BY SlotNumbers DEF CommandsAreSound
  <2>3. commands[j].serverTick \in Nat /\ commands[j].serverTick <= tick
    BY <1>1, <2>1, <2>2, SlotNumbers DEF ShotCommand, CommandIsSound
  <2>4. tick - commands[j].serverTick \in 0..1
    <3>1. \A t, s \in Nat : s <= t /\ (t - s \in 0..1 \/ (t + 1) - s \in 0..1) => t - s \in 0..1
      OBVIOUS
    <3>2. tick - commands[j].serverTick \in 0..1 \/ (tick + 1) - commands[j].serverTick \in 0..1
      BY <1>1, <2>1, Zenon
    <3> QED
      BY <2>2, <2>3, <3>1, <3>2, Zenon
  <2>5. InWindow(commands[j].serverTick)
    BY <2>4 DEF InWindow, MatchTicks
  <2>6. Newest(commands[j])
    BY DEF UsableAreNewest
  <2>7. p < commands[j].number
    BY <1>1, <2>1, <2>5, <2>6 DEF Newest
  <2> QED
    BY <2>1, <2>7
<1> QED
  BY <1>1 DEF UsableAreNewest, Newest, InWindow, MatchTicks, Commands

LEMMA SimulatedIsNewest ==
  ASSUME SlotIsSound, CommandsAreSound, UsableAreNewest,
         NEW c \in Commands, Simulates(c), ShotsOnSetupMove(c)
  PROVE  UsableAreNewest'
<1>1. c = simulated + 1 /\ simulated \in Nat /\ UNCHANGED <<tick, uses>>
  BY SlotNumbers DEF Simulates, ShotsOnSetupMove
<1> DEFINE E(e) == IF e.number = c THEN [e EXCEPT !.serverTick = tick] ELSE e
<1>2. \A i \in 1..Len(commands) : commands[i] \in ShotCommand
  BY DEF CommandsAreSound
<1>3. commands' = [i \in 1..Len(commands) |-> E(commands[i])] /\ Len(commands) \in Nat
  BY DEF ShotsOnSetupMove, CommandsAreSound
<1>4. \A e \in ShotCommand : \/ E(e).number = c
                             \/ E(e) = e
  BY DEF ShotCommand
<1> HIDE DEF E
<1>5. Len(commands') = Len(commands) /\ \A i \in 1..Len(commands) : commands'[i] = E(commands[i])
  BY <1>3
<1>6. ASSUME NEW k \in 1..Len(commands'), commands'[k].serverTick # NotSimulated,
             ~commands'[k].consumed, InWindow(commands'[k].serverTick),
             NEW p \in Commands, uses[p] # 0
      PROVE  p < commands'[k].number
  <2>1. CASE commands'[k].number = c
    <3>1. p <= simulated /\ p \in Nat
      BY <1>6, SlotNumbers DEF CommandsAreSound
    <3> QED
      BY <1>1, <2>1, <3>1
  <2>2. CASE commands'[k] = commands[k]
    BY <1>5, <1>6, <2>2 DEF UsableAreNewest, Newest
  <2> QED
    BY <1>2, <1>4, <1>5, <2>1, <2>2
<1> QED
  BY <1>1, <1>6 DEF UsableAreNewest, Newest, InWindow, Commands

LEMMA ConsumedAreNewest ==
  ASSUME SlotIsSound, CommandsAreSound, commands' = Consume, UNCHANGED tick
  PROVE  UsableAreNewest'
<1>1. /\ Len(commands') = Len(commands)
      /\ \A i \in 1..Len(commands) :
           /\ commands'[i].serverTick = commands[i].serverTick
           /\ commands'[i].consumed = (commands[i].consumed \/ Usable(i))
  BY ConsumedCommands
<1>2. ASSUME NEW k \in 1..Len(commands'), commands'[k].serverTick # NotSimulated,
             ~commands'[k].consumed, InWindow(commands'[k].serverTick)
      PROVE  FALSE
  <2>1. /\ commands[k].serverTick # NotSimulated /\ InWindow(commands[k].serverTick)
        /\ ~commands[k].consumed /\ ~Usable(k)
    BY <1>1, <1>2, Zenon
  <2> QED
    BY <2>1, Zenon DEF Usable
<1> QED
  BY <1>2 DEF UsableAreNewest, Newest, InWindow

LEMMA NewestStep ==
  ASSUME SlotIsSound, CommandsAreSound, UsableAreNewest, [Next]_vars
  PROVE  UsableAreNewest'
<1>1. CASE Connect
  <2>1. commands' = <<>>
    BY <1>1 DEF Connect, Join, ShotsOfNewcomer, CommandsAreSound
  <2> QED
    BY <2>1 DEF UsableAreNewest
<1>2. CASE OnClientDisconnect \/ Reset
  <2>1. commands' = <<>>
    BY <1>2 DEF OnClientDisconnect, Reset, ShotsCleared, Forget
  <2> QED
    BY <2>1 DEF UsableAreNewest
<1>3. ASSUME UNCHANGED <<tick, commands, uses>> PROVE UsableAreNewest'
  BY <1>3, CommandsAreKept, KeptAreNewest
<1>4. CASE OnClientReady \/ OnPlayerSpawn \/ UNCHANGED vars
  BY <1>3, <1>4 DEF OnClientReady, OnPlayerSpawn, vars, slotVars, shotVars
<1>5. CASE OnFireBullets \/ OnPlayerHurt
  BY <1>3, <1>5 DEF OnFireBullets, ShotsOnFireBullets, OnPlayerHurt, Hurt, slotVars
<1>6. CASE OnGameFrame
  <2>1. ShotsOnGameFrame /\ UNCHANGED uses /\ tick' = tick + 1
    BY <1>6 DEF OnGameFrame, ShotsOnGameFrame, Clock
  <2> QED
    BY <2>1, CommandsAreKept, KeptAreNewest
<1>7. ASSUME NEW c \in Commands, OnProcessUsercmds(c) PROVE UsableAreNewest'
  <2>1. ShotsOnProcessUsercmds(c) /\ UNCHANGED <<tick, uses>>
    BY <1>7 DEF OnProcessUsercmds, ShotsOnProcessUsercmds, Arrives, slotVars
  <2> QED
    BY <2>1, CommandsAreKept, KeptAreNewest
<1>8. ASSUME NEW c \in Commands, OnSetupMove(c) PROVE UsableAreNewest'
  BY <1>8, SimulatedIsNewest DEF OnSetupMove
<1>9. ASSUME NEW w \in Weapons, OnWeaponFire(w) PROVE UsableAreNewest'
  <2>1. UNCHANGED tick
    BY <1>9 DEF OnWeaponFire, slotVars
  <2>2. commands' = Consume
    BY <1>9 DEF OnWeaponFire, Discarded, Shoots, Recorded
  <2> QED
    BY <2>1, <2>2, ConsumedAreNewest
<1>10. ASSUME NEW w \in Weapons, OnPlayerDeath(w) PROVE UsableAreNewest'
  BY <1>3, <1>10 DEF OnPlayerDeath, Died, slotVars
<1>11. ASSUME NEW changed \in BOOLEAN, NEW lapsed \in 0..MaxNameChanges,
              OnClientSettingsChanged(changed, lapsed)
       PROVE  UsableAreNewest'
  BY <1>3, <1>11 DEF OnClientSettingsChanged, slotVars, shotVars
<1> QED
  BY <1>1, <1>2, <1>4, <1>5, <1>6, <1>7, <1>8, <1>9, <1>10, <1>11 DEF Next

-----------------------------------------------------------------------------
\* Shots are stored in the order of their commands.

ShotsAreOrdered ==
  /\ \A i \in 1..Len(shots) : uses[shots[i].command] # 0
  /\ \A i, j \in 1..Len(shots) : i < j => shots[i].command < shots[j].command

LEMMA KeptAreOrdered ==
  ASSUME ShotsAreSound, ShotsAreOrdered, UNCHANGED uses,
         NEW off \in 0..Len(shots), ShotsKept(off)
  PROVE  ShotsAreOrdered'
<1>1. ASSUME NEW k \in 1..Len(shots') PROVE uses[shots'[k].command] # 0
  BY DEF ShotsKept, ShotsAreOrdered
<1>2. ASSUME NEW k \in 1..Len(shots'), NEW l \in 1..Len(shots'), k < l
      PROVE  shots'[k].command < shots'[l].command
  <2>1. /\ k + off \in 1..Len(shots) /\ shots'[k].command = shots[k + off].command
        /\ l + off \in 1..Len(shots) /\ shots'[l].command = shots[l + off].command
    BY DEF ShotsKept
  <2>2. k + off < l + off
    BY <1>2
  <2> QED
    BY <2>1, <2>2 DEF ShotsAreOrdered
<1> QED
  BY <1>1, <1>2 DEF ShotsAreOrdered

LEMMA NewestUsed ==
  ASSUME CommandsAreSound, UsableAreNewest, NEW i \in UsableCommands
  PROVE  /\ commands[i].number \in Commands
         /\ \A p \in Commands : uses[p] # 0 => p < commands[i].number
<1>1. i \in 1..Len(commands) /\ Usable(i)
  BY DEF UsableCommands
<1>2. commands[i] \in ShotCommand /\ Newest(commands[i])
  BY <1>1 DEF CommandsAreSound, UsableAreNewest
<1> QED
  BY <1>1, <1>2 DEF Usable, Newest, ShotCommand

LEMMA PushedAreOrdered ==
  ASSUME CommandsAreSound, ShotsAreSound, ShotsAreOrdered,
         NEW new, new.command \in Commands,
         \A p \in Commands : uses[p] # 0 => p < new.command,
         uses' = [uses EXCEPT ![new.command] = Twice(@)],
         NEW off \in {0, 1}, IsPushed(shots', shots, new, ShotLimit, off)
  PROVE  ShotsAreOrdered' /\ \A p \in Commands : uses[p] # 0 => uses'[p] # 0
<1>1. \A p \in Commands : uses'[p] = IF p = new.command THEN Twice(uses[p]) ELSE uses[p]
  BY DEF CommandsAreSound
<1>2. \A p \in Commands : Twice(uses[p]) # 0
  BY DEF CommandsAreSound, Twice
<1>3. \A p \in Commands : uses[p] # 0 \/ p = new.command => uses'[p] # 0
  BY <1>1, <1>2
<1>4. \A i \in 1..Len(shots) : shots[i].command \in Commands
  <2>1. \A i \in 1..Len(shots) : shots[i] \in ShotRecord
    BY DEF ShotsAreSound
  <2> QED
    BY <2>1 DEF ShotRecord
<1>5. Len(shots) \in Int /\ Len(shots') = Len(shots) + 1 - off
  BY DEF ShotsAreSound, IsPushed
<1>6. ASSUME NEW k \in 1..Len(shots')
      PROVE  \/ k + off = Len(shots) + 1 /\ shots'[k] = new
             \/ k + off \in 1..Len(shots) /\ shots'[k] = shots[k + off]
  <2>1. k + off = Len(shots) + 1 \/ (k + off <= Len(shots) /\ k + off \in 1..Len(shots))
    BY <1>5
  <2> QED
    BY <2>1 DEF IsPushed
<1>7. ASSUME NEW k \in 1..Len(shots') PROVE uses'[shots'[k].command] # 0
  <2>1. CASE shots'[k] = new
    BY <1>3, <2>1
  <2>2. CASE k + off \in 1..Len(shots) /\ shots'[k] = shots[k + off]
    BY <1>3, <1>4, <2>2 DEF ShotsAreOrdered
  <2> QED
    BY <1>6, <2>1, <2>2
<1>8. ASSUME NEW k \in 1..Len(shots'), NEW l \in 1..Len(shots'), k < l
      PROVE  shots'[k].command < shots'[l].command
  <2>1. k + off < l + off /\ l + off <= Len(shots) + 1
    BY <1>5, <1>8
  <2>2. k + off # Len(shots) + 1
    BY <1>5, <2>1
  <2>3. k + off \in 1..Len(shots) /\ shots'[k] = shots[k + off]
    BY <1>6, <2>2
  <2>4. CASE shots'[l] = new
    BY <1>4, <2>3, <2>4 DEF ShotsAreOrdered
  <2>5. CASE l + off \in 1..Len(shots) /\ shots'[l] = shots[l + off]
    BY <2>1, <2>3, <2>5 DEF ShotsAreOrdered
  <2> QED
    BY <1>6, <2>4, <2>5
<1> QED
  BY <1>3, <1>7, <1>8 DEF ShotsAreOrdered

(***************************************************************************)
(* Every step keeps the order: a new shot bears the newest command.        *)
(***************************************************************************)
LEMMA OrderStep ==
  ASSUME SlotIsSound, CommandsAreSound, ShotsAreSound, UsableAreNewest, ShotsAreOrdered, [Next]_vars
  PROVE  ShotsAreOrdered'
<1>1. ASSUME shots' = <<>> PROVE ShotsAreOrdered'
  BY <1>1 DEF ShotsAreOrdered
<1>2. CASE Connect \/ OnClientDisconnect \/ Reset
  BY <1>1, <1>2 DEF Connect, Join, ShotsOfNewcomer, ShotsAreSound, OnClientDisconnect, Reset,
     ShotsCleared, Forget
<1>3. ASSUME UNCHANGED <<uses, shots>> PROVE ShotsAreOrdered'
  BY <1>3, UnchangedAreKept, KeptAreOrdered
<1>4. CASE OnClientReady \/ OnPlayerSpawn \/ UNCHANGED vars
  BY <1>3, <1>4 DEF OnClientReady, OnPlayerSpawn, vars, shotVars
<1>5. CASE OnFireBullets
  <2>1. PICK i \in 1..Len(shots), s \in ShotRecord :
          ShotMarked(i, s) /\ SameShot(s, shots[i]) /\ InWindow(shots[i].fireTick)
    BY <1>5, FireBulletsMarks DEF OnFireBullets
  <2>2. UNCHANGED <<tick, connection, connected, enabled, recorded, uses>>
    BY <1>5 DEF OnFireBullets, ShotsOnFireBullets, slotVars
  <2> QED
    BY <2>1, <2>2, MarkedAreKept, KeptAreOrdered
<1>6. CASE OnPlayerHurt
  <2>1. PICK i \in 1..Len(shots) : Hurt(i)
    BY <1>6 DEF OnPlayerHurt
  <2>2. UNCHANGED <<tick, connection, connected, enabled, recorded, uses>>
    BY <1>6, <2>1 DEF OnPlayerHurt, Hurt, slotVars
  <2>3. PICK s \in ShotRecord : ShotMarked(i, s) /\ SameShot(s, shots[i])
    BY <2>1, HurtMarks
  <2> QED
    BY <2>2, <2>3, MarkedAreKept, KeptAreOrdered
<1>7. CASE OnGameFrame
  <2>1. PICK off \in 0..Len(shots) : ShotsKept(off)
    BY <1>7, PrunedAreKept DEF OnGameFrame
  <2>2. UNCHANGED uses
    BY <1>7 DEF OnGameFrame, ShotsOnGameFrame
  <2> QED
    BY <2>1, <2>2, KeptAreOrdered
<1>8. ASSUME NEW c \in Commands, OnProcessUsercmds(c) \/ OnSetupMove(c) PROVE ShotsAreOrdered'
  BY <1>3, <1>8 DEF OnProcessUsercmds, ShotsOnProcessUsercmds, OnSetupMove, ShotsOnSetupMove
<1>9. ASSUME NEW w \in Weapons, OnWeaponFire(w) PROVE ShotsAreOrdered'
  <2>1. connected /\ UNCHANGED <<tick, connection, connected, enabled>>
    BY <1>9 DEF OnWeaponFire, slotVars
  <2>2. CASE Discarded
    BY <1>3, <2>2 DEF Discarded
  <2>3. CASE Shoots(w)
    <3>1. PICK i \in UsableCommands, difficult \in BOOLEAN :
            Recorded(NewShot(commands[i].number, w, difficult))
      BY <2>3 DEF Shoots
    <3> DEFINE new == NewShot(commands[i].number, w, difficult)
    <3>2. i \in 1..Len(commands)
      BY DEF UsableCommands
    <3>3. PICK off \in {0, 1} : IsPushed(shots', shots, new, ShotLimit, off)
      BY <2>1, <3>1, <3>2, NewShotIsRecorded
    <3>4. new.command = commands[i].number /\ uses' = [uses EXCEPT ![new.command] = Twice(@)]
      BY <3>1 DEF NewShot, Recorded
    <3> HIDE DEF new
    <3>5. new.command \in Commands /\ \A p \in Commands : uses[p] # 0 => p < new.command
      BY <3>4, NewestUsed
    <3> QED
      BY <3>3, <3>4, <3>5, PushedAreOrdered
  <2> QED
    BY <1>9, <2>2, <2>3 DEF OnWeaponFire
<1>10. ASSUME NEW w \in Weapons, OnPlayerDeath(w) PROVE ShotsAreOrdered'
  <2>1. PICK i \in 1..Len(shots) : Died(w, i)
    BY <1>10 DEF OnPlayerDeath
  <2>2. UNCHANGED <<tick, connection, connected, enabled, recorded, uses>>
    BY <1>10, <2>1 DEF OnPlayerDeath, Died, slotVars
  <2>3. PICK s \in ShotRecord : ShotMarked(i, s) /\ SameShot(s, shots[i])
    BY <2>1, DiedMarks
  <2> QED
    BY <2>2, <2>3, MarkedAreKept, KeptAreOrdered
<1>11. ASSUME NEW changed \in BOOLEAN, NEW lapsed \in 0..MaxNameChanges,
              OnClientSettingsChanged(changed, lapsed)
       PROVE  ShotsAreOrdered'
  BY <1>3, <1>11 DEF OnClientSettingsChanged, shotVars
<1> QED
  BY <1>2, <1>4, <1>5, <1>6, <1>7, <1>8, <1>9, <1>10, <1>11 DEF Next

-----------------------------------------------------------------------------
\* Hits that wait.

\* If command p was simulated, as far as the module knows, it was so at tick t or before.
HitBefore(d, p, t) ==
  \A j \in 1..Len(d.commands) :
    d.commands[j].number = p /\ d.commands[j].serverTick # NotSimulated =>
      d.commands[j].serverTick <= t

HitTimes ==
  /\ \A j \in 1..Len(aimbot.commands) : aimbot.commands[j].serverTick <= tick
  /\ \A i \in 1..Len(shots) : HitBefore(aimbot, shots[i].command, shots[i].fireTick)

\* The shot that waits is stored with its hit, or it is older than every stored one and
\* cannot be mistaken for the last of them.
Known ==
  LET p == aimbot.pendingShot
  IN \/ \E i \in 1..Len(shots) : shots[i].command = p /\ shots[i].hurtSeen
     \/ /\ \A i \in 1..Len(shots) : p < shots[i].command
        /\ \/ HitBefore(aimbot, p, tick - 2)
           \/ Len(shots) >= 2 /\ HitBefore(aimbot, p, shots[Len(shots) - 1].fireTick)

HitIsKnown ==
  ~aimbot.forgotten /\ (aimbot.pendingShot # NoCommand => uses[aimbot.pendingShot] # 0 /\ Known)

HitsAreSound == HitTimes /\ HitIsKnown

\* Only a command newer than every shot was simulated.
AimKept ==
  \A k \in 1..Len(aimbot'.commands) :
    \/ aimbot'.commands[k].serverTick = NotSimulated
    \/ \E j \in 1..Len(aimbot.commands) : aimbot'.commands[k] = aimbot.commands[j]
    \/ /\ aimbot'.commands[k].serverTick = tick
       /\ \A p \in Commands : uses[p] # 0 => p < aimbot'.commands[k].number

HitKept ==
  /\ AimKept
  /\ aimbot'.forgotten = aimbot.forgotten
  /\ aimbot'.pendingShot \in {NoCommand, aimbot.pendingShot}

LEMMA HitStaysBefore ==
  ASSUME SlotIsSound, AimKept, NEW p \in Commands, uses[p] # 0, NEW t, HitBefore(aimbot, p, t)
  PROVE  HitBefore(aimbot', p, t)
<1>1. ASSUME NEW k \in 1..Len(aimbot'.commands), aimbot'.commands[k].number = p,
             aimbot'.commands[k].serverTick # NotSimulated
      PROVE  aimbot'.commands[k].serverTick <= t
  <2>1. ~(p < p)
    BY SlotNumbers
  <2>2. PICK j \in 1..Len(aimbot.commands) : aimbot'.commands[k] = aimbot.commands[j]
    BY <1>1, <2>1 DEF AimKept
  <2> QED
    BY <1>1, <2>2 DEF HitBefore
<1> QED
  BY <1>1 DEF HitBefore

LEMMA LaterIsBefore ==
  ASSUME NEW d \in AimbotData, NEW p, NEW s \in Int, NEW t \in Int, s <= t, HitBefore(d, p, s)
  PROVE  HitBefore(d, p, t)
<1>1. ASSUME NEW j \in 1..Len(d.commands), d.commands[j].number = p,
             d.commands[j].serverTick # NotSimulated
      PROVE  d.commands[j].serverTick <= t
  <2>1. d.commands[j] \in AimCommand
    BY DEF AimbotData
  <2>2. d.commands[j].serverTick \in Int
    BY <2>1, SlotAssumption DEF AimCommand, Ticks, NotSimulated
  <2>3. d.commands[j].serverTick <= s
    BY <1>1 DEF HitBefore
  <2> QED
    BY <2>2, <2>3
<1> QED
  BY <1>1 DEF HitBefore

LEMMA EvaluationKeeps ==
  ASSUME NEW d \in AimbotData, NEW now, NEW captured, NEW e \in Evaluated(d, now, captured)
  PROVE  /\ e.commands = d.commands /\ e.forgotten = d.forgotten
         /\ e.pendingShot \in {NoCommand, d.pendingShot}
         /\ e = d \/ e.pendingShot = NoCommand
<1>1. PICK present \in BOOLEAN, fair \in BOOLEAN, snaps \in SUBSET Movements(d, d.pendingShot),
           returned \in BOOLEAN, detected \in BOOLEAN :
        e = Evaluate(d, now, captured, present, fair, snaps, returned, detected)
  BY DEF Evaluated
<1> DEFINE converged == Converged(d, d.pendingShot, snaps)
<1>2. e = d \/ e = Rejected(d) \/ e = Incident(d, converged, detected)
  BY <1>1, Zenon DEF Evaluate
<1> HIDE DEF converged
<1>3. CASE e = Rejected(d)
  BY <1>3 DEF Rejected, AimbotData
<1>4. CASE e = Incident(d, converged, detected)
  <2> DEFINE evidence_1 == IF detected THEN {} ELSE d.evidence \union {connection}
             counted == [c \in Commands |-> IF c \in converged THEN Twice(d.counted[c])
                                            ELSE d.counted[c]]
  <2>1. e = [d EXCEPT !.pendingShot = NoCommand, !.lastCountedIncidentCommand = d.pendingShot,
                      !.evidence = evidence_1, !.counted = counted]
    BY <1>4 DEF Incident
  <2> HIDE DEF evidence_1, counted
  <2> QED
    BY <2>1 DEF AimbotData
<1> QED
  BY <1>2, <1>3, <1>4

LEMMA EvaluatedIsKept ==
  ASSUME AimbotIsSound, NEW now, NEW captured, aimbot' \in Evaluated(aimbot, now, captured)
  PROVE  HitKept
<1>1. aimbot \in AimbotData
  BY DEF AimbotIsSound, AimbotDataIsSound
<1>2. /\ aimbot'.commands = aimbot.commands /\ aimbot'.forgotten = aimbot.forgotten
      /\ aimbot'.pendingShot \in {NoCommand, aimbot.pendingShot}
  BY <1>1, EvaluationKeeps
<1> QED
  BY <1>2 DEF HitKept, AimKept

LEMMA ArrivedIsKept ==
  ASSUME AimbotIsSound, NEW c \in Commands, aimbot' = AimbotOnProcessUsercmds(aimbot, c)
  PROVE  HitKept
<1> DEFINE new == [number |-> c, serverTick |-> NotSimulated]
           s == Bounded(Append(aimbot.commands, new), AimHistory)
           n == Len(aimbot.commands)
<1>1. /\ new \in AimCommand /\ new.serverTick = NotSimulated
      /\ aimbot \in AimbotData /\ aimbot.commands \in Seq(AimCommand) /\ n <= AimHistory
      /\ AimHistory \in Nat \ {0}
  BY AimbotAssumption DEF AimCommand, AimbotIsSound, AimbotDataIsSound, AimbotData
<1>2. CASE aimbot' = aimbot
  BY <1>2 DEF HitKept, AimKept
<1>3. CASE aimbot' = [aimbot EXCEPT !.commands = s]
  <2> HIDE DEF new
  <2>1. PICK off \in {0, 1} : IsPushed(s, aimbot.commands, new, AimHistory, off)
    BY <1>1, PushedElements
  <2> HIDE DEF s
  <2>2. /\ aimbot'.commands = s /\ aimbot'.forgotten = aimbot.forgotten
        /\ aimbot'.pendingShot = aimbot.pendingShot
    BY <1>1, <1>3 DEF AimbotData
  <2>3. ASSUME NEW k \in 1..Len(s)
        PROVE  s[k] = new \/ \E j \in 1..n : s[k] = aimbot.commands[j]
    <3>1. n \in Nat /\ Len(s) = n + 1 - off
      BY <1>1, <2>1 DEF IsPushed
    <3>2. k + off = n + 1 \/ (k + off <= n /\ k + off \in 1..n)
      BY <3>1
    <3> QED
      BY <2>1, <3>2 DEF IsPushed
  <2> QED
    BY <1>1, <2>2, <2>3 DEF HitKept, AimKept
<1> QED
  BY <1>2, <1>3 DEF AimbotOnProcessUsercmds

\* The command that is simulated is newer than every shot's.
LEMMA SimulatedIsKept ==
  ASSUME SlotIsSound, CommandsAreSound, AimbotIsSound,
         NEW c \in Commands, Simulates(c), aimbot' \in AimbotOnSetupMove(aimbot, c)
  PROVE  HitKept
<1> DEFINE f == AimSimulates(aimbot, c)
           E(x) == IF x.number = c THEN [x EXCEPT !.serverTick = tick] ELSE x
           s == [i \in 1..Len(aimbot.commands) |-> E(aimbot.commands[i])]
<1>1. aimbot \in AimbotData /\ Len(aimbot.commands) \in Nat
      /\ \A i \in 1..Len(aimbot.commands) : aimbot.commands[i] \in AimCommand
  BY DEF AimbotIsSound, AimbotDataIsSound, AimbotData
<1>2. \A p \in Commands : uses[p] # 0 => p < c
  BY SlotNumbers DEF CommandsAreSound, Simulates
<1>3. CASE aimbot' = aimbot
  BY <1>3 DEF HitKept, AimKept
<1>4. CASE aimbot' \in Evaluated(f, tick, tick - 1)
  <2>1. f = [aimbot EXCEPT !.commands = s]
    BY DEF AimSimulates
  <2>2. \A x \in AimCommand : E(x) = x \/ (E(x).number = c /\ E(x).serverTick = tick)
    BY DEF AimCommand
  <2>3. f \in AimbotData
    BY AimCommandIsSimulated DEF AimbotIsSound, AimbotDataIsSound
  <2> HIDE DEF E
  <2>4. Len(s) = Len(aimbot.commands) /\ \A i \in 1..Len(s) : s[i] = E(aimbot.commands[i])
    BY <1>1
  <2> HIDE DEF s
  <2>5. f.commands = s /\ f.forgotten = aimbot.forgotten /\ f.pendingShot = aimbot.pendingShot
    BY <1>1, <2>1 DEF AimbotData
  <2> HIDE DEF f
  <2>6. /\ aimbot'.commands = s /\ aimbot'.forgotten = aimbot.forgotten
        /\ aimbot'.pendingShot \in {NoCommand, aimbot.pendingShot}
    BY <1>4, <2>3, <2>5, EvaluationKeeps
  <2>7. ASSUME NEW k \in 1..Len(s)
        PROVE  \/ s[k] = aimbot.commands[k]
               \/ s[k].serverTick = tick /\ s[k].number = c
    BY <1>1, <2>2, <2>4
  <2> QED
    BY <1>2, <2>4, <2>6, <2>7 DEF HitKept, AimKept
<1> QED
  BY <1>3, <1>4 DEF AimbotOnSetupMove

LEMMA TimesAreKept ==
  ASSUME SlotIsSound, CommandsAreSound, AimbotIsSound, HitTimes, AimKept,
         tick' = tick \/ tick' = tick + 1
  PROVE  \A j \in 1..Len(aimbot'.commands) : aimbot'.commands[j].serverTick <= tick'
<1>1. tick \in Nat /\ Ticks \subseteq Nat
  BY SlotNumbers
<1>2. ASSUME NEW k \in 1..Len(aimbot'.commands) PROVE aimbot'.commands[k].serverTick <= tick'
  <2>1. CASE aimbot'.commands[k].serverTick = NotSimulated
    BY <1>1, <2>1 DEF NotSimulated
  <2>2. CASE aimbot'.commands[k].serverTick = tick
    BY <1>1, <2>2
  <2>3. ASSUME NEW j \in 1..Len(aimbot.commands), aimbot'.commands[k] = aimbot.commands[j]
        PROVE  aimbot'.commands[k].serverTick <= tick'
    <3>1. aimbot.commands[j] \in AimCommand
      BY DEF AimbotIsSound, AimbotDataIsSound, AimbotData
    <3>2. aimbot.commands[j].serverTick \in Ticks \union {NotSimulated}
      BY <3>1 DEF AimCommand
    <3>3. aimbot.commands[j].serverTick \in Int
      BY <3>2, SlotAssumption DEF Ticks, NotSimulated
    <3>4. aimbot.commands[j].serverTick <= tick
      BY Zenon DEF HitTimes
    <3> QED
      BY <1>1, <2>3, <3>3, <3>4
  <2> QED
    BY <2>1, <2>2, <2>3 DEF AimKept
<1> QED
  BY <1>2

LEMMA ShotCommands ==
  ASSUME ShotsAreSound, ShotsAreOrdered
  PROVE  /\ Len(shots) \in Nat
         /\ \A i \in 1..Len(shots) :
              /\ shots[i].command \in Commands /\ uses[shots[i].command] # 0
              /\ shots[i].fireTick \in Nat /\ shots[i].fireTick <= tick
<1>1. ASSUME NEW i \in 1..Len(shots)
      PROVE  /\ shots[i].command \in Commands /\ shots[i].fireTick \in Nat
             /\ shots[i].fireTick <= tick
  <2>1. shots[i] \in ShotRecord /\ ShotIsSound(shots[i])
    BY DEF ShotsAreSound
  <2> QED
    BY <2>1, ShotNumbers DEF ShotRecord, ShotIsSound
<1>2. Len(shots) \in Nat
  BY DEF ShotsAreSound
<1> QED
  BY <1>1, <1>2 DEF ShotsAreOrdered

\* Shots only leave at the front.
LEMMA KeptTimes ==
  ASSUME SlotIsSound, CommandsAreSound, ShotsAreSound, ShotsAreOrdered, AimbotIsSound, HitTimes,
         AimKept, tick' = tick \/ tick' = tick + 1,
         NEW off \in 0..Len(shots), ShotsKept(off)
  PROVE  HitTimes'
<1>1. \A j \in 1..Len(aimbot'.commands) : aimbot'.commands[j].serverTick <= tick'
  BY TimesAreKept
<1>2. ASSUME NEW k \in 1..Len(shots')
      PROVE  HitBefore(aimbot', shots'[k].command, shots'[k].fireTick)
  <2>1. /\ k + off \in 1..Len(shots) /\ shots'[k].command = shots[k + off].command
        /\ shots'[k].fireTick = shots[k + off].fireTick
    BY DEF ShotsKept
  <2>2. /\ HitBefore(aimbot, shots'[k].command, shots'[k].fireTick)
        /\ shots'[k].command \in Commands /\ uses[shots'[k].command] # 0
    BY <2>1, ShotCommands DEF HitTimes
  <2> QED
    BY <2>2, HitStaysBefore
<1> QED
  BY <1>1, <1>2 DEF HitTimes, HitBefore

LEMMA WaitingHit ==
  ASSUME AimbotIsSound, aimbot.pendingShot # NoCommand
  PROVE  aimbot.pendingShot \in Commands
BY DEF AimbotIsSound, AimbotDataIsSound, AimbotData

LEMMA KeptHits ==
  ASSUME SlotIsSound, CommandsAreSound, ShotsAreSound, ShotsAreOrdered, AimbotIsSound,
         HitsAreSound, HitKept, UNCHANGED uses,
         NEW off \in 0..Len(shots), ShotsKept(off),
         \/ tick' = tick /\ off = 0
         \/ tick' = tick + 1 /\ SuffixStays(off)
  PROVE  HitsAreSound'
<1> DEFINE p == aimbot.pendingShot
           n == Len(shots)
<1>1. HitTimes'
  BY KeptTimes DEF HitsAreSound, HitKept
<1>2. ASSUME aimbot'.pendingShot # NoCommand
      PROVE  uses[aimbot'.pendingShot] # 0 /\ Known'
  <2>1. aimbot'.pendingShot = p /\ p # NoCommand /\ p \in Commands /\ uses[p] # 0 /\ Known
    BY <1>2, WaitingHit DEF HitKept, HitsAreSound, HitIsKnown
  <2>2. /\ n \in Nat /\ Len(shots') = n - off /\ off \in Nat /\ off <= n /\ tick \in Nat
        /\ aimbot \in AimbotData /\ AimKept
    BY ShotCommands, SlotNumbers DEF ShotsKept, AimbotIsSound, AimbotDataIsSound, HitKept
  <2>3. \A k \in 1..Len(shots') :
          /\ k + off \in 1..n /\ shots'[k].command = shots[k + off].command
          /\ shots'[k].fireTick = shots[k + off].fireTick
          /\ shots[k + off].hurtSeen => shots'[k].hurtSeen
    BY DEF ShotsKept
  <2>4. \A i \in 1..n : shots[i].fireTick \in Nat /\ shots[i].command \in Commands
    BY ShotCommands
  <2>5. ASSUME NEW t \in Int, HitBefore(aimbot, p, t) PROVE HitBefore(aimbot', p, t)
    BY <2>1, <2>2, <2>5, HitStaysBefore
  <2>6. ASSUME NEW i \in 1..n, i <= off, HitBefore(aimbot, p, shots[i].fireTick)
        PROVE  HitBefore(aimbot', p, tick' - 2)
    <3>1. tick' = tick + 1 /\ TooOld(Age(i))
      BY <2>6 DEF SuffixStays
    <3>2. shots[i].fireTick \in Int /\ tick' - 2 \in Int /\ shots[i].fireTick <= tick' - 2
      BY <2>2, <2>4, <3>1 DEF TooOld, Age, LifetimeTicks
    <3> QED
      BY <2>2, <2>5, <2>6, <3>2, LaterIsBefore
  <2>7. CASE \A i \in 1..n : p < shots[i].command
    <3>1. HitBefore(aimbot, p, tick - 2) \/ (n >= 2 /\ HitBefore(aimbot, p, shots[n - 1].fireTick))
      <4>1. \A a \in Nat : ~(a < a)
        OBVIOUS
      <4>2. p \in Nat
        BY <2>1, SlotNumbers
      <4>3. ~\E i \in 1..n : shots[i].command = p
        BY <2>7, <4>1, <4>2, Zenon
      <4> QED
        BY <2>1, <4>3, Zenon DEF Known
    <3>2. \A k \in 1..Len(shots') : p < shots'[k].command
      BY <2>3, <2>7
    <3>3. HitBefore(aimbot', p, tick' - 2)
          \/ (Len(shots') >= 2 /\ HitBefore(aimbot', p, shots'[Len(shots') - 1].fireTick))
      <4>1. CASE HitBefore(aimbot, p, tick - 2)
        <5>1. tick - 2 \in Int /\ tick' - 2 \in Int /\ tick - 2 <= tick' - 2
          BY <2>2
        <5> QED
          BY <2>2, <2>5, <4>1, <5>1, LaterIsBefore
      <4>2. CASE n >= 2 /\ HitBefore(aimbot, p, shots[n - 1].fireTick)
        <5>1. n - 1 \in 1..n
          BY <2>2, <4>2
        <5>2. CASE n - 1 <= off
          BY <2>6, <4>2, <5>1, <5>2
        <5>3. CASE ~(n - 1 <= off)
          <6>1. /\ Len(shots') >= 2 /\ Len(shots') - 1 \in 1..Len(shots')
                /\ (Len(shots') - 1) + off = n - 1
            BY <2>2, <5>3
          <6>2. shots'[Len(shots') - 1].fireTick = shots[n - 1].fireTick
            BY <2>3, <6>1
          <6>3. shots[n - 1].fireTick \in Int
            BY <2>4, <5>1
          <6>4. HitBefore(aimbot', p, shots[n - 1].fireTick)
            BY <2>5, <4>2, <6>3
          <6> QED
            BY <6>1, <6>2, <6>4
        <5> QED
          BY <5>2, <5>3
      <4> QED
        BY <3>1, <4>1, <4>2
    <3> HIDE DEF p
    <3> QED
      BY <2>1, <3>2, <3>3, Zenon DEF Known, HitBefore
  <2>8. ASSUME NEW i \in 1..n, shots[i].command = p, shots[i].hurtSeen
        PROVE  Known'
    <3>1. CASE off < i
      <4>1. i - off \in 1..Len(shots') /\ (i - off) + off = i
        BY <2>2, <3>1
      <4>2. shots'[i - off].command = p /\ shots'[i - off].hurtSeen
        BY <2>3, <2>8, <4>1
      <4> QED
        BY <2>1, <4>1, <4>2 DEF Known
    <3>2. CASE ~(off < i)
      <4>1. i <= off
        BY <2>2, <3>2
      <4>2. HitBefore(aimbot, p, shots[i].fireTick)
        BY <2>8 DEF HitsAreSound, HitTimes
      <4>3. HitBefore(aimbot', p, tick' - 2)
        BY <2>6, <4>1, <4>2
      <4>4. ASSUME NEW k \in 1..Len(shots') PROVE p < shots'[k].command
        <5>1. i < k + off /\ k + off \in 1..n /\ shots'[k].command = shots[k + off].command
          BY <2>2, <2>3, <4>1
        <5> QED
          BY <2>8, <5>1 DEF ShotsAreOrdered
      <4> HIDE DEF p
      <4> QED
        BY <2>1, <4>3, <4>4, Zenon DEF Known, HitBefore
    <3> QED
      BY <3>1, <3>2
  <2>9. Known'
    BY <2>1, <2>7, <2>8 DEF Known
  <2> QED
    BY <2>1, <2>9
<1>3. ~aimbot'.forgotten
  BY DEF HitKept, HitsAreSound, HitIsKnown
<1> QED
  BY <1>1, <1>2, <1>3 DEF HitsAreSound, HitIsKnown

\* A shot is recorded; nothing becomes of what waits.
LEMMA PushedHits ==
  ASSUME SlotIsSound, CommandsAreSound, ShotsAreSound, ShotsAreOrdered, AimbotIsSound,
         HitsAreSound, UNCHANGED <<tick, aimbot>>,
         NEW new, new.command \in Commands, new.fireTick = tick,
         \A p \in Commands : uses[p] # 0 => p < new.command /\ uses'[p] # 0,
         NEW off \in {0, 1}, IsPushed(shots', shots, new, ShotLimit, off)
  PROVE  HitsAreSound'
<1> DEFINE p == aimbot.pendingShot
           n == Len(shots)
<1>1. /\ n \in Nat /\ Len(shots') = n + 1 - off /\ (off = 1 => n >= 2) /\ tick \in Nat
      /\ aimbot \in AimbotData
  <2>1. n \in Nat /\ Len(shots') = n + 1 - off /\ (off = 1 => n = ShotLimit) /\ tick \in Nat
    BY ShotCommands, SlotNumbers DEF IsPushed
  <2> QED
    BY <2>1, LimitAssumption DEF AimbotIsSound, AimbotDataIsSound
<1>2. ASSUME NEW k \in 1..Len(shots')
      PROVE  \/ shots'[k] = new
             \/ k + off \in 1..n /\ shots'[k] = shots[k + off]
  <2>1. k + off = n + 1 \/ (k + off <= n /\ k + off \in 1..n)
    BY <1>1
  <2> QED
    BY <2>1 DEF IsPushed
<1>3. \A i \in 1..n : /\ shots[i].fireTick \in Nat /\ shots[i].fireTick <= tick
                      /\ shots[i].command \in Commands /\ uses[shots[i].command] # 0
  BY ShotCommands
<1>4. \A t : HitBefore(aimbot', p, t) = HitBefore(aimbot, p, t)
  OBVIOUS
<1>5. HitTimes'
  <2>1. ASSUME NEW k \in 1..Len(shots')
        PROVE  HitBefore(aimbot, shots'[k].command, shots'[k].fireTick)
    <3>1. CASE shots'[k] = new
      BY <3>1 DEF HitBefore, HitsAreSound, HitTimes
    <3>2. CASE k + off \in 1..n /\ shots'[k] = shots[k + off]
      BY <3>2 DEF HitsAreSound, HitTimes
    <3> QED
      BY <1>2, <3>1, <3>2
  <2> QED
    BY <2>1 DEF HitsAreSound, HitTimes, HitBefore
<1>6. ASSUME p # NoCommand PROVE uses'[p] # 0 /\ Known'
  <2>1. p \in Commands /\ uses[p] # 0 /\ Known /\ p < new.command /\ uses'[p] # 0
    BY <1>6, WaitingHit DEF HitsAreSound, HitIsKnown
  \* The shot before the last is now the one that was last.
  <2>2. ASSUME NEW i \in 1..n, HitBefore(aimbot, p, shots[i].fireTick), n >= 2
        PROVE  /\ Len(shots') >= 2
               /\ HitBefore(aimbot, p, shots'[Len(shots') - 1].fireTick)
    <3>1. /\ Len(shots') - 1 \in 1..Len(shots') /\ (Len(shots') - 1) + off = n
          /\ n \in 1..n /\ Len(shots') >= 2
      BY <1>1, <2>2
    <3>2. shots'[Len(shots') - 1] = shots[n]
      <4>1. (Len(shots') - 1) + off <= n
        BY <1>1, <3>1
      <4> QED
        BY <3>1, <4>1 DEF IsPushed
    <3>3. shots[i].fireTick <= shots[n].fireTick
      <4>1. i = n \/ i < n
        BY <1>1
      <4>2. CASE i = n
        BY <1>3, <4>2
      <4>3. CASE i < n
        BY <3>1, <4>3 DEF ShotsAreSound
      <4> QED
        BY <4>1, <4>2, <4>3
    <3>4. shots[i].fireTick \in Int /\ shots[n].fireTick \in Int
      <4>1. shots[i].fireTick \in Nat /\ shots[n].fireTick \in Nat
        BY <1>3, <3>1, Zenon
      <4> QED
        BY <4>1
    <3>5. HitBefore(aimbot, p, shots[n].fireTick)
      BY <1>1, <2>2, <3>3, <3>4, LaterIsBefore
    <3> QED
      BY <3>1, <3>2, <3>5
  <2>3. CASE \A i \in 1..n : p < shots[i].command
    <3>1. HitBefore(aimbot, p, tick - 2) \/ (n >= 2 /\ HitBefore(aimbot, p, shots[n - 1].fireTick))
      <4>1. \A a \in Nat : ~(a < a)
        OBVIOUS
      <4>2. p \in Nat
        BY <2>1, SlotNumbers
      <4>3. ~\E i \in 1..n : shots[i].command = p
        BY <2>3, <4>1, <4>2, Zenon
      <4> QED
        BY <2>1, <4>3, Zenon DEF Known
    <3>2. \A k \in 1..Len(shots') : p < shots'[k].command
      BY <1>2, <2>1, <2>3
    <3>3. HitBefore(aimbot, p, tick - 2)
          \/ (Len(shots') >= 2 /\ HitBefore(aimbot, p, shots'[Len(shots') - 1].fireTick))
      <4>1. n >= 2 => n - 1 \in 1..n
        BY <1>1
      <4> QED
        BY <2>2, <3>1, <4>1
    <3> QED
      BY <2>1, <3>2, <3>3 DEF Known, HitBefore
  <2>4. ASSUME NEW i \in 1..n, shots[i].command = p, shots[i].hurtSeen PROVE Known'
    <3>1. CASE off < i
      <4>1. i - off \in 1..Len(shots') /\ (i - off) + off = i /\ i <= n
        BY <1>1, <3>1
      <4>2. shots'[i - off] = shots[i]
        <5>1. (i - off) + off <= n
          BY <1>1, <4>1
        <5> QED
          BY <4>1, <5>1 DEF IsPushed
      <4> QED
        BY <2>4, <4>1, <4>2 DEF Known
    <3>2. CASE ~(off < i)
      <4>1. i = 1 /\ off = 1 /\ n >= 2
        BY <1>1, <3>2
      <4>2. HitBefore(aimbot, p, shots[i].fireTick)
        BY <2>4 DEF HitsAreSound, HitTimes
      <4>3. /\ Len(shots') >= 2
            /\ HitBefore(aimbot, p, shots'[Len(shots') - 1].fireTick)
        BY <2>2, <4>1, <4>2
      <4>4. ASSUME NEW k \in 1..Len(shots') PROVE p < shots'[k].command
        <5>1. CASE shots'[k] = new
          BY <2>1, <5>1
        <5>2. CASE k + off \in 1..n /\ shots'[k] = shots[k + off]
          <6>1. i < k + off
            BY <4>1
          <6> QED
            BY <2>4, <5>2, <6>1 DEF ShotsAreOrdered
        <5> QED
          BY <1>2, <5>1, <5>2
      <4> QED
        BY <4>3, <4>4 DEF Known, HitBefore
    <3> QED
      BY <3>1, <3>2
  <2> QED
    BY <2>1, <2>3, <2>4 DEF Known
<1> QED
  BY <1>5, <1>6 DEF HitsAreSound, HitIsKnown

\* When the tick of a hit is long past and its next command is simulated, the module judges it,
\* unless it does not know that command: nothing is left to decide.
LEMMA OldHitIsDecided ==
  ASSUME SlotIsSound, AimbotIsSound, aimbot.pendingShot < simulated,
         NEW now \in Nat, now <= tick, tick - now <= 1,
         HitBefore(aimbot, aimbot.pendingShot, tick - 2),
         NEW e \in Evaluated(aimbot, now, tick - 1)
  PROVE  ~Decidable(e)
<1> DEFINE p == aimbot.pendingShot
           at == AimTick(aimbot, p)
           i == CHOOSE i \in 1..Len(aimbot.commands) : aimbot.commands[i].number = p
<1>1. aimbot \in AimbotData /\ tick \in Nat
  BY SlotNumbers DEF AimbotIsSound, AimbotDataIsSound
<1>2. PICK present \in BOOLEAN, fair \in BOOLEAN, snaps \in SUBSET Movements(aimbot, p),
           returned \in BOOLEAN, detected \in BOOLEAN :
        e = Evaluate(aimbot, now, tick - 1, present, fair, snaps, returned, detected)
  BY DEF Evaluated
<1>3. e = aimbot \/ e.pendingShot = NoCommand
  BY <1>1, EvaluationKeeps
<1>4. CASE e.pendingShot = NoCommand
  BY <1>4 DEF Decidable
<1>5. CASE e = aimbot /\ p # NoCommand
  <2>1. CASE p \in AimSimulated(aimbot)
    <3>1. at = NotSimulated \/ (at \in Nat /\ at <= tick - 2)
      <4>1. \E j \in 1..Len(aimbot.commands) : aimbot.commands[j].number = p
        BY <2>1 DEF AimSimulated
      <4>2. i \in 1..Len(aimbot.commands) /\ aimbot.commands[i].number = p
        BY <4>1
      <4>3. at = aimbot.commands[i].serverTick
        BY DEF AimTick
      <4> HIDE DEF i, at
      <4>4. aimbot.commands[i] \in AimCommand
        BY <1>1, <4>2 DEF AimbotData
      <4>5. at \in Ticks \union {NotSimulated}
        BY <4>3, <4>4 DEF AimCommand
      <4>6. at # NotSimulated => at <= tick - 2
        BY <4>2, <4>3 DEF HitBefore
      <4> QED
        BY <4>5, <4>6, SlotAssumption DEF Ticks
    <3> HIDE DEF at
    <3>2. ~(at > tick - 1) /\ ~(now <= at)
      <4>1. \A a, b, t \in Nat : b <= t /\ t - b <= 1 /\ a <= t - 2 => ~(a > t - 1) /\ ~(b <= a)
        OBVIOUS
      <4>2. CASE at = NotSimulated
        BY <1>1, <4>2 DEF NotSimulated
      <4> QED
        BY <1>1, <3>1, <4>1, <4>2
    <3>3. p + 1 \notin AimSimulated(aimbot)
      <4> SUFFICES ASSUME p + 1 \in AimSimulated(aimbot) PROVE FALSE
        OBVIOUS
      <4>1. e = Rejected(aimbot) \/ e = Incident(aimbot, Converged(aimbot, p, snaps), detected)
        BY <1>2, <1>5, <2>1, <3>2, Zenon DEF Evaluate, at
      <4>2. Rejected(aimbot).pendingShot = NoCommand
        BY <1>1 DEF Rejected, AimbotData
      <4>3. Incident(aimbot, Converged(aimbot, p, snaps), detected).pendingShot = NoCommand
        <5> DEFINE converged == Converged(aimbot, p, snaps)
                   evidence_1 == IF detected THEN {} ELSE aimbot.evidence \union {connection}
                   counted == [c \in Commands |-> IF c \in converged THEN Twice(aimbot.counted[c])
                                                  ELSE aimbot.counted[c]]
        <5>1. Incident(aimbot, converged, detected) =
                [aimbot EXCEPT !.pendingShot = NoCommand, !.lastCountedIncidentCommand = p,
                               !.evidence = evidence_1, !.counted = counted]
          BY DEF Incident
        <5> HIDE DEF evidence_1, counted
        <5> QED
          BY <1>1, <5>1 DEF AimbotData
      <4> QED
        BY <1>5, <4>1, <4>2, <4>3
    <3> QED
      <4>1. p \in Commands /\ p < simulated
        BY <1>5, WaitingHit
      <4>2. ~(simulated <= p)
        <5>1. p \in Nat /\ simulated \in Nat
          BY <4>1, SlotNumbers
        <5> QED
          BY <4>1, <5>1
      <4> QED
        BY <1>5, <3>3, <4>2, Zenon DEF Decidable
  <2>2. CASE p \notin AimSimulated(aimbot)
    <3>1. e = Rejected(aimbot)
      BY <1>2, <1>5, <2>2, Zenon DEF Evaluate
    <3> QED
      BY <1>1, <1>5, <3>1 DEF Rejected, AimbotData
  <2> QED
    BY <2>1, <2>2
<1> QED
  BY <1>3, <1>4, <1>5 DEF Decidable

\* The next hit comes: what waited is decided, and the hit waits instead.
LEMMA HurtHits ==
  ASSUME SlotIsSound, CommandsAreSound, ShotsAreSound, ShotsAreOrdered, AimbotIsSound,
         HitsAreSound, OnPlayerHurt
  PROVE  HitsAreSound'
<1>1. UNCHANGED <<tick, connection, connected, simulated, enabled>>
  BY DEF OnPlayerHurt, slotVars
<1>2. PICK i \in 1..Len(shots) :
        /\ Hurt(i)
        /\ aimbot' \in Handled(AimbotDetection, aimbot,
                         AimbotOnPlayerHurt(aimbot, shots[i].command, shots[i].fireTick))
  BY DEF OnPlayerHurt
<1> DEFINE p == aimbot.pendingShot
           n == Len(shots)
           c == shots[i].command
           now == shots[i].fireTick
<1>3. UNCHANGED <<uses, recorded>> /\ MatchEvent(Weapons) = {i} /\ ~shots[i].hurtSeen
  BY <1>2 DEF Hurt
<1>4. PICK s \in ShotRecord : ShotMarked(i, s) /\ SameShot(s, shots[i])
  BY <1>2, HurtMarks
<1>5. 0 \in 0..Len(shots) /\ ShotsKept(0)
  BY <1>1, <1>3, <1>4, MarkedAreKept
<1>6. CASE aimbot' = aimbot
  <2>1. HitKept
    BY <1>6 DEF HitKept, AimKept
  <2> QED
    BY <1>1, <1>3, <1>5, <2>1, KeptHits
<1>7. ASSUME NEW e \in Evaluated(aimbot, now, tick - 1),
             aimbot' \in Evaluated(Replaced(e, c), now, tick - 1)
      PROVE  HitsAreSound'
  <2>1. /\ n \in Nat /\ tick \in Nat /\ c \in Commands /\ uses[c] # 0 /\ now \in Nat
        /\ now <= tick /\ aimbot \in AimbotData
        /\ \A j \in 1..n : shots[j].fireTick \in Nat /\ shots[j].fireTick <= tick
    BY ShotCommands, SlotNumbers DEF AimbotIsSound, AimbotDataIsSound
  <2>2. /\ e.commands = aimbot.commands /\ e.forgotten = aimbot.forgotten
        /\ e = aimbot \/ e.pendingShot = NoCommand
    BY <1>7, <2>1, EvaluationKeeps
  <2>3. e \in AimbotData
    BY <1>7, HitsEvaluated DEF AimbotIsSound, AimbotDataIsSound
  <2>4. now \in {tick - 1, tick} /\ tick - now <= 1
    <3>1. tick - now \in 0..1
      BY <1>3 DEF MatchEvent, InWindow, MatchTicks
    <3> QED
      BY <2>1, <3>1
  <2>5. \A j \in 1..n : j # i => shots[j].fireTick <= tick - 2 /\ j < i
    <3> SUFFICES ASSUME NEW j \in 1..n, j # i PROVE shots[j].fireTick <= tick - 2 /\ j < i
      OBVIOUS
    <3>1. shots[j] \in ShotRecord
      BY DEF ShotsAreSound
    <3>2. ~InWindow(shots[j].fireTick)
      BY <1>3, <3>1 DEF MatchEvent, ShotRecord
    <3>3. shots[j].fireTick <= tick - 2
      <4>1. shots[j].fireTick \in Nat /\ shots[j].fireTick <= tick /\ tick \in Nat
        BY <2>1
      <4>2. \A a, t \in Nat : a <= t /\ ~(t - a \in 0..1) => a <= t - 2
        OBVIOUS
      <4>3. ~(tick - shots[j].fireTick \in 0..1)
        BY <3>2 DEF InWindow, MatchTicks
      <4> QED
        BY <4>1, <4>2, <4>3, Zenon
    <3>4. ~(i < j)
      <4>1. i < j => now <= shots[j].fireTick
        BY DEF ShotsAreSound
      <4> HIDE DEF now
      <4>2. \A a, b, t \in Nat : a \in {t - 1, t} /\ b <= t - 2 => ~(a <= b)
        OBVIOUS
      <4>3. ~(now <= shots[j].fireTick)
        BY <2>1, <2>4, <3>3, <4>2
      <4> QED
        BY <4>1, <4>3
    <3> QED
      BY <2>1, <3>3, <3>4
  <2>6. p # NoCommand => ~Decidable(e)
    <3> SUFFICES ASSUME p # NoCommand PROVE ~Decidable(e)
      OBVIOUS
    <3>1. p \in Commands /\ uses[p] # 0 /\ Known
      BY WaitingHit DEF HitsAreSound, HitIsKnown
    <3>2. p < c /\ HitBefore(aimbot, p, tick - 2)
      <4>1. ASSUME NEW j \in 1..n, shots[j].command = p, shots[j].hurtSeen
            PROVE  p < c /\ HitBefore(aimbot, p, tick - 2)
        <5>1. j # i
          BY <1>3, <4>1
        <5>2. j < i /\ shots[j].fireTick <= tick - 2
          BY <2>5, <5>1
        <5>3. HitBefore(aimbot, p, shots[j].fireTick)
          BY <4>1 DEF HitsAreSound, HitTimes
        <5>4. shots[j].fireTick \in Int /\ tick - 2 \in Int
          <6>1. shots[j].fireTick \in Nat
            BY <2>1
          <6> QED
            BY <2>1, <6>1
        <5> QED
          BY <2>1, <4>1, <5>2, <5>3, <5>4, LaterIsBefore DEF ShotsAreOrdered
      <4>2. ASSUME n >= 2, HitBefore(aimbot, p, shots[n - 1].fireTick)
            PROVE  HitBefore(aimbot, p, tick - 2)
        <5>1. n - 1 \in 1..n /\ n - 1 < n /\ n \in 1..n
          BY <2>1, <4>2
        <5>2. n - 1 # i
          <6>1. n # i => n < i
            BY <2>5, <5>1
          <6> QED
            BY <2>1, <5>1, <6>1
        <5>3. shots[n - 1].fireTick <= tick - 2 /\ shots[n - 1].fireTick \in Nat
          BY <2>1, <2>5, <5>1, <5>2
        <5>4. shots[n - 1].fireTick \in Int /\ tick - 2 \in Int
          BY <2>1, <5>3
        <5> QED
          BY <2>1, <4>2, <5>3, <5>4, LaterIsBefore
      <4> QED
        BY <3>1, <4>1, <4>2 DEF Known
    <3>3. p < simulated
      <4>1. c <= simulated
        BY <2>1 DEF CommandsAreSound
      <4>2. p \in Nat /\ c \in Nat /\ simulated \in Nat
        BY <2>1, <3>1, SlotNumbers
      <4> HIDE DEF p, c
      <4> QED
        BY <3>2, <4>1, <4>2
    <3> QED
      BY <1>7, <2>1, <2>4, <3>2, <3>3, OldHitIsDecided
  <2>7. ~Decidable(e)
    BY <2>2, <2>6 DEF Decidable
  <2> DEFINE r == Replaced(e, c)
  <2>8. /\ r \in AimbotData /\ r.commands = aimbot.commands /\ r.pendingShot = c
        /\ ~r.forgotten
    <3> DEFINE forgotten == e.forgotten \/ Decidable(e)
    <3>1. ~e.forgotten
      BY <2>2 DEF HitsAreSound, HitIsKnown
    <3>2. forgotten \in BOOLEAN /\ ~forgotten
      BY <2>7, <3>1
    <3>3. r = [e EXCEPT !.pendingShot = c, !.forgotten = forgotten]
      BY DEF Replaced
    <3> HIDE DEF forgotten, c, r
    <3> QED
      BY <2>1, <2>2, <2>3, <3>2, <3>3 DEF AimbotData
  <2> HIDE DEF r
  <2>9. /\ aimbot'.commands = aimbot.commands /\ ~aimbot'.forgotten
        /\ aimbot'.pendingShot \in {NoCommand, c}
    <3>1. aimbot' \in Evaluated(r, now, tick - 1)
      BY <1>7 DEF r
    <3>2. /\ aimbot'.commands = r.commands /\ aimbot'.forgotten = r.forgotten
          /\ aimbot'.pendingShot \in {NoCommand, r.pendingShot}
      BY <2>8, <3>1, EvaluationKeeps
    <3> QED
      BY <2>8, <3>2
  <2>10. AimKept
    BY <2>9 DEF AimKept
  <2>11. HitTimes'
    BY <1>1, <1>5, <2>10, KeptTimes DEF HitsAreSound
  <2>12. aimbot'.pendingShot # NoCommand => uses'[aimbot'.pendingShot] # 0 /\ Known'
    <3>1. /\ i \in 1..Len(shots') /\ shots'[i].command = c /\ shots'[i].hurtSeen
      <4> DEFINE hurt == [shots[i] EXCEPT !.hurtSeen = TRUE]
      <4>1. shots' = [shots EXCEPT ![i] = hurt] /\ shots \in Seq(ShotRecord)
        BY <1>2 DEF Hurt, ShotsAreSound
      <4>2. shots[i] \in ShotRecord
        BY <4>1
      <4>3. hurt \in ShotRecord /\ hurt.command = c /\ hurt.hurtSeen
        BY <4>2 DEF ShotRecord
      <4> HIDE DEF hurt
      <4>4. shots'[i] = hurt /\ i \in 1..Len(shots')
        BY <4>1, <4>3
      <4> QED
        BY <4>3, <4>4
    <3> QED
      BY <1>3, <2>1, <2>9, <3>1 DEF Known
  <2> QED
    BY <2>9, <2>11, <2>12 DEF HitsAreSound, HitIsKnown
<1> QED
  BY <1>2, <1>6, <1>7 DEF Handled, AimbotOnPlayerHurt

(***************************************************************************)
(* Every step keeps what is known of the hit that waits.                   *)
(***************************************************************************)
LEMMA HitsStep ==
  ASSUME SlotIsSound, CommandsAreSound, ShotsAreSound, UsableAreNewest, ShotsAreOrdered,
         AimbotIsSound, HitsAreSound, [Next]_vars
  PROVE  HitsAreSound'
<1>1. CASE Connect
  <2>1. /\ shots = <<>> /\ UNCHANGED <<tick, shots, aimbot>> /\ aimbot.pendingShot = NoCommand
    BY <1>1 DEF Connect, Join, ShotsOfNewcomer, ShotsAreSound, moduleVars, AimbotIsSound,
       AimbotDataIsSound
  <2> QED
    BY <2>1 DEF HitsAreSound, HitTimes, HitIsKnown, HitBefore
<1>2. CASE OnClientDisconnect \/ Reset
  <2>1. shots' = <<>> /\ aimbot' = AimbotClean
    BY <1>2 DEF OnClientDisconnect, Reset, ShotsCleared, Forget
  <2> QED
    BY <2>1 DEF HitsAreSound, HitTimes, HitIsKnown, HitBefore, AimbotClean
<1>3. ASSUME HitKept, UNCHANGED <<tick, uses, shots>> PROVE HitsAreSound'
  BY <1>3, UnchangedAreKept, KeptHits
<1>4. aimbot' = aimbot => HitKept
  BY DEF HitKept, AimKept
<1>5. CASE OnClientReady \/ OnPlayerSpawn \/ UNCHANGED vars
  BY <1>3, <1>4, <1>5 DEF OnClientReady, OnPlayerSpawn, vars, slotVars, shotVars, moduleVars
<1>6. CASE OnFireBullets
  <2>1. PICK i \in 1..Len(shots), s \in ShotRecord :
          ShotMarked(i, s) /\ SameShot(s, shots[i]) /\ InWindow(shots[i].fireTick)
    BY <1>6, FireBulletsMarks DEF OnFireBullets
  <2>2. UNCHANGED <<tick, connection, connected, enabled, recorded, uses, aimbot>>
    BY <1>6 DEF OnFireBullets, ShotsOnFireBullets, slotVars, moduleVars
  <2> QED
    BY <1>4, <2>1, <2>2, MarkedAreKept, KeptHits
<1>7. CASE OnPlayerHurt
  BY <1>7, HurtHits
<1>8. CASE OnGameFrame
  <2>1. PICK off \in 0..Len(shots) : ShotsKept(off) /\ SuffixStays(off)
    BY <1>8, PrunedAreKept DEF OnGameFrame
  <2>2. UNCHANGED uses /\ tick' = tick + 1
    BY <1>8 DEF OnGameFrame, Clock, ShotsOnGameFrame
  <2>3. aimbot' = aimbot \/ aimbot' \in Evaluated(aimbot, tick, tick)
    BY <1>8 DEF OnGameFrame, Handled, AimbotOnGameFrame
  <2>4. HitKept
    BY <1>4, <2>3, EvaluatedIsKept
  <2> QED
    BY <2>1, <2>2, <2>4, KeptHits
<1>9. ASSUME NEW c \in Commands, OnProcessUsercmds(c) PROVE HitsAreSound'
  <2>1. UNCHANGED <<tick, uses, shots>>
    BY <1>9 DEF OnProcessUsercmds, Arrives, ShotsOnProcessUsercmds, slotVars
  <2>2. aimbot' = aimbot \/ aimbot' = AimbotOnProcessUsercmds(aimbot, c)
    BY <1>9 DEF OnProcessUsercmds, Handled
  <2> QED
    BY <1>3, <1>4, <2>1, <2>2, ArrivedIsKept
<1>10. ASSUME NEW c \in Commands, OnSetupMove(c) PROVE HitsAreSound'
  <2>1. Simulates(c) /\ UNCHANGED <<tick, uses, shots>>
    BY <1>10 DEF OnSetupMove, Simulates, ShotsOnSetupMove
  <2>2. aimbot' = aimbot \/ aimbot' \in AimbotOnSetupMove(aimbot, c)
    BY <1>10 DEF OnSetupMove, Handled
  <2> QED
    BY <1>3, <1>4, <2>1, <2>2, SimulatedIsKept
<1>11. ASSUME NEW w \in Weapons, OnWeaponFire(w) PROVE HitsAreSound'
  <2>1. connected /\ UNCHANGED <<tick, connection, connected, enabled, aimbot>>
    BY <1>11 DEF OnWeaponFire, slotVars
  <2>2. CASE Discarded
    BY <1>3, <1>4, <2>1, <2>2 DEF Discarded
  <2>3. CASE Shoots(w)
    <3>1. PICK i \in UsableCommands, difficult \in BOOLEAN :
            Recorded(NewShot(commands[i].number, w, difficult))
      BY <2>3 DEF Shoots
    <3> DEFINE new == NewShot(commands[i].number, w, difficult)
    <3>2. i \in 1..Len(commands)
      BY DEF UsableCommands
    <3>3. PICK off \in {0, 1} : IsPushed(shots', shots, new, ShotLimit, off)
      BY <2>1, <3>1, <3>2, NewShotIsRecorded
    <3>4. /\ new.command = commands[i].number /\ new.fireTick = tick
          /\ uses' = [uses EXCEPT ![new.command] = Twice(@)]
      BY <3>1 DEF NewShot, Recorded
    <3> HIDE DEF new
    <3>5. new.command \in Commands /\ \A p \in Commands : uses[p] # 0 => p < new.command
      BY <3>4, NewestUsed
    <3>6. \A p \in Commands : uses[p] # 0 => p < new.command /\ uses'[p] # 0
      BY <3>3, <3>4, <3>5, PushedAreOrdered
    <3> QED
      BY <2>1, <3>3, <3>4, <3>5, <3>6, PushedHits
  <2> QED
    BY <1>11, <2>2, <2>3 DEF OnWeaponFire
<1>12. ASSUME NEW w \in Weapons, OnPlayerDeath(w) PROVE HitsAreSound'
  <2>1. PICK i \in 1..Len(shots) : Died(w, i)
    BY <1>12 DEF OnPlayerDeath
  <2>2. UNCHANGED <<tick, connection, connected, enabled, recorded, uses, aimbot>>
    BY <1>12, <2>1 DEF OnPlayerDeath, Died, slotVars
  <2>3. PICK s \in ShotRecord : ShotMarked(i, s) /\ SameShot(s, shots[i])
    BY <2>1, DiedMarks
  <2> QED
    BY <1>4, <2>2, <2>3, MarkedAreKept, KeptHits
<1>13. ASSUME NEW changed \in BOOLEAN, NEW lapsed \in 0..MaxNameChanges,
              OnClientSettingsChanged(changed, lapsed)
       PROVE  HitsAreSound'
  BY <1>3, <1>4, <1>13 DEF OnClientSettingsChanged, slotVars, shotVars
<1> QED
  BY <1>1, <1>2, <1>5, <1>6, <1>7, <1>8, <1>9, <1>10, <1>11, <1>12, <1>13 DEF Next

-----------------------------------------------------------------------------
\* Episodes of AntiAim.

\* As long as the module may announce, something was quiet since it last did.
IsQuiet(a) == ~a.repeated /\ (~a.suppressContinuous => a.quiet)

\* A spin or jitter in the last motion is still going on.
MovingShows(a) == a.moving => a.spinActive \/ a.jitterActive

\* No command was simulated after the last motion that was evaluated.
TimesArePast(a) ==
  \A j \in 1..Len(a.commands) :
    /\ a.commands[j].serverTick <= tick
    /\ a.lastMotion # Unknown => a.commands[j].serverTick <= a.lastMotion

EpisodeIsSound(a) == IsQuiet(a) /\ MovingShows(a) /\ TimesArePast(a)

SameMarks(a, e) ==
  e.invalidActive = a.invalidActive /\ e.inconsistencyActive = a.inconsistencyActive

SameMotion(a, e) ==
  /\ e.lastMotion = a.lastMotion /\ e.moving = a.moving
  /\ e.spinActive = a.spinActive /\ e.jitterActive = a.jitterActive

LEMMA EvidenceIsQuiet ==
  ASSUME NEW a \in AntiAimData, IsQuiet(a), NEW weight \in Nat,
         NEW continuous \in BOOLEAN, NEW mismatch \in BOOLEAN,
         NEW e, e = AddEvidence(a, weight, continuous, mismatch)
  PROVE  IsQuiet(e) /\ SameMarks(a, e) /\ SameMotion(a, e)
<1> DEFINE more == a.mismatchScore + weight
           score == a.score + weight
           added == IF mismatch THEN [a EXCEPT !.mismatchScore = more]
                    ELSE [a EXCEPT !.score = score]
<1>1. more \in Nat /\ score \in Nat
  BY DEF AntiAimData
<1>2. e = a \/ e = added \/ (e = Announce(added, continuous) /\ ~a.suppressContinuous)
  BY DEF AddEvidence
<1> HIDE DEF more, score
<1>3. /\ added \in AntiAimData /\ SameMarks(a, added) /\ SameMotion(a, added)
      /\ added.repeated = a.repeated /\ added.quiet = a.quiet
      /\ added.suppressContinuous = a.suppressContinuous
  BY <1>1 DEF AntiAimData, SameMarks, SameMotion
<1> HIDE DEF added
<1>4. CASE e = a \/ e = added
  BY <1>3, <1>4 DEF IsQuiet, SameMarks, SameMotion
<1>5. CASE e = Announce(added, continuous) /\ ~a.suppressContinuous
  <2> DEFINE repeated == added.repeated \/ (continuous /\ ~added.quiet)
             quiet == added.quiet /\ ~continuous
             cleared == [added EXCEPT !.score = 0, !.mismatchScore = 0]
  <2>1. ~repeated /\ (~continuous => quiet)
    BY <1>3, <1>5 DEF IsQuiet
  <2>2. e = [cleared EXCEPT !.suppressContinuous = continuous, !.repeated = repeated, !.quiet = quiet]
    BY <1>5 DEF Announce
  <2> HIDE DEF repeated, quiet
  <2>3. cleared \in AntiAimData /\ SameMarks(added, cleared) /\ SameMotion(added, cleared)
    BY <1>3 DEF AntiAimData, SameMarks, SameMotion
  <2> HIDE DEF cleared
  <2>4. e.repeated = repeated /\ e.suppressContinuous = continuous /\ e.quiet = quiet
    BY <2>2, <2>3 DEF AntiAimData
  <2>5. SameMarks(cleared, e) /\ SameMotion(cleared, e)
    BY <2>2, <2>3 DEF AntiAimData, SameMarks, SameMotion
  <2>6. IsQuiet(e)
    BY <2>1, <2>4 DEF IsQuiet
  <2> QED
    BY <1>3, <2>3, <2>5, <2>6 DEF SameMarks, SameMotion
<1> QED
  BY <1>2, <1>4, <1>5

LEMMA MotionIsForgotten ==
  ASSUME SlotIsSound, NEW a, AntiAimDataIsSound(a), IsQuiet(a),
         NEW e, e = ResetMotion(a)
  PROVE  /\ IsQuiet(e) /\ SameMarks(a, e) /\ ~e.moving /\ e.lastMotion = Unknown
         /\ e.commands = a.commands
<1> DEFINE none == [t \in Tiers |-> 0]
           still == [a EXCEPT !.spin = none, !.spinBreak = none, !.jitter = 0]
           early == [still EXCEPT !.jitterBreak = 0, !.lastMotion = Unknown]
<1>1. a \in AntiAimData /\ none \in [Tiers -> Nat] /\ none \in [Tiers -> 0..BreakTicks]
  BY AntiAimNumbers DEF AntiAimDataIsSound
<1>2. e = [early EXCEPT !.spinActive = FALSE, !.jitterActive = FALSE, !.moving = FALSE]
  BY DEF ResetMotion
<1> HIDE DEF none
<1>3. /\ still \in AntiAimData /\ SameMarks(a, still) /\ still.commands = a.commands
      /\ still.repeated = a.repeated /\ still.quiet = a.quiet
      /\ still.suppressContinuous = a.suppressContinuous
  BY <1>1 DEF AntiAimData, SameMarks
<1> HIDE DEF still
<1>4. 0 \in 0..BreakTicks /\ Unknown \in Ticks \union {Unknown}
  BY AntiAimNumbers
<1>5. /\ early \in AntiAimData /\ SameMarks(still, early) /\ early.commands = still.commands
      /\ early.repeated = still.repeated /\ early.quiet = still.quiet
      /\ early.suppressContinuous = still.suppressContinuous /\ early.lastMotion = Unknown
  BY <1>3, <1>4 DEF AntiAimData, SameMarks
<1> HIDE DEF early
<1>6. /\ SameMarks(early, e) /\ ~e.moving /\ e.lastMotion = Unknown /\ e.commands = early.commands
      /\ e.repeated = early.repeated /\ e.quiet = early.quiet
      /\ e.suppressContinuous = early.suppressContinuous
  BY <1>2, <1>5 DEF AntiAimData, SameMarks
<1> QED
  BY <1>3, <1>5, <1>6 DEF IsQuiet, SameMarks

LEMMA ShotIsForgotten ==
  ASSUME NEW a \in AntiAimData, NEW e, e = NoShot(a)
  PROVE  /\ SameMarks(a, e) /\ SameMotion(a, e) /\ e.commands = a.commands
         /\ IsQuiet(a) => IsQuiet(e)
BY DEF AntiAimData, NoShot, IsQuiet, SameMarks, SameMotion

LEMMA SpinIsQuiet ==
  ASSUME SlotIsSound, NEW a, AntiAimDataIsSound(a), IsQuiet(a),
         NEW fast \in 0..Len(SpinTicks), NEW gap \in Nat, NEW e, e = EvaluateSpin(a, fast, gap)
  PROVE  IsQuiet(e) /\ SameMarks(a, e) /\ (fast > 0 /\ gap = 1 => e.spinActive)
<1> DEFINE tier(t) == Progress(a.spin[t], a.spinBreak[t], t <= fast /\ gap = 1,
                               a.suppressContinuous, gap)
           spin == [t \in Tiers |-> tier(t).count]
           spinBreak == [t \in Tiers |-> tier(t).break]
           spinActive == \E t \in Tiers : tier(t).active
           progressed == [a EXCEPT !.spin = spin, !.spinBreak = spinBreak, !.spinActive = spinActive]
           added == AddEvidence(progressed, Threshold, TRUE, FALSE)
<1>1. /\ a \in AntiAimData /\ a.spin \in [Tiers -> Nat] /\ a.spinBreak \in [Tiers -> 0..BreakTicks]
      /\ a.suppressContinuous \in BOOLEAN
  BY DEF AntiAimDataIsSound, AntiAimData
<1>2. \A t \in Tiers : tier(t).count \in Nat /\ tier(t).break \in 0..BreakTicks
  BY <1>1, CounterProgresses
<1>3. e = progressed \/ e = [added EXCEPT !.spinActive = TRUE]
  BY Zenon DEF EvaluateSpin
<1>4. fast > 0 /\ gap = 1 => spinActive
  <2>1. fast > 0 => 1 \in Tiers /\ 1 <= fast
    BY DEF Tiers
  <2>2. gap = 1 /\ 1 <= fast => tier(1).active
    BY DEF Progress
  <2> QED
    BY <2>1, <2>2
<1> HIDE DEF tier
<1>5. spin \in [Tiers -> Nat] /\ spinBreak \in [Tiers -> 0..BreakTicks] /\ spinActive \in BOOLEAN
  BY <1>2
<1> HIDE DEF spin, spinBreak, spinActive
<1>6. /\ progressed \in AntiAimData /\ SameMarks(a, progressed) /\ IsQuiet(progressed)
      /\ progressed.spinActive = spinActive
  BY <1>1, <1>5 DEF AntiAimData, SameMarks, IsQuiet
<1> HIDE DEF progressed
<1>7. CASE e = progressed
  BY <1>4, <1>6, <1>7
<1>8. CASE e = [added EXCEPT !.spinActive = TRUE]
  <2>1. IsQuiet(added) /\ SameMarks(progressed, added)
    BY <1>6, EvidenceIsQuiet, AntiAimNumbers
  <2>2. added \in AntiAimData
    <3>1. AntiAimDataIsSound(progressed)
      <4>1. progressed.score = a.score /\ progressed.mismatchScore = a.mismatchScore
            /\ progressed.lastMotion = a.lastMotion /\ progressed.commands = a.commands
        BY <1>1, <1>5 DEF progressed, AntiAimData
      <4> QED
        BY <1>6, <4>1 DEF AntiAimDataIsSound
    <3> QED
      BY <3>1, EvidenceAdded, AntiAimNumbers DEF AntiAimDataIsSound
  <2> HIDE DEF added
  <2>3. SameMarks(added, e) /\ IsQuiet(e) /\ e.spinActive
    BY <1>8, <2>1, <2>2 DEF AntiAimData, SameMarks, IsQuiet
  <2> QED
    BY <1>6, <2>1, <2>3 DEF SameMarks
<1> QED
  BY <1>3, <1>7, <1>8

LEMMA JitterIsQuiet ==
  ASSUME SlotIsSound, NEW a, AntiAimDataIsSound(a), IsQuiet(a),
         NEW jitters \in BOOLEAN, NEW gap \in Nat, NEW e, e = EvaluateJitter(a, jitters, gap)
  PROVE  /\ IsQuiet(e) /\ SameMarks(a, e) /\ (jitters /\ gap = 1 => e.jitterActive)
         /\ e.spinActive = a.spinActive /\ e.lastMotion = a.lastMotion
<1> DEFINE p == Progress(a.jitter, a.jitterBreak, jitters /\ gap = 1, a.suppressContinuous, gap)
           progressed == [a EXCEPT !.jitter = p.count, !.jitterBreak = p.break,
                                   !.jitterActive = p.active]
           added == AddEvidence(progressed, Threshold, TRUE, FALSE)
<1>1. /\ a \in AntiAimData /\ a.jitter \in Nat /\ a.jitterBreak \in 0..BreakTicks
      /\ a.suppressContinuous \in BOOLEAN /\ (jitters /\ gap = 1) \in BOOLEAN
  BY DEF AntiAimDataIsSound, AntiAimData
<1>2. p.count \in Nat /\ p.break \in 0..BreakTicks /\ p.active \in BOOLEAN
  BY <1>1, CounterProgresses
<1>3. e = progressed \/ e = [added EXCEPT !.jitterActive = TRUE]
  BY DEF EvaluateJitter
<1>4. jitters /\ gap = 1 => p.active
  BY DEF Progress
<1> HIDE DEF p
<1>5. /\ AntiAimDataIsSound(progressed) /\ SameMarks(a, progressed) /\ IsQuiet(progressed)
      /\ progressed.jitterActive = p.active /\ progressed.spinActive = a.spinActive
      /\ progressed.lastMotion = a.lastMotion
  BY <1>1, <1>2 DEF AntiAimDataIsSound, AntiAimData, SameMarks, IsQuiet
<1> HIDE DEF progressed
<1>6. CASE e = progressed
  BY <1>4, <1>5, <1>6
<1>7. CASE e = [added EXCEPT !.jitterActive = TRUE]
  <2>1. /\ IsQuiet(added) /\ SameMarks(progressed, added) /\ SameMotion(progressed, added)
        /\ added \in AntiAimData
    BY <1>5, EvidenceIsQuiet, EvidenceAdded, AntiAimNumbers DEF AntiAimDataIsSound
  <2> HIDE DEF added
  <2>2. /\ SameMarks(added, e) /\ IsQuiet(e) /\ e.jitterActive /\ e.spinActive = added.spinActive
        /\ e.lastMotion = added.lastMotion
    BY <1>7, <2>1 DEF AntiAimData, SameMarks, IsQuiet
  <2> QED
    BY <1>5, <2>1, <2>2 DEF SameMarks, SameMotion
<1> QED
  BY <1>3, <1>6, <1>7

LEMMA MotionIsQuiet ==
  ASSUME SlotIsSound, NEW a, AntiAimDataIsSound(a), IsQuiet(a), MovingShows(a),
         NEW fast \in 0..Len(SpinTicks), NEW jitters \in BOOLEAN,
         (fast > 0 \/ jitters) /\ a.lastMotion # Unknown => tick - a.lastMotion <= 1,
         NEW e, e = EvaluateMotion(a, fast, jitters)
  PROVE  IsQuiet(e) /\ MovingShows(e) /\ SameMarks(a, e) /\ e.lastMotion = tick
<1> DEFINE gap == IF a.lastMotion = Unknown THEN 1 ELSE tick - a.lastMotion
           kept == IF gap > GapTicks THEN ResetMotion(a) ELSE a
           timed == [kept EXCEPT !.lastMotion = tick]
           spun == EvaluateSpin(timed, fast, gap)
           judged == EvaluateJitter(spun, jitters, gap)
           moving == fast > 0 \/ jitters
<1>1. tick \in Ticks /\ tick \in Nat /\ Ticks \subseteq Nat
  BY SlotNumbers DEF SlotIsSound
<1>2. a \in AntiAimData /\ a.lastMotion <= tick /\ a.lastMotion \in Ticks \union {Unknown}
  BY DEF AntiAimDataIsSound, AntiAimData
<1>3. gap \in Nat /\ (a.lastMotion # tick => gap # 0)
  <2>1. CASE a.lastMotion = Unknown
    BY <2>1
  <2>2. CASE a.lastMotion # Unknown
    <3>1. a.lastMotion \in Nat
      BY <1>1, <1>2, <2>2
    <3>2. tick - a.lastMotion \in Nat /\ (tick - a.lastMotion = 0 => a.lastMotion = tick)
      BY <1>1, <1>2, <3>1
    <3> QED
      BY <2>2, <3>2
  <2> QED
    BY <2>1, <2>2
<1>4. a.lastMotion # tick /\ moving => gap = 1
  <2>1. CASE a.lastMotion = Unknown
    BY <2>1
  <2>2. CASE a.lastMotion # Unknown
    <3>1. moving => gap <= 1
      BY <2>2
    <3> HIDE DEF moving, gap
    <3> QED
      BY <1>3, <3>1
  <2> QED
    BY <2>1, <2>2
<1>5. \/ e = a /\ a.lastMotion = tick
      \/ e = [judged EXCEPT !.moving = moving] /\ a.lastMotion # tick
  BY Zenon DEF EvaluateMotion
<1> HIDE DEF gap
<1>6. CASE e = a /\ a.lastMotion = tick
  BY <1>6 DEF SameMarks
<1>7. CASE e = [judged EXCEPT !.moving = moving] /\ a.lastMotion # tick
  <2>1. AntiAimDataIsSound(kept) /\ IsQuiet(kept) /\ SameMarks(a, kept)
    BY MotionReset, MotionIsForgotten DEF SameMarks
  <2> HIDE DEF kept
  <2>2. /\ AntiAimDataIsSound(timed) /\ IsQuiet(timed) /\ SameMarks(kept, timed)
        /\ timed.lastMotion = tick
    <3>1. kept \in AntiAimData
      BY <2>1 DEF AntiAimDataIsSound
    <3>2. timed \in AntiAimData /\ timed.lastMotion = tick /\ SameMarks(kept, timed)
      BY <1>1, <3>1 DEF AntiAimData, SameMarks
    <3>3. /\ timed.score = kept.score /\ timed.mismatchScore = kept.mismatchScore
          /\ timed.commands = kept.commands /\ timed.repeated = kept.repeated
          /\ timed.quiet = kept.quiet /\ timed.suppressContinuous = kept.suppressContinuous
      BY <3>1 DEF AntiAimData
    <3> HIDE DEF timed
    <3> QED
      BY <1>1, <2>1, <3>2, <3>3 DEF AntiAimDataIsSound, IsQuiet
  <2> HIDE DEF timed
  <2>3. /\ AntiAimDataIsSound(spun) /\ IsQuiet(spun) /\ SameMarks(timed, spun)
        /\ spun.lastMotion = tick /\ (fast > 0 /\ gap = 1 => spun.spinActive)
    BY <1>3, <2>2, SpinEvaluated, SpinIsQuiet
  <2> HIDE DEF spun
  <2>4. /\ AntiAimDataIsSound(judged) /\ IsQuiet(judged) /\ SameMarks(spun, judged)
        /\ judged.lastMotion = tick /\ (jitters /\ gap = 1 => judged.jitterActive)
        /\ judged.spinActive = spun.spinActive
    <3>1. AntiAimDataIsSound(judged)
      BY <1>3, <2>3, JitterEvaluated DEF judged
    <3>2. /\ IsQuiet(judged) /\ SameMarks(spun, judged) /\ judged.spinActive = spun.spinActive
          /\ (jitters /\ gap = 1 => judged.jitterActive) /\ judged.lastMotion = spun.lastMotion
      BY <1>3, <2>3, JitterIsQuiet DEF judged
    <3> QED
      BY <2>3, <3>1, <3>2
  <2> HIDE DEF judged
  <2>5. moving => judged.spinActive \/ judged.jitterActive
    BY <1>4, <1>7, <2>3, <2>4
  <2> HIDE DEF moving
  <2>6. /\ SameMarks(judged, e) /\ IsQuiet(e) /\ e.moving = moving /\ e.lastMotion = tick
        /\ e.spinActive = judged.spinActive /\ e.jitterActive = judged.jitterActive
    BY <1>7, <2>4 DEF AntiAimDataIsSound, AntiAimData, SameMarks, IsQuiet
  <2> QED
    BY <2>1, <2>2, <2>3, <2>4, <2>5, <2>6 DEF SameMarks, MovingShows
<1> QED
  BY <1>5, <1>6, <1>7

LEMMA InconsistencyIsQuiet ==
  ASSUME NEW a \in AntiAimData, IsQuiet(a), NEW c \in Commands, NEW view \in Views,
         NEW e, e = Inconsistent(a, c, view)
  PROVE  /\ IsQuiet(e) /\ SameMotion(a, e)
         /\ e.inconsistencyActive = (view.problem \/ view.mismatch)
<1> DEFINE active == view.problem \/ view.mismatch
           marked == [a EXCEPT !.inconsistencyActive = active]
           spaced == [marked EXCEPT !.lastMismatch = c]
<1>0. active \in BOOLEAN
  OBVIOUS
<1>1. \/ e = marked
      \/ e = AddEvidence(marked, 1, TRUE, FALSE)
      \/ e = AddEvidence(spaced, 1, TRUE, TRUE)
  BY DEF Inconsistent
<1> HIDE DEF active
<1>2. /\ marked \in AntiAimData /\ IsQuiet(marked) /\ SameMotion(a, marked)
      /\ marked.inconsistencyActive = active
  BY <1>0 DEF AntiAimData, IsQuiet, SameMotion
<1> HIDE DEF marked
<1>3. /\ spaced \in AntiAimData /\ IsQuiet(spaced) /\ SameMotion(marked, spaced)
      /\ spaced.inconsistencyActive = active
  BY <1>2 DEF AntiAimData, IsQuiet, SameMotion
<1> HIDE DEF spaced
<1>4. ASSUME e = AddEvidence(marked, 1, TRUE, FALSE)
      PROVE  IsQuiet(e) /\ SameMotion(marked, e) /\ e.inconsistencyActive = active
  <2>1. IsQuiet(e) /\ SameMarks(marked, e) /\ SameMotion(marked, e)
    <3>1. 1 \in Nat /\ TRUE \in BOOLEAN /\ FALSE \in BOOLEAN
      OBVIOUS
    <3> QED
      BY <1>2, <1>4, <3>1, EvidenceIsQuiet
  <2> QED
    BY <1>2, <2>1 DEF SameMarks
<1>5. ASSUME e = AddEvidence(spaced, 1, TRUE, TRUE)
      PROVE  IsQuiet(e) /\ SameMotion(spaced, e) /\ e.inconsistencyActive = active
  <2>1. IsQuiet(e) /\ SameMarks(spaced, e) /\ SameMotion(spaced, e)
    <3>1. 1 \in Nat /\ TRUE \in BOOLEAN /\ FALSE \in BOOLEAN
      OBVIOUS
    <3> QED
      BY <1>3, <1>5, <3>1, EvidenceIsQuiet
  <2> QED
    BY <1>3, <2>1 DEF SameMarks
<1>6. IsQuiet(e) /\ SameMotion(a, e) /\ e.inconsistencyActive = active
  BY <1>1, <1>2, <1>3, <1>4, <1>5 DEF SameMotion
<1> QED
  BY <1>6 DEF active

LEMMA InvalidIsQuiet ==
  ASSUME NEW a \in AntiAimData, IsQuiet(a), NEW view \in Views, NEW e, e = Invalid(a, view)
  PROVE  /\ IsQuiet(e) /\ SameMotion(a, e) /\ e.invalidActive = view.invalid
         /\ e.inconsistencyActive = a.inconsistencyActive
<1> DEFINE marked == [a EXCEPT !.invalidActive = view.invalid]
<1>1. view.invalid \in BOOLEAN
  BY DEF Views
<1>2. e = marked \/ e = AddEvidence(marked, InvalidWeight, TRUE, FALSE)
  BY DEF Invalid
<1>3. /\ marked \in AntiAimData /\ IsQuiet(marked) /\ SameMotion(a, marked)
      /\ marked.invalidActive = view.invalid
      /\ marked.inconsistencyActive = a.inconsistencyActive
  BY <1>1 DEF AntiAimData, IsQuiet, SameMotion
<1> HIDE DEF marked
<1>4. ASSUME e = AddEvidence(marked, InvalidWeight, TRUE, FALSE)
      PROVE  IsQuiet(e) /\ SameMotion(marked, e) /\ SameMarks(marked, e)
  BY <1>3, <1>4, EvidenceIsQuiet, AntiAimNumbers
<1> QED
  BY <1>2, <1>3, <1>4 DEF SameMotion, SameMarks

LEMMA PendingIsQuiet ==
  ASSUME SlotIsSound, NEW a, AntiAimDataIsSound(a), IsQuiet(a), NEW returned \in BOOLEAN,
         NEW e, e = EvaluatePendingShot(a, returned)
  PROVE  /\ IsQuiet(e) /\ SameMotion(a, e) /\ SameMarks(a, e) /\ e.commands = a.commands
         /\ AntiAimDataIsSound(e)
<1> DEFINE none == NoShot(a)
           added == AddEvidence(none, ReturnWeight, FALSE, FALSE)
<1>1. e = a \/ e = none \/ e = added
  BY DEF EvaluatePendingShot
<1>2. /\ AntiAimDataIsSound(none) /\ none \in AntiAimData /\ IsQuiet(none)
      /\ SameMotion(a, none) /\ SameMarks(a, none) /\ none.commands = a.commands
  BY ShotGivenUp, ShotIsForgotten DEF AntiAimDataIsSound
<1> HIDE DEF none
<1>3. /\ IsQuiet(added) /\ SameMotion(none, added) /\ SameMarks(none, added)
      /\ added.commands = none.commands /\ AntiAimDataIsSound(added)
  <2>1. ReturnWeight \in Nat /\ FALSE \in BOOLEAN
    BY AntiAimNumbers
  <2>2. IsQuiet(added) /\ SameMotion(none, added) /\ SameMarks(none, added)
    BY <1>2, <2>1, EvidenceIsQuiet
  <2>3. SameReturn(none, added) /\ AntiAimDataIsSound(added)
    BY <1>2, <2>1, EvidenceAdded
  <2> QED
    BY <2>2, <2>3 DEF SameReturn
<1> HIDE DEF added
<1> QED
  BY <1>1, <1>2, <1>3 DEF SameMotion, SameMarks

\* If the episode ends, the command shows nothing.
LEMMA EndIsQuiet ==
  ASSUME NEW a \in AntiAimData, IsQuiet(a), MovingShows(a), NEW view \in Views,
         a.inconsistencyActive = (view.problem \/ view.mismatch), a.invalidActive = view.invalid,
         NEW e, e = EpisodeEnd(a, view)
  PROVE  IsQuiet(e) /\ MovingShows(e) /\ e.lastMotion = a.lastMotion
<1> DEFINE suppress == a.suppressContinuous /\ ~Ends(a)
           quiet == a.quiet \/ ~(view.problem \/ view.mismatch \/ view.invalid \/ a.moving)
<1>1. suppress \in BOOLEAN /\ quiet \in BOOLEAN /\ (~suppress => quiet)
  BY DEF IsQuiet, MovingShows, Ends
<1>2. e = [a EXCEPT !.suppressContinuous = suppress, !.quiet = quiet]
  BY DEF EpisodeEnd
<1> HIDE DEF suppress, quiet
<1>3. /\ e.repeated = a.repeated /\ e.suppressContinuous = suppress /\ e.quiet = quiet
      /\ SameMotion(a, e)
  BY <1>2 DEF AntiAimData, SameMotion
<1> QED
  BY <1>1, <1>3 DEF IsQuiet, MovingShows, SameMotion

\* The times of the commands may reach into this tick, not beyond.
TimesAreRecent(a) ==
  \A j \in 1..Len(a.commands) :
    \/ a.commands[j].serverTick = tick
    \/ /\ a.commands[j].serverTick <= tick
       /\ a.lastMotion # Unknown => a.commands[j].serverTick <= a.lastMotion

\* A history of at least two commands in a row has one for the tick before this one, and the
\* motion was evaluated then.
LEMMA RowIsUnbroken ==
  ASSUME SlotIsSound, NEW a, AntiAimDataIsSound(a), TimesAreRecent(a), NEW n \in Nat, n >= 2,
         InARow(a, n), a.lastMotion # Unknown
  PROVE  tick - a.lastMotion <= 1
<1>1. tick \in Nat /\ Ticks \subseteq Nat /\ a.lastMotion \in Ticks
  BY SlotNumbers DEF AntiAimDataIsSound, AntiAimData
<1>2. a.lastMotion \in Nat
  BY <1>1
<1>3. tick - 1 \in (tick - n + 1)..tick
  BY <1>1
<1>4. PICK i \in 1..Len(a.commands) : a.commands[i].serverTick = tick - 1
  BY <1>3 DEF InARow
<1>5. tick - 1 <= a.lastMotion
  <2>1. tick - 1 # tick
    BY <1>1
  <2> QED
    BY <1>4, <2>1 DEF TimesAreRecent
<1> QED
  BY <1>1, <1>2, <1>5

LEMMA RecentIsPast ==
  ASSUME SlotIsSound, NEW a, TimesAreRecent(a), NEW e, e.commands = a.commands, e.lastMotion = tick
  PROVE  TimesArePast(e)
<1>1. tick <= tick
  BY SlotNumbers
<1> QED
  BY <1>1 DEF TimesAreRecent, TimesArePast

LEMMA RowNumbers ==
  /\ Len(SpinTicks) \in Nat /\ SpinSamples \in Nat /\ JitterSamples \in Nat
  /\ SpinSamples >= 2 /\ JitterSamples >= 2
BY AntiAimAssumption

LEMMA JudgedCommandIsQuiet ==
  ASSUME SlotIsSound, NEW a, AntiAimDataIsSound(a), IsQuiet(a), MovingShows(a), TimesAreRecent(a),
         NEW c \in Commands, NEW view \in Views, NEW fast \in 0..Len(SpinTicks),
         NEW jitters \in BOOLEAN, NEW returned \in BOOLEAN,
         NEW e, e = JudgeCommand(a, c, view, fast, jitters, returned)
  PROVE  EpisodeIsSound(e)
<1> DEFINE marked == Inconsistent(a, c, view)
           evident == Invalid(marked, view)
           quick == IF InARow(a, SpinSamples) THEN fast ELSE 0
           shaky == jitters /\ InARow(a, JitterSamples)
           moved == EvaluateMotion(evident, quick, shaky)
           settled == EvaluatePendingShot(moved, returned)
<1>1. e = EpisodeEnd(settled, view)
  <2>1. JudgeCommand(a, c, view, fast, jitters, returned) = EpisodeEnd(settled, view)
    BY DEF JudgeCommand
  <2> HIDE DEF settled
  <2> QED
    BY <2>1, Zenon
<1>2. shaky \in BOOLEAN /\ quick \in 0..Len(SpinTicks)
  BY RowNumbers
<1>3. (quick > 0 \/ shaky) /\ a.lastMotion # Unknown => tick - a.lastMotion <= 1
  <2>1. quick > 0 \/ shaky => InARow(a, SpinSamples) \/ InARow(a, JitterSamples)
    OBVIOUS
  <2> HIDE DEF quick, shaky
  <2> QED
    BY <2>1, RowIsUnbroken, RowNumbers
<1> HIDE DEF quick, shaky
<1>4. AntiAimDataIsSound(marked) /\ marked.commands = a.commands
  BY InconsistencyMarked DEF SameReturn
<1>5. /\ IsQuiet(marked) /\ SameMotion(a, marked)
      /\ marked.inconsistencyActive = (view.problem \/ view.mismatch)
  BY InconsistencyIsQuiet DEF AntiAimDataIsSound
<1> HIDE DEF marked
<1>6. AntiAimDataIsSound(evident) /\ evident.commands = marked.commands
  BY <1>4, InvalidMarked DEF SameReturn
<1>7. /\ IsQuiet(evident) /\ SameMotion(marked, evident) /\ evident.invalidActive = view.invalid
      /\ evident.inconsistencyActive = marked.inconsistencyActive
  BY <1>4, <1>5, InvalidIsQuiet DEF AntiAimDataIsSound
<1> HIDE DEF evident
<1>8. MovingShows(evident) /\ evident.lastMotion = a.lastMotion
  BY <1>5, <1>7 DEF SameMotion, MovingShows
<1>9. AntiAimDataIsSound(moved) /\ moved.commands = evident.commands
  BY <1>2, <1>6, MotionEvaluated DEF SameReturn
<1>10. IsQuiet(moved) /\ MovingShows(moved) /\ SameMarks(evident, moved) /\ moved.lastMotion = tick
  BY <1>2, <1>3, <1>6, <1>7, <1>8, MotionIsQuiet
<1> HIDE DEF moved
<1>11. /\ AntiAimDataIsSound(settled) /\ IsQuiet(settled) /\ SameMotion(moved, settled) /\ SameMarks(moved, settled)
       /\ settled.commands = moved.commands
  BY <1>9, <1>10, PendingIsQuiet
<1> HIDE DEF settled
<1>12. /\ settled.inconsistencyActive = (view.problem \/ view.mismatch)
       /\ settled.invalidActive = view.invalid /\ MovingShows(settled)
  BY <1>5, <1>7, <1>10, <1>11 DEF SameMarks, SameMotion, MovingShows
<1>13. IsQuiet(e) /\ MovingShows(e) /\ e.lastMotion = settled.lastMotion
  BY <1>1, <1>11, <1>12, EndIsQuiet DEF AntiAimDataIsSound
<1>14. e.commands = settled.commands
  BY <1>1, <1>11, EpisodeEnded DEF SameReturn
<1>15. e.commands = a.commands /\ e.lastMotion = tick
  BY <1>4, <1>6, <1>9, <1>10, <1>11, <1>13, <1>14 DEF SameMotion
<1> QED
  BY <1>13, <1>15, RecentIsPast DEF EpisodeIsSound

\* What keeps the times, or forgets the motion, keeps them in the past.
LEMMA TimesStayPast ==
  ASSUME SlotIsSound, NEW a, AntiAimDataIsSound(a), TimesArePast(a), NEW e,
         TicksFrom(e.commands, a.commands), e.lastMotion \in {a.lastMotion, Unknown}
  PROVE  TimesArePast(e)
<1>1. tick \in Nat /\ NotSimulated <= tick
  BY SlotNumbers DEF NotSimulated
<1>2. e.lastMotion # Unknown => NotSimulated <= e.lastMotion
  <2>1. e.lastMotion \in Ticks \union {Unknown}
    BY DEF AntiAimDataIsSound, AntiAimData
  <2>2. \A t \in Ticks : NotSimulated <= t
    BY SlotAssumption DEF Ticks, NotSimulated
  <2> QED
    BY <2>1, <2>2
<1> QED
  BY <1>1, <1>2 DEF TimesArePast, TicksFrom

LEMMA SimulatedTimesAreRecent ==
  ASSUME SlotIsSound, NEW a, AntiAimDataIsSound(a), TimesArePast(a), NEW c, NEW e,
         TicksWith(e.commands, a.commands, c), e.lastMotion = a.lastMotion
  PROVE  TimesAreRecent(e)
<1>1. tick \in Nat /\ NotSimulated <= tick
  BY SlotNumbers DEF NotSimulated
<1>2. e.lastMotion # Unknown => NotSimulated <= e.lastMotion
  <2>1. e.lastMotion \in Ticks \union {Unknown}
    BY DEF AntiAimDataIsSound, AntiAimData
  <2>2. \A t \in Ticks : NotSimulated <= t
    BY SlotAssumption DEF Ticks, NotSimulated
  <2> QED
    BY <2>1, <2>2
<1> QED
  BY <1>1, <1>2 DEF TimesArePast, TimesAreRecent, TicksWith

LEMMA DecayIsQuiet ==
  ASSUME NEW a, AntiAimDataIsSound(a), IsQuiet(a), NEW e \in ApplyDecay(a)
  PROVE  IsQuiet(e) /\ SameMotion(a, e)
<1>1. a \in AntiAimData
  BY DEF AntiAimDataIsSound
<1>2. PICK s \in {a.score, a.score - 1} \intersect Nat,
           n \in {a.mismatchScore, a.mismatchScore - 1} \intersect Nat :
        e = Scored(a, s, n)
  BY DEF ApplyDecay
<1>3. e = [a EXCEPT !.score = s, !.mismatchScore = n]
  BY <1>2 DEF Scored
<1> QED
  BY <1>1, <1>3 DEF AntiAimData, IsQuiet, SameMotion

\* A command that is not judged ends what was going on.
LEMMA EpisodeDropped ==
  ASSUME SlotIsSound, NEW a, AntiAimDataIsSound(a), IsQuiet(a),
         \A j \in 1..Len(a.commands) : a.commands[j].serverTick <= tick
  PROVE  /\ EpisodeIsSound(NoShot(ResetMotion(a))) /\ EpisodeIsSound(Grace(a))
         /\ EpisodeIsSound(Dead(a))
<1> DEFINE still == ResetMotion(a)
           none == NoShot(still)
           grace == Grace(a)
           dead == Dead(a)
<1>1. /\ AntiAimDataIsSound(still) /\ still \in AntiAimData /\ IsQuiet(still) /\ ~still.moving
      /\ still.lastMotion = Unknown /\ still.commands = a.commands
  BY MotionReset, MotionIsForgotten DEF AntiAimDataIsSound
<1> HIDE DEF still
<1>2. AntiAimDataIsSound(none)
  BY <1>1, ShotGivenUp
<1>3. /\ none \in AntiAimData /\ IsQuiet(none) /\ ~none.moving /\ none.lastMotion = Unknown
      /\ none.commands = a.commands
  <2>1. SameMotion(still, none) /\ none.commands = still.commands /\ IsQuiet(none)
    BY <1>1, ShotIsForgotten
  <2> HIDE DEF none
  <2> QED
    BY <1>1, <1>2, <2>1 DEF SameMotion, AntiAimDataIsSound
<1>4. /\ grace = [none EXCEPT !.invalidActive = FALSE, !.inconsistencyActive = FALSE]
      /\ dead = [none EXCEPT !.commands = <<>>, !.lastMismatch = Unknown, !.invalidActive = FALSE,
                             !.inconsistencyActive = FALSE, !.suppressContinuous = FALSE, !.quiet = TRUE]
  BY DEF Grace, Dead, still
<1> HIDE DEF none, grace, dead
<1>5. /\ IsQuiet(grace) /\ ~grace.moving /\ grace.lastMotion = Unknown
      /\ grace.commands = none.commands
  BY <1>3, <1>4 DEF AntiAimData, IsQuiet
<1>6. IsQuiet(dead) /\ ~dead.moving /\ dead.lastMotion = Unknown /\ dead.commands = <<>>
  <2> DEFINE empty == [none EXCEPT !.commands = <<>>, !.lastMismatch = Unknown, !.invalidActive = FALSE]
  <2>1. <<>> \in Seq(AntiAimCommand) /\ Len(<<>>) = 0
    BY EmptySeq
  <2>2. /\ empty \in AntiAimData /\ empty.commands = <<>> /\ empty.repeated = none.repeated
        /\ empty.moving = none.moving /\ empty.lastMotion = none.lastMotion
    BY <1>3, <2>1 DEF AntiAimData
  <2>3. dead = [empty EXCEPT !.inconsistencyActive = FALSE, !.suppressContinuous = FALSE, !.quiet = TRUE]
    BY <1>4
  <2> HIDE DEF empty
  <2>4. /\ dead.repeated = empty.repeated /\ dead.quiet /\ dead.commands = empty.commands
        /\ dead.moving = empty.moving /\ dead.lastMotion = empty.lastMotion
    BY <2>2, <2>3 DEF AntiAimData
  <2> QED
    BY <1>3, <2>2, <2>4 DEF IsQuiet
<1>7. EpisodeIsSound(none)
  BY <1>3 DEF EpisodeIsSound, MovingShows, TimesArePast
<1>8. EpisodeIsSound(grace)
  BY <1>3, <1>5 DEF EpisodeIsSound, MovingShows, TimesArePast
<1>9. EpisodeIsSound(dead)
  <2>1. Len(dead.commands) = 0
    BY <1>6, EmptySeq
  <2> QED
    BY <1>6, <2>1 DEF EpisodeIsSound, MovingShows, TimesArePast
<1> QED
  BY <1>7, <1>8, <1>9 DEF none, grace, dead, still

LEMMA AimCommandIsQuiet ==
  ASSUME SlotIsSound, NEW a, AntiAimDataIsSound(a), EpisodeIsSound(a), NEW c \in Commands,
         NEW attack, NEW e \in AntiAimOnSetupMove(a, c, attack)
  PROVE  EpisodeIsSound(e)
<1>1. CASE e = Dead(a)
  <2>1. \A j \in 1..Len(a.commands) : a.commands[j].serverTick <= tick
    BY DEF EpisodeIsSound, TimesArePast
  <2> QED
    BY <1>1, <2>1, EpisodeDropped DEF EpisodeIsSound
<1>2. ASSUME NEW d \in ApplyDecay(a),
             e \in IF ~Stored(d, c) THEN {NoShot(ResetMotion(d))}
                   ELSE {Grace(Simulated(d, c))} \union
                        {JudgeCommand(Simulated(d, c), c, v, fast, jitters, returned) :
                           v \in Shown(attack), fast \in 0..Len(SpinTicks),
                           jitters \in BOOLEAN, returned \in BOOLEAN}
      PROVE  EpisodeIsSound(e)
  <2> DEFINE s == Simulated(d, c)
             judgements == {JudgeCommand(s, c, v, fast, jitters, returned) :
                              v \in Shown(attack), fast \in 0..Len(SpinTicks),
                              jitters \in BOOLEAN, returned \in BOOLEAN}
  <2>1. /\ AntiAimDataIsSound(d) /\ SameReturn(a, d) /\ IsQuiet(d) /\ SameMotion(a, d)
    BY <1>2, ScoreDecays, DecayIsQuiet DEF EpisodeIsSound
  <2>2. \/ e = NoShot(ResetMotion(d))
        \/ e = Grace(s)
        \/ e \in judgements
    BY <1>2
  <2>3. TimesArePast(d) /\ MovingShows(d)
    BY <2>1 DEF EpisodeIsSound, TimesArePast, MovingShows, SameReturn, SameMotion
  <2>4. AntiAimDataIsSound(s) /\ TicksWith(s.commands, d.commands, c)
    BY <2>1, ReturnCommandSimulated
  <2>5. IsQuiet(s) /\ SameMotion(d, s)
    BY <2>1 DEF Simulated, AntiAimDataIsSound, AntiAimData, IsQuiet, SameMotion
  <2> HIDE DEF s
  <2>6. TimesAreRecent(s) /\ MovingShows(s)
    BY <2>1, <2>3, <2>4, <2>5, SimulatedTimesAreRecent DEF SameMotion, MovingShows
  <2>7. /\ \A j \in 1..Len(d.commands) : d.commands[j].serverTick <= tick
        /\ \A j \in 1..Len(s.commands) : s.commands[j].serverTick <= tick
    <3>1. tick <= tick
      BY SlotNumbers
    <3> QED
      BY <2>3, <2>6, <3>1 DEF TimesArePast, TimesAreRecent
  <2>8. CASE e \in judgements
    <3>1. PICK v \in Shown(attack), fast \in 0..Len(SpinTicks), jitters \in BOOLEAN,
               returned \in BOOLEAN :
            e = JudgeCommand(s, c, v, fast, jitters, returned)
      BY <2>8
    <3>2. v \in Views
      BY DEF Shown
    <3> QED
      BY <2>4, <2>5, <2>6, <3>1, <3>2, JudgedCommandIsQuiet
  <2> HIDE DEF judgements
  <2> QED
    BY <2>1, <2>2, <2>4, <2>5, <2>7, <2>8, EpisodeDropped
<1> QED
  BY <1>1, <1>2 DEF AntiAimOnSetupMove

LEMMA ShotIsQuiet ==
  ASSUME SlotIsSound, NEW a, AntiAimDataIsSound(a), EpisodeIsSound(a), NEW returned \in BOOLEAN,
         NEW e, e = EvaluatePendingShot(a, returned)
  PROVE  EpisodeIsSound(e)
<1>1. IsQuiet(e) /\ SameMotion(a, e) /\ e.commands = a.commands
  BY PendingIsQuiet DEF EpisodeIsSound
<1> QED
  BY <1>1 DEF EpisodeIsSound, MovingShows, TimesArePast, SameMotion

LEMMA FiredIsQuiet ==
  ASSUME SlotIsSound, NEW a, AntiAimDataIsSound(a), EpisodeIsSound(a), NEW c \in Commands,
         NEW returned \in BOOLEAN, NEW e, e = AntiAimOnWeaponFire(a, c, returned)
  PROVE  EpisodeIsSound(e)
<1> DEFINE f == Fired(a, c)
           t == (CHOOSE x \in Find(a, c) : TRUE).serverTick
<1>1. a \in AntiAimData
  BY DEF AntiAimDataIsSound
<1>2. e = EvaluatePendingShot(f, returned)
  BY DEF AntiAimOnWeaponFire
<1>3. AntiAimDataIsSound(f) /\ EpisodeIsSound(f)
  <2>1. CASE Find(a, c) = {}
    BY <2>1 DEF Fired
  <2>2. CASE Find(a, c) # {}
    <3>1. PICK j \in 1..Len(a.commands) :
            /\ t = a.commands[j].serverTick /\ a.commands[j].serverTick # NotSimulated
      BY <2>2 DEF Find
    <3>3. f = [a EXCEPT !.pendingShot = c, !.pendingShotTick = t]
      BY <2>2 DEF Fired
    <3> HIDE DEF t, f
    <3>2. t \in Ticks
      <4>1. a.commands[j] \in AntiAimCommand
        BY <1>1 DEF AntiAimData
      <4> QED
        BY <3>1, <4>1 DEF AntiAimCommand
    <3>4. AntiAimDataIsSound(f)
      BY <3>2, <3>3 DEF AntiAimDataIsSound, AntiAimData
    <3>5. /\ f.repeated = a.repeated /\ f.suppressContinuous = a.suppressContinuous
          /\ f.quiet = a.quiet /\ SameMotion(a, f) /\ f.commands = a.commands
      BY <1>1, <3>3 DEF AntiAimData, SameMotion
    <3> QED
      BY <3>4, <3>5 DEF EpisodeIsSound, IsQuiet, MovingShows, TimesArePast, SameMotion
  <2> QED
    BY <2>1, <2>2
<1> HIDE DEF f
<1> QED
  BY <1>2, <1>3, ShotIsQuiet

LEMMA ArrivalIsQuiet ==
  ASSUME SlotIsSound, NEW a, AntiAimDataIsSound(a), ShotWaits(a), EpisodeIsSound(a),
         NEW c \in Commands, NEW e, e = AntiAimOnProcessUsercmds(a, c)
  PROVE  EpisodeIsSound(e)
<1> DEFINE s == Bounded(Append(a.commands, [number |-> c, serverTick |-> NotSimulated]), AntiAimHistory)
<1>1. e = a \/ e = [a EXCEPT !.commands = s]
  BY DEF AntiAimOnProcessUsercmds
<1> HIDE DEF s
<1>2. IsQuiet(e) /\ SameMotion(a, e)
  BY <1>1 DEF EpisodeIsSound, IsQuiet, SameMotion, AntiAimDataIsSound, AntiAimData
<1>3. TimesArePast(e)
  <2>1. TicksFrom(e.commands, a.commands)
    BY ReturnCommandArrives
  <2>2. e.lastMotion \in {a.lastMotion, Unknown}
    BY <1>2 DEF SameMotion
  <2> QED
    BY <2>1, <2>2, TimesStayPast DEF EpisodeIsSound
<1> QED
  BY <1>2, <1>3 DEF EpisodeIsSound, MovingShows, SameMotion

\* Time passes.
LEMMA EpisodeEstablished ==
  ASSUME SlotIsSound, AntiAimIsSound', EpisodeIsSound(antiAim'),
         tick' = tick \/ tick' = tick + 1
  PROVE  EpisodeIsSound(antiAim)'
<1>1. \A j \in 1..Len(antiAim'.commands) : antiAim'.commands[j].serverTick <= tick'
  <2>1. TAKE j \in 1..Len(antiAim'.commands)
  <2>2. antiAim'.commands[j].serverTick <= tick
    BY DEF EpisodeIsSound, TimesArePast
  <2>3. antiAim'.commands[j].serverTick \in Int /\ tick \in Int
    <3>1. antiAim'.commands[j] \in AntiAimCommand
      <4>1. antiAim'.commands \in Seq(AntiAimCommand)
        BY DEF AntiAimIsSound, AntiAimDataIsSound, AntiAimData, AntiAimCommand, Commands, Ticks
      <4> QED
        BY <4>1
    <3>2. \A t \in Ticks \union {NotSimulated} : t \in Int
      BY SlotAssumption DEF NotSimulated, Ticks
    <3>3. antiAim'.commands[j].serverTick \in Ticks \union {NotSimulated}
      BY <3>1 DEF AntiAimCommand
    <3> QED
      BY <3>2, <3>3 DEF SlotIsSound
  <2>4. \A m, t \in Int : m <= t => m <= t + 1
    OBVIOUS
  <2> QED
    BY <2>2, <2>3, <2>4, Zenon
<1> QED
  BY <1>1 DEF EpisodeIsSound, IsQuiet, MovingShows, TimesArePast

LEMMA CleanIsQuiet ==
  ASSUME NEW a, a = AntiAimClean
  PROVE  EpisodeIsSound(a)
<1>1. /\ a.commands = <<>> /\ ~a.repeated /\ a.quiet /\ ~a.moving
  BY DEF AntiAimClean
<1>2. Len(a.commands) = 0
  BY <1>1, EmptySeq
<1> QED
  BY <1>1, <1>2 DEF EpisodeIsSound, IsQuiet, MovingShows, TimesArePast

(***************************************************************************)
(* The announcement for something continuous silences the module until a   *)
(* command shows nothing that is still active: that command is quiet.      *)
(* The one thing a command may show without its mark is a motion, and the  *)
(* motion that was evaluated last is still in progress unless a tick went  *)
(* by without a command: then the history that would show it has a gap.    *)
(***************************************************************************)
LEMMA EpisodeStep ==
  ASSUME SlotIsSound, CommandsAreSound, AntiAimIsSound, EpisodeIsSound(antiAim), [Next]_vars
  PROVE  EpisodeIsSound(antiAim)'
<1>0. AntiAimDataIsSound(antiAim) /\ ShotWaits(antiAim)
  BY DEF AntiAimIsSound
<1>1. AntiAimIsSound'
  BY AntiAimStep
<1>2. EpisodeIsSound(antiAim') /\ (tick' = tick \/ tick' = tick + 1)
  <2>1. ASSUME antiAim' = antiAim PROVE EpisodeIsSound(antiAim')
    BY <2>1 DEF EpisodeIsSound, IsQuiet, MovingShows, TimesArePast
  <2>2. ASSUME antiAim' = AntiAimClean PROVE EpisodeIsSound(antiAim')
    BY <2>2, CleanIsQuiet
  <2>3. ASSUME NEW returned \in BOOLEAN, antiAim' = AntiAimOnGameFrame(antiAim, returned)
        PROVE  EpisodeIsSound(antiAim')
    <3>1. antiAim' = antiAim \/ antiAim' = EvaluatePendingShot(antiAim, returned)
      BY <2>3 DEF AntiAimOnGameFrame
    <3> QED
      BY <1>0, <2>1, <3>1, ShotIsQuiet
  <2>4. ASSUME NEW c \in Commands, antiAim' = AntiAimOnProcessUsercmds(antiAim, c)
        PROVE  EpisodeIsSound(antiAim')
    BY <1>0, <2>4, ArrivalIsQuiet
  <2>5. ASSUME NEW c \in Commands, antiAim' \in AntiAimOnSetupMove(antiAim, c, c \in Attacks)
        PROVE  EpisodeIsSound(antiAim')
    BY <1>0, <2>5, AimCommandIsQuiet
  <2>6. ASSUME NEW c \in Commands, NEW returned \in BOOLEAN,
               antiAim' = AntiAimOnWeaponFire(antiAim, c, returned)
        PROVE  EpisodeIsSound(antiAim')
    BY <1>0, <2>6, FiredIsQuiet
  <2>7. CASE UNCHANGED vars \/ OnClientReady \/ OnFireBullets \/ OnPlayerHurt \/ Connect
    <3>1. antiAim' = antiAim /\ tick' = tick
      BY <2>7 DEF vars, slotVars, moduleVars, OnClientReady, OnFireBullets, OnPlayerHurt, Hurt, Connect,
         Join
    <3> QED
      BY <2>1, <3>1
  <2>8. CASE OnClientDisconnect \/ Reset \/ OnPlayerSpawn
    <3>1. antiAim' = AntiAimClean /\ tick' = tick
      BY <2>8 DEF OnClientDisconnect, Reset, OnPlayerSpawn, Leave, Refreshed, slotVars
    <3> QED
      BY <2>2, <3>1
  <2>9. CASE OnGameFrame
    <3>1. tick' = tick + 1
      BY <2>9 DEF OnGameFrame, Clock
    <3>2. \/ antiAim' = antiAim
          \/ \E returned \in BOOLEAN : antiAim' = AntiAimOnGameFrame(antiAim, returned)
      BY <2>9 DEF OnGameFrame, Handled
    <3> QED
      BY <2>1, <2>3, <3>1, <3>2
  <2>10. ASSUME NEW c \in Commands, OnProcessUsercmds(c)
         PROVE  EpisodeIsSound(antiAim') /\ tick' = tick
    <3>1. tick' = tick /\ (antiAim' = antiAim \/ antiAim' = AntiAimOnProcessUsercmds(antiAim, c))
      BY <2>10 DEF OnProcessUsercmds, Handled, slotVars, Arrives
    <3> QED
      BY <2>1, <2>4, <3>1
  <2>11. ASSUME NEW c \in Commands, OnSetupMove(c)
         PROVE  EpisodeIsSound(antiAim') /\ tick' = tick
    <3>1. /\ tick' = tick
          /\ antiAim' = antiAim \/ antiAim' \in AntiAimOnSetupMove(antiAim, c, c \in Attacks)
      BY <2>11 DEF OnSetupMove, Simulates, Handled
    <3> QED
      BY <2>1, <2>5, <3>1
  <2>12. ASSUME NEW w \in Weapons, OnWeaponFire(w)
         PROVE  EpisodeIsSound(antiAim') /\ tick' = tick
    <3>0. tick' = tick
      BY <2>12 DEF OnWeaponFire, slotVars
    <3>1. CASE Discarded /\ UNCHANGED antiAim
      BY <2>1, <3>0, <3>1
    <3>2. CASE Shoots(w)
      <4>1. PICK i \in UsableCommands :
              antiAim' \in Handled(AntiAimDetection, antiAim,
                 {AntiAimOnWeaponFire(antiAim, commands[i].number, returned) : returned \in BOOLEAN})
        BY <3>2 DEF Shoots, Recorded
      <4>2. commands[i].number \in Commands
        <5>1. i \in 1..Len(commands)
          BY DEF UsableCommands
        <5>2. commands[i] \in ShotCommand
          BY <5>1 DEF CommandsAreSound
        <5> QED
          BY <5>2 DEF ShotCommand
      <4> QED
        BY <2>1, <2>6, <3>0, <4>1, <4>2 DEF Handled
    <3> QED
      BY <2>12, <3>1, <3>2 DEF OnWeaponFire
  <2>13. ASSUME NEW w \in Weapons, OnPlayerDeath(w)
         PROVE  EpisodeIsSound(antiAim') /\ tick' = tick
    <3>1. antiAim' = antiAim /\ tick' = tick
      BY <2>13 DEF OnPlayerDeath, Died, slotVars
    <3> QED
      BY <2>1, <3>1
  <2>14. ASSUME NEW changed \in BOOLEAN, NEW lapsed \in 0..MaxNameChanges,
                OnClientSettingsChanged(changed, lapsed)
         PROVE  EpisodeIsSound(antiAim') /\ tick' = tick
    <3>1. antiAim' = antiAim /\ tick' = tick
      BY <2>14 DEF OnClientSettingsChanged, slotVars, shotVars
    <3> QED
      BY <2>1, <3>1
  <2> QED
    BY <2>7, <2>8, <2>9, <2>10, <2>11, <2>12, <2>13, <2>14 DEF Next
<1> QED
  BY <1>1, <1>2, EpisodeEstablished

-----------------------------------------------------------------------------
\* The whole.

IInv ==
  /\ SlotIsSound /\ CommandsAreSound /\ ShotsAreSound /\ EvidenceIsOwn
  /\ AimbotIsSound /\ AimlockIsSound /\ AntiAimIsSound
  /\ IrregularIsSound /\ NamesAreSound /\ ScansAreSound
  /\ AttemptsAreSound /\ UsableAreNewest /\ ShotsAreOrdered /\ HitsAreSound
  /\ EpisodeIsSound(antiAim)

LEMMA InitIsSound ==
  ASSUME Init
  PROVE  IInv
<1>1. SlotIsSound /\ ~connected /\ simulated = 0
  <2>1. MaxTick \in Nat
    BY SlotAssumption
  <2>2. /\ tick \in Ticks /\ connection \in {0} \union Connections
        /\ simulated = 0 /\ simulated \in {0} \union Commands /\ enabled \in Settings
    BY <2>1 DEF Init, SlotInit, Ticks
  <2>3. connected \in BOOLEAN /\ ~connected
    BY Zenon DEF Init, SlotInit
  <2> QED
    BY <2>2, <2>3 DEF SlotIsSound
<1>2. /\ commands = <<>> /\ shots = <<>> /\ evidence = Nothing /\ recorded = 0 /\ uses = Unused
  BY DEF Init, ShotInit
<1>3. CommandsAreSound
  BY <1>1, <1>2, ShotAssumption DEF CommandsAreSound, OneShotPerCommand, Unused
<1>4. ShotsAreSound
  BY <1>2, ShotNumbers DEF ShotsAreSound
<1>5. EvidenceIsOwn
  BY <1>2 DEF EvidenceIsOwn, Nothing
<1>6. AimbotIsSound /\ AimlockIsSound /\ IrregularIsSound /\ NamesAreSound /\ ScansAreSound
  BY CleanAimbot, CleanAimlock, CleanIrregular, CleanNames, CleanScans
     DEF Init, AimbotIsSound, AimlockIsSound, IrregularIsSound, NamesAreSound, ScansAreSound
<1>7. AntiAimIsSound
  <2>1. antiAim = AntiAimClean
    BY DEF Init
  <2> QED
    BY <1>1, <2>1, CleanAntiAim DEF AntiAimIsSound, ShotWaits, SameTimes
<1>8. AttemptsAreSound
  <2>1. irregular.pending = <<>>
    BY DEF Init, IrregularClean
  <2> QED
    BY <1>2, <2>1 DEF AttemptsAreSound, ShotsAreNumbered, AttemptsFit, KillsFind
<1>9. UsableAreNewest /\ ShotsAreOrdered
  BY <1>2 DEF UsableAreNewest, ShotsAreOrdered
<1>10. HitsAreSound
  BY <1>2 DEF Init, AimbotClean, HitsAreSound, HitTimes, HitIsKnown
<1>11. EpisodeIsSound(antiAim)
  BY CleanIsQuiet DEF Init
<1> QED
  BY <1>1, <1>3, <1>4, <1>5, <1>6, <1>7, <1>8, <1>9, <1>10, <1>11 DEF IInv

LEMMA StepIsSound ==
  ASSUME IInv, [Next]_vars
  PROVE  IInv'
<1> USE DEF IInv
<1>1. SlotIsSound'
  <2>1. CASE Next
    BY <2>1, StepsMoveTheSlot, SlotStep
  <2>2. CASE UNCHANGED vars
    BY <2>2, SlotStep DEF vars, SlotMoves
  <2> QED
    BY <2>1, <2>2
<1>2. CommandsAreSound'
  <2>1. CASE UNCHANGED vars
    BY <2>1, CommandsStay DEF vars, slotVars, shotVars
  <2> QED
    BY <2>1, CommandsStep
<1>3. ShotsAreSound'
  <2>1. CASE UNCHANGED vars
    BY <2>1, ShotsStay DEF vars, slotVars, shotVars
  <2> QED
    BY <2>1, ShotsStep
<1>4. EvidenceIsOwn' /\ AimbotIsSound' /\ AimlockIsSound'
  BY EvidenceStep, AimbotStep, AimlockStep
<1>5. AntiAimIsSound' /\ IrregularIsSound' /\ NamesAreSound' /\ ScansAreSound'
  BY AntiAimStep, IrregularStep, NamesStep, ScansStep
<1>6. AttemptsAreSound' /\ UsableAreNewest' /\ ShotsAreOrdered' /\ HitsAreSound'
  BY AttemptsStep, NewestStep, OrderStep, HitsStep
<1>7. EpisodeIsSound(antiAim)'
  BY EpisodeStep
<1> QED
  BY <1>1, <1>2, <1>3, <1>4, <1>5, <1>6, <1>7

(***************************************************************************)
(* The inductive invariant: what was stored when a command was simulated,  *)
(* a shot made or a player looked at agrees with the slot, the clock and   *)
(* what else was stored.                                                   *)
(***************************************************************************)
THEOREM Invariance == Spec => []IInv
BY InitIsSound, StepIsSound, PTL DEF Spec

(***************************************************************************)
(* When the next hit comes, the one that still waits is older than every   *)
(* stored shot but one: shots are stored in the order of their commands,   *)
(* and only one is young enough to be hit.  Its next command was simulated *)
(* by then, so that it was judged, unless the module never saw it.         *)
(***************************************************************************)
THEOREM HitsAreNotForgotten == Spec => []HitsAreJudged
<1>1. IInv => HitsAreJudged
  BY DEF IInv, HitsAreSound, HitIsKnown, HitsAreJudged
<1> QED
  BY <1>1, Invariance, PTL

(***************************************************************************)
(* The attempt of a shot stays until the shot is too old for its kill or   *)
(* an announcement clears it: attempts leave in their order, and as the    *)
(* limit on shots is not above the one on attempts, a stored shot has      *)
(* never lost its attempt to newer ones.                                   *)
(***************************************************************************)
THEOREM KillsFindTheirAttempts == Spec => []KillFindsItsAttempt
<1>1. IInv => KillFindsItsAttempt
  BY DEF IInv, AttemptsAreSound, KillsFind, Held, KillFindsItsAttempt
<1> QED
  BY <1>1, Invariance, PTL

(***************************************************************************)
(* Whoever spins, jitters or shows impossible angles on end is announced   *)
(* once: between two announcements for something continuous a command      *)
(* showed nothing, or the player died or began anew.                       *)
(***************************************************************************)
THEOREM EpisodesAreAnnouncedOnce == Spec => []OnePerEpisode
<1>1. IInv => OnePerEpisode
  BY DEF IInv, EpisodeIsSound, IsQuiet, OnePerEpisode
<1> QED
  BY <1>1, Invariance, PTL

(***************************************************************************)
(* Every variable stays within its type, the deques within their limits    *)
(* and AntiAim's score below the threshold.                                *)
(***************************************************************************)
THEOREM TypeIsCorrect == Spec => []TypeOK
<1>1. ASSUME IInv PROVE TypeOK
  <2> USE DEF IInv
  <2>1. SlotTypeOK
    BY <1>1, SettingsAssumption DEF SlotIsSound, SlotTypeOK
  <2>2. ShotTypeOK
    BY <1>1 DEF CommandsAreSound, ShotsAreSound, EvidenceIsOwn, ShotTypeOK
  <2>3. AimbotTypeOK(aimbot) /\ AimlockTypeOK(aimlock)
    BY <1>1 DEF AimbotIsSound, AimbotDataIsSound, AimbotTypeOK, AimlockIsSound,
                AimlockDataIsSound, AimlockTypeOK
  <2>4. AntiAimTypeOK(antiAim)
    <3>1. /\ antiAim \in AntiAimData /\ Len(antiAim.commands) <= AntiAimHistory
          /\ antiAim.score + antiAim.mismatchScore < Threshold
      BY <1>1 DEF AntiAimIsSound, AntiAimDataIsSound
    <3>2. DOMAIN antiAim = DOMAIN AntiAimClean
      BY <3>1 DEF AntiAimData, AntiAimClean
    <3> QED
      BY <3>1, <3>2 DEF AntiAimTypeOK, AntiAimData
  <2>5. IrregularTypeOK(irregular)
    <3>1. irregular \in IrregularData /\ Len(irregular.pending) <= PendingLimit
      BY <1>1 DEF IrregularIsSound, IrregularDataIsSound
    <3> QED
      BY <3>1 DEF IrregularData, IrregularEvidence, IrregularTypeOK
  <2>6. NameTypeOK(names) /\ ScanTypeOK(scans)
    BY <1>1 DEF NamesAreSound, NameDataIsSound, NameTypeOK, ScansAreSound, ScanDataIsSound, ScanTypeOK
  <2> QED
    BY <2>1, <2>2, <2>3, <2>4, <2>5, <2>6 DEF TypeOK
<1> QED
  BY <1>1, Invariance, PTL

(***************************************************************************)
(* A user command explains at most one shot, however often it is delivered *)
(* again and whenever Reset forgets what was consumed: when it is          *)
(* simulated it has made no shot, it keeps the tick of that, and the first *)
(* weapon_fire that could mean it uses it up.                              *)
(***************************************************************************)
THEOREM CommandsMakeOneShot == Spec => []OneShotPerCommand
<1>1. IInv => OneShotPerCommand
  BY DEF IInv, CommandsAreSound
<1> QED
  BY <1>1, Invariance, PTL

(***************************************************************************)
(* What is due to be judged has never been judged by that module.          *)
(***************************************************************************)
THEOREM ShotsAreJudgedOnce == Spec => []JudgedOnce
<1>1. IInv => JudgedOnce
  BY DEF IInv, ShotsAreSound, ShotIsSound, JudgedOnce, Due
<1> QED
  BY <1>1, Invariance, PTL

(***************************************************************************)
(* Whatever counts against a player was done on his own connection.        *)
(***************************************************************************)
THEOREM EvidenceIsThePlayers == Spec => []EvidenceIsOfThisConnection
<1>1. ASSUME IInv PROVE EvidenceIsOfThisConnection
  <2> USE DEF IInv
  <2>1. \A m \in Modules : evidence[m] \subseteq Own
    BY <1>1 DEF EvidenceIsOwn
  <2>2. aimbot.evidence \subseteq Own /\ aimlock.evidence \subseteq Own
    BY <1>1 DEF AimbotIsSound, AimbotDataIsSound, AimlockIsSound, AimlockDataIsSound
  <2>3. \A i \in 1..Len(irregular.evidence) : irregular.evidence[i].connection \in Own
    BY <1>1 DEF IrregularIsSound, IrregularDataIsSound
  <2>4. \A i \in 1..Len(names.changes) : names.changes[i] \in Own
    BY <1>1 DEF NamesAreSound, NameDataIsSound
  <2>5. ASSUME NEW i \in 1..Len(shots) PROVE shots[i].connection \in Own
    <3>1. shots # <<>>
      <4> SUFFICES ASSUME shots = <<>> PROVE FALSE
        OBVIOUS
      <4>1. Len(shots) = 0
        OBVIOUS
      <4> QED
        BY <4>1
    <3>2. connected /\ ShotIsSound(shots[i])
      BY <1>1, <3>1 DEF ShotsAreSound
    <3> QED
      BY <3>2 DEF ShotIsSound, Own
  <2>6. \A c \in Own : connected /\ c = connection
    BY DEF Own
  <2> QED
    BY <2>1, <2>2, <2>3, <2>4, <2>5, <2>6 DEF EvidenceIsOfThisConnection
<1> QED
  BY <1>1, Invariance, PTL

(***************************************************************************)
(* A movement of the aim is evidence in one hit at most: what counted is   *)
(* never after the last hit that counted, and only what is counts later.   *)
(***************************************************************************)
THEOREM SnapsCountOnce == Spec => []SnapCountsOnce
<1>1. IInv => SnapCountsOnce
  BY DEF IInv, AimbotIsSound, AimbotDataIsSound, SnapCountsOnce
<1> QED
  BY <1>1, Invariance, PTL

(***************************************************************************)
(* A track has one sample of each of its ticks, on every lag.              *)
(***************************************************************************)
THEOREM TracksAreWhole == Spec => []TrackIsWhole
<1>1. IInv => TrackIsWhole
  BY DEF IInv, AimlockIsSound, AimlockDataIsSound, TrackWhole, TrackIsWhole
<1> QED
  BY <1>1, Invariance, PTL

(***************************************************************************)
(* No shot waits for its next command after that was simulated, or longer  *)
(* than the frame after the next tick.                                     *)
(***************************************************************************)
THEOREM ReturnsAreResolved == Spec => []ReturnIsResolved
<1>1. IInv => ReturnIsResolved
  BY DEF IInv, AntiAimIsSound, ShotWaits, ReturnIsResolved
<1> QED
  BY <1>1, Invariance, PTL

(***************************************************************************)
(* A slot is passed over in fewer frames than there are slots: for each of *)
(* them another slot before it was scanned, and waits for its interval.    *)
(***************************************************************************)
THEOREM EverybodyIsScanned == Spec => []NobodyStarves
<1>1. IInv => NobodyStarves
  BY WaitsForOthers DEF IInv, ScansAreSound, NobodyStarves
<1> QED
  BY <1>1, Invariance, PTL

(***************************************************************************)
(* No event changes a shot that was judged: an event is matched to a shot  *)
(* of this tick or the one before, and a shot is judged two ticks old.     *)
(***************************************************************************)
THEOREM JudgedShotsAreFrozen == Spec => FrozenOnceJudged
<1>1. ASSUME IInv, [Next]_vars
      PROVE  \A i \in 1..Len(shots) : shots[i].consumed # {} =>
               \A j \in 1..Len(shots') : shots'[j].id = shots[i].id =>
                 /\ shots'[j].silentFireSeen = shots[i].silentFireSeen
                 /\ shots'[j].hurtSeen = shots[i].hurtSeen
                 /\ shots'[j].deathSeen = shots[i].deathSeen
  <2>1. Frozen
    BY <1>1, FrozenStep DEF IInv
  <2> QED
    BY <2>1 DEF Frozen, SameFlags
<1> QED
  BY <1>1, Invariance, PTL DEF Spec, FrozenOnceJudged

(***************************************************************************)
(* Prune takes no shot that an enabled module still has to judge: whoever  *)
(* is enabled has judged in each frame, and a shot is due before it is too *)
(* old.                                                                    *)
(***************************************************************************)
THEOREM NoShotPrunedUnjudged == Spec => JudgedBeforePruned
<1>1. ASSUME IInv, [Next]_vars
      PROVE  \A m \in Modules \intersect enabled, i \in 1..Len(shots) :
               \/ m \in shots[i].consumed
               \/ \E j \in 1..Len(shots') : shots'[j].id = shots[i].id
               \/ shots' = <<>> /\ evidence' = Nothing /\ tick' = tick
               \/ i = 1 /\ Len(shots) = ShotLimit /\ recorded' > recorded
  <2>1. NobodyPruned
    BY <1>1, NobodyPrunedStep DEF IInv
  <2> QED
    BY <2>1 DEF NobodyPruned, Stays
<1> QED
  BY <1>1, Invariance, PTL DEF Spec, JudgedBeforePruned

(***************************************************************************)
(* Aimlock comes back only after the aim has been off the target for       *)
(* RearmTicks: the break begins after the aim was last on it.              *)
(***************************************************************************)
THEOREM RearmingTakesABreak == Spec => RearmedAfterABreak
<1>1. ASSUME IInv, [Next]_vars
      PROVE  aimlock.latched /\ ~aimlock'.latched /\ aimlock'.lastOn # NoTick =>
               tick - aimlock.lastOn >= RearmTicks
  <2>1. Rearmed(aimlock, aimlock')
    BY <1>1, AimlockStep DEF IInv
  <2> QED
    BY <2>1 DEF Rearmed
<1> QED
  BY <1>1, Invariance, PTL DEF Spec, RearmedAfterABreak

=============================================================================
