--------------------------- MODULE Webhook_proofs ---------------------------
(***************************************************************************)
(* Proofs about Webhook, for any players, any queue capacity of two or     *)
(* more, any cache size and any number of reports: its invariants, and     *)
(* that it implements ReportSink.                                          *)
(*                                                                         *)
(* That a report shows its own player's avatar takes three facts of which  *)
(* none is about the queue as a whole: the cache holds each player's own   *)
(* avatar (CacheIsHonest), a report that still waits for its avatar has    *)
(* no payload and is about a player (Sound), and the player a lookup asks  *)
(* about is the one of the first report still when the answer is written   *)
(* there (RequestServesHead).                                              *)
(***************************************************************************)
EXTENDS Webhook, SequenceTheorems, FiniteSetTheorems, TLAPS

\* The reports that may stand in the queue.
Sound ==
  {r \in ReportData :
     /\ r.avatar \in {r.steamId, NoAvatar}
     /\ r.payload # NotBuilt => r.payload = r.avatar
     /\ ~r.resolved => r.payload = NotBuilt
     /\ r.steamId = NoPlayer => r.resolved}

QueueIsSound == queue \in Seq(Sound) /\ Len(queue) <= Capacity

CacheIsHonest ==
  /\ DOMAIN cache \subseteq Players /\ IsFiniteSet(DOMAIN cache)
  /\ Cardinality(DOMAIN cache) <= CacheSize
  /\ cache = [q \in DOMAIN cache |-> cache[q]]
  /\ \A p \in DOMAIN cache : cache[p] \in {p, NoAvatar}

OthersTypeOK ==
  /\ url \in {"none", "valid", "invalid"}
  /\ http \in BOOLEAN
  /\ request \in {0} \union Reports
  /\ requestKind \in {"None", "Avatar", "Discord"}
  /\ asked \in Players \union {NoPlayer}
  /\ waiting \in BOOLEAN
  /\ disabled \in BOOLEAN
  /\ accepted \in 0..MaxReports
  /\ delivered \in {0} \union Reports

IInv == OthersTypeOK /\ QueueIsSound /\ CacheIsHonest /\ RequestServesHead

-----------------------------------------------------------------------------
\* Queues, and the line of their numbers.

Ids(q) == [i \in 1..Len(q) |-> q[i].id]

LEMMA IdsOfQueue ==
  ASSUME NEW q \in Seq(Sound)
  PROVE  /\ Ids(q) \in Seq(Reports) /\ Len(Ids(q)) = Len(q)
         /\ \A i \in 1..Len(q) : Ids(q)[i] = q[i].id
         /\ Ids(q) # <<>> <=> q # <<>>
         /\ Len(q) \in Nat /\ (q # <<>> => Len(q) >= 1)
<1>1. Len(q) \in Nat /\ \A i \in 1..Len(q) : q[i] \in Sound
  OBVIOUS
<1>2. ASSUME NEW i \in 1..Len(q) PROVE q[i].id \in Reports
  <2>1. q[i] \in ReportData
    BY <1>1 DEF Sound
  <2> QED
    BY <2>1 DEF ReportData
<1>3. Ids(q) \in Seq(Reports) /\ Len(Ids(q)) = Len(q)
  BY <1>1, <1>2 DEF Ids
<1>4. \A i \in 1..Len(q) : Ids(q)[i] = q[i].id
  BY DEF Ids
<1>5. Ids(q) # <<>> <=> Len(Ids(q)) # 0
  BY <1>3, EmptySeq
<1>6. q # <<>> <=> Len(q) # 0
  BY EmptySeq
<1> QED
  BY <1>1, <1>3, <1>4, <1>5, <1>6

LEMMA TailOfQueue ==
  ASSUME NEW q \in Seq(Sound), q # <<>>
  PROVE  /\ Tail(q) \in Seq(Sound) /\ Len(Tail(q)) = Len(q) - 1
         /\ Head(q) = q[1] /\ q[1] \in Sound
         /\ Ids(Tail(q)) = Tail(Ids(q)) /\ Head(Ids(q)) = q[1].id
<1>1. /\ Tail(q) \in Seq(Sound) /\ Len(Tail(q)) = Len(q) - 1
      /\ \A i \in 1..Len(Tail(q)) : Tail(q)[i] = q[i + 1]
      /\ Head(q) = q[1] /\ q[1] \in Sound
  BY HeadTailProperties, IdsOfQueue
<1>2. /\ Ids(q) \in Seq(Reports) /\ Ids(q) # <<>> /\ Len(Ids(q)) = Len(q) /\ Len(q) \in Nat
      /\ \A i \in 1..Len(q) : Ids(q)[i] = q[i].id
  BY IdsOfQueue
<1>3. /\ Tail(Ids(q)) \in Seq(Reports) /\ Len(Tail(Ids(q))) = Len(q) - 1
      /\ \A i \in 1..Len(Tail(Ids(q))) : Tail(Ids(q))[i] = Ids(q)[i + 1]
  BY <1>2, HeadTailProperties
<1>4. /\ Ids(Tail(q)) \in Seq(Reports) /\ Len(Ids(Tail(q))) = Len(q) - 1
      /\ \A i \in 1..(Len(q) - 1) : Ids(Tail(q))[i] = Tail(q)[i].id
  BY <1>1, IdsOfQueue
<1>5. ASSUME NEW i \in 1..(Len(q) - 1) PROVE Ids(Tail(q))[i] = Tail(Ids(q))[i]
  <2>1. i + 1 \in 1..Len(q)
    BY <1>2
  <2> QED
    BY <1>1, <1>2, <1>3, <1>4, <2>1
<1>6. Ids(Tail(q)) = Tail(Ids(q))
  BY <1>3, <1>4, <1>5, SeqEqual
<1>7. Head(Ids(q)) = q[1].id
  BY <1>2, IdsOfQueue
<1> QED
  BY <1>1, <1>6, <1>7

LEMMA AppendToQueue ==
  ASSUME NEW q \in Seq(Sound), NEW r \in Sound
  PROVE  /\ Append(q, r) \in Seq(Sound) /\ Len(Append(q, r)) = Len(q) + 1
         /\ Append(q, r) # <<>>
         /\ q # <<>> => Head(Append(q, r)) = Head(q)
         /\ Ids(Append(q, r)) = Append(Ids(q), r.id)
<1> DEFINE t == Append(q, r)
<1>1. /\ t \in Seq(Sound) /\ Len(t) = Len(q) + 1 /\ Len(q) \in Nat
      /\ \A i \in 1..Len(q) : t[i] = q[i]
      /\ t[Len(q) + 1] = r
  OBVIOUS
<1>2. r.id \in Reports
  <2>1. r \in ReportData
    BY DEF Sound
  <2> QED
    BY <2>1 DEF ReportData
<1>3. /\ Ids(q) \in Seq(Reports) /\ Len(Ids(q)) = Len(q)
      /\ \A i \in 1..Len(q) : Ids(q)[i] = q[i].id
  BY IdsOfQueue
<1> HIDE DEF t
<1>4. /\ Ids(t) \in Seq(Reports) /\ Len(Ids(t)) = Len(q) + 1
      /\ \A i \in 1..(Len(q) + 1) : Ids(t)[i] = t[i].id
      /\ t # <<>>
  BY <1>1, IdsOfQueue, EmptySeq
<1>5. /\ Append(Ids(q), r.id) \in Seq(Reports) /\ Len(Append(Ids(q), r.id)) = Len(q) + 1
      /\ \A i \in 1..Len(q) : Append(Ids(q), r.id)[i] = q[i].id
      /\ Append(Ids(q), r.id)[Len(q) + 1] = r.id
  BY <1>1, <1>2, <1>3
<1>6. Ids(t) = Append(Ids(q), r.id)
  <2>1. ASSUME NEW i \in 1..(Len(q) + 1) PROVE Ids(t)[i] = Append(Ids(q), r.id)[i]
    <3>1. i \in 1..Len(q) \/ i = Len(q) + 1
      BY <1>1
    <3> QED
      BY <1>1, <1>4, <1>5, <3>1
  <2> QED
    BY <1>4, <1>5, <2>1, SeqEqual
<1>7. ASSUME q # <<>> PROVE Head(t) = Head(q)
  <2>1. 1 \in 1..Len(q) /\ Head(q) = q[1]
    BY <1>7, IdsOfQueue
  <2>2. Head(t) = t[1]
    BY <1>1, <1>4
  <2> QED
    BY <1>1, <2>1, <2>2
<1> QED
  BY <1>1, <1>4, <1>6, <1>7 DEF t

(***************************************************************************)
(* A new value of the head, with the same number.                          *)
(***************************************************************************)
LEMMA HeadChanged ==
  ASSUME NEW q \in Seq(Sound), q # <<>>, NEW r \in Sound, r.id = q[1].id,
         NEW t, t = [q EXCEPT ![1] = r]
  PROVE  /\ t \in Seq(Sound) /\ Len(t) = Len(q) /\ t # <<>>
         /\ Head(t) = r /\ t[1] = r
         /\ Ids(t) = Ids(q)
<1>1. Len(q) \in Nat /\ 1 \in 1..Len(q)
  BY IdsOfQueue
<1>2. /\ t \in Seq(Sound) /\ Len(t) = Len(q)
      /\ \A j \in 1..Len(q) : t[j] = IF j = 1 THEN r ELSE q[j]
  BY <1>1, ExceptSeq
<1>3. t # <<>> /\ Head(t) = t[1] /\ t[1] = r
  BY <1>1, <1>2, EmptySeq
<1>4. Ids(t) = Ids(q)
  <2>1. \A i \in 1..Len(q) : t[i].id = q[i].id
    BY <1>1, <1>2
  <2> QED
    BY <1>2, <2>1 DEF Ids
<1> QED
  BY <1>2, <1>3, <1>4

\* A sequence with one element put before it.
LEMMA Prefixed ==
  ASSUME NEW S, NEW x \in S, NEW v \in Seq(S), NEW t, t = <<x>> \o v
  PROVE  /\ t \in Seq(S) /\ Len(t) = 1 + Len(v) /\ t # <<>>
         /\ Head(t) = x /\ t[1] = x
         /\ \A i \in 1..Len(v) : t[i + 1] = v[i]
<1>1. /\ t \in Seq(S) /\ Len(t) = 1 + Len(v) /\ t[1] = x
      /\ \A i \in 2..(1 + Len(v)) : t[i] = v[i - 1]
      /\ Len(v) \in Nat
  OBVIOUS
<1>2. t # <<>> /\ Head(t) = t[1]
  BY <1>1, EmptySeq
<1>3. ASSUME NEW i \in 1..Len(v) PROVE t[i + 1] = v[i]
  <2>1. i + 1 \in 2..(1 + Len(v)) /\ (i + 1) - 1 = i
    BY <1>1
  <2> QED
    BY <1>1, <2>1
<1> QED
  BY <1>1, <1>2, <1>3

(***************************************************************************)
(* The second report makes room when the first is on the wire.             *)
(***************************************************************************)
LEMMA EvictedKeepsHead ==
  ASSUME NEW q \in Seq(Sound), Len(q) >= 2
  PROVE  LET rest == <<Head(q)>> \o Tail(Tail(q))
         IN  /\ rest \in Seq(Sound) /\ Len(rest) = Len(q) - 1
             /\ rest # <<>> /\ Head(rest) = Head(q)
             /\ Ids(rest) = <<Head(Ids(q))>> \o Tail(Tail(Ids(q)))
<1> DEFINE u == Tail(Tail(q))
           rest == <<Head(q)>> \o u
<1>1. q # <<>> /\ Len(q) \in Nat
  BY IdsOfQueue, EmptySeq
<1>2. /\ Tail(q) \in Seq(Sound) /\ Len(Tail(q)) = Len(q) - 1 /\ Tail(q) # <<>>
      /\ Head(q) = q[1] /\ q[1] \in Sound
      /\ Ids(Tail(q)) = Tail(Ids(q)) /\ Head(Ids(q)) = q[1].id
  BY <1>1, TailOfQueue, EmptySeq
<1>3. u \in Seq(Sound) /\ Len(u) = Len(q) - 2 /\ Ids(u) = Tail(Tail(Ids(q)))
  <2> DEFINE rear == Tail(q)
  <2>1. rear \in Seq(Sound) /\ rear # <<>> /\ Len(rear) = Len(q) - 1
    BY <1>2
  <2> HIDE DEF rear
  <2>2. /\ Tail(rear) \in Seq(Sound) /\ Len(Tail(rear)) = Len(rear) - 1
        /\ Ids(Tail(rear)) = Tail(Ids(rear))
    BY <2>1, TailOfQueue
  <2>3. Len(Tail(rear)) = Len(q) - 2
    BY <1>1, <2>1, <2>2
  <2> QED
    BY <1>2, <2>2, <2>3 DEF rear
<1> HIDE DEF u
<1>4. Head(q) \in Sound /\ Len(u) \in Nat
  BY <1>2, <1>3, IdsOfQueue
<1>5. /\ rest \in Seq(Sound) /\ Len(rest) = 1 + Len(u) /\ rest # <<>>
      /\ Head(rest) = Head(q) /\ rest[1] = Head(q)
      /\ \A i \in 1..Len(u) : rest[i + 1] = u[i]
  <2> HIDE DEF rest
  <2>1. rest = <<Head(q)>> \o u
    BY DEF rest
  <2> QED
    BY <1>3, <1>4, <2>1, Prefixed
<1> HIDE DEF rest
<1>6. Ids(rest) = <<Head(Ids(q))>> \o Ids(u)
  <2> DEFINE x == Head(Ids(q))
             v == Ids(u)
             both == <<x>> \o v
  <2>1. v \in Seq(Reports) /\ Len(v) = Len(u) /\ \A i \in 1..Len(u) : v[i] = u[i].id
    BY <1>3, IdsOfQueue
  <2>2. x = q[1].id /\ x \in Reports
    <3>1. Ids(q) \in Seq(Reports) /\ Ids(q) # <<>>
      BY <1>1, IdsOfQueue
    <3>2. Head(Ids(q)) \in Reports
      BY <3>1, HeadTailProperties
    <3> QED
      BY <1>2, <3>2
  <2> HIDE DEF x, v
  <2>3. both = <<x>> \o v
    OBVIOUS
  <2> HIDE DEF both
  <2>4. /\ both \in Seq(Reports) /\ Len(both) = 1 + Len(v) /\ both[1] = x
        /\ \A i \in 1..Len(v) : both[i + 1] = v[i]
    BY <2>1, <2>2, <2>3, Prefixed
  <2>5. /\ Ids(rest) \in Seq(Reports) /\ Len(Ids(rest)) = 1 + Len(u)
        /\ \A i \in 1..(1 + Len(u)) : Ids(rest)[i] = rest[i].id
    BY <1>5, IdsOfQueue
  <2>6. ASSUME NEW i \in 1..(1 + Len(u)) PROVE Ids(rest)[i] = both[i]
    <3>1. CASE i = 1
      BY <1>2, <1>4, <1>5, <2>2, <2>4, <2>5, <3>1
    <3>2. CASE i # 1
      <4> DEFINE j == i - 1
      <4>1. j \in 1..Len(u) /\ i = j + 1
        BY <1>4, <3>2
      <4> HIDE DEF j
      <4> QED
        BY <1>5, <2>1, <2>4, <2>5, <4>1
    <3> QED
      BY <3>1, <3>2
  <2> QED
    BY <2>1, <2>3, <2>4, <2>5, <2>6, SeqEqual DEF x, v
<1>7. Len(rest) = Len(q) - 1
  BY <1>1, <1>3, <1>4, <1>5
<1> QED
  BY <1>3, <1>5, <1>6, <1>7 DEF rest, u

-----------------------------------------------------------------------------
\* What the operations of the service make of a sound queue.

LEMMA QueueFacts ==
  ASSUME QueueIsSound, queue # <<>>
  PROVE  /\ queue \in Seq(Sound) /\ Len(queue) \in Nat /\ Len(queue) >= 1
         /\ Head(queue) = queue[1] /\ queue[1] \in Sound /\ queue[1] \in ReportData
         /\ Tail(queue) \in Seq(Sound) /\ Len(Tail(queue)) <= Capacity
<1>1. queue \in Seq(Sound) /\ Len(queue) <= Capacity
  BY DEF QueueIsSound
<1>2. /\ Len(queue) \in Nat /\ Len(queue) >= 1
      /\ Head(queue) = queue[1] /\ queue[1] \in Sound
      /\ Tail(queue) \in Seq(Sound) /\ Len(Tail(queue)) = Len(queue) - 1
  BY <1>1, IdsOfQueue, TailOfQueue
<1> QED
  BY <1>1, <1>2, WebhookAssumption DEF Sound

LEMMA EmptyIsSound == <<>> \in Seq(Sound) /\ Len(<<>>) <= Capacity
BY WebhookAssumption, EmptySeq

LEMMA MakeRoomKeepsHead ==
  ASSUME QueueIsSound, request # 0 => queue # <<>>
  PROVE  /\ MakeRoom \in Seq(Sound) /\ Len(MakeRoom) + 1 <= Capacity
         /\ request # 0 => MakeRoom # <<>> /\ Head(MakeRoom) = Head(queue)
         /\ Ids(MakeRoom) = IF Len(Ids(queue)) < Capacity THEN Ids(queue)
                            ELSE IF request = 0 THEN Tail(Ids(queue))
                            ELSE <<Head(Ids(queue))>> \o Tail(Tail(Ids(queue)))
<1>1. /\ queue \in Seq(Sound) /\ Len(queue) <= Capacity /\ Len(queue) \in Nat
      /\ Len(Ids(queue)) = Len(queue) /\ Capacity \in Nat /\ Capacity >= 2
  BY WebhookAssumption, IdsOfQueue DEF QueueIsSound
<1>2. CASE Len(queue) < Capacity
  <2>1. MakeRoom = queue
    BY <1>1, <1>2 DEF MakeRoom
  <2> QED
    BY <1>1, <1>2, <2>1
<1>3. CASE Len(queue) = Capacity /\ request = 0
  <2>1. MakeRoom = Tail(queue) /\ queue # <<>>
    BY <1>1, <1>3, EmptySeq DEF MakeRoom, Evicted
  <2> QED
    BY <1>1, <1>3, <2>1, TailOfQueue
<1>4. CASE Len(queue) = Capacity /\ request # 0
  <2>1. MakeRoom = <<Head(queue)>> \o Tail(Tail(queue)) /\ Len(queue) >= 2
    BY <1>1, <1>4 DEF MakeRoom, Evicted
  <2>2. /\ MakeRoom \in Seq(Sound) /\ Len(MakeRoom) = Len(queue) - 1
        /\ MakeRoom # <<>> /\ Head(MakeRoom) = Head(queue)
        /\ Ids(MakeRoom) = <<Head(Ids(queue))>> \o Tail(Tail(Ids(queue)))
    <3> DEFINE q == queue
    <3>1. q \in Seq(Sound) /\ Len(q) >= 2 /\ MakeRoom = <<Head(q)>> \o Tail(Tail(q))
      BY <1>1, <2>1
    <3> HIDE DEF q
    <3>2. LET rest == <<Head(q)>> \o Tail(Tail(q))
          IN  /\ rest \in Seq(Sound) /\ Len(rest) = Len(q) - 1
              /\ rest # <<>> /\ Head(rest) = Head(q)
              /\ Ids(rest) = <<Head(Ids(q))>> \o Tail(Tail(Ids(q)))
      BY <3>1, EvictedKeepsHead
    <3> QED
      BY <3>1, <3>2, Zenon DEF q
  <2>3. Len(MakeRoom) + 1 <= Capacity /\ ~(Len(Ids(queue)) < Capacity)
    BY <1>1, <1>4, <2>2
  <2> QED
    BY <1>4, <2>2, <2>3, Zenon
<1>5. \/ Len(queue) < Capacity
      \/ Len(queue) = Capacity /\ request = 0
      \/ Len(queue) = Capacity /\ request # 0
  BY <1>1
<1> QED
  BY <1>2, <1>3, <1>4, <1>5, Zenon

(***************************************************************************)
(* RetryOrDrop keeps the head, to be sent again, or drops it.              *)
(***************************************************************************)
LEMMA RetryOrDropKeeps ==
  ASSUME NEW q \in Seq(Sound), q # <<>>, Len(q) <= Capacity, RetryOrDrop(q)
  PROVE  /\ queue' \in Seq(Sound) /\ Len(queue') <= Capacity
         /\ waiting' \in BOOLEAN
         /\ Ids(queue') = Ids(q) \/ Ids(queue') = Tail(Ids(q))
<1>1. Len(q) \in Nat /\ q[1] \in Sound /\ q[1] \in ReportData
  BY TailOfQueue, IdsOfQueue DEF Sound
<1>2. CASE q[1].retries = 0
  <2> DEFINE r == [q[1] EXCEPT !.retries = 1]
  <2>1. queue' = [q EXCEPT ![1].retries = 1] /\ waiting' = TRUE
    BY <1>2 DEF RetryOrDrop
  <2>2. r \in ReportData
    BY <1>1 DEF ReportData
  <2>3. /\ r.id = q[1].id /\ r.avatar = q[1].avatar /\ r.steamId = q[1].steamId
        /\ r.payload = q[1].payload /\ r.resolved = q[1].resolved
    BY <1>1 DEF ReportData
  <2>4. queue' = [q EXCEPT ![1] = r]
    BY <2>1
  <2> HIDE DEF r
  <2>5. r \in Sound
    BY <1>1, <2>2, <2>3 DEF Sound
  <2>6. queue' \in Seq(Sound) /\ Len(queue') = Len(q) /\ Ids(queue') = Ids(q)
    BY <2>3, <2>4, <2>5, HeadChanged
  <2>7. waiting' \in BOOLEAN
    BY <2>1, Zenon
  <2> QED
    BY <2>6, <2>7
<1>3. CASE q[1].retries # 0
  <2>1. queue' = Tail(q) /\ waiting' = FALSE
    BY <1>3 DEF RetryOrDrop
  <2>2. /\ queue' \in Seq(Sound) /\ Len(queue') = Len(q) - 1
        /\ Ids(queue') = Tail(Ids(q))
    BY <2>1, TailOfQueue
  <2>3. waiting' \in BOOLEAN
    BY <2>1, Zenon
  <2> QED
    BY <1>1, <2>2, <2>3, WebhookAssumption
<1> QED
  BY <1>2, <1>3

(***************************************************************************)
(* The answer to a lookup, or what the cache says, settles the head.       *)
(***************************************************************************)
LEMMA AvatarSettles ==
  ASSUME QueueIsSound, queue # <<>>, ~queue[1].resolved,
         NEW a \in {queue[1].steamId, NoAvatar}
  PROVE  LET t == WithAvatar(a)
         IN  /\ t \in Seq(Sound) /\ Len(t) <= Capacity /\ t # <<>>
             /\ t[1].id = queue[1].id /\ t[1].resolved = TRUE
             /\ Ids(t) = Ids(queue)
<1> DEFINE r == [queue[1] EXCEPT !.resolved = TRUE, !.avatar = a]
           t == WithAvatar(a)
<1>1. queue[1] \in Sound /\ queue[1] \in ReportData /\ queue \in Seq(Sound)
  BY QueueFacts
<1>2. queue[1].steamId \in Players /\ queue[1].payload = NotBuilt
  BY <1>1 DEF Sound, ReportData
<1>3. a \in Avatars
  BY <1>2 DEF Avatars
<1>4. r \in ReportData
  BY <1>1, <1>3 DEF ReportData
<1>5. /\ r.id = queue[1].id /\ r.steamId = queue[1].steamId /\ r.avatar = a
      /\ r.payload = NotBuilt /\ r.resolved = TRUE
  BY <1>1, <1>2 DEF ReportData
<1>6. t = [queue EXCEPT ![1] = r]
  BY <1>1 DEF WithAvatar
<1> HIDE DEF r, t
<1>7. r \in Sound
  BY <1>4, <1>5 DEF Sound
<1>8. /\ t \in Seq(Sound) /\ Len(t) = Len(queue) /\ t # <<>> /\ t[1] = r
      /\ Ids(t) = Ids(queue)
  <2>1. Len(queue) \in Nat /\ 1 \in 1..Len(queue)
    BY QueueFacts
  <2>2. /\ t \in Seq(Sound) /\ Len(t) = Len(queue)
        /\ \A j \in 1..Len(queue) : t[j] = IF j = 1 THEN r ELSE queue[j]
    BY <1>1, <1>6, <1>7, <2>1, ExceptSeq
  <2>3. t # <<>> /\ t[1] = r
    BY <2>1, <2>2, EmptySeq
  <2>4. \A i \in 1..Len(queue) : t[i].id = queue[i].id
    BY <1>5, <2>1, <2>2
  <2>5. Ids(t) = Ids(queue)
    BY <2>2, <2>4 DEF Ids
  <2> QED
    BY <2>2, <2>3, <2>5
<1> QED
  BY <1>5, <1>8 DEF QueueIsSound, t

(***************************************************************************)
(* The payload is built from the settled avatar, or was before.            *)
(***************************************************************************)
LEMMA BuiltKeeps ==
  ASSUME NEW q \in Seq(Sound), q # <<>>, Len(q) <= Capacity, q[1].resolved
  PROVE  LET t == Built(q)
         IN  /\ t \in Seq(Sound) /\ Len(t) <= Capacity /\ t # <<>>
             /\ Head(t).id = q[1].id /\ Head(t).resolved /\ Head(t).payload # NotBuilt
             /\ Ids(t) = Ids(q)
<1> DEFINE p == IF q[1].payload = NotBuilt THEN q[1].avatar ELSE q[1].payload
           r == [q[1] EXCEPT !.payload = p]
           t == Built(q)
<1>1. q[1] \in Sound /\ q[1] \in ReportData
  BY TailOfQueue DEF Sound
<1>2. /\ q[1].avatar \in Avatars /\ q[1].payload \in Avatars \union {NotBuilt}
      /\ NotBuilt \notin Avatars
  BY <1>1, WebhookAssumption DEF ReportData, Avatars
<1>3. p \in Avatars /\ p = q[1].avatar /\ p # NotBuilt
  BY <1>1, <1>2 DEF Sound
<1>4. t = [q EXCEPT ![1] = r]
  BY DEF Built
<1> HIDE DEF p
<1>5. r \in ReportData
  BY <1>1, <1>3 DEF ReportData
<1>6. /\ r.id = q[1].id /\ r.steamId = q[1].steamId /\ r.avatar = q[1].avatar
      /\ r.payload = p /\ r.resolved = q[1].resolved
  BY <1>1 DEF ReportData
<1> HIDE DEF r, t
<1>7. r \in Sound
  BY <1>1, <1>3, <1>5, <1>6 DEF Sound
<1>8. /\ t \in Seq(Sound) /\ Len(t) = Len(q) /\ t # <<>> /\ Head(t) = r
      /\ Ids(t) = Ids(q)
  BY <1>4, <1>6, <1>7, HeadChanged
<1>9. Head(t).resolved /\ Head(t).payload # NotBuilt /\ Head(t).id = q[1].id
  BY <1>3, <1>6, <1>8
<1> QED
  BY <1>8, <1>9 DEF t

(***************************************************************************)
(* The cache remembers a player's own avatar, in its bound.                *)
(***************************************************************************)
LEMMA RememberKeeps ==
  ASSUME CacheIsHonest, NEW p \in Players, NEW a \in {p, NoAvatar}, Remember(p, a)
  PROVE  CacheIsHonest'
<1> DEFINE kept == IF Cardinality(DOMAIN cache) >= CacheSize THEN {} ELSE DOMAIN cache
<1>1. cache' = [q \in kept \union {p} |-> IF q = p THEN a ELSE cache[q]]
  BY DEF Remember
<1>2. /\ IsFiniteSet(DOMAIN cache) /\ Cardinality(DOMAIN cache) \in Nat
      /\ DOMAIN cache \subseteq Players /\ CacheSize \in Nat /\ CacheSize >= 1
      /\ \A q \in DOMAIN cache : cache[q] \in {q, NoAvatar}
  BY FS_CardinalityType, WebhookAssumption DEF CacheIsHonest
<1>3. /\ kept \subseteq DOMAIN cache /\ IsFiniteSet(kept)
      /\ Cardinality(kept) + 1 <= CacheSize /\ Cardinality(kept) \in Nat
  <2>1. CASE Cardinality(DOMAIN cache) >= CacheSize
    BY <1>2, <2>1, FS_EmptySet
  <2>2. CASE ~(Cardinality(DOMAIN cache) >= CacheSize)
    BY <1>2, <2>2
  <2> QED
    BY <2>1, <2>2
<1> HIDE DEF kept
<1>4. /\ IsFiniteSet(kept \union {p})
      /\ Cardinality(kept \union {p}) = IF p \in kept THEN Cardinality(kept)
                                        ELSE Cardinality(kept) + 1
  BY <1>3, FS_AddElement
<1>5. Cardinality(kept \union {p}) <= CacheSize
  BY <1>2, <1>3, <1>4
<1>6. DOMAIN cache' = kept \union {p}
  BY <1>1
<1>7. cache' = [q \in DOMAIN cache' |-> cache'[q]]
  BY <1>1
<1>8. ASSUME NEW q \in kept \union {p} PROVE cache'[q] \in {q, NoAvatar}
  BY <1>1, <1>2, <1>3
<1> QED
  BY <1>2, <1>3, <1>4, <1>5, <1>6, <1>7, <1>8 DEF CacheIsHonest

LEMMA CachedIsHonest ==
  ASSUME CacheIsHonest, NEW p
  PROVE  CachedAvatar(p) \in {p, NoAvatar}
BY DEF CacheIsHonest, CachedAvatar

LEMMA EmptyCache ==
  ASSUME cache' = <<>>
  PROVE  CacheIsHonest'
<1>1. DOMAIN cache' = {}
  OBVIOUS
<1>2. IsFiniteSet({}) /\ Cardinality({}) = 0
  BY FS_EmptySet
<1>3. cache' = [q \in {} |-> cache'[q]]
  BY <1>1
<1> QED
  BY <1>1, <1>2, <1>3, WebhookAssumption DEF CacheIsHonest

LEMMA SettledKeeps ==
  ASSUME QueueIsSound, CacheIsHonest, queue # <<>>
  PROVE  /\ Built(Settled) \in Seq(Sound) /\ Len(Built(Settled)) <= Capacity
         /\ Built(Settled) # <<>>
         /\ Head(Built(Settled)).id = queue[1].id
         /\ Head(Built(Settled)).resolved /\ Head(Built(Settled)).payload # NotBuilt
         /\ Ids(Built(Settled)) = Ids(queue)
<1>1. /\ queue \in Seq(Sound) /\ Len(queue) <= Capacity /\ Head(queue) = queue[1]
      /\ queue[1] \in ReportData
  BY QueueFacts DEF QueueIsSound
<1> DEFINE q == Settled
<1>2. /\ q \in Seq(Sound) /\ Len(q) <= Capacity /\ q # <<>>
      /\ q[1].id = queue[1].id /\ q[1].resolved = TRUE
      /\ Ids(q) = Ids(queue)
  <2>1. CASE queue[1].resolved
    <3>1. q = queue
      BY <1>1, <2>1 DEF Settled
    <3>2. queue[1].resolved = TRUE
      BY <1>1, <2>1 DEF ReportData
    <3> QED
      BY <1>1, <3>1, <3>2
  <2>2. CASE ~queue[1].resolved
    <3> DEFINE a == CachedAvatar(queue[1].steamId)
    <3>1. q = WithAvatar(a)
      BY <1>1, <2>2 DEF Settled
    <3>2. a \in {queue[1].steamId, NoAvatar}
      BY CachedIsHonest
    <3> HIDE DEF a, q
    <3> QED
      BY <2>2, <3>1, <3>2, AvatarSettles
  <2> QED
    BY <2>1, <2>2
<1> HIDE DEF q
<1>3. q[1].resolved
  BY <1>2
<1>4. LET t == Built(q)
      IN  /\ t \in Seq(Sound) /\ Len(t) <= Capacity /\ t # <<>>
          /\ Head(t).id = q[1].id /\ Head(t).resolved /\ Head(t).payload # NotBuilt
          /\ Ids(t) = Ids(q)
  BY <1>2, <1>3, BuiltKeeps
<1>5. q[1].id = queue[1].id /\ Ids(q) = Ids(queue)
  BY <1>2
<1> QED
  BY <1>4, <1>5 DEF q

\* Only players are looked up.
LEMMA LookedUpIsAPlayer ==
  ASSUME QueueIsSound, queue # <<>>, NeedsLookup
  PROVE  Head(queue).steamId \in Players
<1>1. Head(queue) \in Sound /\ ~Head(queue).resolved
  BY QueueFacts DEF NeedsLookup
<1> QED
  BY <1>1 DEF Sound, ReportData

LEMMA CacheSettles ==
  ASSUME QueueIsSound, CacheIsHonest, queue # <<>>, CacheAfterSettling
  PROVE  CacheIsHonest'
<1>1. CASE NeedsLookup
  <2>1. Remember(Head(queue).steamId, NoAvatar)
    BY <1>1 DEF CacheAfterSettling
  <2> QED
    BY <1>1, <2>1, LookedUpIsAPlayer, RememberKeeps
<1>2. CASE ~NeedsLookup
  BY <1>2 DEF CacheAfterSettling, CacheIsHonest
<1> QED
  BY <1>1, <1>2

-----------------------------------------------------------------------------
\* The invariant.

LEMMA InitIInv == Init => IInv
<1> SUFFICES ASSUME Init PROVE IInv
  OBVIOUS
<1>1. OthersTypeOK
  <2>1. http \in BOOLEAN /\ waiting \in BOOLEAN /\ disabled \in BOOLEAN
    BY Zenon DEF Init
  <2> QED
    BY <2>1, WebhookAssumption DEF Init, OthersTypeOK
<1>2. QueueIsSound
  BY EmptyIsSound DEF Init, QueueIsSound
<1>3. CacheIsHonest
  <2>1. cache = <<>> /\ DOMAIN cache = {}
    BY DEF Init
  <2>2. IsFiniteSet({}) /\ Cardinality({}) = 0
    BY FS_EmptySet
  <2>3. cache = [q \in {} |-> cache[q]]
    BY <2>1
  <2> QED
    BY <2>1, <2>2, <2>3, WebhookAssumption DEF CacheIsHonest
<1>4. RequestServesHead
  BY DEF Init, RequestServesHead
<1> QED
  BY <1>1, <1>2, <1>3, <1>4 DEF IInv

LEMMA NewReport ==
  ASSUME IInv, NEW p \in Players \union {NoPlayer}, Enqueue(p)
  PROVE  \E r \in Sound : r.id = accepted + 1 /\ queue' = Append(MakeRoom, r)
<1> DEFINE r == [id |-> accepted + 1, steamId |-> p, retries |-> 0,
                 resolved |-> p = NoPlayer \/ p \in DOMAIN cache,
                 avatar |-> CachedAvatar(p), payload |-> NotBuilt]
<1>1. accepted < MaxReports /\ accepted' = accepted + 1 /\ queue' = Append(MakeRoom, r)
  BY DEF Enqueue
<1>2. accepted + 1 \in Reports
  BY <1>1, WebhookAssumption DEF IInv, OthersTypeOK, Reports
<1>3. CachedAvatar(p) \in {p, NoAvatar} /\ CachedAvatar(p) \in Avatars
  <2>1. CacheIsHonest /\ DOMAIN cache \subseteq Players
    BY DEF IInv, CacheIsHonest
  <2>2. CachedAvatar(p) \in {p, NoAvatar}
    BY <2>1, CachedIsHonest
  <2>3. p \notin Players => CachedAvatar(p) = NoAvatar
    BY <2>1 DEF CachedAvatar
  <2> QED
    BY <2>2, <2>3 DEF Avatars
<1>4. (p = NoPlayer \/ p \in DOMAIN cache) \in BOOLEAN
  BY Zenon
<1>5. r \in ReportData
  BY <1>2, <1>3, <1>4 DEF ReportData
<1>6. r \in Sound
  BY <1>3, <1>5 DEF Sound
<1> QED
  BY <1>1, <1>6

LEMMA EnqueueIInv ==
  ASSUME IInv, NEW p \in Players \union {NoPlayer}, Enqueue(p)
  PROVE  IInv'
<1>1. PICK r \in Sound : r.id = accepted + 1 /\ queue' = Append(MakeRoom, r)
  BY NewReport
<1>2. /\ accepted < MaxReports /\ accepted' = accepted + 1
      /\ UNCHANGED <<url, http, cache, request, requestKind, asked, waiting, disabled, delivered>>
  BY DEF Enqueue
<1>3. QueueIsSound /\ RequestServesHead /\ (request # 0 => queue # <<>>)
  BY DEF IInv, RequestServesHead
<1>4. /\ MakeRoom \in Seq(Sound) /\ Len(MakeRoom) + 1 <= Capacity
      /\ request # 0 => MakeRoom # <<>> /\ Head(MakeRoom) = Head(queue)
  BY <1>3, MakeRoomKeepsHead
<1>5. /\ queue' \in Seq(Sound) /\ Len(queue') = Len(MakeRoom) + 1
      /\ queue' # <<>>
      /\ request # 0 => Head(queue') = Head(queue)
  BY <1>1, <1>4, AppendToQueue
<1>6. QueueIsSound'
  BY <1>4, <1>5 DEF QueueIsSound
<1>7. OthersTypeOK'
  BY <1>2, WebhookAssumption DEF IInv, OthersTypeOK
<1>8. RequestServesHead'
  BY <1>2, <1>3, <1>5 DEF RequestServesHead
<1>9. CacheIsHonest'
  BY <1>2 DEF IInv, CacheIsHonest
<1> QED
  BY <1>6, <1>7, <1>8, <1>9 DEF IInv

LEMMA OnGameFrameIInv ==
  ASSUME IInv, OnGameFrame
  PROVE  IInv'
<1>1. /\ request = 0 /\ requestKind = "None" /\ queue # <<>>
      /\ QueueIsSound /\ CacheIsHonest /\ OthersTypeOK
  BY DEF OnGameFrame, HttpUnavailable, LookUpAvatar, SendFails, Send, ReadyToSend,
         IInv, RequestServesHead
<1>2. Head(queue) = queue[1] /\ queue[1].id \in Reports /\ queue[1].id # 0
  BY <1>1, QueueFacts DEF ReportData, Reports
<1>3. CASE HttpUnavailable
  <2>1. /\ waiting' = TRUE
        /\ UNCHANGED <<url, http, queue, cache, request, requestKind, asked, disabled,
                       accepted, delivered>>
    BY <1>3 DEF HttpUnavailable
  <2>2. waiting' \in BOOLEAN
    BY <2>1, Zenon
  <2>3. OthersTypeOK'
    BY <1>1, <2>1, <2>2 DEF OthersTypeOK
  <2> QED
    BY <2>1, <2>3 DEF IInv, QueueIsSound, CacheIsHonest, RequestServesHead
<1>4. CASE LookUpAvatar
  <2>1. /\ http' = TRUE /\ ~Head(queue).resolved
        /\ request' = Head(queue).id /\ requestKind' = "Avatar"
        /\ asked' = Head(queue).steamId
        /\ UNCHANGED <<url, queue, cache, waiting, disabled, accepted, delivered>>
    BY <1>4 DEF LookUpAvatar, NeedsLookup
  <2>2. http' \in BOOLEAN
    BY <2>1, Zenon
  <2>3. OthersTypeOK'
    <3>1. asked' \in Players
      BY <1>1, <2>1, LookedUpIsAPlayer, <1>4 DEF LookUpAvatar
    <3> QED
      BY <1>1, <1>2, <2>1, <2>2, <3>1 DEF OthersTypeOK
  <2>4. RequestServesHead'
    BY <1>1, <1>2, <2>1 DEF RequestServesHead
  <2> QED
    BY <2>1, <2>3, <2>4 DEF IInv, QueueIsSound, CacheIsHonest
<1>5. CASE SendFails
  <2>1. /\ http' = TRUE /\ CacheAfterSettling /\ RetryOrDrop(Built(Settled))
        /\ UNCHANGED <<url, request, requestKind, asked, disabled, accepted, delivered>>
    BY <1>5 DEF SendFails
  <2>2. queue' \in Seq(Sound) /\ Len(queue') <= Capacity /\ waiting' \in BOOLEAN
    BY <1>1, <2>1, SettledKeeps, RetryOrDropKeeps
  <2>3. http' \in BOOLEAN
    BY <2>1, Zenon
  <2>4. OthersTypeOK'
    BY <1>1, <2>1, <2>2, <2>3 DEF OthersTypeOK
  <2>5. RequestServesHead'
    BY <1>1, <2>1 DEF RequestServesHead
  <2>6. CacheIsHonest'
    BY <1>1, <2>1, CacheSettles
  <2> QED
    BY <2>2, <2>4, <2>5, <2>6 DEF IInv, QueueIsSound
<1>6. CASE Send
  <2>1. /\ http' = TRUE /\ CacheAfterSettling /\ queue' = Built(Settled)
        /\ request' = Head(queue).id /\ requestKind' = "Discord"
        /\ UNCHANGED <<url, asked, waiting, disabled, accepted, delivered>>
    BY <1>6 DEF Send
  <2>2. /\ queue' \in Seq(Sound) /\ Len(queue') <= Capacity /\ queue' # <<>>
        /\ Head(queue').id = queue[1].id
        /\ Head(queue').resolved /\ Head(queue').payload # NotBuilt
    BY <1>1, <2>1, SettledKeeps
  <2>3. http' \in BOOLEAN
    BY <2>1, Zenon
  <2>4. OthersTypeOK'
    BY <1>1, <1>2, <2>1, <2>3 DEF OthersTypeOK
  <2>5. RequestServesHead'
    BY <1>2, <2>1, <2>2 DEF RequestServesHead
  <2>6. CacheIsHonest'
    BY <1>1, <2>1, CacheSettles
  <2> QED
    BY <2>2, <2>4, <2>5, <2>6 DEF IInv, QueueIsSound
<1> QED
  BY <1>3, <1>4, <1>5, <1>6 DEF OnGameFrame

LEMMA OnCompletedIInv ==
  ASSUME IInv, OnCompleted
  PROVE  IInv'
<1>1. /\ requestKind \in {"Avatar", "Discord"} /\ request # 0 /\ queue # <<>>
      /\ QueueIsSound /\ CacheIsHonest /\ OthersTypeOK
      /\ request' = 0 /\ requestKind' = "None" /\ asked' \in {asked, NoPlayer}
      /\ UNCHANGED <<url, http, accepted>>
  BY DEF OnCompleted, AvatarAnswered, Confirmed, Throttled, Refused, Failed, Answered,
         IInv, RequestServesHead
<1>2. RequestServesHead'
  BY <1>1 DEF RequestServesHead
<1>3. /\ Head(queue) = queue[1] /\ queue \in Seq(Sound) /\ Len(queue) <= Capacity
      /\ Tail(queue) \in Seq(Sound) /\ Len(Tail(queue)) <= Capacity
  BY <1>1, QueueFacts DEF QueueIsSound
<1>4. ASSUME NEW a \in Avatars, AvatarAnswered(a) PROVE IInv'
  <2>1. /\ requestKind = "Avatar" /\ a \in {asked, NoAvatar}
        /\ queue' = WithAvatar(a) /\ Remember(Head(queue).steamId, a)
        /\ UNCHANGED <<waiting, disabled, delivered>>
    BY <1>4 DEF AvatarAnswered
  <2>2. a \in {Head(queue).steamId, NoAvatar}
    BY <1>1, <2>1 DEF IInv, RequestServesHead
  <2>3. ~queue[1].resolved
    BY <1>3, <2>1 DEF IInv, RequestServesHead
  <2>4. queue' \in Seq(Sound) /\ Len(queue') <= Capacity
    BY <1>1, <1>3, <2>1, <2>3, <2>2, AvatarSettles
  <2>5. Head(queue).steamId \in Players
    <3>1. queue[1] \in Sound /\ queue[1] \in ReportData
      BY <1>1, QueueFacts
    <3> QED
      BY <1>3, <2>3, <3>1 DEF Sound, ReportData
  <2>6. CacheIsHonest'
    BY <1>1, <2>1, <2>5, <2>2, RememberKeeps
  <2>7. OthersTypeOK'
    BY <1>1, <2>1 DEF OthersTypeOK
  <2> QED
    BY <1>2, <2>4, <2>6, <2>7 DEF IInv, QueueIsSound
<1>5. ASSUME UNCHANGED cache, waiting' \in BOOLEAN, disabled' \in BOOLEAN,
             delivered' \in {0} \union Reports,
             queue' \in Seq(Sound), Len(queue') <= Capacity
      PROVE  IInv'
  <2>1. OthersTypeOK'
    BY <1>1, <1>5 DEF OthersTypeOK
  <2>2. CacheIsHonest'
    BY <1>1, <1>5 DEF CacheIsHonest
  <2> QED
    BY <1>2, <1>5, <2>1, <2>2 DEF IInv, QueueIsSound
<1>6. CASE Confirmed
  <2>1. /\ queue' = Tail(queue) /\ delivered' = request /\ waiting' = FALSE
        /\ UNCHANGED <<cache, disabled>>
    BY <1>6 DEF Confirmed, Answered
  <2>2. waiting' \in BOOLEAN
    BY <2>1, Zenon
  <2> QED
    BY <1>1, <1>3, <1>5, <2>1, <2>2 DEF OthersTypeOK
<1>7. CASE Throttled
  <2>1. waiting' = TRUE /\ UNCHANGED <<queue, cache, disabled, delivered>>
    BY <1>7 DEF Throttled, Answered
  <2>2. waiting' \in BOOLEAN
    BY <2>1, Zenon
  <2> QED
    BY <1>1, <1>3, <1>5, <2>1, <2>2 DEF OthersTypeOK
<1>8. CASE Refused
  <2>1. disabled' = TRUE /\ queue' = <<>> /\ UNCHANGED <<cache, waiting, delivered>>
    BY <1>8 DEF Refused, Disable, Answered
  <2>2. disabled' \in BOOLEAN
    BY <2>1, Zenon
  <2> QED
    BY <1>1, <1>5, <2>1, <2>2, EmptyIsSound DEF OthersTypeOK
<1>9. CASE Failed
  <2>1. RetryOrDrop(queue) /\ UNCHANGED <<cache, disabled, delivered>>
    BY <1>9 DEF Failed, Answered
  <2>2. queue' \in Seq(Sound) /\ Len(queue') <= Capacity /\ waiting' \in BOOLEAN
    BY <1>1, <1>3, <2>1, RetryOrDropKeeps
  <2> QED
    BY <1>1, <1>5, <2>1, <2>2 DEF OthersTypeOK
<1> QED
  BY <1>4, <1>6, <1>7, <1>8, <1>9 DEF OnCompleted

LEMMA NextIInv == IInv /\ [Next]_vars => IInv'
<1> SUFFICES ASSUME IInv, [Next]_vars PROVE IInv'
  OBVIOUS
<1>1. ASSUME NEW p \in Players \union {NoPlayer}, Report(p) PROVE IInv'
  BY <1>1, EnqueueIInv DEF Report
<1>2. CASE Test
  <2>1. NoPlayer \in Players \union {NoPlayer} /\ Enqueue(NoPlayer)
    BY <1>2 DEF Test
  <2> QED
    BY <2>1, EnqueueIInv
<1>3. CASE Reload \/ Unload
  <2>1. /\ request' = 0 /\ requestKind' = "None" /\ asked' = NoPlayer
        /\ queue' = <<>> /\ cache' = <<>>
        /\ waiting' = FALSE /\ (disabled' = (url = "invalid") \/ disabled' = FALSE)
        /\ (http' = http \/ http' = FALSE)
        /\ UNCHANGED <<url, accepted, delivered>>
    BY <1>3, Zenon DEF Reload, Unload
  <2>2. waiting' \in BOOLEAN /\ disabled' \in BOOLEAN
    BY <2>1, Zenon
  <2>3. http' \in BOOLEAN
    BY <2>1, Zenon DEF IInv, OthersTypeOK
  <2>4. OthersTypeOK'
    BY <2>1, <2>2, <2>3 DEF IInv, OthersTypeOK
  <2>5. QueueIsSound' /\ CacheIsHonest'
    BY <2>1, EmptyIsSound, EmptyCache DEF QueueIsSound
  <2>6. RequestServesHead'
    BY <2>1 DEF RequestServesHead
  <2> QED
    BY <2>4, <2>5, <2>6 DEF IInv
<1>4. CASE SettingChanged \/ TimePasses
  <2>1. /\ url' \in {"none", "valid", "invalid"}
        /\ UNCHANGED <<http, queue, cache, request, requestKind, asked, disabled,
                       accepted, delivered>>
    BY <1>4 DEF SettingChanged, TimePasses, IInv, OthersTypeOK
  <2>2. waiting' \in BOOLEAN
    BY <1>4, Zenon DEF SettingChanged, TimePasses, IInv, OthersTypeOK
  <2>3. OthersTypeOK'
    BY <2>1, <2>2 DEF IInv, OthersTypeOK
  <2> QED
    BY <2>1, <2>3 DEF IInv, QueueIsSound, CacheIsHonest, RequestServesHead
<1>5. CASE UNCHANGED vars
  BY <1>5 DEF vars, IInv, OthersTypeOK, QueueIsSound, CacheIsHonest, RequestServesHead
<1> QED
  BY <1>1, <1>2, <1>3, <1>4, <1>5, OnGameFrameIInv, OnCompletedIInv DEF Next

THEOREM Invariance == Spec => []IInv
BY InitIInv, NextIInv, PTL DEF Spec

-----------------------------------------------------------------------------

(***************************************************************************)
(* Every variable of WebhookService has its type; the queue and the cache  *)
(* keep their bounds.                                                      *)
(***************************************************************************)
THEOREM TypeCorrect == Spec => []TypeOK
<1>1. ASSUME IInv PROVE TypeOK
  <2>1. OthersTypeOK /\ QueueIsSound /\ CacheIsHonest
    BY <1>1 DEF IInv
  <2>2. queue \in Seq(ReportData)
    BY <2>1, SeqMonotonic DEF QueueIsSound, Sound
  <2>3. cache \in [DOMAIN cache -> Avatars]
    BY <2>1 DEF CacheIsHonest, Avatars
  <2>4. \E known \in SUBSET Players :
          Cardinality(known) <= CacheSize /\ cache \in [known -> Avatars]
    BY <2>1, <2>3 DEF CacheIsHonest
  <2> QED
    BY <2>1, <2>2, <2>4 DEF OthersTypeOK, QueueIsSound, TypeOK
<1> QED
  BY <1>1, Invariance, PTL

(***************************************************************************)
(* OnCompleted applies every answer to the report it is about, a lookup's  *)
(* to the report that was looked up and Discord's to the one posted.       *)
(***************************************************************************)
THEOREM AnswersAreForTheHead == Spec => []RequestServesHead
<1>1. IInv => RequestServesHead
  BY DEF IInv
<1> QED
  BY <1>1, Invariance, PTL

(***************************************************************************)
(* No report of WebhookService ever shows another player's avatar, and its *)
(* cache remembers none: FinishAvatarLookup writes the answer to whatever  *)
(* report is the first, and that is the one SendAvatarLookup asked for.    *)
(***************************************************************************)
THEOREM AvatarsAreTheirOwn == Spec => []AvatarIsOfThePlayer
<1>1. ASSUME IInv PROVE AvatarIsOfThePlayer
  <2>1. queue \in Seq(Sound) /\ CacheIsHonest
    BY <1>1 DEF IInv, QueueIsSound
  <2>2. \A i \in 1..Len(queue) : queue[i] \in Sound
    BY <2>1
  <2> QED
    BY <2>1, <2>2 DEF Sound, CacheIsHonest, AvatarIsOfThePlayer
<1> QED
  BY <1>1, Invariance, PTL

-----------------------------------------------------------------------------
\* The refinement.

LEMMA InitRefines == Init => Sink!SinkInit
<1> SUFFICES ASSUME Init PROVE Sink!SinkInit
  OBVIOUS
<1>1. queue = <<>> /\ Len(queue) = 0 /\ request = 0 /\ accepted = 0 /\ delivered = 0
  BY DEF Init
<1>2. [i \in 1..Len(queue) |-> queue[i].id] = <<>>
  BY <1>1
<1> QED
  BY <1>1, <1>2 DEF Sink!SinkInit

\* The line of the sink.
LEMMA LineIsIds == /\ [i \in 1..Len(queue) |-> queue[i].id] = Ids(queue)
                   /\ [i \in 1..Len(queue) |-> queue[i].id]' = Ids(queue')
BY DEF Ids

LEMMA StepRefines == IInv /\ [Next]_vars => [Sink!SinkNext]_(Sink!sinkVars)
<1> SUFFICES ASSUME IInv, [Next]_vars
             PROVE  Sink!SinkNext \/ UNCHANGED Sink!sinkVars
  OBVIOUS
<1> DEFINE line == [i \in 1..Len(queue) |-> queue[i].id]
<1>1. line = Ids(queue) /\ line' = Ids(queue')
  BY LineIsIds
<1>2. /\ QueueIsSound /\ CacheIsHonest /\ RequestServesHead
      /\ queue \in Seq(Sound) /\ Len(queue) <= Capacity
      /\ request # 0 => queue # <<>> /\ Head(queue).id = request
  BY DEF IInv, QueueIsSound, RequestServesHead
<1>3. ASSUME queue # <<>>
      PROVE  line # <<>> /\ Head(line) = Head(queue).id
  BY <1>1, <1>2, <1>3, IdsOfQueue, TailOfQueue
<1>4. /\ Sink!SinkNext <=> \/ Sink!Accept \/ Sink!Begin \/ Sink!Return
                          \/ Sink!Deliver \/ Sink!GiveUp \/ Sink!Clear
      /\ line' = line /\ UNCHANGED <<request, accepted, delivered>> =>
           UNCHANGED Sink!sinkVars
      /\ request # 0 /\ request' = 0 /\ line' = line /\ UNCHANGED <<accepted, delivered>> =>
           Sink!Return
      /\ request = 0 /\ line # <<>> /\ request' = Head(line) /\ line' = line
           /\ UNCHANGED <<accepted, delivered>> => Sink!Begin
      /\ line # <<>> /\ line' = Tail(line) /\ request' = 0 /\ UNCHANGED <<accepted, delivered>> =>
           Sink!GiveUp
      /\ request # 0 /\ delivered' = request /\ line' = Tail(line) /\ request' = 0
           /\ UNCHANGED accepted => Sink!Deliver
      /\ line' = <<>> /\ request' = 0 /\ UNCHANGED <<accepted, delivered>> => Sink!Clear
  BY DEF Sink!SinkNext, Sink!sinkVars, Sink!Return, Sink!Begin, Sink!GiveUp, Sink!Deliver,
         Sink!Clear
<1>5. queue' = <<>> => line' = <<>>
  BY <1>1, IdsOfQueue, EmptyIsSound
<1>6. ASSUME NEW p \in Players \union {NoPlayer}, Enqueue(p) PROVE Sink!Accept
  <2>1. PICK r \in Sound : r.id = accepted + 1 /\ queue' = Append(MakeRoom, r)
    BY <1>6, NewReport
  <2>2. /\ MakeRoom \in Seq(Sound)
        /\ Ids(MakeRoom) = IF Len(Ids(queue)) < Capacity THEN Ids(queue)
                           ELSE IF request = 0 THEN Tail(Ids(queue))
                           ELSE <<Head(Ids(queue))>> \o Tail(Tail(Ids(queue)))
    BY <1>2, MakeRoomKeepsHead
  <2>3. line' = Append(Ids(MakeRoom), accepted + 1)
    BY <1>1, <2>1, <2>2, AppendToQueue
  <2>4. Ids(MakeRoom) = Sink!Room
    BY <1>1, <2>2, Zenon DEF Sink!Room, Sink!WithoutOldest
  <2>5. accepted < MaxReports /\ accepted' = accepted + 1 /\ UNCHANGED <<request, delivered>>
    BY <1>6 DEF Enqueue
  <2> QED
    BY <2>3, <2>4, <2>5 DEF Sink!Accept
<1> HIDE DEF line
<1>7. CASE OnGameFrame
  <2>1. request = 0 /\ queue # <<>> /\ UNCHANGED <<accepted, delivered>>
    BY <1>7 DEF OnGameFrame, HttpUnavailable, LookUpAvatar, SendFails, Send, ReadyToSend
  <2>2. line # <<>> /\ Head(line) = Head(queue).id
    BY <1>3, <2>1
  <2>3. CASE HttpUnavailable
    <3>1. queue' = queue /\ request' = request
      BY <2>3 DEF HttpUnavailable
    <3> QED
      BY <1>1, <1>4, <2>1, <3>1
  <2>4. CASE LookUpAvatar
    <3>1. queue' = queue /\ request' = Head(queue).id
      BY <2>4 DEF LookUpAvatar
    <3> QED
      BY <1>1, <1>4, <2>1, <2>2, <3>1
  <2>5. CASE SendFails
    <3>1. RetryOrDrop(Built(Settled)) /\ request' = request
      BY <2>5 DEF SendFails
    <3>2. line' = line \/ line' = Tail(line)
      BY <1>1, <1>2, <2>1, <3>1, SettledKeeps, RetryOrDropKeeps
    <3> QED
      BY <1>4, <2>1, <2>2, <3>1, <3>2
  <2>6. CASE Send
    <3>1. queue' = Built(Settled) /\ request' = Head(queue).id
      BY <2>6 DEF Send
    <3>2. line' = line
      BY <1>1, <1>2, <2>1, <3>1, SettledKeeps
    <3> QED
      BY <1>4, <2>1, <2>2, <3>1, <3>2
  <2> QED
    BY <1>7, <2>3, <2>4, <2>5, <2>6 DEF OnGameFrame
<1>8. CASE OnCompleted
  <2>1. request # 0 /\ queue # <<>> /\ request' = 0 /\ UNCHANGED accepted
    BY <1>2, <1>8 DEF OnCompleted, AvatarAnswered, Confirmed, Throttled, Refused, Failed,
                      Answered, RequestServesHead
  <2>2. line # <<>> /\ Tail(line) = Ids(Tail(queue))
    BY <1>1, <1>2, <1>3, <2>1, TailOfQueue
  <2>3. ASSUME NEW a \in Avatars, AvatarAnswered(a) PROVE Sink!Return
    <3>1. /\ requestKind = "Avatar" /\ a \in {asked, NoAvatar}
          /\ queue' = WithAvatar(a) /\ delivered' = delivered
      BY <2>3 DEF AvatarAnswered
    <3>2. /\ Head(queue) = queue[1] /\ ~queue[1].resolved
          /\ a \in {queue[1].steamId, NoAvatar}
      BY <1>2, <2>1, <3>1, QueueFacts DEF RequestServesHead
    <3>3. line' = line
      BY <1>1, <1>2, <2>1, <3>1, <3>2, AvatarSettles
    <3> QED
      BY <1>4, <2>1, <3>1, <3>3
  <2>4. CASE Confirmed
    <3>1. queue' = Tail(queue) /\ delivered' = request
      BY <2>4 DEF Confirmed
    <3> QED
      BY <1>1, <1>4, <2>1, <2>2, <3>1
  <2>5. CASE Throttled
    <3>1. queue' = queue /\ delivered' = delivered
      BY <2>5 DEF Throttled
    <3> QED
      BY <1>1, <1>4, <2>1, <3>1
  <2>6. CASE Refused
    <3>1. queue' = <<>> /\ delivered' = delivered
      BY <2>6 DEF Refused, Disable
    <3> QED
      BY <1>4, <1>5, <2>1, <3>1
  <2>7. CASE Failed
    <3>1. RetryOrDrop(queue) /\ delivered' = delivered
      BY <2>7 DEF Failed
    <3>2. line' = line \/ line' = Tail(line)
      BY <1>1, <1>2, <2>1, <3>1, RetryOrDropKeeps
    <3> QED
      BY <1>4, <2>1, <2>2, <3>1, <3>2
  <2> QED
    BY <1>4, <1>8, <2>3, <2>4, <2>5, <2>6, <2>7 DEF OnCompleted
<1>9. CASE Reload \/ Unload
  <2>1. queue' = <<>> /\ request' = 0 /\ UNCHANGED <<accepted, delivered>>
    BY <1>9 DEF Reload, Unload
  <2> QED
    BY <1>4, <1>5, <2>1
<1>10. CASE SettingChanged \/ TimePasses \/ UNCHANGED vars
  <2>1. queue' = queue /\ UNCHANGED <<request, accepted, delivered>>
    BY <1>10 DEF SettingChanged, TimePasses, vars
  <2> QED
    BY <1>1, <1>4, <2>1
<1> QED
  BY <1>4, <1>6, <1>7, <1>8, <1>9, <1>10 DEF Next, Report, Test

(***************************************************************************)
(* WebhookService implements ReportSink: the avatar lookups are attempts   *)
(* that end without settling the report.                                   *)
(***************************************************************************)
THEOREM ImplementsReportSink == Spec => SinkSpec
BY InitRefines, StepRefines, Invariance, PTL DEF Spec, SinkSpec, Sink!SinkSpec

=============================================================================
