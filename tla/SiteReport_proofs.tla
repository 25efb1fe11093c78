------------------------- MODULE SiteReport_proofs -------------------------
(***************************************************************************)
(* Proofs about SiteReport, for any queue capacity of two or more and any  *)
(* number of reports: its invariants, that every step of the service is a  *)
(* step of ReportSink or leaves the line, the wire and the deliveries      *)
(* alone, and what every sink promises.                                    *)
(*                                                                         *)
(* The mapping needs the invariant in two places: RequestServesHead, so    *)
(* that a failed request has a report to give up, and the length of the    *)
(* queue, which the code compares with >= and the sink with <.             *)
(***************************************************************************)
EXTENDS SiteReport, TLAPS

IInv ==
  /\ TypeOK
  /\ RequestServesHead
  /\ DisabledIsSilent

-----------------------------------------------------------------------------

(***************************************************************************)
(* What the queue operations return.                                       *)
(***************************************************************************)
LEMMA TailOfQueue ==
  ASSUME NEW q \in Seq(Reports), q # <<>>
  PROVE  /\ Tail(q) \in Seq(Reports)
         /\ Len(Tail(q)) = Len(q) - 1
         /\ Head(q) \in Reports
         /\ Head(q) = q[1]
OBVIOUS

LEMMA EvictedKeepsHead ==
  ASSUME NEW q \in Seq(Reports), Len(q) >= 2
  PROVE  LET rest == <<Head(q)>> \o Tail(Tail(q))
         IN  /\ rest \in Seq(Reports)
             /\ Len(rest) = Len(q) - 1
             /\ rest # <<>>
             /\ Head(rest) = Head(q)
<1> DEFINE u == Tail(Tail(q))
           rest == <<Head(q)>> \o u
<1>1. u \in Seq(Reports) /\ Len(u) = Len(q) - 2 /\ Head(q) \in Reports
  <2>1. q # <<>> /\ Len(q) \in Nat
    OBVIOUS
  <2>2. /\ Tail(q) \in Seq(Reports) /\ Len(Tail(q)) = Len(q) - 1
        /\ Head(q) \in Reports
    BY <2>1, TailOfQueue
  <2>3. Tail(q) # <<>>
    <3>1. Len(Tail(q)) # Len(<<>>)
      BY <2>1, <2>2
    <3> QED
      BY <3>1
  <2> QED
    BY <2>2, <2>3, TailOfQueue
<1>2. rest \in Seq(Reports) /\ Len(rest) = Len(u) + 1 /\ rest[1] = Head(q)
  BY <1>1
<1> HIDE DEF u, rest
<1>3. Len(rest) = Len(q) - 1 /\ rest # <<>>
  BY <1>1, <1>2
<1>4. Head(rest) = Head(q)
  BY <1>2, <1>3
<1> QED
  BY <1>2, <1>3, <1>4 DEF u, rest

LEMMA AppendToQueue ==
  ASSUME NEW q \in Seq(Reports), NEW r \in Reports
  PROVE  /\ Append(q, r) \in Seq(Reports)
         /\ Len(Append(q, r)) = Len(q) + 1
         /\ Append(q, r) # <<>>
         /\ q # <<>> => Head(Append(q, r)) = Head(q)
<1>1. /\ Append(q, r) \in Seq(Reports)
      /\ Len(Append(q, r)) = Len(q) + 1
      /\ \A i \in 1..Len(q) : Append(q, r)[i] = q[i]
  OBVIOUS
<1>2. Append(q, r) # <<>>
  <2>1. Len(q) \in Nat /\ Len(<<>>) = 0
    OBVIOUS
  <2> QED
    BY <1>1, <2>1
<1>3. ASSUME q # <<>> PROVE Head(Append(q, r)) = Head(q)
  <2> DEFINE t == Append(q, r)
  <2>1. 1 \in 1..Len(q) /\ Head(q) = q[1]
    BY <1>3
  <2>2. t \in Seq(Reports) /\ t # <<>> /\ t[1] = q[1]
    BY <1>1, <1>2, <2>1
  <2> HIDE DEF t
  <2>3. Head(t) = t[1]
    BY <2>2
  <2> QED
    BY <2>1, <2>2, <2>3 DEF t
<1> QED
  BY <1>1, <1>2, <1>3

(***************************************************************************)
(* MakeRoom leaves room for one more report and keeps the one on the wire. *)
(***************************************************************************)
LEMMA MakeRoomKeepsHead ==
  ASSUME IInv
  PROVE  /\ MakeRoom \in Seq(Reports)
         /\ Len(MakeRoom) + 1 <= Capacity
         /\ request # 0 => MakeRoom # <<>> /\ Head(MakeRoom) = request
<1> USE SiteAssumption DEF IInv, TypeOK
<1>1. CASE Len(queue) < Capacity
  <2>1. MakeRoom = queue
    BY <1>1 DEF MakeRoom
  <2> QED
    BY <1>1, <2>1 DEF RequestServesHead
<1>2. CASE Len(queue) = Capacity /\ request = 0
  <2>1. MakeRoom = Tail(queue) /\ queue # <<>>
    BY <1>2 DEF MakeRoom, Evicted
  <2> QED
    BY <1>2, <2>1, TailOfQueue
<1>3. CASE Len(queue) = Capacity /\ request # 0
  <2>1. MakeRoom = <<Head(queue)>> \o Tail(Tail(queue)) /\ Len(queue) >= 2
    BY <1>3 DEF MakeRoom, Evicted
  <2>2. Head(queue) = request
    BY <1>3 DEF RequestServesHead
  <2>3. /\ MakeRoom \in Seq(Reports)
        /\ Len(MakeRoom) = Len(queue) - 1
        /\ MakeRoom # <<>>
        /\ Head(MakeRoom) = Head(queue)
    BY <2>1, EvictedKeepsHead
  <2> QED
    BY <1>3, <2>2, <2>3
<1> QED
  BY <1>1, <1>2, <1>3

(***************************************************************************)
(* RetryOrDrop keeps the queue or drops its head.                          *)
(***************************************************************************)
LEMMA RetryOrDropTypes ==
  ASSUME IInv, queue # <<>>, RetryOrDrop
  PROVE  /\ queue' = queue \/ queue' = Tail(queue)
         /\ queue' \in Seq(Reports)
         /\ Len(queue') <= Capacity
         /\ retries' \in [Reports -> 0..1]
         /\ waiting' \in BOOLEAN
<1>1. /\ Head(queue) \in Reports
      /\ Tail(queue) \in Seq(Reports)
      /\ Len(Tail(queue)) = Len(queue) - 1
      /\ Len(queue) \in Nat /\ Len(queue) <= Capacity
  BY TailOfQueue DEF IInv, TypeOK
<1>2. CASE retries[Head(queue)] = 0
  <2>1. /\ retries' = [retries EXCEPT ![Head(queue)] = @ + 1]
        /\ waiting' = TRUE /\ queue' = queue
    BY <1>2 DEF RetryOrDrop
  <2>2. retries' \in [Reports -> 0..1]
    BY <1>1, <1>2, <2>1 DEF IInv, TypeOK
  <2> QED
    BY <1>1, <2>1, <2>2 DEF IInv, TypeOK
<1>3. CASE retries[Head(queue)] # 0
  <2>1. retries' = retries /\ waiting' = FALSE /\ queue' = Tail(queue)
    BY <1>3 DEF RetryOrDrop
  <2>2. Len(queue') <= Capacity
    BY <1>1, <2>1, SiteAssumption
  <2> QED
    BY <1>1, <2>1, <2>2 DEF IInv, TypeOK
<1> QED
  BY <1>2, <1>3

-----------------------------------------------------------------------------

LEMMA InitIInv == Init => IInv
<1> SUFFICES ASSUME Init PROVE IInv
  OBVIOUS
<1>1. <<>> \in Seq(Reports) /\ Len(<<>>) = 0
  OBVIOUS
<1>2. TypeOK
  <2>1. queue \in Seq(Reports) /\ Len(queue) <= Capacity
    BY <1>1, SiteAssumption DEF Init
  <2>2. retries \in [Reports -> 0..1] /\ accepted \in 0..MaxReports
    BY SiteAssumption DEF Init
  <2> QED
    BY <2>1, <2>2 DEF Init, TypeOK
<1> QED
  BY <1>2 DEF Init, IInv, RequestServesHead, DisabledIsSilent

LEMMA ReportIInv == IInv /\ Report => IInv'
<1> SUFFICES ASSUME IInv, Report PROVE IInv'
  OBVIOUS
<1> DEFINE new == accepted + 1
<1>1. /\ new \in Reports /\ accepted' = new
      /\ queue' = Append(MakeRoom, new)
      /\ ~disabled
      /\ UNCHANGED <<url, http, retries, request, waiting, disabled, delivered>>
  BY SiteAssumption DEF Report, IInv, TypeOK, Reports
<1>2. /\ queue' \in Seq(Reports)
      /\ Len(queue') = Len(MakeRoom) + 1
      /\ queue' # <<>>
      /\ MakeRoom # <<>> => Head(queue') = Head(MakeRoom)
  BY <1>1, MakeRoomKeepsHead, AppendToQueue
<1>3. TypeOK'
  BY <1>1, <1>2, MakeRoomKeepsHead DEF IInv, TypeOK, Reports
<1>4. RequestServesHead'
  BY <1>1, <1>2, MakeRoomKeepsHead DEF RequestServesHead
<1>5. DisabledIsSilent'
  BY <1>1 DEF DisabledIsSilent
<1> QED
  BY <1>3, <1>4, <1>5 DEF IInv

LEMMA OnGameFrameIInv == IInv /\ OnGameFrame => IInv'
<1> SUFFICES ASSUME IInv, OnGameFrame PROVE IInv'
  OBVIOUS
<1>1. request = 0 /\ queue # <<>> /\ Head(queue) \in Reports /\ ~disabled
  <2>1. request = 0 /\ queue # <<>>
    BY DEF OnGameFrame, HttpUnavailable, SendFails, Send, ReadyToSend
  <2> QED
    BY <2>1, TailOfQueue DEF IInv, TypeOK, DisabledIsSilent
<1>2. CASE HttpUnavailable
  BY <1>2 DEF HttpUnavailable, IInv, TypeOK, RequestServesHead, DisabledIsSilent
<1>3. CASE SendFails
  <2>1. /\ queue' \in Seq(Reports) /\ Len(queue') <= Capacity
        /\ retries' \in [Reports -> 0..1] /\ waiting' \in BOOLEAN
    BY <1>1, <1>3, RetryOrDropTypes DEF SendFails
  <2> QED
    BY <1>1, <1>3, <2>1
      DEF SendFails, IInv, TypeOK, RequestServesHead, DisabledIsSilent
<1>4. CASE Send
  BY <1>1, <1>4 DEF Send, IInv, TypeOK, RequestServesHead, DisabledIsSilent
<1> QED
  BY <1>2, <1>3, <1>4 DEF OnGameFrame

LEMMA OnCompletedIInv == IInv /\ OnCompleted => IInv'
<1> SUFFICES ASSUME IInv, OnCompleted PROVE IInv'
  OBVIOUS
<1>1. /\ request # 0 /\ request \in Reports
      /\ queue # <<>> /\ Head(queue) = request
      /\ Tail(queue) \in Seq(Reports)
      /\ Len(Tail(queue)) <= Capacity
      /\ <<>> \in Seq(Reports) /\ Len(<<>>) <= Capacity
  <2>1. request # 0
    BY DEF OnCompleted, Confirmed, Refused, Throttled, Failed
  <2>2. queue # <<>> /\ Head(queue) = request
    BY <2>1 DEF IInv, RequestServesHead
  <2> QED
    BY <2>1, <2>2, SiteAssumption, TailOfQueue DEF IInv, TypeOK
<1>2. RequestServesHead'
  BY DEF OnCompleted, Confirmed, Refused, Throttled, Failed, RequestServesHead
<1>3. ~disabled
  BY <1>1 DEF IInv, DisabledIsSilent
<1>4. CASE Confirmed
  BY <1>1, <1>2, <1>3, <1>4 DEF Confirmed, IInv, TypeOK, DisabledIsSilent
<1>5. CASE Refused
  BY <1>1, <1>2, <1>5 DEF Refused, Disable, IInv, TypeOK, DisabledIsSilent
<1>6. CASE Throttled
  BY <1>1, <1>2, <1>3, <1>6 DEF Throttled, IInv, TypeOK, DisabledIsSilent
<1>7. CASE Failed
  <2>1. /\ queue' \in Seq(Reports) /\ Len(queue') <= Capacity
        /\ retries' \in [Reports -> 0..1] /\ waiting' \in BOOLEAN
    BY <1>1, <1>7, RetryOrDropTypes DEF Failed
  <2> QED
    BY <1>2, <1>3, <1>7, <2>1 DEF Failed, IInv, TypeOK, DisabledIsSilent
<1> QED
  BY <1>4, <1>5, <1>6, <1>7 DEF OnCompleted

LEMMA NextIInv == IInv /\ [Next]_vars => IInv'
<1> SUFFICES ASSUME IInv, [Next]_vars PROVE IInv'
  OBVIOUS
<1>1. <<>> \in Seq(Reports) /\ Len(<<>>) <= Capacity
  BY SiteAssumption
<1>2. CASE Reload \/ Unload
  <2>1. /\ request' = 0 /\ queue' = <<>> /\ waiting' = FALSE
        /\ disabled' \in BOOLEAN /\ http' \in BOOLEAN
        /\ UNCHANGED <<url, retries, accepted, delivered>>
    BY <1>2 DEF Reload, Unload, IInv, TypeOK
  <2>2. queue' \in Seq(Reports) /\ Len(queue') <= Capacity
    BY <1>1, <2>1
  <2>3. TypeOK'
    BY <2>1, <2>2 DEF IInv, TypeOK
  <2> QED
    BY <2>1, <2>3 DEF IInv, RequestServesHead, DisabledIsSilent
<1>3. CASE SettingChanged \/ TimePasses
  <2>1. /\ url' \in {"none", "valid", "invalid"} /\ waiting' \in BOOLEAN
        /\ UNCHANGED <<http, queue, retries, request, disabled, accepted, delivered>>
    BY <1>3 DEF SettingChanged, TimePasses, IInv, TypeOK
  <2>2. TypeOK'
    BY <2>1 DEF IInv, TypeOK
  <2> QED
    BY <2>1, <2>2 DEF IInv, RequestServesHead, DisabledIsSilent
<1>4. CASE UNCHANGED vars
  BY <1>4 DEF vars, IInv, TypeOK, RequestServesHead, DisabledIsSilent
<1> QED
  BY <1>2, <1>3, <1>4, ReportIInv, OnGameFrameIInv, OnCompletedIInv DEF Next

THEOREM Invariance == Spec => []IInv
BY InitIInv, NextIInv, PTL DEF Spec

-----------------------------------------------------------------------------

(***************************************************************************)
(* Every variable of the service keeps its type, the queue its bound.      *)
(***************************************************************************)
THEOREM TypeCorrect == Spec => []TypeOK
<1>1. IInv => TypeOK
  BY DEF IInv
<1> QED
  BY <1>1, Invariance, PTL

(***************************************************************************)
(* An answer is always about the head of the queue.                        *)
(***************************************************************************)
THEOREM AnswersAreForTheHead == Spec => []RequestServesHead
<1>1. IInv => RequestServesHead
  BY DEF IInv
<1> QED
  BY <1>1, Invariance, PTL

(***************************************************************************)
(* A disabled service neither queues nor sends.                            *)
(***************************************************************************)
THEOREM DisabledStaysSilent == Spec => []DisabledIsSilent
<1>1. IInv => DisabledIsSilent
  BY DEF IInv
<1> QED
  BY <1>1, Invariance, PTL

-----------------------------------------------------------------------------

LEMMA InitRefines == Init => Sink!SinkInit
BY DEF Init, Sink!SinkInit

LEMMA StepRefines == IInv /\ [Next]_vars => [Sink!SinkNext]_(Sink!sinkVars)
<1> SUFFICES ASSUME IInv, [Next]_vars
             PROVE  Sink!SinkNext \/ UNCHANGED Sink!sinkVars
  OBVIOUS
<1> USE DEF Sink!sinkVars
<1>1. CASE Report
  <2>1. MakeRoom = Sink!Room
    <3>1. Len(queue) \in Nat /\ Capacity \in Nat
      BY SiteAssumption DEF IInv, TypeOK
    <3> QED
      BY <3>1 DEF MakeRoom, Evicted, Sink!Room, Sink!WithoutOldest
  <2> QED
    BY <1>1, <2>1 DEF Report, Sink!Accept, Sink!SinkNext
<1>2. CASE HttpUnavailable
  BY <1>2 DEF HttpUnavailable
<1>3. CASE SendFails
  <2>1. CASE queue' = queue
    BY <1>3, <2>1 DEF SendFails
  <2>2. CASE queue' = Tail(queue)
    BY <1>3, <2>2 DEF SendFails, ReadyToSend, Sink!GiveUp, Sink!SinkNext
  <2> QED
    BY <1>3, <2>1, <2>2, RetryOrDropTypes DEF SendFails, ReadyToSend
<1>4. CASE Send
  BY <1>4 DEF Send, ReadyToSend, Sink!Begin, Sink!SinkNext
<1>5. CASE Confirmed
  BY <1>5 DEF Confirmed, Sink!Deliver, Sink!SinkNext
<1>6. CASE Refused
  BY <1>6 DEF Refused, Disable, Sink!Clear, Sink!SinkNext
<1>7. CASE Throttled
  BY <1>7 DEF Throttled, Sink!Return, Sink!SinkNext
<1>8. CASE Failed
  <2>1. queue # <<>>
    BY <1>8 DEF Failed, IInv, RequestServesHead
  <2>2. CASE queue' = queue
    BY <1>8, <2>2 DEF Failed, Sink!Return, Sink!SinkNext
  <2>3. CASE queue' = Tail(queue)
    BY <1>8, <2>1, <2>3 DEF Failed, Sink!GiveUp, Sink!SinkNext
  <2> QED
    BY <1>8, <2>1, <2>2, <2>3, RetryOrDropTypes DEF Failed
<1>9. CASE Reload \/ Unload
  BY <1>9 DEF Reload, Unload, Sink!Clear, Sink!SinkNext
<1>10. CASE SettingChanged \/ TimePasses
  BY <1>10 DEF SettingChanged, TimePasses
<1>11. CASE UNCHANGED vars
  BY <1>11 DEF vars
<1> QED
  BY <1>1, <1>2, <1>3, <1>4, <1>5, <1>6, <1>7, <1>8, <1>9, <1>10, <1>11
    DEF Next, OnGameFrame, OnCompleted

(***************************************************************************)
(* The website service implements ReportSink.                              *)
(***************************************************************************)
THEOREM ImplementsReportSink == Spec => SinkSpec
BY InitRefines, StepRefines, Invariance, PTL DEF Spec, SinkSpec, Sink!SinkSpec

-----------------------------------------------------------------------------

(***************************************************************************)
(* The sink's own invariants, for any behaviour of a sink.  The wire       *)
(* serving the head is what makes an overflow keep the head, and the order *)
(* of the line what makes a delivery newer than the one before.  queue and *)
(* request stand for the line and the wire of any sink here: nothing of    *)
(* the service is used.                                                    *)
(***************************************************************************)
SinkInv == Sink!SinkTypeOK /\ Sink!WireServesHead /\ Sink!InOrder

-----------------------------------------------------------------------------

(***************************************************************************)
(* A line in order, all of it accepted and after what was delivered.       *)
(***************************************************************************)
Ordered(s) ==
  /\ s \in Seq(Sink!Report)
  /\ \A i, j \in 1..Len(s) : i < j => s[i] < s[j]

LEMMA TailOrdered ==
  ASSUME NEW s, Ordered(s), s # <<>>
  PROVE  /\ Ordered(Tail(s))
         /\ Len(Tail(s)) = Len(s) - 1
         /\ \A i \in 1..Len(Tail(s)) : Tail(s)[i] = s[i + 1] /\ Head(s) < Tail(s)[i]
         /\ Head(s) = s[1] /\ Head(s) \in Sink!Report
BY DEF Ordered

LEMMA AppendOrdered ==
  ASSUME NEW s, Ordered(s), NEW r \in Sink!Report, \A i \in 1..Len(s) : s[i] < r
  PROVE  /\ Ordered(Append(s, r))
         /\ Len(Append(s, r)) = Len(s) + 1
         /\ \A i \in 1..Len(s) : Append(s, r)[i] = s[i]
         /\ Append(s, r)[Len(s) + 1] = r
BY DEF Ordered

(***************************************************************************)
(* Dropping the second report of a line keeps its head and its order.      *)
(***************************************************************************)
LEMMA KeepHeadOrdered ==
  ASSUME NEW s, Ordered(s), Len(s) >= 2
  PROVE  LET t == <<Head(s)>> \o Tail(Tail(s))
         IN  /\ Ordered(t)
             /\ Len(t) = Len(s) - 1
             /\ t[1] = Head(s) /\ t # <<>> /\ Head(t) = Head(s)
             /\ \A i \in 2..Len(t) : t[i] = s[i + 1]
<1> DEFINE u == Tail(Tail(s))
           t == <<Head(s)>> \o u
<1>1. s \in Seq(Sink!Report) /\ s # <<>> /\ Tail(s) # <<>>
  BY DEF Ordered
<1>2. /\ u \in Seq(Sink!Report)
      /\ Len(u) = Len(s) - 2
      /\ \A i \in 1..Len(u) : u[i] = s[i + 2]
  BY <1>1
<1>3. /\ t \in Seq(Sink!Report)
      /\ Len(t) = Len(s) - 1
      /\ t[1] = s[1]
      /\ \A i \in 2..Len(t) : t[i] = u[i - 1]
  BY <1>1, <1>2
<1>a. Len(s) \in Nat /\ Len(t) = Len(s) - 1 /\ Len(u) = Len(s) - 2
  BY <1>1, <1>2, <1>3
<1> HIDE DEF t, u
<1>4. ASSUME NEW i \in 2..Len(t)
      PROVE  t[i] = s[i + 1]
  <2>1. i - 1 \in 1..Len(u) /\ (i - 1) + 2 = i + 1
    BY <1>a, <1>4
  <2>2. u[i - 1] = s[(i - 1) + 2]
    BY <1>2, <2>1
  <2> QED
    BY <1>3, <2>1, <2>2
<1>5. ASSUME NEW i \in 1..Len(t), NEW j \in 1..Len(t), i < j
      PROVE  t[i] < t[j]
  <2>1. j \in 2..Len(t) /\ j + 1 \in 1..Len(s) /\ t[j] = s[j + 1]
    BY <1>a, <1>4, <1>5
  <2>2. CASE i = 1
    BY <1>3, <1>a, <2>1, <2>2 DEF Ordered
  <2>3. CASE i # 1
    <3>1. i \in 2..Len(t) /\ i + 1 \in 1..Len(s)
      BY <1>a, <1>5, <2>3
    <3>2. t[i] = s[i + 1]
      BY <1>4, <3>1
    <3> QED
      BY <1>5, <2>1, <3>1, <3>2 DEF Ordered
  <2> QED
    BY <2>2, <2>3
<1> QED
  BY <1>1, <1>3, <1>4, <1>5, <1>a DEF Ordered, t

-----------------------------------------------------------------------------

LEMMA InitSinkInv ==
  ASSUME Sink!SinkAssumption, Sink!SinkInit
  PROVE  SinkInv
BY DEF Sink!SinkAssumption, Sink!SinkInit, SinkInv, Sink!SinkTypeOK, Sink!WireServesHead,
       Sink!InOrder, Sink!Report

LEMMA AcceptSinkInv ==
  ASSUME Sink!SinkAssumption, SinkInv, Sink!Accept
  PROVE  SinkInv'
<1> USE DEF Sink!SinkAssumption
<1> DEFINE rest == Sink!Room
           new == accepted + 1
<1>1. Ordered(queue) /\ Len(queue) <= Capacity /\ new \in Sink!Report /\ accepted \in Nat
  BY DEF SinkInv, Sink!SinkTypeOK, Sink!InOrder, Ordered, Sink!Accept, Sink!Report
<1>2. /\ Ordered(rest)
      /\ Len(rest) < Capacity
      /\ \A i \in 1..Len(rest) : delivered < rest[i] /\ rest[i] <= accepted
      /\ request # 0 => rest # <<>> /\ Head(rest) = request
  <2>1. CASE Len(queue) < Capacity
    <3>1. rest = queue
      BY <2>1 DEF Sink!Room
    <3> QED
      BY <1>1, <2>1, <3>1 DEF SinkInv, Sink!WireServesHead, Sink!InOrder
  <2>2. CASE Len(queue) = Capacity /\ request = 0
    <3>1. rest = Tail(queue) /\ queue # <<>>
      BY <1>1, <2>2 DEF Sink!Room, Sink!WithoutOldest
    <3> QED
      BY <1>1, <2>2, <3>1, TailOrdered DEF SinkInv, Sink!InOrder
  <2>3. CASE Len(queue) = Capacity /\ request # 0
    <3>1. rest = <<Head(queue)>> \o Tail(Tail(queue)) /\ Len(queue) >= 2
      BY <1>1, <2>3 DEF Sink!Room, Sink!WithoutOldest
    <3>2. Head(queue) = request /\ Head(queue) = queue[1]
      BY <2>3, <3>1 DEF SinkInv, Sink!WireServesHead, Sink!SinkTypeOK
    <3>3. /\ Ordered(rest)
          /\ Len(rest) = Len(queue) - 1
          /\ rest[1] = queue[1] /\ rest # <<>> /\ Head(rest) = request
          /\ \A i \in 2..Len(rest) : rest[i] = queue[i + 1]
      BY <1>1, <3>1, <3>2, KeepHeadOrdered
    <3>4. \A i \in 1..Len(rest) : delivered < rest[i] /\ rest[i] <= accepted
      BY <1>1, <3>1, <3>3 DEF SinkInv, Sink!InOrder
    <3>5. Len(rest) < Capacity
      BY <2>3, <3>3
    <3> HIDE DEF rest
    <3> QED
      BY <3>3, <3>4, <3>5
  <2> QED
    BY <1>1, <2>1, <2>2, <2>3 DEF Ordered
<1>3. /\ queue' = Append(rest, new) /\ accepted' = new
      /\ request' = request /\ delivered' = delivered
  BY DEF Sink!Accept
<1>4. /\ Ordered(queue')
      /\ Len(queue') = Len(rest) + 1
      /\ \A i \in 1..Len(rest) : queue'[i] = rest[i]
      /\ queue'[Len(rest) + 1] = new
  <2>1. \A i \in 1..Len(rest) : rest[i] < new
    BY <1>1, <1>2 DEF Ordered, Sink!Report
  <2> QED
    BY <1>1, <1>2, <1>3, <2>1, AppendOrdered
<1>5. Len(rest) \in Nat /\ Len(queue') \in Nat
  BY <1>2, <1>4 DEF Ordered
<1>6. Sink!SinkTypeOK'
  BY <1>1, <1>2, <1>3, <1>4, <1>5 DEF SinkInv, Sink!SinkTypeOK, Ordered, Sink!Report
<1>7. Sink!WireServesHead'
  <2>1. ASSUME request # 0 PROVE queue' # <<>> /\ Head(queue') = Head(rest)
    <3>1. rest \in Seq(Sink!Report) /\ rest # <<>> /\ queue' \in Seq(Sink!Report)
      BY <1>2, <1>4, <2>1 DEF Ordered
    <3>2. 1 \in 1..Len(rest) /\ queue' # <<>>
      BY <1>4, <1>5, <3>1
    <3>3. queue'[1] = rest[1]
      BY <1>4, <3>2
    <3> QED
      BY <3>1, <3>2, <3>3
  <2> QED
    BY <1>2, <1>3, <2>1 DEF Sink!WireServesHead
<1>8. Sink!InOrder'
  <2>1. \A i \in 1..Len(queue') : i \in 1..Len(rest) \/ i = Len(rest) + 1
    BY <1>4, <1>5
  <2>2. delivered <= accepted /\ delivered \in Nat
    BY DEF SinkInv, Sink!InOrder, Sink!SinkTypeOK, Sink!Report
  <2>3. ASSUME NEW i \in 1..Len(queue')
        PROVE  delivered < queue'[i] /\ queue'[i] <= new
    <3>1. CASE i \in 1..Len(rest)
      <4>1. queue'[i] = rest[i] /\ rest[i] \in Nat
        BY <1>2, <1>4, <3>1 DEF Ordered, Sink!Report
      <4> QED
        BY <1>1, <1>2, <3>1, <4>1
    <3>2. CASE i = Len(rest) + 1
      BY <1>1, <1>4, <2>2, <3>2
    <3> QED
      BY <2>1, <3>1, <3>2
  <2>4. \A i, j \in 1..Len(queue') : i < j => queue'[i] < queue'[j]
    BY <1>4 DEF Ordered
  <2> QED
    BY <1>1, <1>3, <2>2, <2>3, <2>4 DEF Sink!InOrder
<1> QED
  BY <1>6, <1>7, <1>8 DEF SinkInv

(***************************************************************************)
(* What every step that removes the head does.                             *)
(***************************************************************************)
LEMMA PopSinkInv ==
  ASSUME Sink!SinkAssumption, SinkInv, queue # <<>>, queue' = Tail(queue), request' = 0,
         accepted' = accepted, delivered' \in {delivered, Head(queue)}
  PROVE  SinkInv'
<1>1. Ordered(queue) /\ Len(queue) <= Capacity /\ Len(queue) \in Nat /\ Capacity \in Nat
  BY DEF Sink!SinkAssumption, SinkInv, Sink!SinkTypeOK, Sink!InOrder, Ordered
<1>2. /\ Ordered(queue')
      /\ Len(queue') = Len(queue) - 1
      /\ \A i \in 1..Len(queue') : queue'[i] = queue[i + 1] /\ Head(queue) < queue'[i]
      /\ Head(queue) = queue[1] /\ Head(queue) \in Sink!Report
  BY <1>1, TailOrdered
<1>3. Sink!SinkTypeOK'
  BY <1>1, <1>2 DEF SinkInv, Sink!SinkTypeOK, Ordered, Sink!Report
<1>4. Sink!WireServesHead'
  BY DEF Sink!WireServesHead
<1>5. Sink!InOrder'
  <2>1. 1 \in 1..Len(queue) /\ Head(queue) <= accepted
    BY <1>1, <1>2 DEF SinkInv, Sink!InOrder
  <2>2. \A i \in 1..Len(queue') : i + 1 \in 1..Len(queue)
    BY <1>1, <1>2
  <2>3. \A i \in 1..Len(queue') : delivered' < queue'[i] /\ queue'[i] <= accepted
    BY <1>2, <2>2 DEF SinkInv, Sink!InOrder
  <2>4. delivered' <= accepted
    BY <2>1 DEF SinkInv, Sink!InOrder
  <2> QED
    BY <1>2, <2>3, <2>4 DEF Sink!InOrder, Ordered
<1> QED
  BY <1>3, <1>4, <1>5 DEF SinkInv

LEMMA NextSinkInv ==
  ASSUME Sink!SinkAssumption, SinkInv, [Sink!SinkNext]_(Sink!sinkVars)
  PROVE  SinkInv'
<1>1. CASE Sink!Accept
  BY <1>1, AcceptSinkInv
<1>2. CASE Sink!Begin
  <2>1. Head(queue) \in Sink!Report
    BY <1>2 DEF Sink!Begin, SinkInv, Sink!SinkTypeOK
  <2> QED
    BY <1>2, <2>1
      DEF Sink!Begin, SinkInv, Sink!SinkTypeOK, Sink!WireServesHead, Sink!InOrder
<1>3. CASE Sink!Return
  BY <1>3 DEF Sink!Return, SinkInv, Sink!SinkTypeOK, Sink!WireServesHead, Sink!InOrder
<1>4. CASE Sink!Deliver
  BY <1>4, PopSinkInv DEF Sink!Deliver, SinkInv, Sink!WireServesHead
<1>5. CASE Sink!GiveUp
  BY <1>5, PopSinkInv DEF Sink!GiveUp
<1>6. CASE Sink!Clear
  BY <1>6
    DEF Sink!SinkAssumption, Sink!Clear, SinkInv, Sink!SinkTypeOK, Sink!WireServesHead,
        Sink!InOrder
<1>7. CASE UNCHANGED Sink!sinkVars
  BY <1>7 DEF Sink!sinkVars, SinkInv, Sink!SinkTypeOK, Sink!WireServesHead, Sink!InOrder
<1> QED
  BY <1>1, <1>2, <1>3, <1>4, <1>5, <1>6, <1>7 DEF Sink!SinkNext

THEOREM SinkInvariance ==
  ASSUME Sink!SinkAssumption
  PROVE  Sink!SinkSpec => []SinkInv
<1>1. Sink!SinkInit => SinkInv
  BY InitSinkInv
<1>2. SinkInv /\ [Sink!SinkNext]_(Sink!sinkVars) => SinkInv'
  BY NextSinkInv
<1> QED
  BY <1>1, <1>2, PTL DEF Sink!SinkSpec

-----------------------------------------------------------------------------

(***************************************************************************)
(* An outstanding request carries the head of the line.                    *)
(***************************************************************************)
THEOREM WireCarriesHead ==
  ASSUME Sink!SinkAssumption
  PROVE  Sink!SinkSpec => []Sink!WireServesHead
<1>1. SinkInv => Sink!WireServesHead
  BY DEF SinkInv
<1> QED
  BY <1>1, SinkInvariance, PTL

(***************************************************************************)
(* The line keeps the order of acceptance.                                 *)
(***************************************************************************)
THEOREM LineIsInOrder ==
  ASSUME Sink!SinkAssumption
  PROVE  Sink!SinkSpec => []Sink!InOrder
<1>1. SinkInv => Sink!InOrder
  BY DEF SinkInv
<1> QED
  BY <1>1, SinkInvariance, PTL

(***************************************************************************)
(* No report is delivered after a newer one, nor twice.                    *)
(***************************************************************************)
THEOREM DeliveryIsInOrder ==
  ASSUME Sink!SinkAssumption
  PROVE  Sink!SinkSpec => Sink!DeliveredOnceInOrder
<1> DEFINE Later == delivered' # delivered => delivered' > delivered
<1>1. SinkInv /\ [Sink!SinkNext]_(Sink!sinkVars) => [Later]_(Sink!sinkVars)
  <2> SUFFICES ASSUME SinkInv, Sink!SinkNext PROVE Later
    OBVIOUS
  <2>1. CASE Sink!Deliver
    <3>1. delivered' = Head(queue) /\ queue # <<>>
      BY <2>1 DEF Sink!Deliver, SinkInv, Sink!WireServesHead
    <3>2. Head(queue) = queue[1] /\ 1 \in 1..Len(queue)
      BY <3>1 DEF SinkInv, Sink!SinkTypeOK
    <3> QED
      BY <3>1, <3>2 DEF SinkInv, Sink!InOrder, Sink!SinkTypeOK, Sink!Report
  <2>2. CASE Sink!Accept \/ Sink!Begin \/ Sink!Return \/ Sink!GiveUp \/ Sink!Clear
    BY <2>2 DEF Sink!Accept, Sink!Begin, Sink!Return, Sink!GiveUp, Sink!Clear
  <2> QED
    BY <2>1, <2>2 DEF Sink!SinkNext
<1> QED
  BY <1>1, SinkInvariance, PTL DEF Sink!SinkSpec, Sink!DeliveredOnceInOrder

-----------------------------------------------------------------------------

(***************************************************************************)
(* What the website is told keeps the order of the reports, and no report  *)
(* is confirmed twice.                                                     *)
(***************************************************************************)
THEOREM WebsiteIsToldInOrder == Spec => []Sink!InOrder /\ Sink!DeliveredOnceInOrder
<1>1. Sink!SinkAssumption
  BY SiteAssumption DEF Sink!SinkAssumption
<1>2. Spec => Sink!SinkSpec
  BY ImplementsReportSink DEF SinkSpec
<1> QED
  BY <1>1, <1>2, LineIsInOrder, DeliveryIsInOrder

=============================================================================
