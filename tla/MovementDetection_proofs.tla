---------------------- MODULE MovementDetection_proofs ----------------------
(***************************************************************************)
(* Proofs about MovementDetection, for any settings, thresholds and        *)
(* bounds: its types, and what its run checks.                             *)
(***************************************************************************)
EXTENDS MovementDetection, SequenceTheorems, FiniteSetTheorems, TLAPS

\* A movement is under way only after the command of its tick was looked at.
GateInv == stage \notin {"idle", "tick"} => ~revised

-----------------------------------------------------------------------------
\* The movement and the gate.

GateTypeOK ==
  /\ MovementTypeOK
  /\ mask \in Masks /\ revised \in BOOLEAN /\ available \in BOOLEAN /\ alive \in BOOLEAN

LEMMA MovementNumbers == Grace \in Nat \ {0} /\ MaxMoves \in Nat \ {0}
BY MovementAssumption

LEMMA GateStep ==
  ASSUME GateTypeOK, GateInv, [Next]_vars
  PROVE  GateTypeOK' /\ GateInv'
<1> USE MovementNumbers, MasksAssumption DEF GateTypeOK, GateInv, MovementTypeOK
<1>1. CASE OnPhysicsSimulate
  <2>1. PhysicsSimulate /\ UNCHANGED gateVars
    BY <1>1 DEF OnPhysicsSimulate
  <2> QED
    <3>1. moves' \in 0..MaxMoves /\ sinceTeleport' \in 0..Grace
      BY <2>1 DEF PhysicsSimulate, JustTeleported
    <3> QED
      BY <2>1, <3>1 DEF PhysicsSimulate, gateVars, Stages
<1>2. CASE OnSetupMove
  BY <1>2 DEF OnSetupMove, SetupMove, Refreshed, Stages
<1>3. CASE OnPhysicsSimulatePost
  <2>1. PhysicsSimulatePost /\ revised' = FALSE /\ UNCHANGED <<mask, available, alive>>
    BY <1>3, Zenon DEF OnPhysicsSimulatePost
  <2> QED
    <3>1. moves' \in 0..MaxMoves
      BY <2>1 DEF PhysicsSimulatePost
    <3> QED
      BY <2>1, <3>1 DEF PhysicsSimulatePost, Stages
<1>4. CASE Movement
  <2> USE DEF otherVars, gateVars, Stages, MoveTypes
  <2>1. ASSUME NEW ground \in BOOLEAN, OnProcessMovement(ground)
        PROVE  GateTypeOK' /\ GateInv'
    <3>1. ProcessMovement(ground) /\ UNCHANGED otherVars
      BY <2>1, Zenon DEF OnProcessMovement
    <3>2. moves' \in 0..MaxMoves
      BY <3>1 DEF ProcessMovement
    <3> QED
      BY <3>1, <3>2 DEF ProcessMovement
  <2>2. ASSUME NEW ground \in BOOLEAN, OnCategorizePosition(ground)
        PROVE  GateTypeOK' /\ GateInv'
    BY <2>2 DEF OnCategorizePosition, CategorizePosition, Leaves
  <2>3. CASE OnGrabLadder
    BY <2>3 DEF OnGrabLadder, GrabLadder
  <2>4. ASSUME NEW hops \in BOOLEAN, OnLeaveLadder(hops)
        PROVE  GateTypeOK' /\ GateInv'
    BY <2>4 DEF OnLeaveLadder, LeaveLadder
  <2>5. CASE OnJump
    BY <2>5 DEF OnJump, Jumps
  <2>6. CASE OnAirMove
    BY <2>6 DEF OnAirMove, AirMove, Airborne
  <2>7. CASE OnWalkMove
    BY <2>7 DEF OnWalkMove, WalkMove
  <2>8. CASE OnOtherMove
    BY <2>8 DEF OnOtherMove, OtherMove
  <2>9. CASE OnProcessMovementPost
    BY <2>9 DEF OnProcessMovementPost, ProcessMovementPost, WalkedBefore
  <2> QED
    BY <1>4, <2>1, <2>2, <2>3, <2>4, <2>5, <2>6, <2>7, <2>8, <2>9 DEF Movement
<1>5. CASE Environment
  <2> USE DEF Elsewhere, otherVars, gateVars, movementVars, MoveTypes
  <2>1. CASE SettingsChanged
    BY <2>1 DEF SettingsChanged
  <2>2. CASE AvailabilityChanged
    BY <2>2 DEF AvailabilityChanged
  <2>3. CASE Die
    BY <2>3 DEF Die, ChangeMoveType
  <2>4. CASE Spawn
    BY <2>4 DEF Spawn, OnTeleport, Teleported
  <2>5. CASE Teleport
    BY <2>5 DEF Teleport, OnTeleport, Teleported
  <2>6. CASE MoveTypeSet
    <3>1. PICK type \in {"walk", "other"} \ {moveType} : ChangeMoveType(type)
      BY <2>6 DEF MoveTypeSet
    <3>2. UNCHANGED otherVars
      BY <2>6 DEF MoveTypeSet
    <3> QED
      BY <3>1, <3>2 DEF ChangeMoveType
  <2>7. CASE ActiveCheck
    BY <2>7 DEF ActiveCheck
  <2>8. CASE OnClientDisconnect
    <3>1. moves' \in 0..MaxMoves /\ sinceTeleport' \in 0..Grace
      BY <2>8 DEF OnClientDisconnect, MovementReset
    <3> QED
      BY <2>8, <3>1 DEF OnClientDisconnect, MovementReset, Stages
  <2> QED
    BY <1>5, <2>1, <2>2, <2>3, <2>4, <2>5, <2>6, <2>7, <2>8 DEF Environment
<1>6. CASE UNCHANGED vars
  BY <1>6 DEF vars, movementVars, otherVars, gateVars
<1> QED
  BY <1>1, <1>2, <1>3, <1>4, <1>5, <1>6 DEF Next

-----------------------------------------------------------------------------
\* The analysis of jumps.

\* A jump that may still count is whole, as is every one that was counted, and nothing is
\* kept while the analysis stands still.
AnalysisOK(a) ==
  /\ a \in Analysis /\ Len(a.statuses) <= JumpWindow
  /\ ~a.active => a.count = 0
  /\ a.jump.valid => a.jump.whole
  /\ \A i \in 1..Len(a.statuses) : a.statuses[i].whole

\* It is of what the analysis is spared after a callback of which only this is known.
Counted(a) == Flying(a) /\ a.jump.valid

LEMMA JumpNumbers ==
  /\ MaxJumps \in Nat \ {0} /\ JumpWindow \in Nat \ {0}
BY JumpAssumption

LEMMA NoAnalysisOK == AnalysisOK(NoAnalysis) /\ ~NoAnalysis.accused
<1>1. <<>> \in Seq([status : JumpStatus, whole : BOOLEAN]) /\ Len(<<>>) = 0
  OBVIOUS
<1>2. NoJump \in Jump /\ ~NoJump.valid
  BY DEF NoJump, Jump, JumpTypes
<1>3. 0 \in 0..MaxJumps /\ 0 <= JumpWindow /\ 1..0 = {}
  BY JumpNumbers
<1>4. /\ NoAnalysis.count = 0 /\ NoAnalysis.jump = NoJump
      /\ NoAnalysis.statuses = <<>> /\ ~NoAnalysis.accused
  BY DEF NoAnalysis
<1>5. NoAnalysis \in Analysis
  BY <1>1, <1>2, <1>3 DEF NoAnalysis, Analysis
<1> QED
  BY <1>1, <1>2, <1>3, <1>4, <1>5 DEF AnalysisOK

LEMMA QuietOK ==
  ASSUME NEW a, AnalysisOK(a)
  PROVE  /\ AnalysisOK(Quiet(a)) /\ ~Quiet(a).accused
         /\ Quiet(a).active = a.active /\ Quiet(a).jump = a.jump
BY DEF AnalysisOK, Quiet, Analysis

LEMMA ClearedOK ==
  ASSUME NEW a, AnalysisOK(a)
  PROVE  AnalysisOK(Cleared(a)) /\ Cleared(a).accused = a.accused
<1>0. a \in Analysis
  BY DEF AnalysisOK
<1>1. /\ Cleared(a).statuses = <<>> /\ Cleared(a).active = a.active
      /\ Cleared(a).count = a.count /\ Cleared(a).jump = a.jump
      /\ Cleared(a).accused = a.accused
  BY <1>0 DEF Cleared, Analysis
<1>a. Cleared(a) \in Analysis
  <2>1. <<>> \in Seq([status : JumpStatus, whole : BOOLEAN])
    OBVIOUS
  <2> QED
    BY <1>0, <2>1 DEF Cleared, Analysis
<1>2. Len(<<>>) <= JumpWindow /\ 1..Len(<<>>) = {}
  BY JumpNumbers
<1> QED
  BY <1>1, <1>a, <1>2 DEF AnalysisOK

LEMMA InvalidatedOK ==
  ASSUME NEW a, AnalysisOK(a)
  PROVE  /\ AnalysisOK(Invalidated(a)) /\ Invalidated(a).accused = a.accused
         /\ ~Counted(Invalidated(a))
         /\ Invalidated(a).active = a.active
BY DEF AnalysisOK, Invalidated, Flying, Analysis, Jump, Counted

LEMMA SpoiledOK ==
  ASSUME NEW a, AnalysisOK(a)
  PROVE  /\ AnalysisOK(Invalidated(Spoiled(a))) /\ ~Counted(Invalidated(Spoiled(a)))
         /\ Invalidated(Spoiled(a)).accused = a.accused
         /\ Invalidated(Spoiled(a)).active = a.active
         /\ ~Counted(a) => AnalysisOK(Spoiled(a)) /\ ~Counted(Spoiled(a))
         /\ Spoiled(a).accused = a.accused
<1> DEFINE b == [a EXCEPT !.jump.whole = FALSE]
<1>1. CASE ~Flying(a)
  <2>1. Spoiled(a) = a
    BY <1>1 DEF Spoiled
  <2> QED
    BY <1>1, <2>1, InvalidatedOK
<1>2. CASE Flying(a)
  <2>1. /\ Spoiled(a) = b /\ b \in Analysis /\ Flying(b)
        /\ b.statuses = a.statuses /\ b.active = a.active /\ b.count = a.count
        /\ b.accused = a.accused /\ b.jump.valid = a.jump.valid
    BY <1>2 DEF Spoiled, Flying, AnalysisOK, Analysis, Jump
  <2> HIDE DEF b
  <2>2. /\ Invalidated(b) = [b EXCEPT !.jump.valid = FALSE]
        /\ Invalidated(b) \in Analysis /\ ~Invalidated(b).jump.valid
        /\ Invalidated(b).statuses = b.statuses /\ Invalidated(b).active = b.active
        /\ Invalidated(b).count = b.count /\ Invalidated(b).accused = b.accused
    BY <2>1 DEF Invalidated, Analysis, Jump
  <2> QED
    BY <1>2, <2>1, <2>2 DEF AnalysisOK, Counted
<1> QED
  BY <1>1, <1>2

LEMMA AddedOK ==
  ASSUME NEW a, AnalysisOK(a), a.active, NEW type \in JumpTypes
  PROVE  AnalysisOK(Added(a, type)) /\ Added(a, type).accused = a.accused
<1>0. a \in Analysis
  BY DEF AnalysisOK
<1>1. a.count \in 0..MaxJumps
  BY <1>0 DEF Analysis
<1>2. (IF a.count < MaxJumps THEN a.count + 1 ELSE a.count) \in 0..MaxJumps
  BY <1>1, JumpNumbers
<1>3. [type |-> type, valid |-> TRUE, hitHead |-> FALSE, ended |-> FALSE, whole |-> TRUE]
        \in Jump
  BY DEF Jump
<1>4. /\ Added(a, type) \in Analysis
      /\ Added(a, type).statuses = a.statuses /\ Added(a, type).active = a.active
      /\ Added(a, type).jump.whole /\ Added(a, type).accused = a.accused
  BY <1>0, <1>2, <1>3 DEF Added, Analysis
<1> QED
  BY <1>4 DEF AnalysisOK

LEMMA AddJumpOK ==
  ASSUME NEW a, AnalysisOK(a), a.active,
         NEW jumped \in BOOLEAN, NEW fromLadder \in BOOLEAN, NEW justTeleported \in BOOLEAN,
         NEW b \in AddJump(a, jumped, fromLadder, justTeleported)
  PROVE  AnalysisOK(b) /\ b.accused = a.accused
<1> DEFINE types == DetermineJumpType(a, jumped, fromLadder, justTeleported)
<1>1. types \subseteq JumpTypes
  BY DEF DetermineJumpType, BhopTypes, JumpbugTypes, JumpTypes, Counting
<1> HIDE DEF types
<1>2. CASE b = a
  BY <1>2
<1>3. ASSUME NEW type \in types, NEW hop \in BOOLEAN,
             b = [Added(a, type) EXCEPT !.ladderHop = hop]
      PROVE  AnalysisOK(b) /\ b.accused = a.accused
  <2>1. AnalysisOK(Added(a, type)) /\ Added(a, type).accused = a.accused
    BY <1>1, AddedOK
  <2>2. Added(a, type) \in Analysis
    BY <2>1 DEF AnalysisOK
  <2>3. /\ b \in Analysis /\ b.statuses = Added(a, type).statuses
        /\ b.active = Added(a, type).active /\ b.count = Added(a, type).count
        /\ b.jump = Added(a, type).jump /\ b.accused = a.accused
    BY <1>3, <2>1, <2>2 DEF Analysis
  <2> QED
    BY <2>1, <2>3 DEF AnalysisOK
<1>4. CASE b # a
  <2>1. PICK type \in types :
          b = [Added(a, type) EXCEPT !.ladderHop = fromLadder /\ jumped /\ type = "special"]
    BY <1>4 DEF AddJump, types
  <2>2. (fromLadder /\ jumped /\ type = "special") \in BOOLEAN
    OBVIOUS
  <2> QED
    BY <1>3, <2>1, <2>2
<1> QED
  BY <1>2, <1>4

LEMMA JudgedOK ==
  ASSUME NEW a, AnalysisOK(a), IsValid(a.jump), NEW status \in JumpStatus
  PROVE  AnalysisOK(Judged(a, status)) /\ Judged(a, status).active = a.active
<1> DEFINE new == [status |-> status, whole |-> a.jump.whole]
           all == Append(a.statuses, new)
           S == [status : JumpStatus, whole : BOOLEAN]
<1>1. new \in S /\ new.whole
  BY DEF AnalysisOK, IsValid, Analysis, Jump
<1>2. a.statuses \in Seq(S)
  BY DEF AnalysisOK, Analysis
<1> HIDE DEF new, S
<1>3. /\ all \in Seq(S) /\ all # <<>> /\ Len(all) = Len(a.statuses) + 1
      /\ \A i \in 1..Len(all) : all[i].whole
  <2>1. /\ all \in Seq(S) /\ Len(all) = Len(a.statuses) + 1 /\ Len(a.statuses) \in Nat
        /\ \A i \in 1..Len(a.statuses) : all[i] = a.statuses[i]
        /\ all[Len(a.statuses) + 1] = new
    BY <1>1, <1>2
  <2> HIDE DEF all
  <2>2. \A i \in 1..Len(all) : i \in 1..Len(a.statuses) \/ i = Len(a.statuses) + 1
    BY <2>1
  <2>3. all # <<>>
    BY <2>1
  <2> QED
    BY <1>1, <2>1, <2>2, <2>3 DEF AnalysisOK
<1> HIDE DEF all
<1>4. /\ Recent(all) \in Seq(S) /\ Len(Recent(all)) <= JumpWindow
      /\ \A i \in 1..Len(Recent(all)) : Recent(all)[i].whole
  <2>1. Len(all) \in Nat /\ Len(all) <= JumpWindow + 1 /\ JumpWindow \in Nat
    BY <1>2, <1>3, JumpNumbers DEF AnalysisOK
  <2>2. CASE Len(all) > JumpWindow
    <3>1. Recent(all) = Tail(all)
      BY <2>2 DEF Recent
    <3>2. /\ Tail(all) \in Seq(S) /\ Len(Tail(all)) = Len(all) - 1
          /\ \A i \in 1..Len(Tail(all)) : Tail(all)[i] = all[i + 1]
      BY <1>3, HeadTailProperties
    <3>3. \A i \in 1..Len(Tail(all)) : i + 1 \in 1..Len(all)
      BY <2>1, <3>2
    <3>4. Len(Tail(all)) <= JumpWindow
      BY <2>1, <3>2
    <3> QED
      BY <1>3, <3>1, <3>2, <3>3, <3>4
  <2>3. CASE ~(Len(all) > JumpWindow)
    <3>1. Recent(all) = all
      BY <2>3 DEF Recent
    <3> QED
      BY <1>3, <2>1, <2>3, <3>1
  <2> QED
    BY <2>2, <2>3
<1>5. CASE Suspicious(Recent(all))
  <2>1. Judged(a, status) = [a EXCEPT !.statuses = <<>>, !.accused = TRUE]
    BY <1>5 DEF Judged, all, new
  <2>2. Len(<<>>) <= JumpWindow /\ 1..Len(<<>>) = {} /\ <<>> \in Seq(S)
    BY JumpNumbers
  <2>3. /\ Judged(a, status) \in Analysis /\ Judged(a, status).statuses = <<>>
        /\ Judged(a, status).active = a.active /\ Judged(a, status).count = a.count
        /\ Judged(a, status).jump = a.jump
    BY <2>1, <2>2 DEF AnalysisOK, Analysis, S
  <2> QED
    BY <2>2, <2>3 DEF AnalysisOK
<1>6. CASE ~Suspicious(Recent(all))
  <2>1. Judged(a, status) = [a EXCEPT !.statuses = Recent(all)]
    BY <1>6 DEF Judged, all, new
  <2>2. /\ Judged(a, status) \in Analysis /\ Judged(a, status).statuses = Recent(all)
        /\ Judged(a, status).active = a.active /\ Judged(a, status).count = a.count
        /\ Judged(a, status).jump = a.jump
    BY <1>4, <2>1 DEF AnalysisOK, Analysis, S
  <2> QED
    BY <1>4, <2>2 DEF AnalysisOK
<1> QED
  BY <1>5, <1>6

(***************************************************************************)
(* Only a jump that counted up to its end accuses, and only while the      *)
(* detection is available.                                                 *)
(***************************************************************************)
LEMMA EndJumpOK ==
  ASSUME NEW a, AnalysisOK(a), NEW analysing \in BOOLEAN, NEW b \in EndJump(a, analysing)
  PROVE  /\ AnalysisOK(b) /\ b.active = a.active
         /\ b.accused => a.accused \/ (analysing /\ Counted(a))
<1>1. CASE ~Flying(a)
  <2>1. b = a
    BY <1>1 DEF EndJump
  <2> QED
    BY <2>1
<1>2. ASSUME NEW jump \in Ended(a.jump), Flying(a),
             b \in OnJumpFinish([a EXCEPT !.jump = jump], analysing)
                   \union {[a EXCEPT !.jump = jump]}
      PROVE  /\ AnalysisOK(b) /\ b.active = a.active
             /\ b.accused => a.accused \/ (analysing /\ Counted(a))
  <2> DEFINE c == [a EXCEPT !.jump = jump]
  <2>0. a \in Analysis /\ a.jump \in Jump
    BY DEF AnalysisOK, Analysis
  <2>1. jump \in Jump /\ (jump.valid => a.jump.valid) /\ jump.whole = a.jump.whole
    <3>1. PICK v \in {a.jump.valid, FALSE}, t \in {a.jump.type, "invalid"} :
            jump = [a.jump EXCEPT !.ended = TRUE, !.valid = v, !.type = t]
      BY DEF Ended
    <3>2. v \in BOOLEAN /\ t \in JumpTypes /\ (v => a.jump.valid)
      BY <2>0 DEF Jump, JumpTypes
    <3> QED
      BY <2>0, <3>1, <3>2 DEF Jump
  <2>2. /\ c \in Analysis /\ c.jump = jump /\ c.active = a.active /\ c.count = a.count
        /\ c.statuses = a.statuses /\ c.accused = a.accused
    BY <2>0, <2>1 DEF Analysis
  <2> HIDE DEF c
  <2>3. AnalysisOK(c)
    BY <2>1, <2>2 DEF AnalysisOK
  <2>4. CASE b = c
    BY <2>2, <2>3, <2>4
  <2>5. CASE b \in OnJumpFinish(c, analysing) /\ ~analysing
    <3>1. b = Cleared(c)
      BY <2>5 DEF OnJumpFinish, Cleared
    <3>2. b.active = c.active
      BY <2>2, <3>1 DEF Cleared, Analysis
    <3> QED
      BY <2>2, <2>3, <3>1, <3>2, ClearedOK
  <2>6. CASE b \in OnJumpFinish(c, analysing) /\ analysing /\ b # c
    <3>1. IsValid(c.jump) /\ \E s \in JumpStatus : b = Judged(c, s)
      BY <2>6 DEF OnJumpFinish
    <3>2. AnalysisOK(b) /\ b.active = c.active
      BY <2>3, <3>1, JudgedOK
    <3>3. Counted(a)
      BY <1>2, <2>1, <2>2, <3>1 DEF IsValid, Counted
    <3> QED
      BY <2>2, <2>6, <3>2, <3>3
  <2> QED
    BY <1>2, <2>4, <2>5, <2>6 DEF c
<1>3. CASE Flying(a)
  <2>1. PICK jump \in Ended(a.jump) :
          b \in OnJumpFinish([a EXCEPT !.jump = jump], analysing)
                \union {[a EXCEPT !.jump = jump]}
    BY <1>3 DEF EndJump
  <2> QED
    BY <1>2, <1>3, <2>1
<1> QED
  BY <1>1, <1>3

-----------------------------------------------------------------------------
\* What the callbacks do to it.

LEMMA StartTouchGroundOK ==
  ASSUME NEW a, AnalysisOK(a), NEW analysing \in BOOLEAN,
         NEW b \in StartTouchGround(a, analysing)
  PROVE  AnalysisOK(b) /\ (b.accused => a.accused \/ analysing)
BY EndJumpOK DEF StartTouchGround

LEMMA StopTouchGroundOK ==
  ASSUME NEW a, AnalysisOK(a),
         NEW jumped \in BOOLEAN, NEW fromLadder \in BOOLEAN, NEW justTeleported \in BOOLEAN,
         NEW b \in StopTouchGround(a, jumped, fromLadder, justTeleported)
  PROVE  AnalysisOK(b) /\ b.accused = a.accused
BY AddJumpOK DEF StopTouchGround

LEMMA ChangeMoveTypeOK ==
  ASSUME NEW a, AnalysisOK(a), NEW old, NEW new, NEW jumped \in BOOLEAN,
         NEW fromLadder \in BOOLEAN, NEW justTeleported \in BOOLEAN, NEW analysing \in BOOLEAN,
         NEW b \in ChangeMoveTypeFrom(a, old, new, jumped, fromLadder, justTeleported, analysing)
  PROVE  AnalysisOK(b) /\ (b.accused => a.accused)
<1>1. CASE b \in AddJump(a, jumped, fromLadder, justTeleported) /\ a.active
  BY <1>1, AddJumpOK
<1>2. CASE b \in EndJump(Invalidated(a), analysing)
  BY <1>2, InvalidatedOK, EndJumpOK
<1>3. CASE b = a
  BY <1>3
<1> QED
  BY <1>1, <1>2, <1>3 DEF ChangeMoveTypeFrom

LEMMA HandleTeleportOK ==
  ASSUME NEW a, AnalysisOK(a), NEW analysing \in BOOLEAN,
         NEW b \in HandleTeleport(a, analysing)
  PROVE  AnalysisOK(b) /\ (b.accused => a.accused)
<1>1. CASE a.active
  <2>1. b \in EndJump(Invalidated(Spoiled(a)), analysing)
    BY <1>1 DEF HandleTeleport
  <2> QED
    BY <2>1, SpoiledOK, EndJumpOK
<1>2. CASE ~a.active
  <2>1. b = Spoiled(a) /\ ~Counted(a)
    BY <1>2 DEF HandleTeleport, Counted, Flying, AnalysisOK
  <2> QED
    BY <2>1, SpoiledOK
<1> QED
  BY <1>1, <1>2

LEMMA AnalyzeMovementOK ==
  ASSUME NEW a, AnalysisOK(a), NEW analysing \in BOOLEAN, NEW type,
         NEW b \in AnalyzeMovement(a, analysing, type)
  PROVE  AnalysisOK(b) /\ b.accused = a.accused /\ (type = "other" => ~Counted(b))
<1> DEFINE c == [a EXCEPT !.active = analysing]
<1>0. a \in Analysis
  BY DEF AnalysisOK
<1>1. /\ c \in Analysis /\ c.active = analysing /\ c.count = a.count /\ c.jump = a.jump
      /\ c.statuses = a.statuses /\ c.accused = a.accused
  BY <1>0 DEF Analysis
<1> HIDE DEF c
<1>2. CASE ~analysing
  <2>1. b = Reset(c)
    BY <1>2 DEF AnalyzeMovement, Standstill, c
  <2>2. NoJump \in Jump /\ ~NoJump.valid
    BY DEF NoJump, Jump, JumpTypes
  <2>3. 0 \in 0..MaxJumps
    BY JumpNumbers
  <2>4. /\ b \in Analysis /\ b.jump = NoJump /\ b.count = 0 /\ b.statuses = c.statuses
        /\ b.accused = c.accused
    BY <1>1, <2>1, <2>2, <2>3 DEF Reset, Analysis
  <2> QED
    BY <1>1, <2>2, <2>4 DEF AnalysisOK, Counted
<1>3. CASE analysing /\ c.count = 0
  <2>1. b = Invalidated(Spoiled(Added(c, "invalid")))
    BY <1>3 DEF AnalyzeMovement, FirstJump, c
  <2>2. AnalysisOK(c)
    BY <1>1, <1>3 DEF AnalysisOK
  <2>3. AnalysisOK(Added(c, "invalid")) /\ Added(c, "invalid").accused = c.accused
    BY <1>1, <1>3, <2>2, AddedOK DEF JumpTypes
  <2> QED
    BY <1>1, <2>1, <2>3, SpoiledOK
<1>4. CASE analysing /\ c.count # 0
  <2>1. AnalysisOK(c)
    BY <1>0, <1>1, <1>4 DEF AnalysisOK
  <2>2. b = Invalidated(c) \/ (b = c /\ type # "other")
    BY <1>4 DEF AnalyzeMovement, c
  <2> QED
    BY <1>1, <2>1, <2>2, InvalidatedOK
<1> QED
  BY <1>2, <1>3, <1>4

LEMMA AnalyzeMovementPostOK ==
  ASSUME NEW a, AnalysisOK(a), NEW type, NEW b \in AnalyzeMovementPost(a, type)
  PROVE  AnalysisOK(b) /\ b.accused = a.accused
<1>1. CASE b = a
  BY <1>1
<1>2. ASSUME NEW c \in UpdateJump(a), NEW flown \in BOOLEAN,
             b = MovementOver(c, flown)
      PROVE  AnalysisOK(b) /\ b.accused = a.accused
  <2> DEFINE h == [a EXCEPT !.jump.hitHead = TRUE]
  <2>0. a \in Analysis
    BY DEF AnalysisOK
  <2>1. /\ h \in Analysis /\ h.jump.valid = a.jump.valid /\ h.jump.whole = a.jump.whole
        /\ h.active = a.active /\ h.count = a.count /\ h.statuses = a.statuses
        /\ h.accused = a.accused
    BY <2>0 DEF Analysis, Jump
  <2> HIDE DEF h
  <2>2. AnalysisOK(h)
    BY <2>1 DEF AnalysisOK
  <2>3. c \in {a, h, Invalidated(a), Invalidated(h)}
    BY DEF UpdateJump, h
  <2>4. AnalysisOK(c) /\ c.accused = a.accused
    BY <2>1, <2>2, <2>3, InvalidatedOK
  <2>5. c \in Analysis
    BY <2>4 DEF AnalysisOK
  <2>6. /\ b \in Analysis /\ b.jump = c.jump /\ b.active = c.active /\ b.count = c.count
        /\ b.statuses = c.statuses /\ b.accused = c.accused
    BY <1>2, <2>5 DEF MovementOver, Analysis
  <2> QED
    BY <2>4, <2>6 DEF AnalysisOK
<1>3. CASE b # a
  <2>1. FlownAfter(a, type) \subseteq BOOLEAN
    BY DEF FlownAfter, AnalysisOK, Analysis
  <2>2. PICK c \in UpdateJump(a) :
          b \in {MovementOver(c, flown) : flown \in FlownAfter(a, type)}
    BY <1>3 DEF AnalyzeMovementPost
  <2> QED
    BY <1>2, <2>1, <2>2
<1> QED
  BY <1>1, <1>3

\* Nothing that is moved by others is still counted when a movement begins.
AnalysisInv ==
  /\ AnalysisOK(analysis)
  /\ stage = "begun" /\ moveType = "other" => ~Counted(analysis)

\* Who is accused is accused of what is looked for.
AccusedNow == analysis'.accused => ~revised /\ Analysing

LEMMA AnalysisStep ==
  ASSUME GateTypeOK, GateInv, AnalysisInv, Next
  PROVE  AnalysisInv' /\ AccusedNow
<1> USE DEF AccusedNow
<1>1. AnalysisOK(Before) /\ ~Before.accused
  BY QuietOK DEF Before, AnalysisInv
<1>2. /\ Analysing \in BOOLEAN /\ JustTeleported \in BOOLEAN /\ JustTeleported' \in BOOLEAN
      /\ takeoffFromLadder \in BOOLEAN /\ possibleLadderHop \in BOOLEAN
  BY DEF Analysing, JustTeleported, GateTypeOK, MovementTypeOK
<1>3. ASSUME analysis' \in {Before, Cleared(Before)}
      PROVE  AnalysisOK(analysis') /\ AccusedNow
  BY <1>1, <1>3, ClearedOK
<1>4. ASSUME AnalysisOK(analysis') /\ AccusedNow, stage' # "begun" \/ moveType' # "other"
      PROVE  AnalysisInv' /\ AccusedNow
  BY <1>4 DEF AnalysisInv
<1>5. CASE OnPhysicsSimulate
  <2>1. stage' = "tick"
    BY <1>5 DEF OnPhysicsSimulate, PhysicsSimulate
  <2>2. \/ analysis' = Before
        \/ \E jumped \in BOOLEAN :
             analysis' \in ChangeMoveTypeFrom(Before, lastKnownMoveType, moveType, jumped,
                                              takeoffFromLadder, JustTeleported', Analysing)
    BY <1>5, Zenon DEF OnPhysicsSimulate
  <2>3. AnalysisOK(analysis') /\ AccusedNow
    BY <1>1, <1>2, <1>3, <2>2, ChangeMoveTypeOK
  <2> QED
    BY <1>4, <2>1, <2>3
<1>6. CASE OnSetupMove
  <2>1. stage' = "ready" /\ analysis' \in {Before, Cleared(Before)}
    BY <1>6 DEF OnSetupMove, SetupMove
  <2> QED
    BY <1>3, <1>4, <2>1
<1>7. CASE OnPhysicsSimulatePost
  <2>1. PhysicsSimulatePost /\ analysis' \in {Before, Cleared(Before)}
    BY <1>7, Zenon DEF OnPhysicsSimulatePost
  <2>2. stage' = "idle"
    BY <2>1 DEF PhysicsSimulatePost
  <2> QED
    BY <1>3, <1>4, <2>1, <2>2
<1>8. ASSUME NEW ground \in BOOLEAN, OnProcessMovement(ground)
      PROVE  AnalysisInv' /\ AccusedNow
  <2>1. /\ ProcessMovement(ground)
        /\ analysis' \in UNION {AnalyzeMovement(a, Analysing, moveType) :
             a \in IF Touches(ground) THEN StartTouchGround(Before, Analysing)
                   ELSE IF Leaves(ground)
                   THEN StopTouchGround(Before, FALSE, FALSE, JustTeleported)
                   ELSE {Before}}
    BY <1>8, Zenon DEF OnProcessMovement
  <2>2. PICK a : /\ a \in IF Touches(ground) THEN StartTouchGround(Before, Analysing)
                          ELSE IF Leaves(ground)
                          THEN StopTouchGround(Before, FALSE, FALSE, JustTeleported)
                          ELSE {Before}
                 /\ analysis' \in AnalyzeMovement(a, Analysing, moveType)
    BY <2>1, Zenon
  <2>3. /\ AnalysisOK(a)
        /\ a.accused => Analysing
    BY <1>1, <1>2, <2>2, StartTouchGroundOK, StopTouchGroundOK
  <2>4. /\ AnalysisOK(analysis') /\ analysis'.accused = a.accused
        /\ moveType = "other" => ~Counted(analysis')
    BY <1>2, <2>2, <2>3, AnalyzeMovementOK
  <2>5. stage = "ready" /\ moveType' = moveType
    BY <2>1 DEF ProcessMovement
  <2> QED
    BY <2>3, <2>4, <2>5 DEF AnalysisInv, GateInv
<1>9. ASSUME NEW ground \in BOOLEAN, OnCategorizePosition(ground)
      PROVE  AnalysisInv' /\ AccusedNow
  <2>1. CategorizePosition(ground)
    BY <1>9 DEF OnCategorizePosition
  <2>2. \/ analysis' = Before
        \/ analysis' \in StartTouchGround(Before, Analysing)
        \/ analysis' \in StopTouchGround(Before, FALSE, FALSE, JustTeleported)
    BY <1>9, Zenon DEF OnCategorizePosition
  <2>3. AnalysisOK(analysis') /\ (analysis'.accused => Analysing)
    BY <1>1, <1>2, <2>2, StartTouchGroundOK, StopTouchGroundOK
  <2>4. stage = "moved" /\ stage' = "settled"
    BY <2>1 DEF CategorizePosition
  <2> QED
    BY <1>4, <2>3, <2>4 DEF GateInv
<1>10. CASE OnGrabLadder
  <2>1. GrabLadder
    BY <1>10 DEF OnGrabLadder
  <2>2. \/ analysis' = Before
        \/ analysis' \in ChangeMoveTypeFrom(Before, "walk", "ladder", FALSE, FALSE,
                                            JustTeleported, Analysing)
    BY <1>10, Zenon DEF OnGrabLadder
  <2>3. AnalysisOK(analysis') /\ AccusedNow
    BY <1>1, <1>2, <2>2, ChangeMoveTypeOK
  <2>4. stage' = "moved"
    BY <2>1 DEF GrabLadder
  <2> QED
    BY <1>4, <2>3, <2>4
<1>11. ASSUME NEW hops \in BOOLEAN, OnLeaveLadder(hops)
       PROVE  AnalysisInv' /\ AccusedNow
  <2>1. LeaveLadder(hops)
    BY <1>11 DEF OnLeaveLadder
  <2>2. \E jumped \in {FALSE, hops} :
          analysis' \in ChangeMoveTypeFrom(Before, "ladder", "walk", jumped, TRUE,
                                           JustTeleported, Analysing)
    BY <1>11, Zenon DEF OnLeaveLadder
  <2>3. AnalysisOK(analysis') /\ AccusedNow
    BY <1>1, <1>2, <2>2, ChangeMoveTypeOK
  <2>4. moveType' = "walk"
    BY <2>1 DEF LeaveLadder
  <2> QED
    BY <1>4, <2>3, <2>4
<1>12. CASE OnJump
  <2>1. Jumps /\ analysis' \in StopTouchGround(Before, TRUE, possibleLadderHop, JustTeleported)
    BY <1>12 DEF OnJump
  <2>2. AnalysisOK(analysis') /\ AccusedNow
    BY <1>1, <1>2, <2>1, StopTouchGroundOK
  <2>3. stage' = "jumped"
    BY <2>1 DEF Jumps
  <2> QED
    BY <1>4, <2>2, <2>3
<1>13. CASE OnAirMove \/ OnWalkMove
  <2>1. analysis' = Before /\ stage' = "moved"
    BY <1>13 DEF OnAirMove, AirMove, OnWalkMove, WalkMove
  <2> QED
    BY <1>3, <1>4, <2>1
<1>14. CASE OnOtherMove
  <2>1. /\ stage = "begun" /\ stage' = "moved"
        /\ analysis' = IF moveType = "other" THEN Spoiled(Before) ELSE Before
    BY <1>14 DEF OnOtherMove, OtherMove
  <2>2. moveType = "other" => ~Counted(Before)
    BY <2>1 DEF AnalysisInv, Counted, Before, Quiet, Flying, AnalysisOK, Analysis
  <2>3. AnalysisOK(analysis') /\ ~analysis'.accused
    BY <1>1, <2>1, <2>2, SpoiledOK
  <2> QED
    BY <1>4, <2>1, <2>3
<1>15. CASE OnProcessMovementPost
  <2>1. ProcessMovementPost /\ analysis' \in AnalyzeMovementPost(Before, moveType)
    BY <1>15 DEF OnProcessMovementPost
  <2>2. AnalysisOK(analysis') /\ AccusedNow
    BY <1>1, <2>1, AnalyzeMovementPostOK
  <2>3. stage' = "ready"
    BY <2>1 DEF ProcessMovementPost
  <2> QED
    BY <1>4, <2>2, <2>3
<1>16. CASE SettingsChanged \/ AvailabilityChanged \/ Die \/ MoveTypeSet \/ ActiveCheck
  <2>1. Elsewhere /\ stage' = stage
    BY <1>16, Zenon DEF SettingsChanged, AvailabilityChanged, Die, MoveTypeSet, ActiveCheck,
                        movementVars, ChangeMoveType
  <2> QED
    BY <1>3, <1>4, <2>1 DEF Elsewhere
<1>17. CASE Spawn \/ Teleport
  <2>1. /\ \E type : Teleported(type)
        /\ analysis' \in HandleTeleport(Before, Analysing)
        /\ stage \in {"idle", "ready"}
    BY <1>17 DEF Spawn, Teleport, OnTeleport
  <2>2. AnalysisOK(analysis') /\ AccusedNow
    BY <1>1, <1>2, <2>1, HandleTeleportOK
  <2>3. stage' = stage
    BY <2>1 DEF Teleported
  <2> QED
    BY <1>4, <2>1, <2>2, <2>3
<1>18. CASE OnClientDisconnect
  <2>1. stage' = "idle" /\ analysis' = NoAnalysis
    BY <1>18 DEF OnClientDisconnect, MovementReset
  <2>2. AnalysisOK(NoAnalysis) /\ ~NoAnalysis.accused
    BY NoAnalysisOK
  <2> QED
    BY <1>4, <2>1, <2>2
<1> QED
  BY <1>5, <1>6, <1>7, <1>8, <1>9, <1>10, <1>11, <1>12, <1>13, <1>14, <1>15, <1>16, <1>17,
     <1>18, Zenon DEF Next, Movement, Environment

-----------------------------------------------------------------------------
\* Sequences.

LEMMA FunctionIsSeq ==
  ASSUME NEW S, NEW n \in Nat, NEW f \in [1..n -> S]
  PROVE  f \in Seq(S) /\ Len(f) = n /\ DOMAIN f = 1..n
OBVIOUS

\* The end of a sequence.
LEMMA EndOfSeq ==
  ASSUME NEW S, NEW s \in Seq(S), NEW k \in 0..Len(s)
  PROVE  /\ SubSeq(s, k + 1, Len(s)) \in Seq(S)
         /\ Len(SubSeq(s, k + 1, Len(s))) = Len(s) - k
<1>1. Len(s) \in Nat /\ k \in Int /\ k + 1 \in Int
  OBVIOUS
<1>2. \A i \in (k + 1)..Len(s) : s[i] \in S
  BY <1>1
<1>3. /\ SubSeq(s, k + 1, Len(s)) \in Seq(S)
      /\ Len(SubSeq(s, k + 1, Len(s))) = IF k + 1 <= Len(s) THEN Len(s) - (k + 1) + 1 ELSE 0
  BY <1>1, <1>2, SubSeqProperties
<1> QED
  BY <1>1, <1>3

-----------------------------------------------------------------------------
\* The landings.

LEMMA BhopNumbers ==
  /\ MinAirTime \in Nat \ {0} /\ PatternWindow \in Nat \ {0} /\ MinSamples \in Nat \ {0}
  /\ WindowSize \in Nat \ {0} /\ MaxPresses \in Nat \ {0}
BY BhopAssumption

BhopOK == BhopTypeOK /\ (pending => landings # <<>>)

\* No press can follow any more, where enough landings are there to be judged.
AllKnown(ls) == Len(ls) < MinSamples \/ \A i \in 1..Len(ls) : ls[i].age >= PatternWindow

\* What is not to be judged was judged, and for good.
LandingsJudged == ~bhopDirty => ~Infraction(landings, mask) /\ AllKnown(landings)

\* No landing of before becomes a perfect bhop.
NoneRaised ==
  \A i \in 1..Len(landings) :
    ~(/\ Len(landings') = Len(landings)
      /\ landings'[i].perfect /\ ~landings[i].perfect)

\* What every step but a jump keeps.
BhopKept == BhopOK' /\ (mask' = mask /\ LandingsJudged => LandingsJudged') /\ NoneRaised

LEMMA NoLandings ==
  ~Infraction(<<>>, mask) /\ ~Infraction(<<>>, mask') /\ AllKnown(<<>>)
BY BhopNumbers DEF Infraction, AllKnown

LEMMA UnchangedBhop ==
  ASSUME BhopOK, UNCHANGED bhopVars
  PROVE  BhopKept
BY DEF BhopKept, BhopOK, BhopTypeOK, LandingsJudged, NoneRaised, bhopVars

\* Whatever clears the buffers.
LEMMA Emptied ==
  ASSUME landings' = <<>>
  PROVE  NoneRaised /\ LandingsJudged'
<1>1. Len(<<>>) = 0 /\ 1..0 = {}
  OBVIOUS
<1>2. NoneRaised
  BY <1>1 DEF NoneRaised
<1>3. LandingsJudged'
  BY NoLandings DEF LandingsJudged
<1> QED
  BY <1>2, <1>3

LEMMA CountToRange ==
  ASSUME NEW limit \in Nat, NEW n \in 0..limit
  PROVE  CountTo(limit, n) \in 0..limit /\ CountTo(limit, n) >= n
BY DEF CountTo

LEMMA BhopClearKept ==
  ASSUME BhopClear
  PROVE  BhopOK' /\ LandingsJudged' /\ NoneRaised
<1>1. /\ <<>> \in Seq(0..(PatternWindow + 1)) /\ <<>> \in Seq(LandingEvent)
      /\ Len(<<>>) <= MaxPresses
  BY BhopNumbers
<1>2. 0 \in 0..MinAirTime /\ Grace \in 0..Grace
  BY BhopNumbers, MovementNumbers
<1> QED
  BY <1>1, <1>2, Emptied DEF BhopClear, BhopOK, BhopTypeOK

LEMMA BhopTickKept ==
  ASSUME BhopOK, NEW changed \in BOOLEAN, BhopTick(changed)
  PROVE  BhopKept
<1> DEFINE older(n) == CountTo(PatternWindow + 1, n)
           new == [i \in 1..Len(landings) |-> [landings[i] EXCEPT !.age = older(@)]]
<1>1. /\ landings \in Seq(LandingEvent) /\ Len(landings) \in Nat
      /\ recentJumps \in Seq(0..(PatternWindow + 1)) /\ Len(recentJumps) \in Nat
      /\ PatternWindow + 1 \in Nat
  BY BhopNumbers DEF BhopOK, BhopTypeOK
<1>2. \A n \in 0..(PatternWindow + 1) : older(n) \in 0..(PatternWindow + 1) /\ older(n) >= n
  BY <1>1, CountToRange
<1>3. \A i \in 1..Len(recentJumps) : recentJumps[i] \in 0..(PatternWindow + 1)
  BY <1>1
<1>4. /\ recentJumps' \in Seq(0..(PatternWindow + 1))
      /\ Len(recentJumps') = Len(recentJumps)
  <2>1. recentJumps' = [i \in 1..Len(recentJumps) |-> older(recentJumps[i])]
    BY DEF BhopTick
  <2>2. recentJumps' \in [1..Len(recentJumps) -> 0..(PatternWindow + 1)]
    BY <1>2, <1>3, <2>1
  <2> QED
    BY <1>1, <2>2, FunctionIsSeq
<1>5. \A i \in 1..Len(landings) : landings[i] \in LandingEvent
  BY <1>1
<1>6. /\ landings' \in Seq(LandingEvent) /\ Len(landings') = Len(landings)
      /\ \A i \in 1..Len(landings) :
           /\ landings'[i].age >= landings[i].age /\ landings'[i].perfect = landings[i].perfect
           /\ landings'[i].eligible = landings[i].eligible
           /\ landings'[i].presses = landings[i].presses
           /\ landings'[i].age = older(landings[i].age)
  <2>1. landings' = new
    BY DEF BhopTick
  <2>2. \A i \in 1..Len(landings) : new[i] = [landings[i] EXCEPT !.age = older(@)]
    OBVIOUS
  <2>3. ASSUME NEW i \in 1..Len(landings)
        PROVE  /\ new[i] \in LandingEvent
               /\ new[i].age = older(landings[i].age) /\ new[i].age >= landings[i].age
               /\ new[i].perfect = landings[i].perfect
               /\ new[i].eligible = landings[i].eligible
               /\ new[i].presses = landings[i].presses
    <3>1. landings[i].age \in 0..(PatternWindow + 1)
      BY <1>5 DEF LandingEvent
    <3>2. older(landings[i].age) \in 0..(PatternWindow + 1)
          /\ older(landings[i].age) >= landings[i].age
      BY <1>2, <3>1
    <3> HIDE DEF older
    <3> QED
      BY <1>5, <2>2, <3>2 DEF LandingEvent
  <2>4. new \in [1..Len(landings) -> LandingEvent]
    BY <2>3
  <2> HIDE DEF new
  <2>5. new \in Seq(LandingEvent) /\ Len(new) = Len(landings)
    BY <1>1, <2>4, FunctionIsSeq
  <2> QED
    BY <2>1, <2>3, <2>5
<1>7. sinceMoveType' \in 0..Grace
  <2>1. Grace \in Nat /\ sinceMoveType \in 0..Grace
    BY MovementNumbers DEF BhopOK, BhopTypeOK
  <2> QED
    BY <2>1, CountToRange DEF BhopTick
<1>8. BhopOK'
  <2>1. pending' => landings' # <<>>
    <3>1. (landings = <<>>) <=> Len(landings) = 0
      BY <1>1
    <3>2. (landings' = <<>>) <=> Len(landings') = 0
      BY <1>6
    <3> QED
      BY <1>6, <3>1, <3>2 DEF BhopOK, BhopTick
  <2>2. /\ airTime' \in 0..MinAirTime
        /\ airMoved' \in BOOLEAN /\ strayed' \in BOOLEAN
        /\ pending' \in BOOLEAN /\ bhopDirty' \in BOOLEAN
    BY DEF BhopOK, BhopTypeOK, BhopTick
  <2>3. Len(recentJumps') <= MaxPresses
    BY <1>4 DEF BhopOK, BhopTypeOK
  <2> QED
    BY <1>4, <1>6, <1>7, <2>1, <2>2, <2>3 DEF BhopOK, BhopTypeOK
<1>9. ASSUME mask' = mask, LandingsJudged, ~bhopDirty'
      PROVE  ~Infraction(landings', mask') /\ AllKnown(landings')
  <2>1. ~Infraction(landings, mask) /\ AllKnown(landings)
    BY <1>9 DEF LandingsJudged, BhopTick
  <2>2. CASE Len(landings) < MinSamples
    BY <1>1, <1>6, <2>2, BhopNumbers DEF Infraction, AllKnown
  <2>3. CASE \A i \in 1..Len(landings) : landings[i].age >= PatternWindow
    <3>1. \A i \in 1..Len(landings) :
            landings[i].age \in Nat /\ landings'[i].age \in Nat
      <4>1. \A i \in 1..Len(landings) : landings'[i] \in LandingEvent
        BY <1>6
      <4>2. \A e \in LandingEvent : e.age \in Nat
        BY BhopNumbers DEF LandingEvent
      <4> QED
        BY <1>5, <4>1, <4>2
    <3>2. \A i \in 1..Len(landings) : landings'[i].age >= PatternWindow
      BY <1>6, <2>3, <3>1, BhopNumbers
    <3>3. Marks(landings') = Marks(landings)
      BY <1>6 DEF Marks
    <3>4. Presses(landings') = Presses(landings)
      BY <1>6 DEF Presses
    <3>5. Complete(landings') = Complete(landings)
      BY <1>6, <2>3, <3>2 DEF Complete
    <3> QED
      BY <1>6, <1>9, <2>1, <3>2, <3>3, <3>4, <3>5 DEF Infraction, AllKnown
  <2> QED
    BY <2>1, <2>2, <2>3 DEF AllKnown
<1>10. NoneRaised
  BY <1>6 DEF NoneRaised
<1> QED
  BY <1>8, <1>9, <1>10 DEF BhopKept, LandingsJudged

LEMMA PurgedOK ==
  ASSUME NEW jumps \in Seq(0..(PatternWindow + 1))
  PROVE  Purged(jumps) \in Seq(0..(PatternWindow + 1)) /\ Len(Purged(jumps)) <= Len(jumps)
<1> DEFINE stale == {i \in 1..Len(jumps) : jumps[i] > PatternWindow}
<1>1. Len(jumps) \in Nat
  OBVIOUS
<1>2. IsFiniteSet(1..Len(jumps)) /\ Cardinality(1..Len(jumps)) = Len(jumps)
  BY <1>1, FS_Interval
<1>3. stale \in SUBSET (1..Len(jumps))
  OBVIOUS
<1> HIDE DEF stale
<1>4. IsFiniteSet(stale) /\ Cardinality(stale) <= Len(jumps)
  BY <1>2, <1>3, FS_Subset
<1>5. Cardinality(stale) \in 0..Len(jumps)
  BY <1>1, <1>4, FS_CardinalityType
<1>6. Purged(jumps) = SubSeq(jumps, Cardinality(stale) + 1, Len(jumps))
  BY DEF Purged, stale
<1>7. /\ Purged(jumps) \in Seq(0..(PatternWindow + 1))
      /\ Len(Purged(jumps)) = Len(jumps) - Cardinality(stale)
  BY <1>5, <1>6, EndOfSeq
<1> QED
  BY <1>1, <1>5, <1>7

LEMMA BhopPressKept ==
  ASSUME BhopOK, BhopPress
  PROVE  BhopKept
<1>1. /\ landings \in Seq(LandingEvent) /\ Len(landings) \in Nat
      /\ recentJumps \in Seq(0..(PatternWindow + 1)) /\ Len(recentJumps) \in Nat
      /\ Len(recentJumps) + 1 <= MaxPresses /\ 0 \in 0..(PatternWindow + 1)
      /\ MaxPresses \in Nat
  <2>1. Len(recentJumps) < MaxPresses
    BY DEF BhopPress
  <2> QED
    BY <2>1, BhopNumbers DEF BhopOK, BhopTypeOK
<1>2. recentJumps' \in Seq(0..(PatternWindow + 1)) /\ Len(recentJumps') <= MaxPresses
  <2>1. /\ Append(recentJumps, 0) \in Seq(0..(PatternWindow + 1))
        /\ Len(Append(recentJumps, 0)) = Len(recentJumps) + 1
    BY <1>1, AppendProperties
  <2>2. recentJumps' = Purged(Append(recentJumps, 0))
    BY DEF BhopPress
  <2> DEFINE jumps == Append(recentJumps, 0)
  <2> HIDE DEF jumps
  <2>3. /\ recentJumps' \in Seq(0..(PatternWindow + 1))
        /\ Len(recentJumps') <= Len(recentJumps) + 1
    <3>1. jumps \in Seq(0..(PatternWindow + 1)) /\ Len(jumps) = Len(recentJumps) + 1
      BY <2>1 DEF jumps
    <3>2. recentJumps' = Purged(jumps)
      BY <2>2 DEF jumps
    <3> QED
      BY <3>1, <3>2, PurgedOK
  <2>4. Len(recentJumps') \in Nat
    BY <2>3
  <2> QED
    BY <1>1, <2>3, <2>4
<1>3. \A i \in 1..Len(landings) : landings[i] \in LandingEvent
  BY <1>1
<1>4. /\ landings' \in Seq(LandingEvent) /\ Len(landings') = Len(landings)
      /\ \A i \in 1..Len(landings) : landings'[i].perfect = landings[i].perfect
  <2> DEFINE pressed == Pressed(landings)
  <2>1. /\ pressed = landings'
        /\ \A i \in 1..Len(landings) : pressed[i].presses <= MaxPresses
    BY DEF BhopPress
  <2>2. pressed = [i \in 1..Len(landings) |->
                     [landings[i] EXCEPT !.presses =
                        IF landings[i].age <= PatternWindow THEN @ + 1 ELSE @]]
    BY DEF Pressed
  <2> HIDE DEF pressed
  <2>3. ASSUME NEW i \in 1..Len(landings)
        PROVE  pressed[i] \in LandingEvent /\ pressed[i].perfect = landings[i].perfect
    <3> DEFINE p == IF landings[i].age <= PatternWindow
                    THEN landings[i].presses + 1 ELSE landings[i].presses
    <3>1. pressed[i] = [landings[i] EXCEPT !.presses = p]
      BY <2>2
    <3>2. landings[i] \in LandingEvent
      BY <1>3
    <3>3. pressed[i].presses = p
      BY <3>1, <3>2 DEF LandingEvent
    <3>4. p \in 0..MaxPresses
      <4>1. landings[i].presses \in 0..MaxPresses /\ p <= MaxPresses
        BY <2>1, <3>2, <3>3 DEF LandingEvent
      <4> QED
        BY <1>1, <4>1
    <3> HIDE DEF p
    <3> QED
      BY <3>1, <3>2, <3>4 DEF LandingEvent
  <2>4. pressed \in [1..Len(landings) -> LandingEvent]
    BY <2>2, <2>3
  <2>5. pressed \in Seq(LandingEvent) /\ Len(pressed) = Len(landings)
    BY <1>1, <2>4, FunctionIsSeq
  <2> QED
    BY <2>1, <2>3, <2>5
<1>5. BhopOK'
  <2>1. pending' => landings' # <<>>
    <3>1. (landings = <<>>) <=> Len(landings) = 0
      BY <1>1
    <3>2. (landings' = <<>>) <=> Len(landings') = 0
      BY <1>4
    <3> QED
      BY <1>4, <3>1, <3>2 DEF BhopOK, BhopPress
  <2>2. /\ airTime' = airTime /\ airMoved' = airMoved /\ pending' = pending
        /\ sinceMoveType' = sinceMoveType /\ strayed' = strayed /\ bhopDirty' = TRUE
    BY DEF BhopPress
  <2> QED
    BY <1>2, <1>4, <2>1, <2>2 DEF BhopOK, BhopTypeOK
<1>6. LandingsJudged' /\ NoneRaised
  BY <1>4 DEF BhopPress, LandingsJudged, NoneRaised
<1> QED
  BY <1>5, <1>6 DEF BhopKept

LEMMA BhopNoPressKept ==
  ASSUME BhopOK, BhopNoPress
  PROVE  BhopKept
<1>1. recentJumps' \in Seq(0..(PatternWindow + 1)) /\ Len(recentJumps') <= MaxPresses
  <2>1. /\ recentJumps \in Seq(0..(PatternWindow + 1)) /\ Len(recentJumps) <= MaxPresses
        /\ recentJumps' = Purged(recentJumps)
    BY DEF BhopOK, BhopTypeOK, BhopNoPress
  <2>2. /\ recentJumps' \in Seq(0..(PatternWindow + 1))
        /\ Len(recentJumps') <= Len(recentJumps)
    BY <2>1, PurgedOK
  <2>3. Len(recentJumps') \in Nat /\ Len(recentJumps) \in Nat /\ MaxPresses \in Nat
    BY <2>1, <2>2, BhopNumbers
  <2> QED
    BY <2>1, <2>2, <2>3
<1> QED
  BY <1>1 DEF BhopNoPress, BhopKept, BhopOK, BhopTypeOK, LandingsJudged, NoneRaised

LEMMA BhopCommandKept ==
  ASSUME BhopOK, NEW afresh \in BOOLEAN, BhopCommand(afresh)
  PROVE  BhopKept /\ (afresh => LandingsJudged')
<1>1. /\ <<>> \in Seq(0..(PatternWindow + 1)) /\ <<>> \in Seq(LandingEvent)
      /\ Len(<<>>) <= MaxPresses
  BY BhopNumbers
<1>2. 0 \in 0..MinAirTime /\ Grace \in 0..Grace /\ 0 \in 0..(PatternWindow + 1)
  BY BhopNumbers, MovementNumbers
<1>3. CASE BhopFirstPress
  <2>1. <<0>> \in Seq(0..(PatternWindow + 1)) /\ Len(<<0>>) = 1 /\ 1 <= MaxPresses
    BY <1>2, BhopNumbers
  <2>2. BhopOK'
    BY <1>1, <1>2, <1>3, <2>1 DEF BhopFirstPress, BhopOK, BhopTypeOK
  <2> QED
    BY <1>3, <2>2, Emptied DEF BhopFirstPress, BhopKept
<1>4. CASE BhopClear
  BY <1>4, BhopClearKept DEF BhopKept
<1>5. CASE BhopPress /\ ~afresh
  BY <1>5, BhopPressKept
<1>6. CASE BhopNoPress /\ ~afresh
  BY <1>6, BhopNoPressKept
<1>7. CASE BhopInvalidPress
  <2>1. BhopOK'
    BY <1>1, <1>2, <1>7 DEF BhopInvalidPress, BhopOK, BhopTypeOK
  <2> QED
    BY <1>7, <2>1, Emptied DEF BhopInvalidPress, BhopKept
<1> QED
  BY <1>3, <1>4, <1>5, <1>6, <1>7 DEF BhopCommand

LEMMA LandKept ==
  ASSUME BhopOK, NEW available_ \in BOOLEAN, Land(available_)
  PROVE  /\ landings' \in Seq(LandingEvent) /\ (pending' => landings' # <<>>)
         /\ pending' \in BOOLEAN /\ bhopDirty' \in BOOLEAN /\ strayed' \in BOOLEAN
         /\ (mask' = mask /\ LandingsJudged => LandingsJudged') /\ NoneRaised
         /\ (pending' /\ strayed' => pending /\ strayed)
<1>1. CASE UNCHANGED <<landings, pending, bhopDirty, strayed>>
  BY <1>1 DEF BhopOK, BhopTypeOK, LandingsJudged, NoneRaised
<1>2. ASSUME NEW penalty \in BOOLEAN,
             landings' = Append(landings, Landing(penalty)),
             pending' = TRUE /\ bhopDirty' = TRUE /\ strayed' = FALSE
      PROVE  /\ landings' \in Seq(LandingEvent) /\ (pending' => landings' # <<>>)
             /\ pending' \in BOOLEAN /\ bhopDirty' \in BOOLEAN /\ strayed' \in BOOLEAN
             /\ (mask' = mask /\ LandingsJudged => LandingsJudged') /\ NoneRaised
             /\ (pending' /\ strayed' => pending /\ strayed)
  <2>1. Landing(penalty) \in LandingEvent
    <3>1. Len(recentJumps) \in 0..MaxPresses /\ 0 \in 0..(PatternWindow + 1)
      BY BhopNumbers DEF BhopOK, BhopTypeOK
    <3> QED
      BY <3>1 DEF Landing, LandingEvent
  <2>2. landings \in Seq(LandingEvent)
    BY DEF BhopOK, BhopTypeOK
  <2>3. /\ landings' \in Seq(LandingEvent) /\ landings' # <<>>
        /\ Len(landings') = Len(landings) + 1 /\ Len(landings) \in Nat
    BY <1>2, <2>1, <2>2, AppendProperties
  <2>4. Len(landings') # Len(landings)
    BY <2>3
  <2> QED
    BY <1>2, <2>3, <2>4 DEF LandingsJudged, NoneRaised
<1> QED
  BY <1>1, <1>2 DEF Land

LEMMA BhopProcessMovementKept ==
  ASSUME BhopOK, NEW lands \in BOOLEAN, NEW available_ \in BOOLEAN,
         BhopProcessMovement(lands, available_)
  PROVE  BhopKept /\ (pending' /\ strayed' => pending /\ strayed) /\ airMoved' = FALSE
<1>1. /\ landings' \in Seq(LandingEvent) /\ (pending' => landings' # <<>>)
      /\ pending' \in BOOLEAN /\ bhopDirty' \in BOOLEAN /\ strayed' \in BOOLEAN
      /\ (mask' = mask /\ LandingsJudged => LandingsJudged') /\ NoneRaised
      /\ (pending' /\ strayed' => pending /\ strayed)
  <2>1. CASE lands
    BY <2>1, LandKept DEF BhopProcessMovement
  <2>2. CASE ~lands
    BY <2>2 DEF BhopProcessMovement, BhopOK, BhopTypeOK, LandingsJudged, NoneRaised
  <2> QED
    BY <2>1, <2>2
<1>2. /\ airTime' = airTime /\ recentJumps' = recentJumps /\ sinceMoveType' = sinceMoveType
      /\ airMoved' = FALSE
  BY DEF BhopProcessMovement
<1> QED
  BY <1>1, <1>2 DEF BhopKept, BhopOK, BhopTypeOK

LEMMA BhopStartTouchGroundKept ==
  ASSUME BhopOK, NEW available_ \in BOOLEAN, BhopStartTouchGround(available_)
  PROVE  BhopKept /\ (pending' /\ strayed' => pending /\ strayed) /\ airMoved' = airMoved
<1>1. Land(available_) /\ UNCHANGED <<airTime, airMoved, recentJumps, sinceMoveType>>
  BY DEF BhopStartTouchGround
<1> QED
  BY <1>1, LandKept DEF BhopKept, BhopOK, BhopTypeOK

\* Only the latest landing is raised, and only if it is open.
LEMMA BhopJumpKept ==
  ASSUME BhopOK, NEW available_ \in BOOLEAN, BhopJump(available_)
  PROVE  /\ BhopOK' /\ (mask' = mask /\ LandingsJudged => LandingsJudged')
         /\ UNCHANGED <<airMoved, pending, strayed>>
         /\ \A i \in 1..Len(landings) :
              landings'[i].perfect /\ ~landings[i].perfect => i = Len(landings) /\ pending
<1>1. CASE UNCHANGED <<landings, bhopDirty>>
  BY <1>1 DEF BhopJump, BhopOK, BhopTypeOK, LandingsJudged
<1>2. CASE /\ pending /\ bhopDirty' = TRUE
           /\ landings' = [landings EXCEPT ![Len(landings)].perfect = TRUE]
  <2> DEFINE last == Len(landings)
             e == [landings[last] EXCEPT !.perfect = TRUE]
  <2>1. landings \in Seq(LandingEvent) /\ last \in 1..Len(landings)
    BY <1>2 DEF BhopOK, BhopTypeOK
  <2>2. landings[last] \in LandingEvent
    BY <2>1
  <2>3. e \in LandingEvent
    BY <2>2 DEF LandingEvent
  <2>4. landings' = [landings EXCEPT ![last] = e]
    BY <1>2
  <2> HIDE DEF e
  <2>5. /\ landings' \in Seq(LandingEvent) /\ Len(landings') = Len(landings)
        /\ \A j \in 1..Len(landings) : landings'[j] = IF j = last THEN e ELSE landings[j]
    BY <2>1, <2>3, <2>4, ExceptSeq
  <2>6. landings' # <<>>
    BY <2>1, <2>5
  <2>7. BhopOK'
    BY <1>2, <2>5, <2>6 DEF BhopJump, BhopOK, BhopTypeOK
  <2> QED
    BY <1>2, <2>5, <2>7 DEF BhopJump, LandingsJudged
<1> QED
  BY <1>1, <1>2 DEF BhopJump

LEMMA BhopMoveKept ==
  ASSUME BhopOK,
         \/ BhopAirMove \/ BhopOtherMove \/ BhopMovementPost
         \/ \E strays \in BOOLEAN : BhopChangeMoveType(strays)
  PROVE  BhopKept
<1>1. Grace \in Nat /\ MinAirTime \in Nat /\ airTime \in 0..MinAirTime
  BY MovementNumbers, BhopNumbers DEF BhopOK, BhopTypeOK
<1>2. landings' = landings /\ recentJumps' = recentJumps
  BY DEF BhopAirMove, BhopOtherMove, BhopMovementPost, BhopChangeMoveType
<1>3. airTime' \in 0..MinAirTime
  <2>1. CountTo(MinAirTime, airTime) \in 0..MinAirTime /\ 0 \in 0..MinAirTime
    BY <1>1, CountToRange
  <2> QED
    BY <1>1, <2>1 DEF BhopAirMove, BhopOtherMove, BhopMovementPost, BhopChangeMoveType
<1>4. sinceMoveType' \in 0..Grace
  <2>1. 0 \in 0..Grace /\ sinceMoveType \in 0..Grace
    BY <1>1 DEF BhopOK, BhopTypeOK
  <2> QED
    BY <2>1 DEF BhopAirMove, BhopOtherMove, BhopMovementPost, BhopChangeMoveType
<1>5. /\ airMoved' \in BOOLEAN /\ strayed' \in BOOLEAN /\ pending' \in BOOLEAN
      /\ bhopDirty' \in BOOLEAN /\ (pending' => pending) /\ (bhopDirty => bhopDirty')
  <2>0. /\ airMoved \in BOOLEAN /\ strayed \in BOOLEAN /\ pending \in BOOLEAN
        /\ bhopDirty \in BOOLEAN
    BY DEF BhopOK, BhopTypeOK
  <2>1. CASE BhopAirMove
    BY <2>0, <2>1 DEF BhopAirMove
  <2>2. CASE BhopOtherMove
    BY <2>0, <2>2 DEF BhopOtherMove
  <2>3. CASE BhopMovementPost
    BY <2>0, <2>3 DEF BhopMovementPost
  <2>4. CASE \E strays \in BOOLEAN : BhopChangeMoveType(strays)
    BY <2>0, <2>4 DEF BhopChangeMoveType
  <2> QED
    BY <2>1, <2>2, <2>3, <2>4
<1> QED
  BY <1>2, <1>3, <1>4, <1>5 DEF BhopKept, BhopOK, BhopTypeOK, LandingsJudged, NoneRaised

LEMMA CheckLandingEventsKept ==
  ASSUME BhopOK, CheckLandingEvents(mask)
  PROVE  BhopKept
<1>1. landings \in Seq(LandingEvent) /\ Len(landings) \in Nat
  BY DEF BhopOK, BhopTypeOK
<1>2. /\ Trimmed \in Seq(LandingEvent)
      /\ Trimmed = landings
         \/ (Len(Trimmed) # Len(landings) /\ Trimmed # <<>>)
  <2>1. CASE Len(landings) > WindowSize
    <3>1. Len(landings) - WindowSize \in 0..Len(landings)
      BY <1>1, <2>1, BhopNumbers
    <3>2. /\ SubSeq(landings, Len(landings) - WindowSize + 1, Len(landings))
               \in Seq(LandingEvent)
          /\ Len(SubSeq(landings, Len(landings) - WindowSize + 1, Len(landings)))
               = Len(landings) - (Len(landings) - WindowSize)
      BY <1>1, <3>1, EndOfSeq
    <3>3. Trimmed \in Seq(LandingEvent) /\ Len(Trimmed) = WindowSize
      BY <1>1, <2>1, <3>2, BhopNumbers DEF Trimmed
    <3>4. Len(Trimmed) # Len(landings) /\ Len(Trimmed) # 0
      BY <1>1, <2>1, <3>3, BhopNumbers
    <3> QED
      BY <3>3, <3>4
  <2>2. CASE ~(Len(landings) > WindowSize)
    BY <1>1, <2>2 DEF Trimmed
  <2> QED
    BY <2>1, <2>2
<1>3. /\ airTime' = airTime /\ airMoved' = airMoved /\ recentJumps' = recentJumps
      /\ sinceMoveType' = sinceMoveType /\ strayed' = strayed
  BY DEF CheckLandingEvents
<1>4. CASE ~bhopDirty
  <2>1. UNCHANGED <<landings, pending, bhopDirty>>
    BY <1>4 DEF CheckLandingEvents
  <2> QED
    BY <1>3, <2>1, UnchangedBhop DEF bhopVars
<1>5. CASE bhopDirty /\ Infraction(Trimmed, mask)
  <2>1. landings' = <<>> /\ pending' = FALSE /\ bhopDirty' = FALSE
    BY <1>5 DEF CheckLandingEvents
  <2>2. <<>> \in Seq(LandingEvent)
    OBVIOUS
  <2>3. BhopOK'
    BY <1>3, <2>1, <2>2 DEF BhopOK, BhopTypeOK
  <2> QED
    BY <2>1, <2>3, Emptied DEF BhopKept
<1>6. CASE bhopDirty /\ ~Infraction(Trimmed, mask)
  <2>1. landings' = Trimmed /\ bhopDirty' = JudgeAgain(Trimmed) /\ pending' = pending
    BY <1>6 DEF CheckLandingEvents
  <2>2. BhopOK'
    BY <1>2, <1>3, <2>1 DEF BhopOK, BhopTypeOK, JudgeAgain
  <2>3. ~JudgeAgain(Trimmed) => AllKnown(Trimmed)
    <3>1. \A i \in 1..Len(Trimmed) : Trimmed[i] \in LandingEvent
      BY <1>2
    <3>2. /\ \A e \in LandingEvent : e.age \in Nat
          /\ PatternWindow \in Nat /\ Len(Trimmed) \in Nat /\ MinSamples \in Nat
      BY <1>2, BhopNumbers DEF LandingEvent
    <3> QED
      BY <3>1, <3>2 DEF JudgeAgain, AllKnown
  <2>4. mask' = mask => LandingsJudged'
    BY <1>6, <2>1, <2>3 DEF LandingsJudged
  <2>5. NoneRaised
    BY <1>2, <2>1 DEF NoneRaised
  <2> QED
    BY <2>2, <2>4, <2>5 DEF BhopKept
<1> QED
  BY <1>4, <1>5, <1>6

LandingsInv == ~revised => LandingsJudged

\* A landing that is open still although he strayed is closed at the end of the movement.
BoundInv ==
  /\ pending /\ strayed => stage \in {"moved", "settled"} /\ ~airMoved /\ Tracking
  /\ stage = "begun" /\ Tracking => ~airMoved

RaisedInOneBound ==
  \A i \in 1..Len(landings) :
    (/\ Len(landings') = Len(landings)
     /\ landings'[i].perfect /\ ~landings[i].perfect) => (i = Len(landings) /\ ~strayed)

BhopInv == BhopOK /\ LandingsInv /\ BoundInv

LEMMA KeptIsEnough ==
  ASSUME BhopInv, BhopKept, UNCHANGED <<mask, revised>>
  PROVE  BhopOK' /\ LandingsInv' /\ RaisedInOneBound
BY DEF BhopKept, BhopInv, LandingsInv, NoneRaised, RaisedInOneBound

LEMMA TickBhopStep ==
  ASSUME BhopInv, GateTypeOK, OnPhysicsSimulate \/ OnSetupMove \/ OnPhysicsSimulatePost
  PROVE  BhopInv' /\ RaisedInOneBound
<1>0. pending \in BOOLEAN /\ strayed \in BOOLEAN /\ revised \in BOOLEAN
  BY DEF BhopInv, BhopOK, BhopTypeOK, GateTypeOK
<1>1. CASE OnPhysicsSimulate
  <2>1. /\ stage = "idle" /\ stage' = "tick" /\ UNCHANGED <<mask, revised>>
        /\ BhopTick(Tracking /\ MoveTypeChanged)
    BY <1>1 DEF OnPhysicsSimulate, PhysicsSimulate, gateVars
  <2>2. (Tracking /\ MoveTypeChanged) \in BOOLEAN
    BY DEF Tracking, MoveTypeChanged
  <2>3. BhopKept /\ UNCHANGED <<pending, strayed>>
    BY <2>1, <2>2, BhopTickKept DEF BhopInv, BhopTick
  <2> QED
    BY <2>1, <2>3, KeptIsEnough DEF BhopInv, BoundInv
<1>2. CASE OnSetupMove
  <2>1. /\ stage = "tick" /\ stage' = "ready" /\ mask' = mask /\ revised' = FALSE
        /\ \/ BhopCommand(revised)
           \/ BhopClear
           \/ ~revised /\ UNCHANGED bhopVars
    BY <1>0, <1>2 DEF OnSetupMove, SetupMove, Refreshed
  <2>2. BhopKept /\ (revised => LandingsJudged')
    BY <1>0, <2>1, BhopCommandKept, BhopClearKept, UnchangedBhop DEF BhopInv, BhopKept
  <2>3. pending' /\ strayed' => pending /\ strayed
    BY <2>1 DEF BhopCommand, BhopFirstPress, BhopClear, BhopPress, BhopNoPress,
                BhopInvalidPress, bhopVars
  <2>4. BhopOK' /\ LandingsInv' /\ RaisedInOneBound
    BY <1>0, <2>1, <2>2
    DEF BhopKept, BhopInv, LandingsInv, NoneRaised, RaisedInOneBound
  <2> QED
    BY <2>1, <2>3, <2>4 DEF BhopInv, BoundInv
<1>3. CASE OnPhysicsSimulatePost
  <2>1. /\ PhysicsSimulatePost /\ mask' = mask /\ revised' = FALSE
        /\ \/ BhopClear
           \/ ~revised /\ CheckLandingEvents(mask)
           \/ ~revised /\ UNCHANGED bhopVars
    <3>1. /\ PhysicsSimulatePost /\ mask' = mask /\ revised' = FALSE
          /\ IF revised THEN BhopClear
             ELSE IF available /\ alive THEN IfTracking(CheckLandingEvents(mask))
             ELSE UNCHANGED bhopVars
      BY <1>3, Zenon DEF OnPhysicsSimulatePost
    <3> QED
      BY <3>1 DEF IfTracking
  <2>2. stage \in {"tick", "ready"} /\ stage' = "idle"
    BY <2>1 DEF PhysicsSimulatePost
  <2>3. BhopKept /\ (revised => LandingsJudged')
    BY <2>1, CheckLandingEventsKept, BhopClearKept, UnchangedBhop DEF BhopInv, BhopKept
  <2>4. pending' /\ strayed' => pending /\ strayed
    BY <2>1 DEF BhopClear, CheckLandingEvents, bhopVars
  <2>5. BhopOK' /\ LandingsInv' /\ RaisedInOneBound
    BY <1>0, <2>1, <2>3
    DEF BhopKept, BhopInv, LandingsInv, NoneRaised, RaisedInOneBound
  <2> QED
    BY <2>2, <2>4, <2>5 DEF BhopInv, BoundInv
<1> QED
  BY <1>1, <1>2, <1>3

LEMMA MovementBhopStep ==
  ASSUME BhopInv, GateTypeOK, Movement
  PROVE  BhopInv' /\ RaisedInOneBound
<1>0. /\ pending \in BOOLEAN /\ strayed \in BOOLEAN /\ airMoved \in BOOLEAN
      /\ available \in BOOLEAN /\ onGround \in BOOLEAN
  BY DEF BhopInv, BhopOK, BhopTypeOK, GateTypeOK, MovementTypeOK
<1> USE DEF otherVars, gateVars
<1>1. ASSUME NEW ground \in BOOLEAN, OnProcessMovement(ground)
      PROVE  BhopInv' /\ RaisedInOneBound
  <2>1. /\ stage = "ready" /\ stage' = "begun" /\ UNCHANGED <<mask, revised>>
        /\ \/ Tracking /\ BhopProcessMovement(Touches(ground), available)
           \/ ~Tracking /\ UNCHANGED bhopVars
    <3>1. /\ ProcessMovement(ground) /\ UNCHANGED otherVars
          /\ IfTracking(BhopProcessMovement(Touches(ground), available))
      BY <1>1, Zenon DEF OnProcessMovement
    <3> QED
      BY <3>1 DEF ProcessMovement, IfTracking
  <2>2. Touches(ground) \in BOOLEAN
    BY <1>0 DEF Touches
  <2>3. /\ BhopKept /\ (pending' /\ strayed' => pending /\ strayed)
        /\ Tracking => ~airMoved'
    <3>1. CASE Tracking /\ BhopProcessMovement(Touches(ground), available)
      BY <1>0, <2>2, <3>1, BhopProcessMovementKept DEF BhopInv
    <3>2. CASE ~Tracking /\ UNCHANGED bhopVars
      BY <1>0, <3>2, UnchangedBhop DEF BhopInv, bhopVars
    <3> QED
      BY <2>1, <3>1, <3>2
  <2>4. Tracking' = Tracking
    BY <2>1 DEF Tracking
  <2> QED
    BY <2>1, <2>3, <2>4, KeptIsEnough DEF BhopInv, BoundInv
<1>2. ASSUME NEW ground \in BOOLEAN, OnCategorizePosition(ground)
      PROVE  BhopInv' /\ RaisedInOneBound
  <2>1. /\ stage = "moved" /\ stage' = "settled" /\ UNCHANGED <<mask, revised>>
        /\ BhopStartTouchGround(available) \/ UNCHANGED bhopVars
    <3>1. /\ CategorizePosition(ground) /\ UNCHANGED otherVars
          /\ IF Touches(ground) THEN IfTracking(BhopStartTouchGround(available))
             ELSE UNCHANGED bhopVars
      BY <1>2, Zenon DEF OnCategorizePosition
    <3> QED
      BY <3>1 DEF CategorizePosition, IfTracking
  <2>2. /\ BhopKept /\ (pending' /\ strayed' => pending /\ strayed) /\ airMoved' = airMoved
    BY <1>0, <2>1, BhopStartTouchGroundKept, UnchangedBhop DEF BhopInv, bhopVars
  <2>3. Tracking' = Tracking
    BY <2>1 DEF Tracking
  <2> QED
    BY <1>0, <2>1, <2>2, <2>3, KeptIsEnough DEF BhopInv, BoundInv
<1>3. CASE OnGrabLadder
  <2>1. /\ stage = "begun" /\ stage' = "moved" /\ UNCHANGED <<mask, revised>>
        /\ \/ Tracking /\ (BhopOtherMove \/ BhopChangeMoveType(TRUE))
           \/ UNCHANGED bhopVars
    <3>1. /\ GrabLadder /\ UNCHANGED otherVars
          /\ IF onGround THEN IfTracking(BhopOtherMove) ELSE IfTracking(BhopChangeMoveType(TRUE))
      BY <1>3, Zenon DEF OnGrabLadder
    <3> QED
      BY <3>1 DEF GrabLadder, IfTracking
  <2>2. BhopKept
    BY <2>1, BhopMoveKept, UnchangedBhop DEF BhopInv
  <2>3. /\ UNCHANGED <<pending, airMoved>> /\ (strayed' => strayed \/ Tracking)
    BY <2>1 DEF BhopOtherMove, BhopChangeMoveType, bhopVars
  <2>4. Tracking' = Tracking
    BY <2>1 DEF Tracking
  <2> QED
    BY <1>0, <2>1, <2>2, <2>3, <2>4, KeptIsEnough DEF BhopInv, BoundInv
<1>4. ASSUME NEW hops \in BOOLEAN, OnLeaveLadder(hops)
      PROVE  BhopInv' /\ RaisedInOneBound
  <2>1. /\ stage = "begun" /\ stage' = "begun" /\ UNCHANGED <<mask, revised>>
        /\ BhopChangeMoveType(FALSE) \/ UNCHANGED bhopVars
    <3>1. /\ LeaveLadder(hops) /\ UNCHANGED otherVars
          /\ IfTracking(BhopChangeMoveType(FALSE))
      BY <1>4, Zenon DEF OnLeaveLadder
    <3> QED
      BY <3>1 DEF LeaveLadder, IfTracking
  <2>2. BhopKept
    BY <2>1, BhopMoveKept, UnchangedBhop DEF BhopInv
  <2>3. UNCHANGED <<pending, airMoved, strayed>>
    BY <1>0, <2>1 DEF BhopChangeMoveType, bhopVars
  <2>4. Tracking' = Tracking
    BY <2>1 DEF Tracking
  <2> QED
    BY <2>1, <2>2, <2>3, <2>4, KeptIsEnough DEF BhopInv, BoundInv
<1>5. CASE OnJump
  <2>1. /\ stage = "begun" /\ stage' = "jumped" /\ UNCHANGED <<mask, revised>>
        /\ BhopJump(available) \/ UNCHANGED bhopVars
    BY <1>5 DEF OnJump, Jumps, IfTracking
  <2>2. CASE UNCHANGED bhopVars
    BY <2>1, <2>2, UnchangedBhop, KeptIsEnough DEF BhopInv, BoundInv, bhopVars
  <2>3. CASE BhopJump(available)
    <3>1. /\ BhopOK' /\ (LandingsJudged => LandingsJudged')
          /\ UNCHANGED <<airMoved, pending, strayed>>
          /\ \A i \in 1..Len(landings) :
               landings'[i].perfect /\ ~landings[i].perfect => i = Len(landings) /\ pending
      BY <1>0, <2>1, <2>3, BhopJumpKept DEF BhopInv
    <3>2. ~(pending /\ strayed)
      BY <2>1 DEF BhopInv, BoundInv
    <3> QED
      BY <2>1, <3>1, <3>2 DEF BhopInv, BoundInv, LandingsInv, RaisedInOneBound
  <2> QED
    BY <2>1, <2>2, <2>3
<1>6. CASE OnAirMove
  <2>1. /\ stage \in {"begun", "jumped"} /\ stage' = "moved" /\ UNCHANGED <<mask, revised>>
        /\ BhopAirMove \/ UNCHANGED bhopVars
    BY <1>6 DEF OnAirMove, AirMove, Airborne, IfTracking
  <2>2. BhopKept
    BY <2>1, BhopMoveKept, UnchangedBhop DEF BhopInv
  <2>3. UNCHANGED <<pending, strayed>>
    BY <2>1 DEF BhopAirMove, bhopVars
  <2> QED
    BY <2>1, <2>2, <2>3, KeptIsEnough DEF BhopInv, BoundInv
<1>7. CASE OnWalkMove \/ OnOtherMove
  <2>1. /\ stage = "begun" /\ stage' = "moved" /\ UNCHANGED <<mask, revised>>
        /\ \/ Tracking /\ BhopOtherMove
           \/ UNCHANGED bhopVars
    BY <1>7 DEF OnWalkMove, WalkMove, OnOtherMove, OtherMove, IfTracking
  <2>2. BhopKept
    BY <2>1, BhopMoveKept, UnchangedBhop DEF BhopInv
  <2>3. UNCHANGED <<pending, airMoved>> /\ (strayed' => strayed \/ Tracking)
    BY <2>1 DEF BhopOtherMove, bhopVars
  <2>4. Tracking' = Tracking
    BY <2>1 DEF Tracking
  <2> QED
    BY <1>0, <2>1, <2>2, <2>3, <2>4, KeptIsEnough DEF BhopInv, BoundInv
<1>8. CASE OnProcessMovementPost
  <2>1. /\ stage' = "ready" /\ UNCHANGED <<mask, revised>>
        /\ \/ BhopMovementPost
           \/ ~Tracking /\ UNCHANGED bhopVars
    BY <1>8 DEF OnProcessMovementPost, ProcessMovementPost, IfTracking
  <2>2. BhopKept
    BY <2>1, BhopMoveKept, UnchangedBhop DEF BhopInv
  <2>3. ~(pending' /\ strayed')
    BY <2>1 DEF BhopInv, BoundInv, BhopMovementPost, bhopVars
  <2> QED
    BY <2>1, <2>2, <2>3, KeptIsEnough DEF BhopInv, BoundInv
<1> QED
  BY <1>1, <1>2, <1>3, <1>4, <1>5, <1>6, <1>7, <1>8, Zenon DEF Movement

LEMMA EnvironmentBhopStep ==
  ASSUME BhopInv, GateTypeOK, Environment
  PROVE  BhopInv' /\ RaisedInOneBound
<1>1. CASE OnClientDisconnect
  <2>1. stage' = "idle" /\ BhopClear
    BY <1>1 DEF OnClientDisconnect, MovementReset
  <2>2. BhopOK' /\ LandingsJudged' /\ NoneRaised /\ ~pending'
    BY <2>1, BhopClearKept DEF BhopClear
  <2> QED
    BY <2>1, <2>2 DEF BhopInv, LandingsInv, BoundInv, NoneRaised, RaisedInOneBound
<1>2. CASE SettingsChanged
  <2>1. stage = "idle" /\ stage' = "idle" /\ revised' = TRUE /\ UNCHANGED bhopVars
    BY <1>2 DEF SettingsChanged, Elsewhere, movementVars
  <2>2. BhopKept
    BY <2>1, UnchangedBhop DEF BhopInv
  <2> QED
    BY <2>1, <2>2 DEF BhopInv, BhopKept, LandingsInv, BoundInv, NoneRaised, RaisedInOneBound,
                      bhopVars
<1>3. CASE AvailabilityChanged \/ Die \/ Spawn \/ Teleport \/ MoveTypeSet \/ ActiveCheck
  <2>1. /\ stage' = stage /\ stage \in {"idle", "ready"}
        /\ UNCHANGED bhopVars /\ UNCHANGED <<mask, revised>>
    <3>1. CASE AvailabilityChanged \/ ActiveCheck
      BY <3>1 DEF AvailabilityChanged, ActiveCheck, Elsewhere, movementVars, gateVars
    <3>2. CASE Die \/ MoveTypeSet
      BY <3>2 DEF Die, MoveTypeSet, Elsewhere, ChangeMoveType, otherVars, gateVars
    <3>3. CASE Spawn \/ Teleport
      BY <3>3 DEF Spawn, Teleport, OnTeleport, Teleported, otherVars, gateVars
    <3> QED
      BY <1>3, <3>1, <3>2, <3>3
  <2>2. BhopKept
    BY <2>1, UnchangedBhop DEF BhopInv
  <2> QED
    BY <2>1, <2>2, KeptIsEnough DEF BhopInv, BoundInv, bhopVars
<1> QED
  BY <1>1, <1>2, <1>3 DEF Environment

LEMMA BhopStep ==
  ASSUME BhopInv, GateTypeOK, Next
  PROVE  BhopInv' /\ RaisedInOneBound
BY TickBhopStep, MovementBhopStep, EnvironmentBhopStep, Zenon DEF Next

-----------------------------------------------------------------------------
\* Subtick.

\* Whatever is counted was sent.
SubtickOK(d) == SubtickTypeOK(d) /\ \A k \in Lists : d.times[k] \subseteq d.sent[k]

Ages(k) == 0..(Window[k] + 1)

Times == {t \in [Lists -> SUBSET Nat] : \A k \in Lists : t[k] \subseteq Ages(k)}

LEMMA SubtickNumbers == \A k \in Lists : Window[k] \in Nat /\ Threshold[k] \in Nat \ {0}
BY SubtickAssumption

LEMMA SubtickData ==
  ASSUME NEW d
  PROVE  SubtickTypeOK(d) <=>
           /\ d \in [times : Times, early : BOOLEAN, sent : Times, accused : SUBSET Accusing]
<1>1. ASSUME SubtickTypeOK(d)
      PROVE  d \in [times : Times, early : BOOLEAN, sent : Times, accused : SUBSET Accusing]
  <2>1. /\ d \in [times : [Lists -> SUBSET Nat], early : BOOLEAN,
                  sent : [Lists -> SUBSET Nat], accused : SUBSET Accusing]
        /\ \A k \in Lists : d.times[k] \union d.sent[k] \subseteq 0..(Window[k] + 1)
    BY <1>1 DEF SubtickTypeOK
  <2>2. d.times \in Times /\ d.sent \in Times
    BY <2>1 DEF Times, Ages
  <2> QED
    BY <2>1, <2>2
<1>2. ASSUME d \in [times : Times, early : BOOLEAN, sent : Times, accused : SUBSET Accusing]
      PROVE  SubtickTypeOK(d)
  BY <1>2 DEF SubtickTypeOK, Times, Ages
<1> QED
  BY <1>1, <1>2

LEMMA NoTimesOK == NoTimes \in Times /\ \A k \in Lists : NoTimes[k] = {}
BY DEF NoTimes, Times

LEMMA OlderOK ==
  ASSUME NEW t \in Times, NEW u \in Times, \A k \in Lists : t[k] \subseteq u[k]
  PROVE  Older(t) \in Times /\ \A k \in Lists : Older(t)[k] \subseteq Older(u)[k]
<1>1. ASSUME NEW k \in Lists
      PROVE  /\ Older(t)[k] \subseteq Ages(k) /\ Older(t)[k] \subseteq Nat
             /\ Older(t)[k] \subseteq Older(u)[k]
  <2>1. Window[k] \in Nat /\ t[k] \subseteq Ages(k) /\ t[k] \subseteq u[k]
    BY SubtickNumbers DEF Times
  <2>2. /\ Older(t)[k] = {IF a > Window[k] THEN a ELSE a + 1 : a \in t[k]}
        /\ Older(u)[k] = {IF a > Window[k] THEN a ELSE a + 1 : a \in u[k]}
    BY DEF Older
  <2> QED
    BY <2>1, <2>2 DEF Ages
<1>2. DOMAIN Older(t) = Lists /\ Older(t) = [k \in Lists |-> Older(t)[k]]
  BY DEF Older
<1> QED
  BY <1>1, <1>2 DEF Times

LEMMA NotedOK ==
  ASSUME NEW t \in Times, NEW u \in Times, \A k \in Lists : t[k] \subseteq u[k],
         NEW lists, NEW more, lists \subseteq more
  PROVE  Noted(t, lists) \in Times /\ \A k \in Lists : Noted(t, lists)[k] \subseteq Noted(u, more)[k]
<1>1. ASSUME NEW k \in Lists
      PROVE  /\ Noted(t, lists)[k] \subseteq Ages(k) /\ Noted(t, lists)[k] \subseteq Nat
             /\ Noted(t, lists)[k] \subseteq Noted(u, more)[k]
  <2>1. 0 \in Ages(k) /\ t[k] \subseteq Ages(k) /\ t[k] \subseteq u[k] /\ Ages(k) \subseteq Nat
    BY SubtickNumbers DEF Times, Ages
  <2>2. /\ Noted(t, lists)[k] = IF k \in lists THEN t[k] \union {0} ELSE t[k]
        /\ Noted(u, more)[k] = IF k \in more THEN u[k] \union {0} ELSE u[k]
    BY DEF Noted
  <2> QED
    BY <2>1, <2>2
<1>2. DOMAIN Noted(t, lists) = Lists /\ Noted(t, lists) = [k \in Lists |-> Noted(t, lists)[k]]
  BY DEF Noted
<1> QED
  BY <1>1, <1>2 DEF Times

LEMMA PrunedOK ==
  ASSUME NEW t \in Times
  PROVE  Pruned(t) \in Times /\ \A k \in Lists : Pruned(t)[k] \subseteq t[k]
BY DEF Pruned, Times

LEMMA SubtickClearedOK ==
  ASSUME NEW d, SubtickOK(d)
  PROVE  /\ SubtickOK(SubtickCleared(d)) /\ SubtickCleared(d).accused = d.accused
         /\ SubtickOK(SubtickReset(d)) /\ SubtickReset(d).accused = d.accused
<1>1. d \in [times : Times, early : BOOLEAN, sent : Times, accused : SUBSET Accusing]
  BY SubtickData DEF SubtickOK
<1>2. /\ SubtickCleared(d) = [d EXCEPT !.times = NoTimes]
      /\ SubtickReset(d) = [SubtickCleared(d) EXCEPT !.sent = NoTimes]
  BY DEF SubtickCleared, SubtickReset
<1>3. /\ SubtickCleared(d) \in
           [times : Times, early : BOOLEAN, sent : Times, accused : SUBSET Accusing]
      /\ SubtickCleared(d).times = NoTimes /\ SubtickCleared(d).accused = d.accused
  BY <1>1, <1>2, NoTimesOK
<1>4. /\ SubtickReset(d) \in
           [times : Times, early : BOOLEAN, sent : Times, accused : SUBSET Accusing]
      /\ SubtickReset(d).times = NoTimes /\ SubtickReset(d).accused = d.accused
  BY <1>2, <1>3, NoTimesOK
<1> QED
  BY <1>3, <1>4, NoTimesOK, SubtickData DEF SubtickOK

LEMMA SubtickCleanOK == SubtickOK(SubtickClean) /\ SubtickClean.accused = {}
<1>1. /\ SubtickClean \in
           [times : Times, early : BOOLEAN, sent : Times, accused : SUBSET Accusing]
      /\ SubtickClean.times = NoTimes /\ SubtickClean.accused = {}
  BY NoTimesOK DEF SubtickClean
<1> QED
  BY <1>1, NoTimesOK, SubtickData DEF SubtickOK

LEMMA SubtickTickOK ==
  ASSUME NEW d, SubtickOK(d)
  PROVE  SubtickOK(SubtickTick(d)) /\ SubtickTick(d).accused = {}
<1>1. /\ d \in [times : Times, early : BOOLEAN, sent : Times, accused : SUBSET Accusing]
      /\ \A k \in Lists : d.times[k] \subseteq d.sent[k]
  BY SubtickData DEF SubtickOK
<1>2. /\ Older(d.times) \in Times /\ Older(d.sent) \in Times
      /\ \A k \in Lists : Older(d.times)[k] \subseteq Older(d.sent)[k]
  BY <1>1, OlderOK
<1>3. /\ SubtickTick(d) \in
           [times : Times, early : BOOLEAN, sent : Times, accused : SUBSET Accusing]
      /\ SubtickTick(d).times = Older(d.times) /\ SubtickTick(d).sent = Older(d.sent)
      /\ SubtickTick(d).accused = {}
  BY <1>1, <1>2 DEF SubtickTick
<1> QED
  BY <1>2, <1>3, SubtickData DEF SubtickOK

LEMMA CheckSubtickAbuseOK ==
  ASSUME NEW d, SubtickOK(d), NEW shown, NEW enabled
  PROVE  /\ SubtickOK(CheckSubtickAbuse(d, shown, enabled))
         /\ CheckSubtickAbuse(d, shown, enabled).accused = d.accused
<1> DEFINE noted == {k \in shown : k \in {Invalid, Spam} => DetectionOf[k] \in enabled}
           e == CheckSubtickAbuse(d, shown, enabled)
<1>1. /\ d \in [times : Times, early : BOOLEAN, sent : Times, accused : SUBSET Accusing]
      /\ \A k \in Lists : d.times[k] \subseteq d.sent[k]
  BY SubtickData DEF SubtickOK
<1>2. noted \subseteq shown /\ shown \subseteq shown
  OBVIOUS
<1>3. e = [d EXCEPT !.times = Noted(d.times, noted), !.sent = Noted(d.sent, shown)]
  BY DEF CheckSubtickAbuse
<1> HIDE DEF noted, e
<1>4. /\ Noted(d.times, noted) \in Times /\ Noted(d.sent, shown) \in Times
      /\ \A k \in Lists : Noted(d.times, noted)[k] \subseteq Noted(d.sent, shown)[k]
  BY <1>1, <1>2, NotedOK
<1>5. /\ e \in [times : Times, early : BOOLEAN, sent : Times, accused : SUBSET Accusing]
      /\ e.times = Noted(d.times, noted) /\ e.sent = Noted(d.sent, shown)
      /\ e.accused = d.accused
  BY <1>1, <1>3, <1>4
<1> QED
  BY <1>4, <1>5, SubtickData DEF SubtickOK, e

(***************************************************************************)
(* The judgement: what is enough was sent, for all that is counted was,    *)
(* and what has outlived its window is not counted.                        *)
(***************************************************************************)
LEMMA CheckSuspiciousOK ==
  ASSUME NEW d, SubtickOK(d), NEW enabled
  PROVE  LET e == CheckSuspiciousSubtickCommands(d, enabled)
         IN SubtickOK(e) /\ \A k \in e.accused \ d.accused : Backed(d, k)
<1> DEFINE e == CheckSuspiciousSubtickCommands(d, enabled)
           times == Pruned(d.times)
           enough == {k \in Accusing : Enough(times, k)}
           used == UNION {Used(k) : k \in enough}
           accused == {k \in enough : DetectionOf[k] \in enabled}
           spent == UNION {Used(k) : k \in accused}
           left == [k \in Lists |-> IF k \in used THEN {} ELSE times[k]]
           open == [k \in Lists |-> IF k \in spent THEN d.sent[k] \ times[k] ELSE d.sent[k]]
<1>1. /\ d \in [times : Times, early : BOOLEAN, sent : Times, accused : SUBSET Accusing]
      /\ \A k \in Lists : d.times[k] \subseteq d.sent[k]
  BY SubtickData DEF SubtickOK
<1>2. CASE d.early
  <2>1. e = SubtickReset(d)
    BY <1>2 DEF CheckSuspiciousSubtickCommands
  <2> HIDE DEF e
  <2>2. SubtickOK(e) /\ e.accused = d.accused
    BY <2>1, SubtickClearedOK
  <2> QED
    BY <2>2 DEF e
<1>3. CASE ~d.early
  <2>1. e = [d EXCEPT !.times = left, !.accused = accused, !.sent = open]
    BY <1>3 DEF CheckSuspiciousSubtickCommands
  <2>2. times \in Times /\ \A k \in Lists : times[k] \subseteq d.times[k]
    BY <1>1, PrunedOK
  <2>3. accused \subseteq enough /\ enough \subseteq Accusing /\ spent \subseteq used
    OBVIOUS
  <2>4. \A k \in accused : Enough(times, k)
    OBVIOUS
  <2> HIDE DEF times, used, spent, accused, enough, e
  <2>5. /\ left \in [Lists -> SUBSET Nat] /\ open \in [Lists -> SUBSET Nat]
        /\ \A k \in Lists : /\ left[k] \subseteq Ages(k) /\ open[k] \subseteq Ages(k)
                            /\ left[k] \subseteq open[k]
    <3>1. ASSUME NEW k \in Lists
          PROVE  /\ left[k] \subseteq Ages(k) /\ open[k] \subseteq Ages(k)
                 /\ left[k] \subseteq open[k]
      BY <1>1, <2>2, <2>3 DEF Times
    <3>2. \A k \in Lists : Ages(k) \subseteq Nat
      BY SubtickNumbers DEF Ages
    <3> QED
      BY <3>1, <3>2
  <2> HIDE DEF left, open
  <2>6. left \in Times /\ open \in Times /\ \A k \in Lists : left[k] \subseteq open[k]
    BY <2>5 DEF Times
  <2>7. /\ e \in [times : Times, early : BOOLEAN, sent : Times, accused : SUBSET Accusing]
        /\ e.times = left /\ e.sent = open /\ e.accused = accused
    BY <1>1, <2>1, <2>3, <2>6
  <2>8. SubtickOK(e)
    BY <2>6, <2>7, SubtickData DEF SubtickOK
  <2>9. ASSUME NEW k \in Lists
        PROVE  /\ Cardinality(times[k]) <= SentLately(d, k)
               /\ Cardinality(times[k]) \in Nat /\ SentLately(d, k) \in Nat
    <3> DEFINE recent == {a \in d.sent[k] : a <= Window[k]}
    <3>1. times[k] \in SUBSET recent
      BY <1>1, <2>2 DEF times, Pruned
    <3>2. IsFiniteSet(recent)
      <4>1. recent \in SUBSET Ages(k)
        BY <1>1 DEF Times
      <4>2. IsFiniteSet(Ages(k))
        <5>1. 0 \in Int /\ Window[k] + 1 \in Int
          BY SubtickNumbers
        <5> QED
          BY <5>1, FS_Interval DEF Ages
      <4> QED
        BY <4>1, <4>2, FS_Subset
    <3> HIDE DEF recent
    <3>3. Cardinality(times[k]) <= Cardinality(recent) /\ IsFiniteSet(times[k])
      BY <3>1, <3>2, FS_Subset
    <3>4. Cardinality(times[k]) \in Nat /\ Cardinality(recent) \in Nat
      BY <3>2, <3>3, FS_CardinalityType
    <3> QED
      BY <3>3, <3>4 DEF SentLately, recent
  <2>10. ASSUME NEW k \in accused
         PROVE  Backed(d, k)
    <3>1. k \in Lists /\ Inputs \in Lists /\ Zero \in Lists
      BY <2>3 DEF Accusing, Lists
    <3>2. /\ Cardinality(times[k]) >= Threshold[k]
          /\ k = Inputs => 10 * Cardinality(times[Zero]) >= 9 * Cardinality(times[Inputs])
      BY <2>4 DEF Enough
    <3>3. SentLately(d, k) >= Threshold[k]
      BY <2>9, <3>1, <3>2, SubtickNumbers
    <3>4. ASSUME k = Inputs PROVE 10 * SentLately(d, Zero) >= 9 * Threshold[Inputs]
      <4> DEFINE zero == Cardinality(times[Zero])
                 inputs == Cardinality(times[Inputs])
                 sent == SentLately(d, Zero)
                 needed == Threshold[Inputs]
      <4>1. /\ zero <= sent /\ inputs >= needed /\ 10 * zero >= 9 * inputs
            /\ zero \in Nat /\ sent \in Nat /\ inputs \in Nat /\ needed \in Nat
        BY <2>9, <3>1, <3>2, <3>4, SubtickNumbers
      <4> HIDE DEF zero, inputs, sent, needed
      <4>2. 10 * sent >= 9 * needed
        BY <4>1
      <4> QED
        BY <4>2 DEF sent, needed
    <3> QED
      BY <3>3, <3>4 DEF Backed
  <2> QED
    BY <2>7, <2>8, <2>10 DEF e
<1> QED
  BY <1>1, <1>2, <1>3

-----------------------------------------------------------------------------
\* StrafeOptimizer.

LEMMA OptimizerNumbers == FrameHistory \in Nat \ {0} /\ OptimizerScore \in Nat \ {0}
BY OptimizerAssumption

OptimizerOK(d) ==
  /\ OptimizerTypeOK(d)
  /\ \A i \in 1..Len(d.frames) : d.frames[i] >= 1
  /\ d.score > 0 => d.frames # <<>> /\ d.countedFrom > 0
  /\ d.frames = <<>> => d.countedFrom = 0

\* Of commands that were seen from "since" on, as the last of which n came.
FramesUnbroken(d, n, since) ==
  /\ d.frames # <<>> =>
       IF since <= n THEN d.frames[Len(d.frames)] = n ELSE d.frames[Len(d.frames)] < n
  /\ since <= n => /\ \A i \in 1..Len(d.frames) : d.frames[i] >= since
                   /\ d.countedFrom > 0 => d.countedFrom >= since

LEMMA OptimizerCleanOK ==
  OptimizerOK(OptimizerClean) /\ \A n, since : FramesUnbroken(OptimizerClean, n, since)
<1>1. <<>> \in Seq(Nat) /\ Len(<<>>) = 0 /\ 1..0 = {} /\ 0 <= FrameHistory
  BY OptimizerNumbers
<1>2. /\ OptimizerClean.frames = <<>> /\ OptimizerClean.score = 0
      /\ OptimizerClean.countedFrom = 0
  BY DEF OptimizerClean
<1>3. OptimizerClean \in [frames : Seq(Nat), score : 0..(OptimizerScore - 1), countedFrom : Nat]
  <2>1. 0 \in 0..(OptimizerScore - 1) /\ 0 \in Nat
    BY OptimizerNumbers
  <2> QED
    BY <1>1, <2>1 DEF OptimizerClean
<1> QED
  BY <1>1, <1>2, <1>3 DEF OptimizerOK, OptimizerTypeOK, FramesUnbroken

\* A command is seen, the one after the last or one later.
Later(n, since, m) == IF m = n + 1 THEN since ELSE m

LEMMA WithFrameOK ==
  ASSUME NEW n \in Nat, NEW since \in 0..(n + 1), NEW m \in {n + 1, n + 2},
         NEW d, OptimizerOK(d), FramesUnbroken(d, n, since)
  PROVE  /\ OptimizerOK(WithFrame(d, m)) /\ WithFrame(d, m).frames # <<>>
         /\ FramesUnbroken(WithFrame(d, m), m, Later(n, since, m))
<1> DEFINE kept == IF Follows(d, m) THEN d ELSE OptimizerClean
           frames == Append(kept.frames, m)
           new == IF Len(frames) > FrameHistory THEN Tail(frames) ELSE frames
           e == WithFrame(d, m)
           from == Later(n, since, m)
<1>1. m \in Nat /\ m >= 1 /\ from \in Nat /\ from <= m
  BY DEF Later
<1>2. OptimizerOK(kept)
  BY OptimizerCleanOK
<1>3. /\ kept.frames \in Seq(Nat) /\ kept.score \in 0..(OptimizerScore - 1)
      /\ kept.countedFrom \in Nat /\ Len(kept.frames) \in Nat
      /\ Len(kept.frames) <= FrameHistory
      /\ kept \in [frames : Seq(Nat), score : 0..(OptimizerScore - 1), countedFrom : Nat]
  BY <1>2 DEF OptimizerOK, OptimizerTypeOK
<1>4. /\ \A i \in 1..Len(kept.frames) : kept.frames[i] >= from
      /\ kept.countedFrom > 0 => kept.countedFrom >= from
  <2>1. CASE kept.frames = <<>>
    <3>1. Len(kept.frames) = 0 /\ kept.countedFrom = 0
      BY <1>2, <2>1 DEF OptimizerOK
    <3> QED
      BY <3>1
  <2>2. CASE kept.frames # <<>>
    <3>1. kept = d /\ Follows(d, m)
      BY <2>2 DEF OptimizerClean
    <3>2. d.frames[Len(d.frames)] \in Nat
      <4>1. d.frames \in Seq(Nat) /\ Len(d.frames) \in 1..Len(d.frames)
        BY <1>3, <2>2, <3>1
      <4> QED
        BY <4>1
    <3>3. m = d.frames[Len(d.frames)] + 1
      BY <2>2, <3>1 DEF Follows
    <3>4. since <= n
      BY <2>2, <3>1, <3>2, <3>3 DEF FramesUnbroken
    <3>5. d.frames[Len(d.frames)] = n /\ m = n + 1
      BY <2>2, <3>1, <3>2, <3>3, <3>4 DEF FramesUnbroken
    <3>6. from = since
      BY <3>5 DEF Later
    <3> QED
      BY <3>1, <3>4, <3>6 DEF FramesUnbroken
  <2> QED
    BY <2>1, <2>2
<1>5. e = [kept EXCEPT !.frames = new]
  BY DEF WithFrame
<1> HIDE DEF kept, from
<1>6. /\ frames \in Seq(Nat) /\ Len(frames) = Len(kept.frames) + 1
      /\ \A i \in 1..Len(kept.frames) : frames[i] = kept.frames[i]
      /\ frames[Len(kept.frames) + 1] = m
  BY <1>1, <1>3, AppendProperties
<1> HIDE DEF frames
<1>7. \A i \in 1..Len(frames) : frames[i] >= from /\ frames[i] >= 1 /\ frames[i] \in Nat
  <2>1. \A i \in 1..Len(frames) : i \in 1..Len(kept.frames) \/ i = Len(kept.frames) + 1
    BY <1>3, <1>6
  <2>2. \A i \in 1..Len(kept.frames) : kept.frames[i] >= 1
    BY <1>2 DEF OptimizerOK
  <2>3. ASSUME NEW i \in 1..Len(kept.frames)
        PROVE  frames[i] >= from /\ frames[i] >= 1 /\ frames[i] \in Nat
    <3>1. kept.frames[i] \in Nat
      BY <1>3
    <3> QED
      BY <1>4, <1>6, <2>2, <3>1
  <2> QED
    BY <1>1, <1>6, <2>1, <2>3
<1>8. /\ new \in Seq(Nat) /\ Len(new) <= FrameHistory /\ new # <<>>
      /\ \A i \in 1..Len(new) : new[i] >= from /\ new[i] >= 1
      /\ new[Len(new)] = m
  <2>1. CASE Len(frames) > FrameHistory
    <3>1. new = Tail(frames) /\ frames # <<>> /\ Len(frames) >= 2
      BY <1>3, <1>6, <2>1, OptimizerNumbers
    <3> HIDE DEF new
    <3>2. /\ new \in Seq(Nat) /\ Len(new) = Len(frames) - 1
          /\ \A i \in 1..Len(new) : new[i] = frames[i + 1]
      BY <1>6, <3>1, HeadTailProperties
    <3>3. /\ \A i \in 1..Len(new) : i + 1 \in 1..Len(frames)
          /\ Len(new) \in 1..Len(new) /\ Len(new) + 1 = Len(kept.frames) + 1
          /\ Len(new) <= FrameHistory
      BY <1>3, <1>6, <3>1, <3>2
    <3>4. new # <<>>
      BY <3>3
    <3> QED
      BY <1>6, <1>7, <3>2, <3>3, <3>4
  <2>2. CASE ~(Len(frames) > FrameHistory)
    <3>1. new = frames
      BY <2>2
    <3>2. frames # <<>> /\ Len(frames) <= FrameHistory
      BY <1>3, <1>6, <2>2, OptimizerNumbers
    <3> QED
      BY <1>6, <1>7, <3>1, <3>2
  <2> QED
    BY <2>1, <2>2
<1> HIDE DEF new, e
<1>9. /\ e.frames = new /\ e.score = kept.score /\ e.countedFrom = kept.countedFrom
      /\ e \in [frames : Seq(Nat), score : 0..(OptimizerScore - 1), countedFrom : Nat]
  BY <1>3, <1>5, <1>8
<1>10. OptimizerOK(e)
  BY <1>2, <1>8, <1>9 DEF OptimizerOK, OptimizerTypeOK
<1>11. FramesUnbroken(e, m, from)
  BY <1>1, <1>4, <1>8, <1>9 DEF FramesUnbroken
<1> QED
  BY <1>8, <1>9, <1>10, <1>11 DEF e, from

LEMMA ScoredOK ==
  ASSUME NEW n \in Nat, NEW since \in Nat, since <= n, NEW s \in Nat,
         NEW d, OptimizerOK(d), FramesUnbroken(d, n, since), d.frames # <<>>
  PROVE  OptimizerOK(Scored(d, s)) /\ FramesUnbroken(Scored(d, s), n, since)
<1>1. CASE s >= OptimizerScore
  BY <1>1, OptimizerCleanOK DEF Scored
<1>2. CASE ~(s >= OptimizerScore)
  <2> DEFINE from == IF s = 0 THEN 0
                     ELSE IF d.countedFrom = 0 THEN d.frames[1] ELSE d.countedFrom
             e == Scored(d, s)
  <2>1. /\ d \in [frames : Seq(Nat), score : 0..(OptimizerScore - 1), countedFrom : Nat]
        /\ Len(d.frames) <= FrameHistory
    BY DEF OptimizerOK, OptimizerTypeOK
  <2>2. /\ d.frames[1] \in Nat /\ d.frames[1] >= 1 /\ d.frames[1] >= since
    <3>1. d.frames \in Seq(Nat) /\ 1 \in 1..Len(d.frames)
      BY <2>1
    <3> QED
      BY <3>1 DEF OptimizerOK, FramesUnbroken
  <2>3. /\ from \in Nat /\ (s > 0 => from > 0) /\ (from > 0 => from >= since)
    <3>1. d.countedFrom \in Nat /\ (d.countedFrom > 0 => d.countedFrom >= since)
      BY <2>1 DEF FramesUnbroken
    <3> QED
      BY <2>2, <3>1
  <2>4. e = [d EXCEPT !.score = s, !.countedFrom = from]
    BY <1>2 DEF Scored
  <2> HIDE DEF from, e
  <2>5. s \in 0..(OptimizerScore - 1)
    BY <1>2, OptimizerNumbers
  <2>6. /\ e \in [frames : Seq(Nat), score : 0..(OptimizerScore - 1), countedFrom : Nat]
        /\ e.frames = d.frames /\ e.score = s /\ e.countedFrom = from
    BY <2>1, <2>3, <2>4, <2>5
  <2>7. OptimizerOK(e)
    BY <2>1, <2>3, <2>6 DEF OptimizerOK, OptimizerTypeOK
  <2>8. FramesUnbroken(e, n, since)
    BY <2>3, <2>6 DEF FramesUnbroken
  <2> QED
    BY <2>7, <2>8 DEF e
<1> QED
  BY <1>1, <1>2

LEMMA DetectOptimizationOK ==
  ASSUME NEW n \in Nat, NEW since \in 0..(n + 1), NEW m \in {n + 1, n + 2},
         NEW d, OptimizerOK(d), FramesUnbroken(d, n, since), NEW usable \in BOOLEAN,
         NEW e \in DetectOptimization(d, m, usable)
  PROVE  OptimizerOK(e) /\ FramesUnbroken(e, m, Later(n, since, m))
<1> DEFINE f == WithFrame(d, m)
           from == Later(n, since, m)
<1>1. m \in Nat /\ from \in Nat /\ from <= m
  BY DEF Later
<1>2. OptimizerOK(f) /\ FramesUnbroken(f, m, from) /\ f.frames # <<>>
  BY WithFrameOK
<1>3. \/ e = OptimizerClean
      \/ e = f
      \/ \E s \in UNION {Rolled(f.score, matched) : matched \in Matches} : e = Scored(f, s)
  BY DEF DetectOptimization
<1> HIDE DEF f, from
<1>4. ASSUME NEW s \in UNION {Rolled(f.score, matched) : matched \in Matches}, e = Scored(f, s)
      PROVE  OptimizerOK(e) /\ FramesUnbroken(e, m, from)
  <2>1. f.score \in Nat
    BY <1>2, OptimizerNumbers DEF OptimizerOK, OptimizerTypeOK
  <2>2. s \in Nat
    BY <1>4, <2>1 DEF Rolled, Matches
  <2> QED
    BY <1>1, <1>2, <1>4, <2>2, ScoredOK
<1> QED
  BY <1>2, <1>3, <1>4, OptimizerCleanOK DEF from

-----------------------------------------------------------------------------
\* Nulls.

LEMMA NullsNumbers == MaxEvents \in Nat \ {0} /\ MinEvents \in Nat \ {0}
BY NullsAssumption

LEMMA RemovedSeq ==
  ASSUME NEW S, NEW s \in Seq(S), NEW i \in 1..Len(s)
  PROVE  /\ RemoveAt(s, i) \in Seq(S) /\ Len(RemoveAt(s, i)) = Len(s) - 1
         /\ \A j \in 1..Len(RemoveAt(s, i)) : \E k \in 1..Len(s) : RemoveAt(s, i)[j] = s[k]
<1> DEFINE front == SubSeq(s, 1, i - 1)
           back == SubSeq(s, i + 1, Len(s))
<1>1. Len(s) \in Nat /\ i \in Int /\ i - 1 \in Int /\ i + 1 \in Int /\ 1 \in Int
  OBVIOUS
<1>2. \A j \in 1..(i - 1) : s[j] \in S
  BY <1>1
<1>3. /\ front \in Seq(S) /\ Len(front) = (IF 1 <= i - 1 THEN (i - 1) - 1 + 1 ELSE 0)
      /\ \A j \in 1..((i - 1) - 1 + 1) : front[j] = s[1 + j - 1]
  BY <1>1, <1>2, SubSeqProperties
<1>4. \A j \in (i + 1)..Len(s) : s[j] \in S
  BY <1>1
<1>5. /\ back \in Seq(S)
      /\ Len(back) = (IF i + 1 <= Len(s) THEN Len(s) - (i + 1) + 1 ELSE 0)
      /\ \A j \in 1..(Len(s) - (i + 1) + 1) : back[j] = s[(i + 1) + j - 1]
  BY <1>1, <1>4, SubSeqProperties
<1>6. RemoveAt(s, i) = front \o back
  BY DEF RemoveAt
<1> HIDE DEF front, back
<1>7. Len(front) = i - 1 /\ Len(back) = Len(s) - i
  BY <1>1, <1>3, <1>5
<1>8. /\ front \o back \in Seq(S) /\ Len(front \o back) = Len(front) + Len(back)
      /\ \A j \in 1..Len(front) + Len(back) :
           (front \o back)[j] = IF j <= Len(front) THEN front[j] ELSE back[j - Len(front)]
  BY <1>3, <1>5, ConcatProperties
<1>9. Len(front) + Len(back) = Len(s) - 1
  BY <1>1, <1>7
<1>10. ASSUME NEW j \in 1..(Len(s) - 1)
       PROVE  \E k \in 1..Len(s) : (front \o back)[j] = s[k]
  <2>1. CASE j <= Len(front)
    <3>1. (front \o back)[j] = front[j]
      BY <1>8, <1>9, <2>1
    <3>2. j \in 1..((i - 1) - 1 + 1) /\ 1 + j - 1 = j /\ j \in 1..Len(s)
      BY <1>1, <1>7, <2>1
    <3> QED
      BY <1>3, <3>1, <3>2
  <2>2. CASE ~(j <= Len(front))
    <3>1. (front \o back)[j] = back[j - Len(front)]
      BY <1>8, <1>9, <2>2
    <3>2. /\ j - Len(front) \in 1..(Len(s) - (i + 1) + 1)
          /\ (i + 1) + (j - Len(front)) - 1 \in 1..Len(s)
      BY <1>1, <1>7, <2>2
    <3> QED
      BY <1>5, <3>1, <3>2
  <2> QED
    BY <2>1, <2>2
<1> QED
  BY <1>6, <1>8, <1>9, <1>10

EventsFrom(events, low) == \A i \in 1..Len(events) : events[i].command >= low

\* The same of the events: what was not changed since was judged.
NullsJudged(d) == ~d.dirty => ~NullsInfraction(d.events)

NullsOK(d) ==
  /\ NullsTypeOK(d) /\ NullsJudged(d)
  /\ d.events # <<>> => d.last # Unknown

\* Of commands that were seen from "since" on, as the last of which n came.
EventsUnbroken(d, n, since) ==
  /\ d.last <= n
  /\ d.events # <<>> => IF since <= n THEN d.last = n ELSE d.last < n
  /\ since <= n => EventsFrom(d.events, since)

LEMMA NoEvents == ~NullsInfraction(<<>>) /\ \A low : EventsFrom(<<>>, low)
<1>1. Len(<<>>) = 0 /\ 1..0 = {} /\ ~(0 >= MinEvents)
  BY NullsNumbers
<1> QED
  BY <1>1 DEF NullsInfraction, EnoughEvents, EventsFrom

LEMMA NullsCleanOK ==
  NullsOK(NullsClean) /\ \A n \in Nat, since \in Nat : EventsUnbroken(NullsClean, n, since)
<1>1. NullsClean.events = <<>> /\ NullsClean.last = Unknown
  BY DEF NullsClean
<1>2. NullsTypeOK(NullsClean)
  <2>1. <<>> \in Seq(Event) /\ Len(<<>>) <= MaxEvents
    BY NullsNumbers
  <2> QED
    BY <2>1 DEF NullsClean, NullsTypeOK
<1>3. \A n \in Nat : Unknown <= n
  BY DEF Unknown
<1> QED
  BY <1>1, <1>2, <1>3, NoEvents DEF NullsOK, NullsJudged, EventsUnbroken

\* What a change to the events keeps.
EventsOK(d, low) == NullsTypeOK(d) /\ NullsJudged(d) /\ EventsFrom(d.events, low)

LEMMA RecordEventOK ==
  ASSUME NEW low \in Nat, NEW d, EventsOK(d, low),
         NEW event \in Event, event.command >= low
  PROVE  EventsOK(RecordEvent(d, event), low) /\ RecordEvent(d, event).last = d.last
<1> DEFINE same == {i \in 1..Len(d.events) :
                      /\ d.events[i].command = event.command /\ d.events[i].part = event.part
                      /\ d.events[i].button = event.button}
           added == Append(d.events, event)
           e == RecordEvent(d, event)
<1>1. /\ d \in [events : Seq(Event), dirty : BOOLEAN, last : Nat \union {Unknown}]
      /\ d.events \in Seq(Event) /\ Len(d.events) \in Nat /\ Len(d.events) <= MaxEvents
      /\ d.dirty \in BOOLEAN
  BY DEF EventsOK, NullsTypeOK
<1>2. \A f \in Event : f.command \in Nat /\ f.analog \in BOOLEAN
  BY DEF Event
<1>3. \A i \in 1..Len(d.events) : d.events[i] \in Event /\ d.events[i].command >= low
  BY <1>1 DEF EventsOK, EventsFrom
<1>4. ASSUME NEW events \in Seq(Event), Len(events) <= MaxEvents, EventsFrom(events, low),
             e = [d EXCEPT !.events = events, !.dirty = TRUE]
      PROVE  EventsOK(e, low) /\ e.last = d.last
  <2>1. /\ e \in [events : Seq(Event), dirty : BOOLEAN, last : Nat \union {Unknown}]
        /\ e.events = events /\ e.dirty = TRUE /\ e.last = d.last
    BY <1>1, <1>4
  <2> QED
    BY <1>4, <2>1 DEF EventsOK, NullsTypeOK, NullsJudged
<1>5. CASE same = {}
  <2> DEFINE new == IF Len(added) > MaxEvents THEN Tail(added) ELSE added
  <2>1. e = [d EXCEPT !.events = new, !.dirty = TRUE]
    BY <1>5 DEF RecordEvent
  <2>2. /\ added \in Seq(Event) /\ added # <<>> /\ Len(added) = Len(d.events) + 1
        /\ \A i \in 1..Len(d.events) : added[i] = d.events[i]
        /\ added[Len(d.events) + 1] = event
    BY <1>1, AppendProperties
  <2> HIDE DEF added
  <2>3. \A i \in 1..Len(added) : added[i].command >= low
    <3>1. \A i \in 1..Len(added) : i \in 1..Len(d.events) \/ i = Len(d.events) + 1
      BY <1>1, <2>2
    <3> QED
      BY <1>3, <2>2, <3>1
  <2>4. new \in Seq(Event) /\ Len(new) <= MaxEvents /\ EventsFrom(new, low)
    <3>1. CASE Len(added) > MaxEvents
      <4>1. new = Tail(added)
        BY <3>1
      <4> HIDE DEF new
      <4>2. /\ new \in Seq(Event) /\ Len(new) = Len(added) - 1
            /\ \A i \in 1..Len(new) : new[i] = added[i + 1]
        BY <2>2, <4>1, HeadTailProperties
      <4>3. /\ \A i \in 1..Len(new) : i + 1 \in 1..Len(added)
            /\ Len(new) <= MaxEvents
        BY <1>1, <2>2, <4>2
      <4> QED
        BY <2>3, <4>2, <4>3 DEF EventsFrom
    <3>2. CASE ~(Len(added) > MaxEvents)
      <4>1. new = added /\ Len(added) <= MaxEvents
        BY <1>1, <2>2, <3>2, NullsNumbers
      <4> QED
        BY <2>2, <2>3, <4>1 DEF EventsFrom
    <3> QED
      BY <3>1, <3>2
  <2> HIDE DEF new
  <2> QED
    BY <1>4, <2>1, <2>4
<1>6. CASE same # {}
  <2> DEFINE i == CHOOSE i \in same : TRUE
  <2>1. i \in same
    BY <1>6
  <2>2. i \in 1..Len(d.events)
    BY <2>1
  <2>3. e = IF d.events[i].pressed # event.pressed
            THEN [d EXCEPT !.events = RemoveAt(@, i), !.dirty = TRUE]
            ELSE [d EXCEPT !.events[i].analog = @ \/ event.analog,
                           !.dirty = @ \/ (event.analog /\ ~d.events[i].analog)]
    BY <1>6 DEF RecordEvent
  <2> HIDE DEF i
  <2>4. CASE d.events[i].pressed # event.pressed
    <3> DEFINE new == RemoveAt(d.events, i)
    <3>1. e = [d EXCEPT !.events = new, !.dirty = TRUE]
      BY <2>3, <2>4
    <3>2. /\ new \in Seq(Event) /\ Len(new) = Len(d.events) - 1
          /\ \A j \in 1..Len(new) : \E k \in 1..Len(d.events) : new[j] = d.events[k]
      BY <1>1, <2>2, RemovedSeq
    <3> HIDE DEF new
    <3>3. Len(new) <= MaxEvents
      BY <1>1, <3>2, NullsNumbers
    <3>4. EventsFrom(new, low)
      BY <1>3, <3>2 DEF EventsFrom
    <3> QED
      BY <1>4, <3>1, <3>2, <3>3, <3>4
  <2>5. CASE ~(d.events[i].pressed # event.pressed)
    <3> DEFINE f == [d.events[i] EXCEPT !.analog = d.events[i].analog \/ event.analog]
               new == [d.events EXCEPT ![i] = f]
               dirty == d.dirty \/ (event.analog /\ ~d.events[i].analog)
    <3>0. d.events[i] \in Event /\ event.analog \in BOOLEAN /\ d.events[i].analog \in BOOLEAN
      BY <1>2, <1>3, <2>2
    <3>1. e = [d EXCEPT !.events = new, !.dirty = dirty]
      BY <2>3, <2>5
    <3>2. f \in Event /\ f.command = d.events[i].command
      BY <3>0 DEF Event
    <3>3. (event.analog => d.events[i].analog) => f = d.events[i]
      BY <3>0 DEF Event
    <3> HIDE DEF f
    <3>4. /\ new \in Seq(Event) /\ Len(new) = Len(d.events)
          /\ \A j \in 1..Len(d.events) : new[j] = IF j = i THEN f ELSE d.events[j]
      BY <1>1, <2>2, <3>2, ExceptSeq
    <3> HIDE DEF new
    <3>5. Len(new) <= MaxEvents /\ EventsFrom(new, low)
      BY <1>1, <1>3, <2>2, <3>2, <3>4 DEF EventsFrom
    <3>6. dirty \in BOOLEAN /\ (~dirty => ~d.dirty /\ new = d.events)
      <4>1. ASSUME ~dirty
            PROVE  new = d.events
        <5>1. f = d.events[i]
          BY <3>0, <3>3, <4>1
        <5>2. \A j \in 1..Len(d.events) : new[j] = d.events[j]
          BY <3>4, <5>1
        <5> QED
          BY <1>1, <3>4, <5>2, SeqEqual
      <4> QED
        BY <1>1, <3>0, <4>1
    <3> HIDE DEF dirty
    <3>7. /\ e \in [events : Seq(Event), dirty : BOOLEAN, last : Nat \union {Unknown}]
          /\ e.events = new /\ e.dirty = dirty /\ e.last = d.last
      BY <1>1, <3>1, <3>4, <3>6
    <3> QED
      BY <3>5, <3>6, <3>7 DEF EventsOK, NullsTypeOK, NullsJudged
  <2> QED
    BY <2>4, <2>5
<1> QED
  BY <1>5, <1>6

ButtonStep == [part : Parts, button : Buttons, pressed : BOOLEAN, analog : BOOLEAN]

\* What a command may do to the buttons (ButtonSteps): two steps at the most.
FewSteps == {s \in Seq(ButtonStep) : Len(s) <= 2}

LEMMA FewStepsLengths ==
  ASSUME NEW steps \in FewSteps
  PROVE  /\ Len(steps) \in Nat /\ Len(steps) \in {0, 1, 2}
         /\ \A i \in 1..Len(steps) : steps[i] \in ButtonStep
<1>1. steps \in Seq(ButtonStep) /\ Len(steps) <= 2
  BY DEF FewSteps
<1>2. Len(steps) \in Nat /\ \A i \in 1..Len(steps) : steps[i] \in ButtonStep
  BY <1>1
<1>3. \A n \in Nat : n <= 2 => n \in {0, 1, 2}
  OBVIOUS
<1> QED
  BY <1>1, <1>2, <1>3

LEMMA StepIsOne ==
  ASSUME NEW part \in Parts, NEW button \in Buttons, NEW pressed \in BOOLEAN,
         NEW analog \in BOOLEAN
  PROVE  Step(part, button, pressed, analog) \in ButtonStep
BY DEF Step, ButtonStep

LEMMA OppositeButton == \A b \in Buttons : Opposite(b) \in Buttons
BY DEF Buttons, Opposite

LEMMA ShortSeqs ==
  ASSUME NEW S
  PROVE  /\ <<>> \in Seq(S) /\ Len(<<>>) = 0
         /\ \A a \in S : <<a>> \in Seq(S) /\ Len(<<a>>) = 1
         /\ \A a \in S, b \in S : <<a, b>> \in Seq(S) /\ Len(<<a, b>>) = 2
OBVIOUS

LEMMA ShortIsFew ==
  /\ <<>> \in FewSteps
  /\ \A a \in ButtonStep : <<a>> \in FewSteps
  /\ \A a \in ButtonStep, b \in ButtonStep : <<a, b>> \in FewSteps
BY ShortSeqs DEF FewSteps

LEMMA ButtonStepsAreFew ==
  ButtonSteps \subseteq FewSteps /\ (~Watched("buttons") => ButtonSteps = {<<>>})
<1> DEFINE direction == IF Cardinality(held) = 1 THEN CHOOSE b \in held : TRUE ELSE 0
           one(b, part) == Step(part, b, b \notin held, FALSE)
           both(part) == {<<one(b, 0), one(Opposite(b), part)>> : b \in Buttons}
           digital == {<<one(b, 0)>> : b \in Buttons} \union both(0) \union both(1)
           again == {<<one(b, 0), Step(0, b, b \in held, FALSE)>> : b \in Buttons}
           analog == {AnalogSteps(0, b, whole, direction) : b \in Buttons, whole \in BOOLEAN}
<1>1. ButtonSteps = IF Watched("buttons")
                    THEN {<<>>} \union digital \union again \union analog ELSE {<<>>}
  BY DEF ButtonSteps
<1>2. \A b \in Buttons, part \in Parts : one(b, part) \in ButtonStep
  BY StepIsOne
<1>3. 0 \in Parts /\ 1 \in Parts
  BY DEF Parts
<1>4. ASSUME NEW b \in Buttons
      PROVE  Step(0, b, b \in held, FALSE) \in ButtonStep
  <2>1. (b \in held) \in BOOLEAN /\ FALSE \in BOOLEAN
    OBVIOUS
  <2> QED
    BY <1>3, <2>1, StepIsOne
<1> HIDE DEF one
<1>5. \A part \in Parts : both(part) \subseteq FewSteps
  BY <1>2, <1>3, OppositeButton, ShortIsFew
<1>6. digital \subseteq FewSteps
  BY <1>2, <1>3, <1>5, ShortIsFew
<1>7. again \subseteq FewSteps
  BY <1>2, <1>3, <1>4, ShortIsFew
<1>8. ASSUME NEW b \in Buttons, NEW whole \in BOOLEAN
      PROVE  AnalogSteps(0, b, whole, direction) \in FewSteps
  <2> DEFINE release == Step(0, Opposite(b), FALSE, TRUE)
             press == Step(0, b, TRUE, TRUE)
             released == IF direction = Opposite(b) THEN <<release>> ELSE <<>>
             pressed == IF direction # b /\ (whole \/ released = <<>>) THEN <<press>> ELSE <<>>
  <2>1. AnalogSteps(0, b, whole, direction) = released \o pressed
    BY DEF AnalogSteps
  <2>2. release \in ButtonStep /\ press \in ButtonStep
    BY <1>3, StepIsOne, OppositeButton
  <2> HIDE DEF release, press, direction
  <2>3. /\ released \in Seq(ButtonStep) /\ Len(released) <= 1
        /\ pressed \in Seq(ButtonStep) /\ Len(pressed) <= 1
    BY <2>2, ShortSeqs
  <2> HIDE DEF released, pressed
  <2>4. released \o pressed \in Seq(ButtonStep) /\ Len(released \o pressed) <= 2
    <3>1. /\ released \o pressed \in Seq(ButtonStep)
          /\ Len(released \o pressed) = Len(released) + Len(pressed)
      BY <2>3, ConcatProperties
    <3>2. Len(released) \in Nat /\ Len(pressed) \in Nat
      BY <2>3
    <3> QED
      BY <2>3, <3>1, <3>2
  <2> QED
    BY <2>1, <2>4 DEF FewSteps, direction
<1> HIDE DEF direction
<1>9. analog \subseteq FewSteps
  BY <1>8
<1> HIDE DEF digital, again, analog
<1> QED
  BY <1>1, <1>6, <1>7, <1>9, ShortIsFew

\* The buttons after them.
LEMMA HeldAfterOK ==
  ASSUME NEW steps \in FewSteps, held \subseteq Buttons
  PROVE  HeldAfter(steps) \subseteq Buttons
<1> DEFINE after[i \in 0..Len(steps)] == IF i = 0 THEN held ELSE Moved(after[i - 1], steps[i])
           f == [i \in 0..Len(steps) |->
                   IF i = 0 THEN held
                   ELSE IF i = 1 THEN Moved(held, steps[1])
                   ELSE Moved(Moved(held, steps[1]), steps[2])]
           Fits(g) == g = [i \in 0..Len(steps) |->
                             IF i = 0 THEN held ELSE Moved(g[i - 1], steps[i])]
<1>1. HeldAfter(steps) = after[Len(steps)]
  BY DEF HeldAfter
<1>2. after = CHOOSE g : Fits(g)
  BY DEF after
<1>3. Len(steps) \in {0, 1, 2} /\ \A i \in 1..Len(steps) : steps[i] \in ButtonStep
  BY FewStepsLengths
<1>4. Fits(f)
  <2>1. ASSUME NEW i \in 0..Len(steps)
        PROVE  f[i] = IF i = 0 THEN held ELSE Moved(f[i - 1], steps[i])
    <3>1. i = 0 \/ i = 1 \/ i = 2
      BY <1>3
    <3>2. 0 \in 0..Len(steps) /\ (i = 2 => 1 \in 0..Len(steps))
      BY <1>3
    <3> QED
      BY <3>1, <3>2
  <2>2. f = [i \in 0..Len(steps) |-> f[i]]
    OBVIOUS
  <2> HIDE DEF f
  <2> QED
    BY <2>1, <2>2
<1> HIDE DEF after, f, Fits
<1>5. Fits(after)
  BY <1>2, <1>4, Zenon
<1>6. \A i \in 0..Len(steps) :
        after[i] = IF i = 0 THEN held ELSE Moved(after[i - 1], steps[i])
  BY <1>5 DEF Fits
<1>7. ASSUME NEW down \in SUBSET Buttons, NEW step \in ButtonStep
      PROVE  Moved(down, step) \subseteq Buttons
  <2>1. step.button \in Buttons
    BY DEF ButtonStep
  <2> QED
    BY <2>1 DEF Moved
<1>8. after[0] \in SUBSET Buttons
  BY <1>3, <1>6
<1>9. Len(steps) >= 1 => after[1] \in SUBSET Buttons
  <2>1. Len(steps) >= 1 => after[1] = Moved(after[0], steps[1]) /\ steps[1] \in ButtonStep
    BY <1>3, <1>6
  <2> QED
    BY <1>7, <1>8, <2>1
<1>10. Len(steps) >= 2 => after[2] \in SUBSET Buttons
  <2>1. Len(steps) >= 2 => /\ after[2] = Moved(after[1], steps[2]) /\ steps[2] \in ButtonStep
                           /\ Len(steps) >= 1
    BY <1>3, <1>6
  <2> QED
    BY <1>7, <1>9, <2>1
<1> QED
  BY <1>1, <1>3, <1>8, <1>9, <1>10

\* The steps of a command are recorded one after another.
LEMMA RecordedOK ==
  ASSUME NEW m \in Nat, NEW low \in Nat, low <= m, NEW d, d.last \in Int, ~(m <= d.last),
         EventsOK([Continued(d, m) EXCEPT !.last = m], low),
         [Continued(d, m) EXCEPT !.last = m].last = m,
         NEW steps \in FewSteps, NEW usable \in BOOLEAN, NEW fast \in BOOLEAN
  PROVE  LET e == CreateInputEvents(d, m, steps, usable, fast)
         IN /\ EventsOK(e, low) /\ e.last = m
            /\ steps = <<>> => e = [Continued(d, m) EXCEPT !.last = m]
<1> DEFINE e == CreateInputEvents(d, m, steps, usable, fast)
           event(step) ==
             [command |-> m, part |-> step.part, button |-> step.button,
              pressed |-> step.pressed, analog |-> step.analog, fast |-> fast /\ step.pressed]
           first == [Continued(d, m) EXCEPT !.last = m]
<1>1. CASE steps # <<>> /\ ~usable
  <2>1. e = [NullsClean EXCEPT !.last = m]
    BY <1>1 DEF CreateInputEvents
  <2>2. EventsOK(e, low) /\ e.last = m
    <3>1. /\ NullsClean \in [events : Seq(Event), dirty : BOOLEAN, last : Nat \union {Unknown}]
          /\ NullsClean.events = <<>> /\ Len(<<>>) <= MaxEvents
      BY NullsCleanOK DEF NullsOK, NullsTypeOK, NullsClean
    <3>2. /\ e \in [events : Seq(Event), dirty : BOOLEAN, last : Nat \union {Unknown}]
          /\ e.events = <<>> /\ e.last = m
      BY <2>1, <3>1
    <3> QED
      BY <3>1, <3>2, NoEvents DEF EventsOK, NullsTypeOK, NullsJudged
  <2> QED
    BY <1>1, <2>2
<1>2. CASE ~(steps # <<>> /\ ~usable)
  <2> DEFINE recorded[i \in 0..Len(steps)] ==
               IF i = 0 THEN [Continued(d, m) EXCEPT !.last = m]
               ELSE RecordEvent(recorded[i - 1], event(steps[i]))
             g == [i \in 0..Len(steps) |->
                     IF i = 0 THEN first
                     ELSE IF i = 1 THEN RecordEvent(first, event(steps[1]))
                     ELSE RecordEvent(RecordEvent(first, event(steps[1])), event(steps[2]))]
             Fits(h) == h = [i \in 0..Len(steps) |->
                               IF i = 0 THEN [Continued(d, m) EXCEPT !.last = m]
                               ELSE RecordEvent(h[i - 1], event(steps[i]))]
  <2>1. e = recorded[Len(steps)]
    BY <1>2 DEF CreateInputEvents
  <2>2. recorded = CHOOSE h : Fits(h)
    BY DEF recorded
  <2>3. \A step \in ButtonStep : event(step) \in Event /\ event(step).command = m
    BY DEF ButtonStep, Event
  <2>4. Len(steps) \in {0, 1, 2} /\ \A i \in 1..Len(steps) : steps[i] \in ButtonStep
    BY FewStepsLengths
  <2> HIDE DEF event
  <2>5. Fits(g)
    <3>1. ASSUME NEW i \in 0..Len(steps)
          PROVE  g[i] = IF i = 0 THEN [Continued(d, m) EXCEPT !.last = m]
                        ELSE RecordEvent(g[i - 1], event(steps[i]))
      <4>1. i = 0 \/ i = 1 \/ i = 2
        BY <2>4
      <4>2. 0 \in 0..Len(steps) /\ (i = 2 => 1 \in 0..Len(steps))
        BY <2>4
      <4> QED
        BY <4>1, <4>2
    <3>2. g = [i \in 0..Len(steps) |-> g[i]]
      OBVIOUS
    <3> HIDE DEF g
    <3> QED
      BY <3>1, <3>2
  <2> HIDE DEF recorded, g, Fits
  <2>6. Fits(recorded)
    BY <2>2, <2>5, Zenon
  <2>7. \A i \in 0..Len(steps) :
          recorded[i] = IF i = 0 THEN first ELSE RecordEvent(recorded[i - 1], event(steps[i]))
    BY <2>6 DEF Fits
  <2>8. EventsOK(first, low) /\ first.last = m
    OBVIOUS
  <2> HIDE DEF first
  <2> DEFINE OK(f) == EventsOK(f, low) /\ f.last = m
  <2>9. ASSUME NEW f, OK(f), NEW step \in ButtonStep
        PROVE  OK(RecordEvent(f, event(step)))
    <3>1. event(step) \in Event /\ event(step).command >= low
      BY <2>3
    <3> QED
      BY <2>9, <3>1, RecordEventOK
  <2>10. recorded[0] = first /\ OK(recorded[0])
    <3>1. 0 \in 0..Len(steps)
      BY <2>4
    <3>2. recorded[0] = first
      BY <2>7, <3>1, Zenon
    <3> QED
      BY <2>8, <3>2
  <2> HIDE DEF OK
  <2>11. Len(steps) >= 1 => OK(recorded[1])
    <3>1. Len(steps) >= 1 => /\ recorded[1] = RecordEvent(recorded[0], event(steps[1]))
                             /\ steps[1] \in ButtonStep
      BY <2>4, <2>7
    <3> QED
      BY <2>9, <2>10, <3>1
  <2>12. Len(steps) >= 2 => OK(recorded[2])
    <3>1. Len(steps) >= 2 => /\ recorded[2] = RecordEvent(recorded[1], event(steps[2]))
                             /\ steps[2] \in ButtonStep /\ Len(steps) >= 1
      BY <2>4, <2>7
    <3> QED
      BY <2>9, <2>11, <3>1
  <2> HIDE DEF e
  <2>13. OK(e)
    <3>1. CASE Len(steps) = 0
      BY <2>1, <2>10, <3>1
    <3>2. CASE Len(steps) = 1
      BY <2>1, <2>11, <3>2
    <3>3. CASE Len(steps) = 2
      BY <2>1, <2>12, <3>3
    <3> QED
      BY <2>4, <3>1, <3>2, <3>3
  <2>14. steps = <<>> => e = first
    BY <2>1, <2>10
  <2> QED
    BY <2>13, <2>14 DEF OK, first, e
<1> QED
  BY <1>1, <1>2

(***************************************************************************)
(* A command is looked at: whatever is kept of the events, it follows the  *)
(* last one that was looked at, and none was missed between.               *)
(***************************************************************************)
LEMMA CreateInputEventsOK ==
  ASSUME NEW n \in Nat, NEW since \in 0..(n + 1), NEW m \in {n + 1, n + 2},
         NEW d, NullsOK(d), EventsUnbroken(d, n, since),
         NEW steps \in FewSteps, NEW usable \in BOOLEAN, NEW fast \in BOOLEAN
  PROVE  LET e == CreateInputEvents(d, m, steps, usable, fast)
         IN /\ NullsOK(e) /\ EventsUnbroken(e, m, Later(n, since, m))
            /\ steps = <<>> /\ d.events = <<>> => e.events = <<>>
<1> DEFINE from == Later(n, since, m)
           e == CreateInputEvents(d, m, steps, usable, fast)
           first == [Continued(d, m) EXCEPT !.last = m]
<1>1. m \in Nat /\ from \in Nat /\ from <= m /\ m # Unknown
  BY DEF Later, Unknown
<1>2. /\ d \in [events : Seq(Event), dirty : BOOLEAN, last : Nat \union {Unknown}]
      /\ d.last <= n /\ Len(d.events) <= MaxEvents
  BY DEF NullsOK, NullsTypeOK, EventsUnbroken
<1>3. /\ d.last \in Int /\ ~(m <= d.last)
  BY <1>2 DEF Unknown
<1>4. /\ EventsOK(first, from) /\ first.last = m
      /\ d.events = <<>> => first.events = <<>>
  <2> DEFINE c == Continued(d, m)
  <2>1. NullsOK(c) /\ (d.events = <<>> => c.events = <<>>)
    BY NullsCleanOK DEF Continued, NullsClean
  <2>2. EventsFrom(c.events, from)
    <3>1. CASE c.events = <<>>
      BY <3>1, NoEvents
    <3>2. CASE c.events # <<>>
      <4>1. c = d /\ (d.last = Unknown \/ m = d.last + 1)
        BY <3>2 DEF Continued, NullsClean
      <4>2. d.last # Unknown
        BY <3>2, <4>1 DEF NullsOK
      <4>3. m = d.last + 1 /\ since <= n
        BY <1>3, <3>2, <4>1, <4>2 DEF EventsUnbroken
      <4>4. m = n + 1
        BY <3>2, <4>1, <4>3 DEF EventsUnbroken
      <4>5. from = since
        BY <4>4 DEF Later
      <4> QED
        BY <4>1, <4>3, <4>5 DEF EventsUnbroken
    <3> QED
      BY <3>1, <3>2
  <2> HIDE DEF c, from
  <2>3. /\ c \in [events : Seq(Event), dirty : BOOLEAN, last : Nat \union {Unknown}]
        /\ Len(c.events) <= MaxEvents
    BY <2>1 DEF NullsOK, NullsTypeOK
  <2>4. /\ first \in [events : Seq(Event), dirty : BOOLEAN, last : Nat \union {Unknown}]
        /\ first.events = c.events /\ first.dirty = c.dirty /\ first.last = m
    <3>1. first = [c EXCEPT !.last = m]
      BY DEF c
    <3> QED
      BY <1>1, <2>3, <3>1
  <2> QED
    BY <2>1, <2>2, <2>3, <2>4 DEF EventsOK, NullsOK, NullsJudged, NullsTypeOK
<1> HIDE DEF from
<1>5. EventsOK(e, from) /\ e.last = m /\ (steps = <<>> => e = first)
  BY <1>1, <1>3, <1>4, RecordedOK
<1> HIDE DEF e, first
<1>6. NullsOK(e) /\ EventsUnbroken(e, m, from)
  BY <1>1, <1>5 DEF EventsOK, NullsOK, EventsUnbroken
<1> QED
  BY <1>4, <1>5, <1>6 DEF e, from

LEMMA CheckNullsOK ==
  ASSUME NEW d, NullsOK(d)
  PROVE  /\ NullsOK(CheckNulls(d)) /\ CheckNulls(d).last = d.last
         /\ CheckNulls(d).events \in {<<>>, d.events}
<1> DEFINE left == IF NullsInfraction(d.events) THEN <<>> ELSE d.events
           e == [d EXCEPT !.dirty = FALSE, !.events = left]
<1>1. CASE ~d.dirty
  BY <1>1 DEF CheckNulls
<1>2. CASE d.dirty
  <2>1. CheckNulls(d) = e
    BY <1>2 DEF CheckNulls
  <2>2. /\ d \in [events : Seq(Event), dirty : BOOLEAN, last : Nat \union {Unknown}]
        /\ Len(d.events) <= MaxEvents
    BY DEF NullsOK, NullsTypeOK
  <2>3. left \in Seq(Event) /\ Len(left) <= MaxEvents /\ left \in {<<>>, d.events}
    BY <2>2, NullsNumbers
  <2>4. ~NullsInfraction(left)
    BY NoEvents
  <2> HIDE DEF left
  <2>5. /\ e \in [events : Seq(Event), dirty : BOOLEAN, last : Nat \union {Unknown}]
        /\ e.events = left /\ e.last = d.last
    BY <2>2, <2>3
  <2> HIDE DEF e
  <2>6. left # <<>> => d.last # Unknown
    BY <2>3 DEF NullsOK
  <2> QED
    BY <2>1, <2>3, <2>4, <2>5, <2>6 DEF NullsOK, NullsTypeOK, NullsJudged
<1> QED
  BY <1>1, <1>2

-----------------------------------------------------------------------------
\* The commands.

(***************************************************************************)
(* What is kept of the commands is of one unbroken run.  Whatever was kept *)
(* by a detector that the settings do not have any more, they have changed *)
(* since and it is forgotten with the next command.                        *)
(***************************************************************************)
CommandInv ==
  /\ number \in Nat /\ seenSince \in 0..(number + 1) /\ held \subseteq Buttons
  /\ NullsOK(nulls) /\ EventsUnbroken(nulls, number, seenSince)
  /\ OptimizerOK(optimizer) /\ FramesUnbroken(optimizer, number, seenSince)
  /\ SubtickOK(subtick)
  /\ ~revised =>
       /\ nulls.events # <<>> => Watched("buttons") /\ "NULLS" \in mask
       /\ optimizer.frames # <<>> => Watched("views") /\ "AUTOSTRAFE" \in mask

AccusedBacked == \A k \in subtick'.accused \ subtick.accused : Backed(subtick, k)

LEMMA NoEventsUnbroken ==
  ASSUME NEW d, d.events = <<>>, NEW n, d.last <= n, NEW since
  PROVE  EventsUnbroken(d, n, since)
BY NoEvents DEF EventsUnbroken

LEMMA NoFramesUnbroken ==
  ASSUME NEW d, OptimizerOK(d), d.frames = <<>>, NEW n, NEW since
  PROVE  FramesUnbroken(d, n, since)
<1>1. d.countedFrom = 0 /\ Len(d.frames) = 0 /\ 1..0 = {}
  BY DEF OptimizerOK
<1> QED
  BY <1>1 DEF FramesUnbroken

\* The numbers of the commands.
LEMMA CommandNumbers ==
  ASSUME CommandInv, NEW n \in Numbers
  PROVE  /\ n \in Nat /\ SeenSince(n) \in 0..(n + 1)
         /\ \/ /\ n = number /\ ~Watched("buttons") /\ ~Watched("views")
               /\ SeenSince(n) = seenSince
            \/ /\ n \in {number + 1, number + 2} /\ n # number
               /\ SeenSince(n) = IF Looks THEN Later(number, seenSince, n) ELSE n + 1
<1>1. number \in Nat /\ seenSince \in 0..(number + 1)
  BY DEF CommandInv
<1>2. \/ n = number /\ ~Watched("buttons") /\ ~Watched("views")
      \/ n \in {number + 1, number + 2}
  BY DEF Numbers
<1> QED
  BY <1>1, <1>2 DEF SeenSince, Later

LEMMA NullsCommand ==
  ASSUME CommandInv, GateTypeOK, NEW n \in Numbers, NEW steps \in ButtonSteps,
         NEW usable \in BOOLEAN, NEW fast \in BOOLEAN,
         nulls' = IF Looks /\ "NULLS" \in mask
                  THEN CreateInputEvents(AtCommand(nulls, NullsClean), n, steps, usable, fast)
                  ELSE AtCommand(nulls, NullsClean)
  PROVE  /\ NullsOK(nulls') /\ EventsUnbroken(nulls', n, SeenSince(n))
         /\ nulls'.events # <<>> => Watched("buttons") /\ "NULLS" \in mask
<1> DEFINE d == AtCommand(nulls, NullsClean)
<1>1. /\ NullsOK(d) /\ EventsUnbroken(d, number, seenSince)
      /\ d.events # <<>> => Watched("buttons") /\ "NULLS" \in mask
  <2>1. number \in Nat /\ seenSince \in Nat
    BY DEF CommandInv
  <2>2. CASE Refreshed \/ ~alive
    <3>1. d = NullsClean /\ NullsClean.events = <<>>
      BY <2>2 DEF AtCommand, NullsClean
    <3> QED
      BY <2>1, <3>1, NullsCleanOK
  <2>3. CASE ~(Refreshed \/ ~alive)
    <3>1. d = nulls
      BY <2>3 DEF AtCommand
    <3>2. ~revised
      BY <2>3 DEF Refreshed
    <3> QED
      BY <3>1, <3>2 DEF CommandInv
  <2> QED
    BY <2>2, <2>3
<1>2. nulls' = IF Looks /\ "NULLS" \in mask
               THEN CreateInputEvents(d, n, steps, usable, fast) ELSE d
  OBVIOUS
<1> HIDE DEF d
<1>3. d.last \in Int /\ d.last <= number
  <2>1. d.last \in Nat \union {Unknown} /\ d.last <= number
    BY <1>1 DEF NullsOK, NullsTypeOK, EventsUnbroken
  <2> QED
    BY <2>1 DEF Unknown
<1>4. steps \in FewSteps /\ (~Watched("buttons") => steps = <<>>)
  BY ButtonStepsAreFew
<1>5. number \in Nat /\ seenSince \in 0..(number + 1) /\ n \in Nat
  BY CommandNumbers DEF CommandInv
<1>6. CASE n = number
  <2>1. ~Watched("buttons") /\ SeenSince(n) = seenSince /\ steps = <<>> /\ d.events = <<>>
    BY <1>1, <1>4, <1>5, <1>6, CommandNumbers
  <2>2. CASE ~(Looks /\ "NULLS" \in mask)
    BY <1>1, <1>2, <1>6, <2>1, <2>2
  <2>3. CASE Looks /\ "NULLS" \in mask /\ n <= d.last
    <3>1. nulls' = d
      BY <1>2, <2>3 DEF CreateInputEvents
    <3> QED
      BY <1>1, <1>6, <2>1, <3>1
  <2>4. CASE Looks /\ "NULLS" \in mask /\ ~(n <= d.last)
    <3> DEFINE first == [Continued(d, n) EXCEPT !.last = n]
    <3>1. /\ NullsOK(Continued(d, n)) /\ Continued(d, n).events = <<>>
      BY <1>1, <2>1, NullsCleanOK DEF Continued, NullsClean
    <3>2. /\ Continued(d, n) \in
               [events : Seq(Event), dirty : BOOLEAN, last : Nat \union {Unknown}]
          /\ Len(Continued(d, n).events) <= MaxEvents
      BY <3>1 DEF NullsOK, NullsTypeOK
    <3>3. /\ first \in [events : Seq(Event), dirty : BOOLEAN, last : Nat \union {Unknown}]
          /\ first.events = <<>> /\ first.last = n /\ Len(first.events) <= MaxEvents
      BY <1>5, <3>1, <3>2
    <3>4. EventsOK(first, n)
      BY <3>3, NoEvents DEF EventsOK, NullsTypeOK, NullsJudged
    <3>5. n <= n
      BY <1>5
    <3>6. nulls' = CreateInputEvents(d, n, steps, usable, fast)
      BY <1>2, <2>4
    <3>7. nulls' = first
      <4>1. steps = <<>> =>
              CreateInputEvents(d, n, steps, usable, fast) = first
        BY <1>3, <1>4, <1>5, <2>4, <3>3, <3>4, <3>5, RecordedOK
      <4> QED
        BY <2>1, <3>6, <4>1
    <3> HIDE DEF first
    <3>8. NullsOK(first)
      BY <1>5, <3>3, <3>4 DEF EventsOK, NullsOK
    <3> QED
      BY <3>3, <3>5, <3>7, <3>8, NoEventsUnbroken
  <2> QED
    BY <2>2, <2>3, <2>4
<1>7. CASE n # number
  <2>1. /\ n \in {number + 1, number + 2}
        /\ SeenSince(n) = IF Looks THEN Later(number, seenSince, n) ELSE n + 1
    BY <1>7, CommandNumbers
  <2>2. d.last < n /\ d.last <= n
    BY <1>3, <1>5, <2>1
  <2>3. CASE Looks /\ "NULLS" \in mask
    <3>1. nulls' = CreateInputEvents(d, n, steps, usable, fast)
      BY <1>2, <2>3
    <3>2. /\ NullsOK(nulls') /\ EventsUnbroken(nulls', n, Later(number, seenSince, n))
          /\ steps = <<>> /\ d.events = <<>> => nulls'.events = <<>>
      <4> DEFINE e == CreateInputEvents(d, n, steps, usable, fast)
      <4>1. /\ NullsOK(e) /\ EventsUnbroken(e, n, Later(number, seenSince, n))
            /\ steps = <<>> /\ d.events = <<>> => e.events = <<>>
        BY <1>1, <1>4, <1>5, <2>1, CreateInputEventsOK
      <4> QED
        BY <3>1, <4>1
    <3>3. nulls'.events # <<>> => Watched("buttons")
      BY <1>1, <1>4, <3>2
    <3> QED
      BY <2>1, <2>3, <3>2, <3>3
  <2>4. CASE Looks /\ ~("NULLS" \in mask)
    <3>1. nulls' = d /\ d.events = <<>>
      BY <1>1, <1>2, <2>4
    <3> QED
      BY <1>1, <2>2, <3>1, NoEventsUnbroken
  <2>5. CASE ~Looks
    <3>1. nulls' = d /\ SeenSince(n) = n + 1 /\ ~(n + 1 <= n)
      BY <1>2, <1>5, <2>1, <2>5
    <3>2. EventsUnbroken(d, n, n + 1)
      BY <2>2, <3>1 DEF EventsUnbroken
    <3> QED
      BY <1>1, <3>1, <3>2
  <2> QED
    BY <2>3, <2>4, <2>5
<1> QED
  BY <1>6, <1>7

LEMMA OptimizerCommand ==
  ASSUME CommandInv, GateTypeOK, NEW n \in Numbers, NEW usable \in BOOLEAN,
         optimizer' \in
           IF Looks /\ "AUTOSTRAFE" \in mask
           THEN DetectOptimization(AtCommand(optimizer, OptimizerClean), n,
                                   Watched("views") /\ usable)
           ELSE {AtCommand(optimizer, OptimizerClean)}
  PROVE  /\ OptimizerOK(optimizer') /\ FramesUnbroken(optimizer', n, SeenSince(n))
         /\ optimizer'.frames # <<>> => Watched("views") /\ "AUTOSTRAFE" \in mask
<1> DEFINE d == AtCommand(optimizer, OptimizerClean)
           shows == Watched("views") /\ usable
<1>1. /\ OptimizerOK(d) /\ FramesUnbroken(d, number, seenSince)
      /\ d.frames # <<>> => Watched("views") /\ "AUTOSTRAFE" \in mask
  <2>1. CASE Refreshed \/ ~alive
    <3>1. d = OptimizerClean /\ OptimizerClean.frames = <<>>
      BY <2>1 DEF AtCommand, OptimizerClean
    <3> QED
      BY <3>1, OptimizerCleanOK
  <2>2. CASE ~(Refreshed \/ ~alive)
    <3>1. d = optimizer
      BY <2>2 DEF AtCommand
    <3>2. ~revised
      BY <2>2 DEF Refreshed
    <3> QED
      BY <3>1, <3>2 DEF CommandInv
  <2> QED
    BY <2>1, <2>2
<1>2. optimizer' \in IF Looks /\ "AUTOSTRAFE" \in mask
                     THEN DetectOptimization(d, n, shows) ELSE {d}
  OBVIOUS
<1>3. shows \in BOOLEAN /\ (~Watched("views") => ~shows)
  OBVIOUS
<1> HIDE DEF d, shows
<1>4. number \in Nat /\ seenSince \in 0..(number + 1) /\ n \in Nat
  BY CommandNumbers DEF CommandInv
<1>5. CASE optimizer' = OptimizerClean
  BY <1>5, OptimizerCleanOK DEF OptimizerClean
<1>6. CASE optimizer' = d /\ d.frames = <<>>
  BY <1>1, <1>6, NoFramesUnbroken
<1>7. CASE optimizer' # OptimizerClean /\ ~(optimizer' = d /\ d.frames = <<>>)
  <2>1. CASE Looks /\ "AUTOSTRAFE" \in mask
    <3>1. optimizer' \in DetectOptimization(d, n, shows)
      BY <1>2, <2>1
    <3>2. Watched("views")
      BY <1>3, <1>7, <3>1 DEF DetectOptimization
    <3>3. /\ n \in {number + 1, number + 2}
          /\ SeenSince(n) = Later(number, seenSince, n)
      BY <2>1, <3>2, CommandNumbers
    <3>4. OptimizerOK(optimizer') /\ FramesUnbroken(optimizer', n, Later(number, seenSince, n))
      BY <1>1, <1>3, <1>4, <3>1, <3>3, DetectOptimizationOK
    <3> QED
      BY <2>1, <3>2, <3>3, <3>4
  <2>2. CASE ~(Looks /\ "AUTOSTRAFE" \in mask)
    <3>1. optimizer' = d /\ d.frames # <<>>
      BY <1>2, <1>7, <2>2
    <3>2. Watched("views") /\ "AUTOSTRAFE" \in mask /\ ~Looks
      BY <1>1, <2>2, <3>1
    <3>3. n \in {number + 1, number + 2} /\ SeenSince(n) = n + 1
      BY <3>2, CommandNumbers
    <3>4. d.frames[Len(d.frames)] < n
      <4>1. d.frames[Len(d.frames)] \in Nat
        <5>1. d.frames \in Seq(Nat)
          BY <1>1 DEF OptimizerOK, OptimizerTypeOK
        <5>2. Len(d.frames) \in 1..Len(d.frames)
          BY <3>1, <5>1
        <5> QED
          BY <5>1, <5>2
      <4>2. \/ d.frames[Len(d.frames)] = number
            \/ d.frames[Len(d.frames)] < number
        BY <1>1, <3>1 DEF FramesUnbroken
      <4> QED
        BY <1>4, <3>3, <4>1, <4>2
    <3>5. ~(n + 1 <= n)
      BY <1>4
    <3>6. FramesUnbroken(d, n, n + 1)
      BY <3>4, <3>5 DEF FramesUnbroken
    <3> QED
      BY <1>1, <3>1, <3>2, <3>3, <3>6
  <2> QED
    BY <2>1, <2>2
<1> QED
  BY <1>5, <1>6, <1>7

LEMMA SubtickCommand ==
  ASSUME SubtickOK(subtick), NEW shown,
         LET then == IF Refreshed THEN SubtickReset(subtick)
                     ELSE AtCommand(subtick, SubtickCleared(subtick))
         IN subtick' = IF Looks THEN CheckSubtickAbuse(then, shown, mask) ELSE then
  PROVE  SubtickOK(subtick') /\ subtick'.accused = subtick.accused
<1> DEFINE then == IF Refreshed THEN SubtickReset(subtick)
                   ELSE AtCommand(subtick, SubtickCleared(subtick))
<1>1. SubtickOK(then) /\ then.accused = subtick.accused
  BY SubtickClearedOK DEF AtCommand
<1>2. subtick' = IF Looks THEN CheckSubtickAbuse(then, shown, mask) ELSE then
  OBVIOUS
<1> HIDE DEF then
<1> QED
  BY <1>1, <1>2, CheckSubtickAbuseOK

LEMMA CommandStep ==
  ASSUME CommandInv, GateTypeOK, OnSetupMove
  PROVE  CommandInv' /\ AccusedBacked
<1>1. Command /\ mask' = mask
  BY DEF OnSetupMove
<1>2. PICK n \in Numbers, steps \in ButtonSteps,
           usable \in IF Watched("movement") THEN {TRUE} ELSE BOOLEAN,
           fast \in IF Watched("buttons") THEN BOOLEAN ELSE {FALSE},
           shown \in IF Watched("subticks") THEN Shows ELSE {{}} :
             CommandSeen(n, steps, usable, fast, shown)
  BY <1>1, Zenon DEF Command
<1>3. usable \in BOOLEAN /\ fast \in BOOLEAN
  OBVIOUS
<1>4. /\ nulls' = IF Looks /\ "NULLS" \in mask
                  THEN CreateInputEvents(AtCommand(nulls, NullsClean), n, steps, usable, fast)
                  ELSE AtCommand(nulls, NullsClean)
      /\ LET then == IF Refreshed THEN SubtickReset(subtick)
                     ELSE AtCommand(subtick, SubtickCleared(subtick))
         IN subtick' = IF Looks THEN CheckSubtickAbuse(then, shown, mask) ELSE then
      /\ optimizer' \in
           IF Looks /\ "AUTOSTRAFE" \in mask
           THEN DetectOptimization(AtCommand(optimizer, OptimizerClean), n,
                                   Watched("views") /\ usable)
           ELSE {AtCommand(optimizer, OptimizerClean)}
      /\ number' = n /\ held' = HeldAfter(steps) /\ seenSince' = SeenSince(n)
  BY <1>2, Zenon DEF CommandSeen
<1>5. number' \in Nat /\ seenSince' \in 0..(number' + 1)
  BY <1>4, CommandNumbers
<1>6. held' \subseteq Buttons
  BY <1>4, ButtonStepsAreFew, HeldAfterOK DEF CommandInv
<1>7. /\ NullsOK(nulls') /\ EventsUnbroken(nulls', number', seenSince')
      /\ nulls'.events # <<>> => Watched("buttons") /\ "NULLS" \in mask
  BY <1>3, <1>4, NullsCommand
<1>8. /\ OptimizerOK(optimizer') /\ FramesUnbroken(optimizer', number', seenSince')
      /\ optimizer'.frames # <<>> => Watched("views") /\ "AUTOSTRAFE" \in mask
  BY <1>3, <1>4, OptimizerCommand
<1>9. SubtickOK(subtick') /\ subtick'.accused = subtick.accused
  BY <1>4, SubtickCommand DEF CommandInv
<1>10. /\ Watched("buttons")' = Watched("buttons") /\ Watched("views")' = Watched("views")
  BY <1>1 DEF Watched
<1>11. CommandInv'
  BY <1>1, <1>5, <1>6, <1>7, <1>8, <1>9, <1>10 DEF CommandInv
<1>12. AccusedBacked
  BY <1>9 DEF AccusedBacked
<1> QED
  BY <1>11, <1>12

LEMMA JudgementStep ==
  ASSUME CommandInv, GateTypeOK, OnPhysicsSimulatePost
  PROVE  CommandInv' /\ AccusedBacked
<1>1. /\ nulls' = IF revised THEN NullsClean
                  ELSE IF available /\ alive /\ "NULLS" \in mask THEN CheckNulls(nulls)
                  ELSE nulls
      /\ subtick' = IF revised THEN SubtickReset(subtick)
                    ELSE IF available /\ alive
                    THEN CheckSuspiciousSubtickCommands(subtick, mask) ELSE subtick
      /\ optimizer' = IF revised THEN OptimizerClean ELSE optimizer
      /\ UNCHANGED <<mask, number, held, seenSince>>
  BY Zenon DEF OnPhysicsSimulatePost
<1>2. /\ number \in Nat /\ seenSince \in 0..(number + 1) /\ seenSince \in Nat
      /\ held \subseteq Buttons
  BY DEF CommandInv
<1>3. /\ NullsOK(nulls') /\ EventsUnbroken(nulls', number, seenSince)
      /\ nulls'.events # <<>> => ~revised /\ nulls.events # <<>>
  <2>1. CASE revised
    <3>1. nulls' = NullsClean /\ NullsClean.events = <<>>
      BY <1>1, <2>1 DEF NullsClean
    <3> QED
      BY <1>2, <3>1, NullsCleanOK
  <2>2. CASE ~revised /\ nulls' = CheckNulls(nulls)
    <3>1. /\ NullsOK(nulls') /\ nulls'.last = nulls.last
          /\ nulls'.events \in {<<>>, nulls.events}
      BY <2>2, CheckNullsOK DEF CommandInv
    <3>2. EventsUnbroken(nulls, number, seenSince)
      BY DEF CommandInv
    <3> QED
      BY <2>2, <3>1, <3>2, NoEvents DEF EventsUnbroken
  <2>3. CASE ~revised /\ nulls' = nulls
    BY <2>3 DEF CommandInv
  <2> QED
    BY <1>1, <2>1, <2>2, <2>3
<1>4. /\ OptimizerOK(optimizer') /\ FramesUnbroken(optimizer', number, seenSince)
      /\ optimizer'.frames # <<>> => ~revised /\ optimizer.frames # <<>>
  <2>1. CASE revised
    BY <1>1, <2>1, OptimizerCleanOK DEF OptimizerClean
  <2>2. CASE ~revised
    BY <1>1, <2>2 DEF CommandInv
  <2> QED
    BY <2>1, <2>2
<1>5. SubtickOK(subtick') /\ AccusedBacked
  <2>1. SubtickOK(subtick)
    BY DEF CommandInv
  <2>2. CASE subtick' = SubtickReset(subtick)
    BY <2>1, <2>2, SubtickClearedOK DEF AccusedBacked
  <2>3. CASE subtick' = CheckSuspiciousSubtickCommands(subtick, mask)
    BY <2>1, <2>3, CheckSuspiciousOK DEF AccusedBacked
  <2>4. CASE subtick' = subtick
    BY <2>1, <2>4 DEF AccusedBacked
  <2> QED
    BY <1>1, <2>2, <2>3, <2>4
<1>6. Watched("buttons")' = Watched("buttons") /\ Watched("views")' = Watched("views")
  BY <1>1 DEF Watched
<1>7. CommandInv'
  <2>1. /\ nulls'.events # <<>> => Watched("buttons") /\ "NULLS" \in mask
        /\ optimizer'.frames # <<>> => Watched("views") /\ "AUTOSTRAFE" \in mask
    BY <1>3, <1>4 DEF CommandInv
  <2> QED
    BY <1>1, <1>2, <1>3, <1>4, <1>5, <1>6, <2>1 DEF CommandInv
<1> QED
  BY <1>5, <1>7

LEMMA CommandCleared ==
  ASSUME UNCHANGED mask, number' = 0, held' = {}, seenSince' = 0,
         nulls' = NullsClean, subtick' = SubtickClean, optimizer' = OptimizerClean
  PROVE  CommandInv'
<1>1. 0 \in Nat /\ 0 \in 0..(0 + 1)
  OBVIOUS
<1>2. NullsOK(nulls') /\ EventsUnbroken(nulls', number', seenSince') /\ nulls'.events = <<>>
  BY <1>1, NullsCleanOK DEF NullsClean
<1>3. /\ OptimizerOK(optimizer') /\ FramesUnbroken(optimizer', number', seenSince')
      /\ optimizer'.frames = <<>>
  BY OptimizerCleanOK DEF OptimizerClean
<1> QED
  BY <1>1, <1>2, <1>3, SubtickCleanOK DEF CommandInv

LEMMA OtherCommandStep ==
  ASSUME CommandInv, GateTypeOK, OnPhysicsSimulate \/ Movement \/ Environment
  PROVE  CommandInv' /\ AccusedBacked
<1> DEFINE data == <<nulls, optimizer, number, held, seenSince>>
<1>1. ASSUME UNCHANGED data, UNCHANGED <<mask, revised>>, SubtickOK(subtick'),
             subtick'.accused \subseteq subtick.accused
      PROVE  CommandInv' /\ AccusedBacked
  <2>1. Watched("buttons")' = Watched("buttons") /\ Watched("views")' = Watched("views")
    BY <1>1 DEF Watched
  <2>2. AccusedBacked
    BY <1>1 DEF AccusedBacked
  <2> QED
    BY <1>1, <2>1, <2>2 DEF CommandInv
<1>2. SubtickOK(subtick)
  BY DEF CommandInv
<1>3. CASE OnPhysicsSimulate
  <2>1. UNCHANGED data /\ UNCHANGED <<mask, revised>> /\ subtick' = SubtickTick(subtick)
    BY <1>3 DEF OnPhysicsSimulate, gateVars
  <2> QED
    BY <1>1, <1>2, <2>1, SubtickTickOK
<1>4. CASE Movement \/ Teleport \/ MoveTypeSet
  <2>1. UNCHANGED otherVars
    BY <1>4, Zenon DEF Movement, OnProcessMovement, OnCategorizePosition, OnGrabLadder,
                       OnLeaveLadder, OnJump, OnAirMove, OnWalkMove, OnOtherMove,
                       OnProcessMovementPost, Teleport, MoveTypeSet
  <2> QED
    BY <1>1, <1>2, <2>1 DEF otherVars, gateVars, commandVars
<1>5. CASE AvailabilityChanged \/ Die \/ Spawn
  <2>1. UNCHANGED <<mask, revised, commandVars>>
    BY <1>5 DEF AvailabilityChanged, Die, Spawn
  <2> QED
    BY <1>1, <1>2, <2>1 DEF commandVars
<1>6. CASE ActiveCheck
  <2>1. /\ UNCHANGED data /\ UNCHANGED <<mask, revised>>
        /\ subtick' = [subtick EXCEPT !.early = FALSE]
    BY <1>6 DEF ActiveCheck, gateVars
  <2>2. SubtickOK(subtick') /\ subtick'.accused = subtick.accused
    <3>1. /\ subtick \in
               [times : Times, early : BOOLEAN, sent : Times, accused : SUBSET Accusing]
          /\ \A k \in Lists : subtick.times[k] \subseteq subtick.sent[k]
      BY <1>2, SubtickData DEF SubtickOK
    <3>2. /\ subtick' \in
               [times : Times, early : BOOLEAN, sent : Times, accused : SUBSET Accusing]
          /\ subtick'.times = subtick.times /\ subtick'.sent = subtick.sent
          /\ subtick'.accused = subtick.accused
      BY <2>1, <3>1
    <3> QED
      BY <3>1, <3>2, SubtickData DEF SubtickOK
  <2> QED
    BY <1>1, <2>1, <2>2
<1>7. CASE SettingsChanged
  <2>1. UNCHANGED commandVars /\ revised' = TRUE
    BY <1>7 DEF SettingsChanged
  <2> QED
    BY <2>1 DEF CommandInv, AccusedBacked, commandVars
<1>8. CASE OnClientDisconnect
  <2>1. /\ UNCHANGED mask /\ number' = 0 /\ held' = {} /\ seenSince' = 0
        /\ nulls' = NullsClean /\ subtick' = SubtickClean /\ optimizer' = OptimizerClean
    BY <1>8 DEF OnClientDisconnect
  <2>2. AccusedBacked
    BY <2>1, SubtickCleanOK DEF AccusedBacked
  <2> QED
    BY <2>1, <2>2, CommandCleared
<1> QED
  BY <1>3, <1>4, <1>5, <1>6, <1>7, <1>8 DEF Environment

-----------------------------------------------------------------------------
\* Everything together.

IInv == GateTypeOK /\ GateInv /\ AnalysisInv /\ BhopInv /\ CommandInv

LEMMA Initially == Init => IInv
<1> SUFFICES ASSUME Init PROVE IInv
  OBVIOUS
<1>1. GateTypeOK /\ GateInv
  <2>1. 0 \in 0..MaxMoves /\ Grace \in 0..Grace
    BY MovementNumbers
  <2> QED
    BY <2>1 DEF Init, MovementInit, GateTypeOK, MovementTypeOK, GateInv, Stages, MoveTypes
<1>2. AnalysisInv
  BY NoAnalysisOK DEF Init, MovementInit, AnalysisInv
<1>3. BhopInv
  <2>1. /\ <<>> \in Seq(0..(PatternWindow + 1)) /\ <<>> \in Seq(LandingEvent)
        /\ Len(<<>>) <= MaxPresses /\ 0 \in 0..MinAirTime /\ Grace \in 0..Grace
    BY BhopNumbers, MovementNumbers
  <2>2. BhopOK
    BY <2>1 DEF Init, BhopInit, BhopOK, BhopTypeOK
  <2> QED
    BY <2>2, NoLandings
    DEF Init, BhopInit, MovementInit, BhopInv, LandingsInv, LandingsJudged, BoundInv
<1>4. CommandInv
  <2>1. 0 \in Nat /\ 0 \in 0..(0 + 1)
    OBVIOUS
  <2>2. /\ number = 0 /\ held = {} /\ seenSince = 0
        /\ nulls = NullsClean /\ subtick = SubtickClean /\ optimizer = OptimizerClean
    BY DEF Init
  <2>3. NullsOK(nulls) /\ EventsUnbroken(nulls, number, seenSince) /\ nulls.events = <<>>
    BY <2>1, <2>2, NullsCleanOK DEF NullsClean
  <2>4. /\ OptimizerOK(optimizer) /\ FramesUnbroken(optimizer, number, seenSince)
        /\ optimizer.frames = <<>>
    BY <2>2, OptimizerCleanOK DEF OptimizerClean
  <2> QED
    BY <2>1, <2>2, <2>3, <2>4, SubtickCleanOK DEF CommandInv
<1> QED
  BY <1>1, <1>2, <1>3, <1>4 DEF IInv

LEMMA EveryStep ==
  ASSUME IInv, Next
  PROVE  IInv' /\ AccusedNow /\ RaisedInOneBound /\ AccusedBacked
<1>1. GateTypeOK' /\ GateInv'
  BY GateStep DEF IInv
<1>2. AnalysisInv' /\ AccusedNow
  BY AnalysisStep DEF IInv
<1>3. BhopInv' /\ RaisedInOneBound
  BY BhopStep DEF IInv
<1>4. CommandInv' /\ AccusedBacked
  BY CommandStep, JudgementStep, OtherCommandStep, Zenon DEF IInv, Next
<1> QED
  BY <1>1, <1>2, <1>3, <1>4 DEF IInv

LEMMA Stutter ==
  ASSUME IInv, UNCHANGED vars
  PROVE  IInv'
<1>1. UNCHANGED movementVars /\ UNCHANGED bhopVars /\ analysis' = analysis
      /\ UNCHANGED gateVars /\ UNCHANGED commandVars
  BY DEF vars, otherVars
<1>2. GateTypeOK' /\ GateInv'
  BY GateStep DEF IInv
<1>3. AnalysisInv'
  BY <1>1 DEF IInv, AnalysisInv, movementVars
<1>4. BhopInv'
  BY <1>1 DEF IInv, BhopInv, BhopOK, BhopTypeOK, LandingsInv, LandingsJudged, BoundInv, Tracking,
              movementVars, bhopVars, gateVars
<1>5. CommandInv'
  BY <1>1 DEF IInv, CommandInv, Watched, gateVars, commandVars
<1> QED
  BY <1>2, <1>3, <1>4, <1>5 DEF IInv

(***************************************************************************)
(* The inductive invariant.                                                *)
(***************************************************************************)
THEOREM Invariance == Spec => []IInv
<1>1. IInv /\ [Next]_vars => IInv'
  BY EveryStep, Stutter
<1> QED
  BY Initially, <1>1, PTL DEF Spec

(***************************************************************************)
(* Whatever the callbacks do, every variable of the detectors keeps its    *)
(* type; no buffer outgrows its bound (MAX_ANGLE_FRAME_HISTORY,            *)
(* maxNullInputEvents, NUM_JUMPS_WINDOW_SIZE).                             *)
(***************************************************************************)
THEOREM TypeCorrect == Spec => []TypeOK
<1>1. IInv => TypeOK
  BY DEF IInv, GateTypeOK, AnalysisInv, AnalysisOK, BhopInv, BhopOK, CommandInv, NullsOK,
         OptimizerOK, SubtickOK, TypeOK
<1> QED
  BY <1>1, Invariance, PTL

(***************************************************************************)
(* Whenever nothing is left to judge, there is nothing to find among the   *)
(* landings or the button events (CheckLandingEvents, CheckNulls).         *)
(***************************************************************************)
THEOREM NothingIsMissed == Spec => []CleanMeansJudged
<1>1. IInv => CleanMeansJudged
  BY DEF IInv, BhopInv, LandingsInv, LandingsJudged, CommandInv, NullsOK, NullsJudged,
         CleanMeansJudged
<1> QED
  BY <1>1, Invariance, PTL

(***************************************************************************)
(* Every jump that counts was seen from its takeoff to its landing, and    *)
(* nothing but the player moved him meanwhile.                             *)
(***************************************************************************)
THEOREM OnlyWholeJumpsCount == Spec => []JumpsAreWhole
<1>1. IInv => JumpsAreWhole
  BY DEF IInv, AnalysisInv, AnalysisOK, JumpsAreWhole
<1> QED
  BY <1>1, Invariance, PTL

(***************************************************************************)
(* What the two detectors that compare commands know is of one unbroken    *)
(* run of commands, whatever was lost or not looked at.                    *)
(***************************************************************************)
THEOREM NothingIsComparedAcrossAGap == Spec => []EvidenceIsUnbroken
<1>1. IInv => EvidenceIsUnbroken
  BY DEF IInv, CommandInv, EventsUnbroken, EventsFrom, FramesUnbroken, OptimizerOK,
         EvidenceIsUnbroken
<1> QED
  BY <1>1, Invariance, PTL

(***************************************************************************)
(* A landing becomes a perfect bhop only by a jump that follows it through *)
(* the air, and only the latest one does (OnJump, OnProcessMovementPost).  *)
(***************************************************************************)
THEOREM OnlyBoundsAreBhops == Spec => PerfectInOneBound
<1>1. IInv /\ [Next]_vars =>
        [\A i \in 1..Len(landings) :
           (/\ Len(landings') = Len(landings)
            /\ landings'[i].perfect /\ ~landings[i].perfect) =>
             (i = Len(landings) /\ ~strayed)]_vars
  BY EveryStep DEF RaisedInOneBound
<1> QED
  BY <1>1, Invariance, PTL DEF Spec, PerfectInOneBound

(***************************************************************************)
(* He is accused of his jumps only under the settings that were looked at  *)
(* last, and while the detection is available.                             *)
(***************************************************************************)
THEOREM NoJumpAccusesUnderOtherSettings == Spec => AccusedUnderTheseSettings
<1>1. IInv /\ [Next]_vars => [analysis'.accused => ~revised /\ Analysing]_vars
  BY EveryStep DEF AccusedNow
<1> QED
  BY <1>1, Invariance, PTL DEF Spec, AccusedUnderTheseSettings

(***************************************************************************)
(* Who is accused for his commands did send enough of them in time         *)
(* (CheckSuspiciousSubtickCommands).                                       *)
(***************************************************************************)
THEOREM OnlyEnoughCommandsAccuse == Spec => AccusationsAreBacked
<1>1. IInv /\ [Next]_vars => [\A k \in subtick'.accused \ subtick.accused : Backed(subtick, k)]_vars
  BY EveryStep DEF AccusedBacked
<1> QED
  BY <1>1, Invariance, PTL DEF Spec, AccusationsAreBacked

=============================================================================
