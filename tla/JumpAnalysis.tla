---------------------------- MODULE JumpAnalysis ----------------------------
(***************************************************************************)
(* AUTOSTRAFE by jumps (jump_analysis.cpp, jump_validating.cpp,            *)
(* jumps.cpp): the jumps of one player, each from its takeoff to its       *)
(* landing, and what became of those that counted.                         *)
(*                                                                         *)
(* A jump is thrown out if anything but the player moved him during it.    *)
(* The analysis stands still while the detection is not available, and     *)
(* starts anew after that.                                                 *)
(*                                                                         *)
(* An operator that a callback calls maps the state of the analysis to the *)
(* states it may leave behind, so that the callbacks (MovementDetection)   *)
(* can call one after another.                                             *)
(*                                                                         *)
(* Abstractions: whatever depends on positions, velocities and buttons is  *)
(* a choice: what kind of jump a takeoff could be, whether a movement      *)
(* spoils the jump, what the statistics of a jump amount to.  Of the jumps *)
(* before the present one only their number is kept: nothing else is read. *)
(***************************************************************************)
EXTENDS Naturals, SequencesExt

CONSTANTS
  MaxJumps,       \* the jumps that AddJump keeps, 3 in the source
  JumpWindow,     \* NUM_JUMPS_WINDOW_SIZE
  SuspiciousBase, \* BASE_SUSPICIOUS_JUMPS_THRESHOLD
  SuspiciousMin   \* MIN_SUSPICIOUS_JUMPS_THRESHOLD

ASSUME JumpAssumption ==
  /\ {MaxJumps, JumpWindow, SuspiciousBase, SuspiciousMin} \subseteq Nat \ {0}
  /\ SuspiciousMin <= SuspiciousBase /\ SuspiciousBase <= JumpWindow

VARIABLE analysis

\* JumpType, as far as it matters; MultiBhop is a bhop, and "special" the weird jump,
\* the jumps off ladders and the jumpbug.  Those from LongJump to Fall count.
Counting == {"long", "bhop", "special", "fall"}
JumpTypes == Counting \union {"other", "invalid"}

Jump ==
  [type : JumpTypes,
   valid : BOOLEAN,    \* also: there is no invalidateReason
   hitHead : BOOLEAN,
   ended : BOOLEAN,
   whole : BOOLEAN]    \* history: seen from its takeoff on, and his own

JumpStatus == {"normal", "high", "veryHigh"}

Analysis ==
  [active : BOOLEAN,         \* jumpAnalysisActive
   count : 0..MaxJumps,      \* jumps.Count()
   jump : Jump,              \* jumps.Tail()
   ladderHop : BOOLEAN,      \* ladderHopThisMove
   flown : BOOLEAN,          \* less than JS_MAX_NOCLIP_RESET_TIME since lastNoclipTime
   \* recentJumpStatuses; whole: history, of the jump
   statuses : Seq([status : JumpStatus, whole : BOOLEAN]),
   accused : BOOLEAN]        \* history: the last callback marked an infraction

NoJump ==
  [type |-> "invalid", valid |-> FALSE, hitHead |-> FALSE, ended |-> TRUE, whole |-> FALSE]

Reset(a) == [a EXCEPT !.count = 0, !.jump = NoJump, !.ladderHop = FALSE, !.flown = FALSE]

NoAnalysis ==
  [active |-> FALSE, count |-> 0, jump |-> NoJump, ladderHop |-> FALSE, flown |-> FALSE,
   statuses |-> <<>>, accused |-> FALSE]

\* The part of ClearDetectionBuffers.
Cleared(a) == [a EXCEPT !.statuses = <<>>]

\* A callback begins.
Quiet(a) == [a EXCEPT !.accused = FALSE]

-----------------------------------------------------------------------------
\* DetermineJumpType, of a jump after the one that is the last so far.

IsValid(jump) == jump.valid /\ jump.type \in Counting

\* He was on the ground for no time: it matters how the jump before went.
BhopTypes(a) ==
  IF a.jump.hitHead \/ ~IsValid(a.jump) THEN {"invalid"}
  ELSE {"other"} \union (IF a.jump.type \in {"long", "bhop"} THEN {"bhop"} ELSE {})
         \union (IF a.jump.type = "fall" /\ a.count > 1 THEN {"special"} ELSE {})

\* He had ducked down to the ground.
JumpbugTypes(a) ==
  {"invalid"} \union (IF IsValid(a.jump) /\ a.jump.type = "long" THEN {"special"} ELSE {})

DetermineJumpType(a, jumped, fromLadder, justTeleported) ==
  IF a.count = 0 \/ justTeleported THEN {"invalid"}
  ELSE IF fromLadder THEN {"invalid", "special"}
  ELSE IF ~jumped THEN {"fall"}
  ELSE {"long", "invalid"} \union BhopTypes(a) \union JumpbugTypes(a)

\* AddJump.
Added(a, type) ==
  [a EXCEPT !.count = IF a.count < MaxJumps THEN a.count + 1 ELSE a.count,
            !.jump = [type |-> type, valid |-> TRUE, hitHead |-> FALSE, ended |-> FALSE,
                      whole |-> TRUE]]

AddJump(a, jumped, fromLadder, justTeleported) ==
  IF a.ladderHop THEN {a}
  ELSE {[Added(a, type) EXCEPT !.ladderHop = fromLadder /\ jumped /\ type = "special"] :
          type \in DetermineJumpType(a, jumped, fromLadder, justTeleported)}

-----------------------------------------------------------------------------
\* The last jump, if it has not ended.

Flying(a) == a.count > 0 /\ ~a.jump.ended

\* InvalidateJumpAnalysis.
Invalidated(a) == IF Flying(a) THEN [a EXCEPT !.jump.valid = FALSE] ELSE a

\* History: something else moved him.
Spoiled(a) == IF Flying(a) THEN [a EXCEPT !.jump.whole = FALSE] ELSE a

\* Jump::End.  A collision, a strafe too many or an impossible length spoil the
\* jump; one without a strafe is FullInvalid.
Ended(jump) == {[jump EXCEPT !.ended = TRUE, !.valid = v, !.type = t] :
                  v \in {jump.valid, FALSE}, t \in {jump.type, "invalid"}}

-----------------------------------------------------------------------------
\* OnJumpFinish.

Suspicious(statuses) ==
  LET suspicious == Len(SelectSeq(statuses, LAMBDA s : s.status # "normal"))
  IN \/ suspicious >= SuspiciousBase
     \/ /\ suspicious >= SuspiciousMin
        /\ \E i \in 1..Len(statuses) : statuses[i].status = "veryHigh"

Recent(statuses) == IF Len(statuses) > JumpWindow THEN Tail(statuses) ELSE statuses

\* The jump is one more piece of evidence, and perhaps the last that was missing.
Judged(a, status) ==
  LET statuses == Recent(Append(a.statuses, [status |-> status, whole |-> a.jump.whole]))
  IN IF Suspicious(statuses) THEN [a EXCEPT !.statuses = <<>>, !.accused = TRUE]
     ELSE [a EXCEPT !.statuses = statuses]

\* A jump that was too short is rejected like one that does not count.
OnJumpFinish(a, analysing) ==
  IF ~analysing THEN {[a EXCEPT !.statuses = <<>>]}
  ELSE {a} \union (IF IsValid(a.jump) THEN {Judged(a, s) : s \in JumpStatus} ELSE {})

EndJump(a, analysing) ==
  IF ~Flying(a) THEN {a}
  ELSE UNION {LET b == [a EXCEPT !.jump = jump]
              IN OnJumpFinish(b, analysing) \union (IF jump.type = "invalid" THEN {b} ELSE {}) :
                jump \in Ended(a.jump)}

-----------------------------------------------------------------------------
\* What the callbacks call.  analysing: the detection is available.

StartTouchGround(a, analysing) == IF a.active THEN EndJump(a, analysing) ELSE {a}

StopTouchGround(a, jumped, fromLadder, justTeleported) ==
  IF a.active THEN AddJump(a, jumped, fromLadder, justTeleported) ELSE {a}

\* Off a ladder, whatever moved him off it, or onto one.
ChangeMoveTypeFrom(a, old, new, jumped, fromLadder, justTeleported, analysing) ==
  IF a.active /\ old = "ladder" /\ new = "walk"
    THEN AddJump(a, jumped, fromLadder, justTeleported)
  ELSE IF a.active /\ old = "walk" /\ new = "ladder" THEN EndJump(Invalidated(a), analysing)
  ELSE {a}

\* HandleTeleport.
HandleTeleport(a, analysing) ==
  IF a.active THEN EndJump(Invalidated(Spoiled(a)), analysing) ELSE {Spoiled(a)}

\* The first jump that is kept was not seen to start.
FirstJump(a) == Invalidated(Spoiled(Added(a, "invalid")))

\* Plausible bug: the jumps are kept while the analysis stands still.
JumpsKept(a) == Spoiled(a)

Standstill(a) == Reset(a)

\* CS2ACPlayer::OnProcessMovement, after the ground is settled.
AnalyzeMovement(a, analysing, moveType) ==
  LET b == [a EXCEPT !.active = analysing]
  IN IF ~analysing THEN {Standstill(b)}
     ELSE IF b.count = 0 THEN {FirstJump(b)}
     ELSE {Invalidated(b)} \union (IF moveType = "other" THEN {} ELSE {b})

\* UpdateJump: something may spoil the jump; having flown does, for a while.
UpdateJump(a) ==
  LET hit == IF IsValid(a.jump) THEN [a EXCEPT !.jump.hitHead = TRUE] ELSE a
  IN {Invalidated(a), Invalidated(hit)} \union (IF a.flown THEN {} ELSE {a, hit})

MovementOver(a, flown) == [a EXCEPT !.ladderHop = FALSE, !.flown = flown]

\* Whether he has flown lately, after this movement.
FlownAfter(a, moveType) ==
  {FALSE, a.flown} \union (IF moveType = "other" THEN {TRUE} ELSE {})

AnalyzeMovementPost(a, moveType) ==
  IF ~a.active THEN {a}
  ELSE UNION {{MovementOver(b, flown) : flown \in FlownAfter(a, moveType)} :
                b \in UpdateJump(a)}

=============================================================================
