-------------------------- MODULE MovementDetection --------------------------
(***************************************************************************)
(* The callbacks of one player (player_context.cpp) and what they do to    *)
(* the detectors that watch him move, BHOP and HYPERSCROLL (Bhop) and      *)
(* AUTOSTRAFE by jumps (JumpAnalysis), and to those that watch his         *)
(* commands, NULLS, the three of Subtick and AUTOSTRAFE by the turns of    *)
(* his view (StrafeOptimizer); gated by the settings, by                   *)
(* ShouldRunDetections and by his life (movement_detection.cpp).           *)
(*                                                                         *)
(* Settings change, cheats are switched and the server moves the player    *)
(* between two ticks; he is also teleported within one.                    *)
(*                                                                         *)
(* Abstractions: the settings are the detections that are enabled, and     *)
(* whether anything was changed since they were last looked at.            *)
(* MarkInfraction refreshes them once more; nothing has changed by then,   *)
(* as AccusedUnderTheseSettings says.                                      *)
(***************************************************************************)
EXTENDS Bhop, JumpAnalysis, Nulls, Subtick, StrafeOptimizer

CONSTANTS
  Masks,       \* the sets of detections that may be enabled
  NextMasks,   \* bound: what the settings may be changed to from each of them
  Varies,      \* bound: what he varies under each of them, for its detectors see no more
  MaxNumber    \* bound: of its commands

Detections ==
  {"BHOP", "HYPERSCROLL", "AUTOSTRAFE", "NULLS", "INVALID INPUT", "SUBTICK SPAM",
   "DESUBTICKING"}

ASSUME MasksAssumption ==
  /\ Masks # {} /\ \A m \in Masks : m \subseteq Detections
  /\ NextMasks \in [Masks -> SUBSET Masks]
  /\ Varies \in [Masks -> SUBSET {"movement", "buttons", "subticks", "views"}]
  /\ MaxNumber \in [Masks -> Nat]

VARIABLES
  mask,        \* the detections that are enabled
  revised,     \* they are not those of settingsMask and settingsRevision
  available,   \* ShouldRunDetections
  alive,
  nulls,       \* the data of Nulls
  subtick,     \* of Subtick
  optimizer,   \* of StrafeOptimizer
  number,      \* the last command of the client that was simulated
  held,        \* the buttons he holds: m_vecLastMovementImpulses is of one alone
  seenSince    \* history: from this command on the detectors have seen every one

gateVars == <<mask, revised, available, alive>>
commandVars == <<nulls, subtick, optimizer, number, held, seenSince>>
otherVars == <<gateVars, commandVars>>
vars == <<movementVars, bhopVars, analysis, otherVars>>

TypeOK ==
  /\ MovementTypeOK /\ BhopTypeOK
  /\ analysis \in Analysis /\ Len(analysis.statuses) <= JumpWindow
  /\ mask \in Masks
  /\ revised \in BOOLEAN /\ available \in BOOLEAN /\ alive \in BOOLEAN
  /\ NullsTypeOK(nulls) /\ SubtickTypeOK(subtick) /\ OptimizerTypeOK(optimizer)
  /\ number \in Nat /\ held \subseteq Buttons
  /\ seenSince \in 0..(number + 1)

Init ==
  /\ MovementInit /\ BhopInit
  /\ analysis = NoAnalysis
  /\ mask \in Masks
  /\ revised = FALSE /\ available = TRUE /\ alive = TRUE
  /\ nulls = NullsClean /\ subtick = SubtickClean /\ optimizer = OptimizerClean
  /\ number = 0 /\ held = {} /\ seenSince = 0

-----------------------------------------------------------------------------

\* ShouldTrackBhop
Tracking == mask \intersect {"BHOP", "HYPERSCROLL"} # {}

\* shouldAnalyzeJumps
Analysing == "AUTOSTRAFE" \in mask /\ available

\* What a callback does if bhops are tracked.
IfTracking(step) == IF Tracking THEN step ELSE UNCHANGED bhopVars

\* The analysis before a callback has done anything.
Before == Quiet(analysis)

\* Plausible bug: the settings are not looked at when a command comes.
NotRefreshed == FALSE

Refreshed == revised

-----------------------------------------------------------------------------
\* The tick.

OnPhysicsSimulate ==
  /\ PhysicsSimulate
  /\ BhopTick(Tracking /\ MoveTypeChanged)
  /\ analysis' \in
       IF MoveTypeChanged
       THEN UNION {ChangeMoveTypeFrom(Before, lastKnownMoveType, moveType, jumped,
                                      takeoffFromLadder, JustTeleported', Analysing) :
                     jumped \in BOOLEAN}
       ELSE {Before}
  /\ subtick' = SubtickTick(subtick)
  /\ UNCHANGED <<gateVars, nulls, optimizer, number, held, seenSince>>

-----------------------------------------------------------------------------
\* A command.

Watched(what) == what \in Varies[mask]

\* The number of the next command: one may be lost.
Numbers ==
  IF Watched("buttons") \/ Watched("views")
  THEN {number + 1, number + 2} \intersect 1..MaxNumber[mask] ELSE {number}

\* Bound: what a command does to the buttons: nothing, one of them or one and the other
\* at the same time or later, or an analog change.
ButtonSteps ==
  LET direction == IF Cardinality(held) = 1 THEN CHOOSE b \in held : TRUE ELSE 0
      one(b, part) == Step(part, b, b \notin held, FALSE)
      both(part) == {<<one(b, 0), one(Opposite(b), part)>> : b \in Buttons}
      digital == {<<one(b, 0)>> : b \in Buttons} \union both(0) \union both(1)
      again == {<<one(b, 0), Step(0, b, b \in held, FALSE)>> : b \in Buttons}
      analog == {AnalogSteps(0, b, whole, direction) : b \in Buttons, whole \in BOOLEAN}
  IN IF Watched("buttons") THEN {<<>>} \union digital \union again \union analog ELSE {<<>>}

Moved(down, step) ==
  IF step.pressed THEN down \union {step.button} ELSE down \ {step.button}

HeldAfter(steps) ==
  LET after[i \in 0..Len(steps)] == IF i = 0 THEN held ELSE Moved(after[i - 1], steps[i])
  IN after[Len(steps)]

\* The data of a detector as the command finds it.
AtCommand(d, clean) == IF Refreshed \/ ~alive THEN clean ELSE d

\* The detectors see the command.
Looks == alive /\ available

SeenSince(n) ==
  IF n = number THEN seenSince
  ELSE IF ~Looks THEN n + 1
  ELSE IF n = number + 1 THEN seenSince
  ELSE n

CommandSeen(n, steps, usable, fast, shown) ==
  LET nullsThen == AtCommand(nulls, NullsClean)
      optimizerThen == AtCommand(optimizer, OptimizerClean)
      subtickThen == IF Refreshed THEN SubtickReset(subtick)
                     ELSE AtCommand(subtick, SubtickCleared(subtick))
  IN /\ nulls' = IF Looks /\ "NULLS" \in mask
                 THEN CreateInputEvents(nullsThen, n, steps, usable, fast) ELSE nullsThen
     /\ subtick' = IF Looks THEN CheckSubtickAbuse(subtickThen, shown, mask) ELSE subtickThen
     /\ optimizer' \in IF Looks /\ "AUTOSTRAFE" \in mask
                       THEN DetectOptimization(optimizerThen, n, Watched("views") /\ usable)
                       ELSE {optimizerThen}
     /\ number' = n /\ held' = HeldAfter(steps) /\ seenSince' = SeenSince(n)

Command ==
  \E n \in Numbers, steps \in ButtonSteps,
     usable \in IF Watched("movement") THEN {TRUE} ELSE BOOLEAN,
     fast \in IF Watched("buttons") THEN BOOLEAN ELSE {FALSE},
     shown \in IF Watched("subticks") THEN Shows ELSE {{}} :
    CommandSeen(n, steps, usable, fast, shown)

OnSetupMove ==
  /\ SetupMove
  /\ Command
  /\ analysis' = IF Refreshed \/ ~alive THEN Cleared(Before) ELSE Before
  /\ IF alive /\ available /\ Tracking THEN BhopCommand(Refreshed)
     ELSE IF Refreshed \/ ~alive THEN BhopClear
     ELSE UNCHANGED bhopVars
  /\ revised' = (revised /\ ~Refreshed)
  /\ UNCHANGED <<mask, available, alive>>

OnPhysicsSimulatePost ==
  /\ PhysicsSimulatePost
  /\ analysis' = IF revised THEN Cleared(Before) ELSE Before
  /\ IF revised THEN BhopClear
     ELSE IF available /\ alive THEN IfTracking(CheckLandingEvents(mask))
     ELSE UNCHANGED bhopVars
  /\ nulls' = IF revised THEN NullsClean
              ELSE IF available /\ alive /\ "NULLS" \in mask THEN CheckNulls(nulls) ELSE nulls
  /\ subtick' = IF revised THEN SubtickReset(subtick)
                ELSE IF available /\ alive THEN CheckSuspiciousSubtickCommands(subtick, mask)
                ELSE subtick
  /\ optimizer' = IF revised THEN OptimizerClean ELSE optimizer
  /\ revised' = FALSE
  /\ UNCHANGED <<mask, available, alive, number, held, seenSince>>

-----------------------------------------------------------------------------
\* A movement.

OnProcessMovement(ground) ==
  LET settled == IF Touches(ground) THEN StartTouchGround(Before, Analysing)
                 ELSE IF Leaves(ground)
                 THEN StopTouchGround(Before, FALSE, FALSE, JustTeleported)
                 ELSE {Before}
  IN /\ Watched("movement") /\ ProcessMovement(ground)
     /\ IfTracking(BhopProcessMovement(Touches(ground), available))
     /\ analysis' \in UNION {AnalyzeMovement(a, Analysing, moveType) : a \in settled}
     /\ UNCHANGED otherVars

\* Of a ladder he takes hold of on the ground nobody is told.
OnGrabLadder ==
  /\ GrabLadder
  /\ IF onGround THEN IfTracking(BhopOtherMove) ELSE IfTracking(BhopChangeMoveType(TRUE))
  /\ analysis' \in
       IF onGround THEN {Before}
       ELSE ChangeMoveTypeFrom(Before, "walk", "ladder", FALSE, FALSE, JustTeleported,
                               Analysing)
  /\ UNCHANGED otherVars

\* He jumps off the ladder if he presses jump.
OnLeaveLadder(hops) ==
  /\ LeaveLadder(hops)
  /\ IfTracking(BhopChangeMoveType(FALSE))
  /\ analysis' \in UNION {ChangeMoveTypeFrom(Before, "ladder", "walk", jumped, TRUE,
                                             JustTeleported, Analysing) :
                            jumped \in {FALSE, hops}}
  /\ UNCHANGED otherVars

OnJump ==
  /\ Jumps
  /\ IfTracking(BhopJump(available))
  /\ analysis' \in StopTouchGround(Before, TRUE, possibleLadderHop, JustTeleported)
  /\ UNCHANGED otherVars

OnAirMove ==
  /\ AirMove
  /\ IfTracking(BhopAirMove)
  /\ analysis' = Before
  /\ UNCHANGED otherVars

OnWalkMove ==
  /\ WalkMove
  /\ IfTracking(BhopOtherMove)
  /\ analysis' = Before
  /\ UNCHANGED otherVars

OnOtherMove ==
  /\ OtherMove
  /\ IfTracking(BhopOtherMove)
  /\ analysis' = IF moveType = "other" THEN Spoiled(Before) ELSE Before
  /\ UNCHANGED otherVars

OnCategorizePosition(ground) ==
  /\ CategorizePosition(ground)
  /\ IF Touches(ground) THEN IfTracking(BhopStartTouchGround(available))
     ELSE UNCHANGED bhopVars
  /\ analysis' \in IF Touches(ground) THEN StartTouchGround(Before, Analysing)
                   ELSE IF Leaves(ground)
                   THEN StopTouchGround(Before, FALSE, FALSE, JustTeleported)
                   ELSE {Before}
  /\ UNCHANGED otherVars

OnProcessMovementPost ==
  /\ ProcessMovementPost
  /\ IfTracking(BhopMovementPost)
  /\ analysis' \in AnalyzeMovementPost(Before, moveType)
  /\ UNCHANGED otherVars

Movement ==
  \/ \E ground \in BOOLEAN : OnProcessMovement(ground) \/ OnCategorizePosition(ground)
  \/ OnGrabLadder
  \/ \E hops \in BOOLEAN : OnLeaveLadder(hops)
  \/ OnJump \/ OnAirMove \/ OnWalkMove \/ OnOtherMove
  \/ OnProcessMovementPost

-----------------------------------------------------------------------------
\* Between two ticks.

Elsewhere == stage = "idle" /\ analysis' = Before /\ UNCHANGED bhopVars

SettingsChanged ==
  /\ Elsewhere
  /\ mask' \in NextMasks[mask] /\ revised' = TRUE
  /\ UNCHANGED <<movementVars, available, alive, commandVars>>

\* sv_cheats, or the switch of the whole plugin.
AvailabilityChanged ==
  /\ Elsewhere
  /\ available' = ~available
  /\ UNCHANGED <<movementVars, mask, revised, alive, commandVars>>

\* The dead do not walk: the engine lets them watch.
Die ==
  /\ Elsewhere /\ alive
  /\ alive' = FALSE
  /\ ChangeMoveType("other")
  /\ UNCHANGED <<mask, revised, available, commandVars>>

OnTeleport(type) ==
  /\ Teleported(type)
  /\ analysis' \in HandleTeleport(Before, Analysing)
  /\ UNCHANGED bhopVars

Spawn ==
  /\ stage = "idle" /\ ~alive
  /\ alive' = TRUE
  /\ OnTeleport("walk")
  /\ UNCHANGED <<mask, revised, available, commandVars>>

Teleport ==
  /\ Watched("movement") /\ stage \in {"idle", "ready"}
  /\ OnTeleport(moveType)
  /\ UNCHANGED otherVars

\* He has been in the server for ten seconds.
ActiveCheck ==
  /\ Watched("subticks") /\ Elsewhere
  /\ subtick.early
  /\ subtick' = [subtick EXCEPT !.early = FALSE]
  /\ UNCHANGED <<movementVars, gateVars, nulls, optimizer, number, held, seenSince>>

\* He may be taken off a ladder, but he is not put on one.
MoveTypeSet ==
  /\ Watched("movement") /\ Elsewhere /\ alive
  /\ \E type \in {"walk", "other"} \ {moveType} : ChangeMoveType(type)
  /\ UNCHANGED otherVars

\* The slot is free for somebody else; the settings are looked at anew.
OnClientDisconnect ==
  /\ stage = "idle"
  /\ MovementReset /\ BhopClear
  /\ analysis' = NoAnalysis
  /\ revised' = FALSE /\ alive' = TRUE
  /\ nulls' = NullsClean /\ subtick' = SubtickClean /\ optimizer' = OptimizerClean
  /\ number' = 0 /\ held' = {} /\ seenSince' = 0
  /\ UNCHANGED <<mask, available>>

Environment ==
  \/ SettingsChanged \/ AvailabilityChanged
  \/ Die \/ Spawn \/ Teleport \/ MoveTypeSet
  \/ ActiveCheck \/ OnClientDisconnect

Next ==
  \/ OnPhysicsSimulate \/ OnSetupMove \/ OnPhysicsSimulatePost
  \/ Movement
  \/ Environment

Spec == Init /\ [][Next]_vars

-----------------------------------------------------------------------------

(***************************************************************************)
(* Landings are judged only when something was noted since.  So whenever   *)
(* nothing is left to judge (bhopDirty), there is nothing to find: no      *)
(* press that came late, no jump and no landing was missed.  The same      *)
(* holds of the button events of NULLS, of which the later may change or   *)
(* erase an earlier one.                                                   *)
(***************************************************************************)
CleanMeansJudged ==
  ~revised => /\ ~bhopDirty => ~Infraction(landings, mask)
              /\ ~nulls.dirty => ~NullsInfraction(nulls.events)

(***************************************************************************)
(* A landing becomes a perfect bhop only by a jump before which he made no *)
(* movement but through the air (OnJump, OnProcessMovementPost); only the  *)
(* latest landing does.                                                    *)
(***************************************************************************)
PerfectInOneBound ==
  [][\A i \in 1..Len(landings) :
       (/\ Len(landings') = Len(landings)
        /\ landings'[i].perfect /\ ~landings[i].perfect) =>
         (i = Len(landings) /\ ~strayed)]_vars

(***************************************************************************)
(* Every jump counted against him was watched from its takeoff to its      *)
(* landing, and nothing but he himself moved him meanwhile: no teleport,   *)
(* no flight, no movement while the analysis stood still                   *)
(* (CS2ACPlayer::OnProcessMovement, HandleTeleport, CheckValidMoveType).   *)
(***************************************************************************)
JumpsAreWhole ==
  \A i \in 1..Len(analysis.statuses) : analysis.statuses[i].whole

(***************************************************************************)
(* OnJumpFinish does not look whether the settings have changed, and the   *)
(* evidence is from before MarkInfraction does.  It is still under the     *)
(* present settings that he is accused: whatever ends a jump that counts   *)
(* comes after the command of the same tick.                               *)
(***************************************************************************)
AccusedUnderTheseSettings ==
  [][analysis'.accused => ~revised /\ Analysing]_vars

(***************************************************************************)
(* Button events are compared by the numbers of their commands, and turns  *)
(* of the view are averaged over commands.  Whatever was lost on the way,  *)
(* or not looked at because he was dead or cheats were on: when a command  *)
(* has been looked at, all they know is of one unbroken run of commands up *)
(* to this one; only then is what they show his own timing.                *)
(***************************************************************************)
EvidenceIsUnbroken ==
  seenSince <= number =>
    /\ \A i \in 1..Len(nulls.events) : nulls.events[i].command >= seenSince
    /\ \A i \in 1..Len(optimizer.frames) : optimizer.frames[i] >= seenSince
    /\ optimizer.score > 0 => optimizer.countedFrom >= seenSince

(***************************************************************************)
(* Who is accused of INVALID INPUT, SUBTICK SPAM or DESUBTICKING did send  *)
(* enough such commands lately: within the window, under these settings,   *)
(* after the first ten seconds, and after the last accusation of that      *)
(* kind; for DESUBTICKING, nine in ten of so many had zero timing, too.    *)
(***************************************************************************)
AccusationsAreBacked ==
  [][\A k \in subtick'.accused \ subtick.accused : Backed(subtick, k)]_vars

(***************************************************************************)
(* bhop.cpp:3 says of a landing that it is counted if "the player spent at *)
(* least 4 ticks in the air before landing".  Then so many ticks lie       *)
(* between it and the landing before.                                      *)
(***************************************************************************)
AirborneBeforeLanding ==
  [][(Len(landings') > Len(landings) /\ landings # <<>>) =>
       Last(landings).age >= MinAirTime]_vars

=============================================================================
