--------------------------- MODULE PlayerMovement ---------------------------
(***************************************************************************)
(* The callbacks around the engine's movement of one player (mv_hooks.cpp) *)
(* and what is remembered between them (mv_player.cpp,                     *)
(* player_context.cpp): where the player stood, whether he walked, how he  *)
(* left the ground.                                                        *)
(*                                                                         *)
(* A tick of the player is OnPhysicsSimulate, a command if one came, any   *)
(* number of movements, OnPhysicsSimulatePost.  A movement settles where   *)
(* he stands, handles a ladder, a jump, and then the way that is left; at  *)
(* its end it is categorized again where he stands.  "stage" is how far    *)
(* the engine has come.                                                    *)
(*                                                                         *)
(* Abstractions: positions and velocities; the engine's choice of what the *)
(* player does next.  That he was moved between two movements and that the *)
(* engine categorizes him at the start of one have the same effect here.   *)
(***************************************************************************)
EXTENDS Naturals

CONSTANTS
  Grace,       \* the ticks a teleport or a move type is remembered, 3 or 4 in the source
  MaxMoves     \* bound: the movements in one tick

ASSUME MovementAssumption == {Grace, MaxMoves} \subseteq Nat \ {0}

VARIABLES
  stage,             \* where the engine is
  moves,             \* the movements it has made in this tick
  onGround,          \* previousOnGround, FL_ONGROUND within a movement
  walkMoved,         \* he walked in this movement
  oldWalkMoved,      \* he walked in the movement before
  takeoffFromLadder, \* he last left a ladder, not the ground
  possibleLadderHop, \* he jumped off a ladder in this movement
  moveType,          \* of the pawn
  lastKnownMoveType,
  sinceTeleport      \* ticks since lastTeleportTime

movementVars == <<stage, moves, onGround, walkMoved, oldWalkMoved, takeoffFromLadder,
                  possibleLadderHop, moveType, lastKnownMoveType, sinceTeleport>>

Stages == {"idle", "tick", "ready", "begun", "jumped", "moved", "settled"}
MoveTypes == {"walk", "ladder", "other"}

MovementTypeOK ==
  /\ stage \in Stages /\ moves \in 0..MaxMoves
  /\ onGround \in BOOLEAN /\ walkMoved \in BOOLEAN /\ oldWalkMoved \in BOOLEAN
  /\ takeoffFromLadder \in BOOLEAN /\ possibleLadderHop \in BOOLEAN
  /\ moveType \in MoveTypes /\ lastKnownMoveType \in MoveTypes
  /\ sinceTeleport \in 0..Grace

\* MovementPlayer::Reset; MOVETYPE_NONE is one of the others.
MovementInit ==
  /\ stage = "idle" /\ moves = 0
  /\ onGround = FALSE
  /\ walkMoved = FALSE /\ oldWalkMoved = FALSE
  /\ takeoffFromLadder = FALSE /\ possibleLadderHop = FALSE
  /\ moveType = "walk" /\ lastKnownMoveType = "other"
  /\ sinceTeleport = Grace

MovementReset ==
  /\ stage' = "idle" /\ moves' = 0
  /\ onGround' = FALSE
  /\ walkMoved' = FALSE /\ oldWalkMoved' = FALSE
  /\ takeoffFromLadder' = FALSE /\ possibleLadderHop' = FALSE
  /\ moveType' = "walk" /\ lastKnownMoveType' = "other"
  /\ sinceTeleport' = Grace

\* OnTeleport and JustTeleported; the engine may set the move type with it.
Teleported(type) ==
  /\ sinceTeleport' = 0 /\ moveType' = type
  /\ UNCHANGED <<stage, moves, onGround, walkMoved, oldWalkMoved, takeoffFromLadder,
                 possibleLadderHop, lastKnownMoveType>>

JustTeleported == sinceTeleport < Grace

-----------------------------------------------------------------------------
\* The tick.

\* The move type that OnPhysicsSimulate finds changed.
MoveTypeChanged == moveType # lastKnownMoveType

PhysicsSimulate ==
  /\ stage = "idle"
  /\ stage' = "tick" /\ moves' = 0
  /\ sinceTeleport' = IF JustTeleported THEN sinceTeleport + 1 ELSE Grace
  /\ UNCHANGED <<onGround, walkMoved, oldWalkMoved, takeoffFromLadder,
                 possibleLadderHop, moveType, lastKnownMoveType>>

SetupMove ==
  /\ stage = "tick"
  /\ stage' = "ready"
  /\ UNCHANGED <<moves, onGround, walkMoved, oldWalkMoved, takeoffFromLadder,
                 possibleLadderHop, moveType, lastKnownMoveType, sinceTeleport>>

PhysicsSimulatePost ==
  /\ stage \in {"tick", "ready"}
  /\ stage' = "idle" /\ moves' = 0
  /\ lastKnownMoveType' = moveType
  /\ UNCHANGED <<onGround, walkMoved, oldWalkMoved, takeoffFromLadder,
                 possibleLadderHop, moveType, sinceTeleport>>

-----------------------------------------------------------------------------
\* A movement.

Touches(ground) == ~onGround /\ ground
Leaves(ground) == onGround /\ ~ground

ProcessMovement(ground) ==
  /\ stage = "ready" /\ moves < MaxMoves
  /\ stage' = "begun" /\ moves' = moves + 1
  /\ onGround' = ground
  /\ walkMoved' = FALSE
  /\ takeoffFromLadder' = FALSE /\ possibleLadderHop' = FALSE
  /\ UNCHANGED <<oldWalkMoved, moveType, lastKnownMoveType, sinceTeleport>>

\* LadderMove: he takes hold of a ladder and climbs.
GrabLadder ==
  /\ stage = "begun" /\ moveType = "walk" /\ ~takeoffFromLadder
  /\ stage' = "moved"
  /\ moveType' = "ladder"
  /\ UNCHANGED <<moves, onGround, walkMoved, oldWalkMoved, takeoffFromLadder,
                 possibleLadderHop, lastKnownMoveType, sinceTeleport>>

\* He is off the ladder, and moves on without it, or has jumped off it.
LeaveLadder(hops) ==
  /\ stage = "begun" /\ moveType = "ladder"
  /\ moveType' = "walk"
  /\ takeoffFromLadder' = TRUE
  /\ possibleLadderHop' = hops
  /\ UNCHANGED <<stage, moves, onGround, walkMoved, oldWalkMoved, lastKnownMoveType,
                 sinceTeleport>>

\* What Detour_OnJumpLegacy and Detour_OnJumpModern make of a jump.
FramePerfect == ~takeoffFromLadder /\ ~oldWalkMoved

Jumps ==
  /\ stage = "begun" /\ moveType = "walk"
  /\ onGround \/ possibleLadderHop
  /\ stage' = "jumped"
  /\ onGround' = FALSE
  /\ takeoffFromLadder' = possibleLadderHop
  /\ UNCHANGED <<moves, walkMoved, oldWalkMoved, possibleLadderHop, moveType,
                 lastKnownMoveType, sinceTeleport>>

Airborne == stage \in {"begun", "jumped"} /\ moveType = "walk" /\ ~onGround

AirMove ==
  /\ Airborne
  /\ stage' = "moved"
  /\ UNCHANGED <<moves, onGround, walkMoved, oldWalkMoved, takeoffFromLadder,
                 possibleLadderHop, moveType, lastKnownMoveType, sinceTeleport>>

WalkMove ==
  /\ stage = "begun" /\ moveType = "walk" /\ onGround
  /\ stage' = "moved"
  /\ walkMoved' = TRUE
  /\ UNCHANGED <<moves, onGround, oldWalkMoved, takeoffFromLadder, possibleLadderHop,
                 moveType, lastKnownMoveType, sinceTeleport>>

\* He climbs on, flies, or is not moved at all.
OtherMove ==
  /\ stage = "begun" /\ moveType # "walk"
  /\ stage' = "moved"
  /\ UNCHANGED <<moves, onGround, walkMoved, oldWalkMoved, takeoffFromLadder,
                 possibleLadderHop, moveType, lastKnownMoveType, sinceTeleport>>

CategorizePosition(ground) ==
  /\ stage = "moved"
  /\ moveType # "walk" => ground = onGround
  /\ stage' = "settled"
  /\ onGround' = ground
  /\ takeoffFromLadder' = IF Leaves(ground) THEN FALSE ELSE takeoffFromLadder
  /\ UNCHANGED <<moves, walkMoved, oldWalkMoved, possibleLadderHop, moveType,
                 lastKnownMoveType, sinceTeleport>>

WalkedBefore == walkMoved

ProcessMovementPost ==
  /\ stage = "settled"
  /\ stage' = "ready"
  /\ oldWalkMoved' = WalkedBefore
  /\ UNCHANGED <<moves, onGround, walkMoved, takeoffFromLadder, possibleLadderHop,
                 moveType, lastKnownMoveType, sinceTeleport>>

-----------------------------------------------------------------------------
\* The server moves the player by other means, between his ticks.

ChangeMoveType(type) ==
  /\ moveType' = type
  /\ UNCHANGED <<stage, moves, onGround, walkMoved, oldWalkMoved, takeoffFromLadder,
                 possibleLadderHop, lastKnownMoveType, sinceTeleport>>

=============================================================================
