------------------------------- MODULE Aimbot -------------------------------
(***************************************************************************)
(* AimbotModule (aimbot_module.cpp): every shot that hurts an enemy is     *)
(* judged by the movements of the aim just before it, and by the one after *)
(* it if those do not suffice.  A hit waits for the next command, but no   *)
(* longer than a tick.                                                     *)
(*                                                                         *)
(* Each operator takes the player's data to what a callback makes of it.   *)
(* What the judgement leaves open is an argument: snaps, the commands      *)
(* whose movement converged on the victim, returned, that the shot alone   *)
(* left the aim and came back, present, that the positions of both players *)
(* were captured, fair, that teleports, teams and distance admit a         *)
(* judgement, and detected, that the incidents of the last five minutes    *)
(* are enough to announce.                                                 *)
(***************************************************************************)
EXTENDS PlayerSlot, FiniteSetsExt

CONSTANTS
  AimHistory,      \* commandHistorySize, 128 in the source
  SnapWindow       \* snapWindowTicks, 32 in the source

ASSUME AimbotAssumption == AimHistory \in Nat \ {0} /\ SnapWindow \in Nat

NoCommand == 0

AimCommand == [number : Commands, serverTick : Ticks \union {NotSimulated}]

\* AimbotPlayerData, the connections whose incidents count, and the history: how often
\* the movement to each command was counted, and whether a hit gave way to the next.
AimbotData ==
  [commands : Seq(AimCommand),
   pendingShot : {NoCommand} \union Commands,
   lastCountedIncidentCommand : {NoCommand} \union Commands,
   evidence : SUBSET Connections,
   counted : [Commands -> 0..2],
   forgotten : BOOLEAN]

AimbotTypeOK(d) == d \in AimbotData /\ Len(d.commands) <= AimHistory

AimbotClean ==
  [commands |-> <<>>, pendingShot |-> NoCommand, lastCountedIncidentCommand |-> NoCommand,
   evidence |-> {}, counted |-> [c \in Commands |-> 0], forgotten |-> FALSE]

-----------------------------------------------------------------------------
\* User commands.

AimbotOnProcessUsercmds(d, c) ==
  IF \E i \in 1..Len(d.commands) : d.commands[i].number = c THEN d
  ELSE [d EXCEPT !.commands =
          Bounded(Append(@, [number |-> c, serverTick |-> NotSimulated]), AimHistory)]

\* The stored commands that were simulated, and when.
AimSimulated(d) ==
  {d.commands[i].number :
     i \in {j \in 1..Len(d.commands) : d.commands[j].serverTick # NotSimulated}}

AimTick(d, c) ==
  LET i == CHOOSE i \in 1..Len(d.commands) : d.commands[i].number = c
  IN d.commands[i].serverTick

AimSimulates(d, c) ==
  [d EXCEPT !.commands =
     [i \in 1..Len(@) |-> IF @[i].number = c THEN [@[i] EXCEPT !.serverTick = tick] ELSE @[i]]]

-----------------------------------------------------------------------------
\* Evaluate.

\* Command c and the one before it follow each other without a gap.
Adjacent(d, c) ==
  /\ {c - 1, c} \subseteq AimSimulated(d)
  /\ AimTick(d, c) - AimTick(d, c - 1) \in 0..1

\* The commands before the shot whose movement is examined: from the shot back to the
\* first gap in their numbers or ticks, within the window.
Movements(d, shot) ==
  {c \in 1..shot :
     \A n \in c..shot : Adjacent(d, n) /\ AimTick(d, shot) - AimTick(d, n - 1) <= SnapWindow}

\* Plausible bug: a snap may count again.
AlwaysFresh(d, c) == c \in Commands

Fresh(d, c) == c > d.lastCountedIncidentCommand

\* The next command may still arrive.
Waits(now, shotTick) == now - shotTick <= 1

\* The movements that make the hit suspicious.
Converged(d, shot, snaps) == {c \in Movements(d, shot) \intersect snaps : Fresh(d, c)}

\* The shot alone left the aim.
SnapReturn(d, shot, returned) ==
  returned /\ Adjacent(d, shot) /\ Adjacent(d, shot + 1) /\ Fresh(d, shot)

Rejected(d) == [d EXCEPT !.pendingShot = NoCommand]

Incident(d, converged, detected) ==
  [d EXCEPT !.pendingShot = NoCommand,
            !.lastCountedIncidentCommand = d.pendingShot,
            !.evidence = IF detected THEN {} ELSE @ \union {connection},
            !.counted = [c \in Commands |-> IF c \in converged THEN Twice(@[c]) ELSE @[c]]]

\* captured is the last tick whose positions are stored.
Evaluate(d, now, captured, present, fair, snaps, returned, detected) ==
  LET shot == d.pendingShot
      shotTick == AimTick(d, shot)
      converged == Converged(d, shot, snaps)
  IN IF shot = NoCommand THEN d
     ELSE IF shot \notin AimSimulated(d) THEN Rejected(d)
     ELSE IF shotTick > captured \/ ~present
          THEN IF now <= shotTick THEN d ELSE Rejected(d)
     ELSE IF ~fair THEN Rejected(d)
     ELSE IF converged = {} /\ shot + 1 \notin AimSimulated(d)
          THEN IF Waits(now, shotTick) THEN d ELSE Rejected(d)
     ELSE IF converged # {} \/ SnapReturn(d, shot, returned)
          THEN Incident(d, converged, detected)
     ELSE Rejected(d)

\* What one evaluation may come to.
Evaluated(d, now, captured) ==
  {Evaluate(d, now, captured, present, fair, snaps, returned, detected) :
     present \in BOOLEAN, fair \in BOOLEAN, snaps \in SUBSET Movements(d, d.pendingShot),
     returned \in BOOLEAN, detected \in BOOLEAN}

-----------------------------------------------------------------------------
\* Callbacks.

AimbotOnSetupMove(d, c) ==
  IF \A i \in 1..Len(d.commands) : d.commands[i].number # c THEN {d}
  ELSE Evaluated(AimSimulates(d, c), tick, tick - 1)

\* The next command of a hit has come, or may still come.
Decidable(d) ==
  /\ d.pendingShot # NoCommand
  /\ simulated <= d.pendingShot \/ d.pendingShot + 1 \in AimSimulated(d)

\* A hit that is still undecided gives way to the next one.
Replaced(d, shot) == [d EXCEPT !.pendingShot = shot, !.forgotten = @ \/ Decidable(d)]

AimbotOnPlayerHurt(d, shot, fireTick) ==
  UNION {Evaluated(Replaced(e, shot), fireTick, tick - 1) :
           e \in Evaluated(d, fireTick, tick - 1)}

AimbotOnGameFrame(d) == Evaluated(d, tick, tick)

=============================================================================
