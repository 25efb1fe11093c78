--------------------------- MODULE StrafeOptimizer --------------------------
(***************************************************************************)
(* The strafe optimizer of AUTOSTRAFE (strafe_optimizer.cpp): how often    *)
(* the turn of the view fits a pattern when a player changes direction, a  *)
(* rolling average over commands that follow each other.                   *)
(*                                                                         *)
(* Each operator takes the player's data to what a callback makes of it.   *)
(* The average is a number of points: a match adds one, and a change of    *)
(* direction that does not match lets it fall by one or stay.              *)
(***************************************************************************)
EXTENDS Naturals, Sequences

CONSTANTS
  FrameHistory,   \* MAX_ANGLE_FRAME_HISTORY, 5 in the source
  OptimizerScore  \* the points of an average of 0.9, 45 in the source

ASSUME OptimizerAssumption == {FrameHistory, OptimizerScore} \subseteq Nat \ {0}

\* angleFrameHistory, as the numbers of its commands, yawAccelPercent, and the history: the
\* first command that was counted in it.
OptimizerClean == [frames |-> <<>>, score |-> 0, countedFrom |-> 0]

OptimizerTypeOK(d) ==
  /\ d \in [frames : Seq(Nat), score : 0..(OptimizerScore - 1), countedFrom : Nat]
  /\ Len(d.frames) <= FrameHistory

Follows(d, n) == d.frames # <<>> => n = d.frames[Len(d.frames)] + 1

\* The frame of command n.
WithFrame(d, n) ==
  LET kept == IF Follows(d, n) THEN d ELSE OptimizerClean
      frames == Append(kept.frames, n)
  IN [kept EXCEPT !.frames = IF Len(frames) > FrameHistory THEN Tail(frames) ELSE frames]

\* Whether the turn fits the pattern is a choice: it depends on the angles.
Matches == BOOLEAN

Rolled(score, matched) ==
  IF matched THEN {score + 1} ELSE {score, score - 1} \intersect Nat

\* He is accused, or the average is kept.
Scored(d, score) ==
  IF score >= OptimizerScore THEN OptimizerClean
  ELSE [d EXCEPT !.score = score,
                 !.countedFrom = IF score = 0 THEN 0
                                 ELSE IF @ = 0 THEN d.frames[1] ELSE @]

\* usable: the view angles are there and finite.  Only a change of direction in a full
\* history is counted.
DetectOptimization(d, n, usable) ==
  LET e == WithFrame(d, n)
  IN IF ~usable THEN {OptimizerClean}
     ELSE {e} \union
          IF Len(e.frames) < FrameHistory THEN {}
          ELSE {Scored(e, s) : s \in UNION {Rolled(e.score, matched) : matched \in Matches}}

=============================================================================
