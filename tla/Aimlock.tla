------------------------------- MODULE Aimlock ------------------------------
(***************************************************************************)
(* AimlockModule (aimlock_module.cpp): whether the aim stays on a moving   *)
(* target for a second and a half.  The server cannot know how old the     *)
(* picture was that the player saw, so several lags are followed at once;  *)
(* a track is evidence if one of them was on target nearly all the time.   *)
(* After an announcement the player is left alone until he has been off    *)
(* that target for half a second.                                          *)
(*                                                                         *)
(* Each operator takes the player's data to what a callback makes of it.   *)
(* What a sample of the aim shows is an argument: seen, the lags under     *)
(* which the target can be measured, on, those under which the aim is on   *)
(* it, moved, those under which it moved enough; and detected, that the    *)
(* incidents of five minutes are enough.  The bearings, the body point and *)
(* which target it is are left out.                                        *)
(***************************************************************************)
EXTENDS PlayerSlot

CONSTANTS
  Lags,          \* the lags that are followed, five in the source
  TrackingTicks, \* trackingTicks, 96 in the source
  RearmTicks     \* rearmTicks, 32 in the source

ASSUME AimlockAssumption ==
  /\ IsFiniteSet(Lags) /\ Lags # {}
  /\ TrackingTicks \in Nat \ {0} /\ RearmTicks \in Nat \ {0}

NoTick == -1

\* AimlockTrack; its valid hypotheses and the samples each had on target.
Track ==
  [start : Ticks, last : Ticks, samples : Nat, valid : SUBSET Lags, on : [Lags -> Nat]]
NoTrack ==
  [start |-> NoTick, last |-> NoTick, samples |-> 0, valid |-> {}, on |-> [l \in Lags |-> 0]]

\* AimlockPlayerData, the connections whose incidents count, and the history: the last
\* tick the aim was seen on the latched target.
AimlockData ==
  [pending : BOOLEAN,
   track : Track \union {NoTrack},
   latched : BOOLEAN,
   breakStart : Ticks \union {NoTick},
   lastProcessed : Ticks \union {NoTick},
   evidence : SUBSET Connections,
   lastOn : Ticks \union {NoTick}]

AimlockTypeOK(d) == d \in AimlockData

AimlockClean ==
  [pending |-> FALSE, track |-> NoTrack, latched |-> FALSE, breakStart |-> NoTick,
   lastProcessed |-> NoTick, evidence |-> {}, lastOn |-> NoTick]

\* The command of this tick that the server simulates last; one without a usable view
\* ends the track.
AimlockOnSetupMove(d, usable) ==
  IF d.lastProcessed = tick THEN d
  ELSE IF usable THEN [d EXCEPT !.pending = TRUE]
  ELSE [d EXCEPT !.pending = FALSE, !.track = NoTrack]

\* ClearRuntime, for a dead player.
ClearRuntime(d) == [AimlockClean EXCEPT !.evidence = d.evidence]

-----------------------------------------------------------------------------
\* Evaluate: one sample of a tick that has ended.

MeetsCoverage(onTarget, samples) == samples > 0 /\ onTarget * 20 >= samples * 19

\* startTrack.
StartTrack(d, seen, on) ==
  [d EXCEPT !.track = IF on \intersect seen = {} THEN NoTrack
                      ELSE [start |-> tick, last |-> tick, samples |-> 1, valid |-> seen,
                            on |-> [l \in Lags |-> IF l \in on \intersect seen THEN 1 ELSE 0]]]

\* AddIncident.
AddIncident(d, detected) ==
  IF detected
  THEN [d EXCEPT !.track = NoTrack, !.evidence = {}, !.latched = TRUE, !.breakStart = NoTick,
                 !.lastOn = tick]
  ELSE [d EXCEPT !.track = NoTrack, !.evidence = @ \union {connection}]

\* Plausible bug: a sample more is taken for the next one.
AnyLater(track) == tick - track.last >= 1

\* The sample is of the tick after the track's last.
Consecutive(track) == tick - track.last = 1

Continue(d, seen, on, moved, detected) ==
  LET valid == d.track.valid \intersect seen
      track == [d.track EXCEPT
                  !.last = tick, !.samples = @ + 1, !.valid = valid,
                  !.on = [l \in Lags |-> IF l \in valid \intersect on THEN @[l] + 1 ELSE @[l]]]
      passing == {l \in valid \intersect moved : MeetsCoverage(track.on[l], track.samples)}
  IN IF ~Consecutive(d.track) \/ valid = {} THEN StartTrack(d, seen, on)
     ELSE IF tick - track.start < TrackingTicks THEN [d EXCEPT !.track = track]
     ELSE IF passing = {} THEN [d EXCEPT !.track = NoTrack]
     ELSE AddIncident([d EXCEPT !.track = track], detected)

Follow(d, seen, on, moved, detected) ==
  IF d.track = NoTrack THEN StartTrack(d, seen, on)
  ELSE Continue(d, seen, on, moved, detected)

\* Plausible bug: a return to the target does not end the break.
KeepsBreak(d) == [d EXCEPT !.lastOn = tick]

StillLocked(d) == [d EXCEPT !.breakStart = NoTick, !.lastOn = tick]

EvaluateAim(d, seen, on, moved, detected) ==
  LET breakStart == IF d.breakStart = NoTick THEN tick ELSE d.breakStart
  IN IF ~d.latched THEN Follow(d, seen, on, moved, detected)
     ELSE IF on \intersect seen # {} THEN StillLocked(d)
     ELSE IF tick - breakStart < RearmTicks THEN [d EXCEPT !.breakStart = breakStart]
     ELSE Follow([d EXCEPT !.latched = FALSE, !.breakStart = NoTick], seen, on, moved, detected)

AimlockOnGameFrame(d) ==
  {ClearRuntime(d)} \union
  (IF ~d.pending THEN {d}
   ELSE {EvaluateAim([d EXCEPT !.pending = FALSE, !.lastProcessed = tick],
                     seen, on, moved, detected) :
           seen \in SUBSET Lags, on \in SUBSET Lags, moved \in {{}, Lags}, detected \in BOOLEAN})

=============================================================================
