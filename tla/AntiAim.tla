------------------------------- MODULE AntiAim ------------------------------
(***************************************************************************)
(* AntiAimModule (antiaim_module.cpp): what a player's view angles show of *)
(* an aim that is not a person's.  Impossible or contradictory angles,     *)
(* spinning, jitter and shots that leave the aim for one command add to a  *)
(* score; an announcement for something continuous silences the module     *)
(* until that episode has ended.                                           *)
(*                                                                         *)
(* Each operator takes the player's data to what a callback makes of it.   *)
(* What a command shows is a record of Views; whether the history spins    *)
(* (and so fast that it counts for how many tiers) or jitters, whether a   *)
(* shot left the aim and the network vetoes are arguments.                 *)
(*                                                                         *)
(* Abstractions: seconds are counted in ticks; a score falls by a whole    *)
(* point or not at all when a command is simulated; angles, client ticks   *)
(* and the mouse become what the rules conclude from them, and a command   *)
(* whose angles are not finite is one the arguments are never true of.     *)
(***************************************************************************)
EXTENDS PlayerSlot, SequencesExt

CONSTANTS
  AntiAimHistory,    \* commandHistorySize, 96 in the source
  Threshold,         \* detectionThreshold, 100
  InvalidWeight,     \* points for invalid angles, 2
  ReturnWeight,      \* points for an attack return, 20
  SpinTicks,         \* for each tier, the ticks of a spin: 15, 10 and 10 seconds
  SpinSamples,       \* spinSamples, 16
  JitterTicks,       \* requiredJitterSeconds, 10 seconds
  JitterSamples,     \* the samples of the shortest pattern, 8
  BreakTicks,        \* spinBreakAllowance, a second
  MismatchSpacing,   \* commandMismatchSpacing, 4
  GapTicks           \* ENGINE_FIXED_TICK_RATE, 64

ASSUME AntiAimAssumption ==
  /\ {AntiAimHistory, Threshold, InvalidWeight, ReturnWeight, SpinSamples, JitterTicks,
      JitterSamples, BreakTicks, MismatchSpacing, GapTicks} \subseteq Nat
  /\ AntiAimHistory > 0 /\ Threshold > 0 /\ SpinSamples >= 2 /\ JitterSamples >= 2
  /\ SpinTicks \in Seq(Nat)

Unknown == -1
Tiers == 1..Len(SpinTicks)

AntiAimCommand == [number : Commands, serverTick : Ticks \union {NotSimulated}]

\* What a command shows: problem, an angle that is not finite or an impossible history
\* index; mismatch, a history that contradicts the angles; invalid, impossible angles.
Views == {v \in [problem : BOOLEAN, mismatch : BOOLEAN, invalid : BOOLEAN] :
            v.problem => ~v.mismatch}

\* AntiAimPlayerData, and the history: moving, the last motion that was evaluated was a
\* spin or jitter; quiet, since the last continuous announcement a command showed nothing
\* or the player died or began anew; repeated, one followed another without that.
AntiAimClean ==
  [commands |-> <<>>, score |-> 0, mismatchScore |-> 0,
   spin |-> [t \in Tiers |-> 0], spinBreak |-> [t \in Tiers |-> 0],
   jitter |-> 0, jitterBreak |-> 0, pendingShot |-> Unknown, pendingShotTick |-> Unknown,
   lastMotion |-> Unknown, lastMismatch |-> Unknown,
   invalidActive |-> FALSE, inconsistencyActive |-> FALSE, spinActive |-> FALSE,
   jitterActive |-> FALSE, suppressContinuous |-> FALSE,
   moving |-> FALSE, quiet |-> TRUE, repeated |-> FALSE]

AntiAimTypeOK(a) ==
  /\ DOMAIN a = DOMAIN AntiAimClean
  /\ a.commands \in Seq(AntiAimCommand) /\ Len(a.commands) <= AntiAimHistory
  /\ a.score + a.mismatchScore < Threshold /\ {a.score, a.mismatchScore} \subseteq Nat
  /\ a.spin \in [Tiers -> Nat] /\ a.spinBreak \in [Tiers -> 0..BreakTicks]
  /\ a.jitter \in Nat /\ a.jitterBreak \in 0..BreakTicks
  /\ {a.pendingShot, a.lastMismatch} \subseteq Commands \union {Unknown}
  /\ {a.pendingShotTick, a.lastMotion} \subseteq Ticks \union {Unknown}
  /\ {a.invalidActive, a.inconsistencyActive, a.spinActive, a.jitterActive,
      a.suppressContinuous, a.moving, a.quiet, a.repeated} \subseteq BOOLEAN

-----------------------------------------------------------------------------
\* The score.

Scored(a, s, n) == [a EXCEPT !.score = s, !.mismatchScore = n]

\* When a command is simulated.
ApplyDecay(a) ==
  {Scored(a, s, n) :
     s \in {a.score, a.score - 1} \intersect Nat,
     n \in {a.mismatchScore, a.mismatchScore - 1} \intersect Nat}

\* The threshold is reached: an announcement, or only a veto's if mismatches were needed.
Announce(a, continuous) ==
  [a EXCEPT !.score = 0, !.mismatchScore = 0, !.suppressContinuous = continuous,
            !.repeated = @ \/ (continuous /\ ~a.quiet),
            !.quiet = @ /\ ~continuous]

AddEvidence(a, weight, continuous, mismatch) ==
  LET added == IF mismatch THEN [a EXCEPT !.mismatchScore = @ + weight]
               ELSE [a EXCEPT !.score = @ + weight]
  IN IF a.suppressContinuous THEN a
     ELSE IF added.score + added.mismatchScore < Threshold THEN added
     ELSE Announce(added, continuous)

-----------------------------------------------------------------------------
\* User commands.

Stored(a, c) == \E i \in 1..Len(a.commands) : a.commands[i].number = c

AntiAimOnProcessUsercmds(a, c) ==
  IF Stored(a, c) THEN a
  ELSE [a EXCEPT !.commands =
          Bounded(Append(@, [number |-> c, serverTick |-> NotSimulated]), AntiAimHistory)]

Simulated(a, c) ==
  [a EXCEPT !.commands =
     [i \in 1..Len(@) |-> IF @[i].number = c THEN [@[i] EXCEPT !.serverTick = tick] ELSE @[i]]]

\* The latest stored command c that was simulated, as a set of one or none.
Find(a, c) ==
  {a.commands[i] : i \in {j \in 1..Len(a.commands) :
     a.commands[j].number = c /\ a.commands[j].serverTick # NotSimulated}}

-----------------------------------------------------------------------------
\* Motion: spin and jitter.

NoShot(a) == [a EXCEPT !.pendingShot = Unknown, !.pendingShotTick = Unknown]

ResetMotion(a) ==
  [a EXCEPT !.spin = [t \in Tiers |-> 0], !.spinBreak = [t \in Tiers |-> 0],
            !.jitter = 0, !.jitterBreak = 0, !.lastMotion = Unknown,
            !.spinActive = FALSE, !.jitterActive = FALSE, !.moving = FALSE]

\* The last n ticks have each their command: looking back for it, no command simulated
\* before that tick comes first.
InARow(a, n) ==
  \A t \in (tick - n + 1)..tick :
    \E i \in 1..Len(a.commands) :
      /\ t # NotSimulated /\ a.commands[i].serverTick = t
      /\ \A j \in (i + 1)..Len(a.commands) : a.commands[j].serverTick \in {NotSimulated} \union t..tick

\* One counter and its break: it counts on in a match, unless the module is silent, and
\* outlives a short break.
Progress(count, break, matches, silent, gap) ==
  IF matches THEN [count |-> IF silent THEN count ELSE count + 1, break |-> 0, active |-> TRUE]
  ELSE IF count = 0 /\ break = 0 THEN [count |-> 0, break |-> 0, active |-> FALSE]
  ELSE IF break + gap > BreakTicks THEN [count |-> 0, break |-> 0, active |-> FALSE]
  ELSE [count |-> count, break |-> break + gap, active |-> TRUE]

\* fast: the tiers whose rate the history reaches.
EvaluateSpin(a, fast, gap) ==
  LET tier(t) == Progress(a.spin[t], a.spinBreak[t], t <= fast /\ gap = 1,
                          a.suppressContinuous, gap)
      progressed == [a EXCEPT !.spin = [t \in Tiers |-> tier(t).count],
                              !.spinBreak = [t \in Tiers |-> tier(t).break],
                              !.spinActive = \E t \in Tiers : tier(t).active]
      detected == \E t \in Tiers : progressed.spin[t] >= SpinTicks[t]
  IN IF detected /\ ~a.suppressContinuous
     THEN [AddEvidence(progressed, Threshold, TRUE, FALSE) EXCEPT !.spinActive = TRUE]
     ELSE progressed

EvaluateJitter(a, jitters, gap) ==
  LET p == Progress(a.jitter, a.jitterBreak, jitters /\ gap = 1, a.suppressContinuous, gap)
      progressed == [a EXCEPT !.jitter = p.count, !.jitterBreak = p.break,
                              !.jitterActive = p.active]
  IN IF p.count >= JitterTicks /\ ~a.suppressContinuous
     THEN [AddEvidence(progressed, Threshold, TRUE, FALSE) EXCEPT !.jitterActive = TRUE]
     ELSE progressed

\* The second command of a tick is not looked at.
EvaluateMotion(a, fast, jitters) ==
  LET gap == IF a.lastMotion = Unknown THEN 1 ELSE tick - a.lastMotion
      kept == IF gap > GapTicks THEN ResetMotion(a) ELSE a
      spun == EvaluateSpin([kept EXCEPT !.lastMotion = tick], fast, gap)
  IN IF a.lastMotion = tick THEN a
     ELSE [EvaluateJitter(spun, jitters, gap) EXCEPT !.moving = fast > 0 \/ jitters]

-----------------------------------------------------------------------------
\* Attack returns.

\* The commands before and after the shot are there, a tick apart.
Surrounded(a) ==
  \E p \in Find(a, a.pendingShot - 1), s \in Find(a, a.pendingShot),
     n \in Find(a, a.pendingShot + 1) :
    s.serverTick - p.serverTick = 1 /\ n.serverTick - s.serverTick = 1

Overdue(a) ==
  \/ tick - a.pendingShotTick > 1
  \/ a.commands # <<>> /\ Last(a.commands).number - a.pendingShot > 1

EvaluatePendingShot(a, returned) ==
  IF a.pendingShot = Unknown THEN a
  ELSE IF Find(a, a.pendingShot + 1) = {} THEN IF Overdue(a) THEN NoShot(a) ELSE a
  ELSE IF Surrounded(a) /\ returned THEN AddEvidence(NoShot(a), ReturnWeight, FALSE, FALSE)
  ELSE NoShot(a)

\* weapon_fire found the shot of command c.
Fired(a, c) ==
  IF Find(a, c) = {} THEN a
  ELSE [a EXCEPT !.pendingShot = c,
                 !.pendingShotTick = (CHOOSE e \in Find(a, c) : TRUE).serverTick]

\* Plausible bug: the shot only waits for the next command.
AwaitNext(a, c, returned) == Fired(a, c)

AntiAimOnWeaponFire(a, c, returned) == EvaluatePendingShot(Fired(a, c), returned)

AntiAimOnGameFrame(a, returned) ==
  IF a.pendingShot # Unknown /\ tick - a.pendingShotTick > 1
  THEN EvaluatePendingShot(a, returned) ELSE a

-----------------------------------------------------------------------------
\* A command is simulated.

\* The player is dead, or has no pawn.
Dead(a) ==
  [NoShot(ResetMotion(a)) EXCEPT
     !.commands = <<>>, !.lastMismatch = Unknown, !.invalidActive = FALSE,
     !.inconsistencyActive = FALSE, !.suppressContinuous = FALSE, !.quiet = TRUE]

\* Five seconds after a spawn or a teleport.
Grace(a) ==
  [NoShot(ResetMotion(a)) EXCEPT !.invalidActive = FALSE, !.inconsistencyActive = FALSE]

Inconsistent(a, c, view) ==
  LET marked == [a EXCEPT !.inconsistencyActive = view.problem \/ view.mismatch]
      spaced == a.lastMismatch = Unknown \/ c - a.lastMismatch >= MismatchSpacing
  IN IF view.problem THEN AddEvidence(marked, 1, TRUE, FALSE)
     ELSE IF view.mismatch /\ ~a.suppressContinuous /\ spaced
          THEN AddEvidence([marked EXCEPT !.lastMismatch = c], 1, TRUE, TRUE)
     ELSE marked

Invalid(a, view) ==
  LET marked == [a EXCEPT !.invalidActive = view.invalid]
  IN IF view.invalid THEN AddEvidence(marked, InvalidWeight, TRUE, FALSE) ELSE marked

\* Plausible bug: jitter is forgotten when the end of an episode is decided.
EndsWithoutJitter(a) == ~(a.invalidActive \/ a.inconsistencyActive \/ a.spinActive)

Ends(a) == ~(a.invalidActive \/ a.inconsistencyActive \/ a.spinActive \/ a.jitterActive)

EpisodeEnd(a, view) ==
  [a EXCEPT !.suppressContinuous = @ /\ ~Ends(a),
            !.quiet = @ \/ ~(view.problem \/ view.mismatch \/ view.invalid \/ a.moving)]

\* fast > 0 and jitters only if the history is long enough.
JudgeCommand(a, c, view, fast, jitters, returned) ==
  LET evident == Invalid(Inconsistent(a, c, view), view)
      moved == EvaluateMotion(evident, IF InARow(a, SpinSamples) THEN fast ELSE 0,
                              jitters /\ InARow(a, JitterSamples))
  IN EpisodeEnd(EvaluatePendingShot(moved, returned), view)

\* An attack's history is the shot's aim and never contradicts the command.
Shown(attack) == {v \in Views : attack => ~v.mismatch}

AntiAimOnSetupMove(a, c, attack) ==
  {Dead(a)} \union
  UNION {IF ~Stored(d, c) THEN {NoShot(ResetMotion(d))}
         ELSE {Grace(Simulated(d, c))} \union
              {JudgeCommand(Simulated(d, c), c, v, fast, jitters, returned) :
                 v \in Shown(attack), fast \in 0..Len(SpinTicks),
                 jitters \in BOOLEAN, returned \in BOOLEAN}
         : d \in ApplyDecay(a)}

=============================================================================
