-------------------------------- MODULE Nulls -------------------------------
(***************************************************************************)
(* NULLS (nulls.cpp): the presses and releases of two opposite movement    *)
(* buttons of one player, and whether he changes between them at the very  *)
(* same time too often in a row.                                           *)
(*                                                                         *)
(* One axis: the source treats forward/back and left/right alike and       *)
(* forgets them together.  Each operator takes the player's data to what a *)
(* callback makes of it.                                                   *)
(*                                                                         *)
(* Abstractions: a command is two units of time, and a button moves at its *)
(* beginning or in its middle.  The frame rate is high enough, so that of  *)
(* what a press notes besides the button it matters whether the player was *)
(* fast in the air; of a release nothing does.  Every underlap is long     *)
(* enough to be forgiven.                                                  *)
(***************************************************************************)
EXTENDS Integers, SequencesExt

CONSTANTS
  MaxEvents,     \* maxNullInputEvents, 2048 in the source
  MinEvents,     \* NUM_MIN_INPUT_EVENTS_FOR_DETECTION, 128
  Required,      \* requiredPerfectCstrafes for the player's frame rate
  MaxRequired,   \* NUM_CONSECUTIVE_PERFECT_CSTRAFE_FOR_DETECTION_MAXIMUM
  AnalogWeight,  \* ANALOG_CSTRAFE_WEIGHT, 2
  UnderlapLimit, \* UNDERLAP_COUNT_THRESHOLD, in units of time
  UnderlapShare  \* UNDERLAP_PERCENTAGE_THRESHOLD: one switch in so many

ASSUME NullsAssumption ==
  {MaxEvents, MinEvents, Required, MaxRequired, AnalogWeight, UnderlapLimit, UnderlapShare}
    \subseteq Nat \ {0}

Buttons == {1, 2}
Opposite(button) == 3 - button
Parts == {0, 1}
Unknown == -1

Event ==
  [command : Nat, part : Parts, button : Buttons, pressed : BOOLEAN, analog : BOOLEAN,
   fast : BOOLEAN]

\* recent...Events, ...NullsDirty and lastNullsCmdNum.
NullsClean == [events |-> <<>>, dirty |-> FALSE, last |-> Unknown]

NullsTypeOK(d) ==
  /\ d \in [events : Seq(Event), dirty : BOOLEAN, last : Nat \union {Unknown}]
  /\ Len(d.events) <= MaxEvents

-----------------------------------------------------------------------------
\* CreateInputEvents.

Step(part, button, pressed, analog) ==
  [part |-> part, button |-> button, pressed |-> pressed, analog |-> analog]

\* What an analog change towards a button makes of the direction of the last movement:
\* by half to neutral or from neutral, or all the way.
AnalogSteps(part, button, whole, direction) ==
  LET release == Step(part, Opposite(button), FALSE, TRUE)
      press == Step(part, button, TRUE, TRUE)
      released == IF direction = Opposite(button) THEN <<release>> ELSE <<>>
      pressed == IF direction # button /\ (whole \/ released = <<>>) THEN <<press>> ELSE <<>>
  IN released \o pressed

\* recordEvent: the later event of a button at one time takes the place of the earlier, or
\* takes it away.
RecordEvent(d, event) ==
  LET same == {i \in 1..Len(d.events) :
                 /\ d.events[i].command = event.command /\ d.events[i].part = event.part
                 /\ d.events[i].button = event.button}
      added == Append(d.events, event)
  IN IF same = {}
     THEN [d EXCEPT !.events = IF Len(added) > MaxEvents THEN Tail(added) ELSE added,
                    !.dirty = TRUE]
     ELSE LET i == CHOOSE i \in same : TRUE IN
          IF d.events[i].pressed # event.pressed
          THEN [d EXCEPT !.events = RemoveAt(@, i), !.dirty = TRUE]
          ELSE [d EXCEPT !.events[i].analog = @ \/ event.analog,
                         !.dirty = @ \/ (event.analog /\ ~d.events[i].analog)]

\* Plausible bug: a missing command is overlooked.
Overlooked(d, n) == d

\* The data as command n finds them: without what lies before a missing command.
Continued(d, n) == IF d.last # Unknown /\ n # d.last + 1 THEN NullsClean ELSE d

\* usable: the frame rate is known and every value of the steps is finite.
CreateInputEvents(d, n, steps, usable, fast) ==
  LET event(step) ==
        [command |-> n, part |-> step.part, button |-> step.button,
         pressed |-> step.pressed, analog |-> step.analog, fast |-> fast /\ step.pressed]
      recorded[i \in 0..Len(steps)] ==
        IF i = 0 THEN [Continued(d, n) EXCEPT !.last = n]
        ELSE RecordEvent(recorded[i - 1], event(steps[i]))
  IN IF n <= d.last THEN d
     ELSE IF steps # <<>> /\ ~usable THEN [NullsClean EXCEPT !.last = n]
     ELSE recorded[Len(steps)]

-----------------------------------------------------------------------------
\* AnalyzeNullsForAxis.

Time(e) == 2 * e.command + e.part
Weight(e) == IF e.analog THEN AnalogWeight ELSE 1

\* Although the opposite button is still down, it is released at the same time.
Nulled(events, i) ==
  \E j \in (i + 1)..Len(events) :
    /\ Time(events[j]) = Time(events[i])
    /\ events[j].button = Opposite(events[i].button) /\ ~events[j].pressed

NothingSeen ==
  [down |-> {}, released |-> [b \in Buttons |-> Unknown],
   run |-> 0, best |-> 0, perfect |-> 0, overlaps |-> 0, underlaps |-> 0]

AfterRelease(s, e) ==
  [s EXCEPT !.down = @ \ {e.button}, !.released[e.button] = Time(e)]

AfterPress(s, events, i) ==
  LET e == events[i]
      other == Opposite(e.button)
      overlap == other \in s.down
      gap == Time(e) - s.released[other]
      known == ~overlap /\ s.released[other] # Unknown
      perfect == e.fast /\ IF overlap THEN Nulled(events, i) ELSE known /\ gap = 0
      run == IF perfect THEN s.run + Weight(e) ELSE 0
  IN [s EXCEPT
        !.down = @ \union {e.button},
        !.run = run,
        !.best = IF run > @ THEN run ELSE @,
        !.perfect = IF perfect THEN @ + Weight(e) ELSE @,
        !.overlaps = IF overlap /\ e.fast /\ ~Nulled(events, i) THEN @ + Weight(e) ELSE @,
        !.underlaps = IF known /\ e.fast /\ gap \in 1..UnderlapLimit THEN @ + 1 ELSE @]

Seen(events) ==
  LET f[i \in 0..Len(events)] ==
        IF i = 0 THEN NothingSeen
        ELSE IF events[i].pressed THEN AfterPress(f[i - 1], events, i)
        ELSE AfterRelease(f[i - 1], events[i])
  IN f[Len(events)]

EnoughEvents(events) == Len(events) >= MinEvents /\ Len(events) >= Required

NullsInfraction(events) ==
  LET s == Seen(events)
      forgiven == s.underlaps > 0
                  /\ s.underlaps * UnderlapShare >= s.overlaps + s.perfect + s.underlaps
  IN /\ EnoughEvents(events)
     /\ ~forgiven
     /\ s.best >= IF s.underlaps > 0 THEN MaxRequired ELSE Required

\* CheckNulls, of a player who is alive.
CheckNulls(d) ==
  IF ~d.dirty THEN d
  ELSE [d EXCEPT !.dirty = FALSE, !.events = IF NullsInfraction(@) THEN <<>> ELSE @]

=============================================================================
