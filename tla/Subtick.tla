------------------------------- MODULE Subtick ------------------------------
(***************************************************************************)
(* INVALID INPUT, SUBTICK SPAM and DESUBTICKING (subtick.cpp): commands    *)
(* that look wrong are noted with their time, and accuse when there are    *)
(* enough of them within a window.                                         *)
(*                                                                         *)
(* Each operator takes the player's data to what a callback makes of it.   *)
(* A list of times is a set of ages in ticks, because a tick brings one    *)
(* command at most; what has outlived its window has the age Window + 1.   *)
(* What a command shows is the set of lists it belongs to.                 *)
(***************************************************************************)
EXTENDS Naturals, FiniteSets

CONSTANTS
  Window,      \* for each list, the ticks it looks back: 5, 0.5, 20 and 20 seconds
  Threshold    \* 8, 20 and 30 commands

Invalid == "invalid"  \* invalidCommandTimes
Spam == "spam"        \* suspiciousSubtickMoveTimes
Inputs == "inputs"    \* numCommandsWithSubtickInputs
Zero == "zero"        \* zeroWhenCommandTimes
Lists == {Invalid, Spam, Inputs, Zero}

ASSUME SubtickAssumption ==
  /\ Window \in [Lists -> Nat]
  /\ Threshold \in [Lists -> Nat \ {0}]

Accusing == {Invalid, Spam, Inputs}
DetectionOf ==
  [k \in Accusing |-> CASE k = Invalid -> "INVALID INPUT"
                      [] k = Spam -> "SUBTICK SPAM"
                      [] k = Inputs -> "DESUBTICKING"]

\* What a command may show: spam and zero timing are of subtick moves.
Shows == {k \in SUBSET Lists : {Spam, Zero} \intersect k # {} => Inputs \in k}

\* early: he has been in the server for less than SUBTICK_INITIAL_IGNORE_TIME.  History:
\* sent, what the detector was shown under the present settings and after that time, and
\* no accusation has used, and accused, what he was accused of since the tick began.
NoTimes == [k \in Lists |-> {}]
SubtickClean == [times |-> NoTimes, early |-> TRUE, sent |-> NoTimes, accused |-> {}]

SubtickTypeOK(d) ==
  /\ d \in [times : [Lists -> SUBSET Nat], early : BOOLEAN,
            sent : [Lists -> SUBSET Nat], accused : SUBSET Accusing]
  /\ \A k \in Lists : d.times[k] \union d.sent[k] \subseteq 0..(Window[k] + 1)

-----------------------------------------------------------------------------
\* ClearDetectionBuffers, for a dead player.
SubtickCleared(d) == [d EXCEPT !.times = NoTimes]

\* The same when the settings have changed.
SubtickReset(d) == [SubtickCleared(d) EXCEPT !.sent = NoTimes]

\* A tick has passed.
Older(times) == [k \in Lists |-> {IF a > Window[k] THEN a ELSE a + 1 : a \in times[k]}]
SubtickTick(d) == [d EXCEPT !.times = Older(@), !.sent = Older(@), !.accused = {}]

Noted(times, lists) == [k \in Lists |-> IF k \in lists THEN times[k] \union {0} ELSE times[k]]

\* CheckSubtickAbuse: two of the detections look at a command only if they are enabled.
CheckSubtickAbuse(d, shown, mask) ==
  LET noted == {k \in shown : k \in {Invalid, Spam} => DetectionOf[k] \in mask}
  IN [d EXCEPT !.times = Noted(@, noted), !.sent = Noted(@, shown)]

-----------------------------------------------------------------------------
\* CheckSuspiciousSubtickCommands.

\* Plausible bug: what has outlived its window is dropped after the judgement.
PrunedLate(times) == times

Pruned(times) == [k \in Lists |-> {a \in times[k] : a <= Window[k]}]

Enough(times, k) ==
  /\ Cardinality(times[k]) >= Threshold[k]
  /\ k = Inputs => 10 * Cardinality(times[Zero]) >= 9 * Cardinality(times[Inputs])

\* The lists a judgement empties.
Used(k) == IF k = Inputs THEN {Inputs, Zero} ELSE {k}

\* MarkInfraction drops what is not enabled; the lists are emptied all the same.
CheckSuspiciousSubtickCommands(d, mask) ==
  LET times == Pruned(d.times)
      enough == {k \in Accusing : Enough(times, k)}
      used == UNION {Used(k) : k \in enough}
      accused == {k \in enough : DetectionOf[k] \in mask}
      spent == UNION {Used(k) : k \in accused}
  IN IF d.early THEN SubtickReset(d)
     ELSE [d EXCEPT !.times = [k \in Lists |-> IF k \in used THEN {} ELSE times[k]],
                    !.accused = accused,
                    !.sent = [k \in Lists |-> IF k \in spent THEN @[k] \ times[k] ELSE @[k]]]

\* He did send as many as an accusation needs; of commands with subtick inputs, nine in
\* ten of so many with zero timing as well.
SentLately(d, k) == Cardinality({a \in d.sent[k] : a <= Window[k]})
Backed(d, k) ==
  /\ SentLately(d, k) >= Threshold[k]
  /\ k = Inputs => 10 * SentLately(d, Zero) >= 9 * Threshold[Inputs]

=============================================================================
