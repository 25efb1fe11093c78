-------------------------- MODULE IrregularBehavior -------------------------
(***************************************************************************)
(* IrregularBehaviorModule (irregular_behavior_module.cpp): shots in the   *)
(* air or without a scope are attempts; one becomes a success if a kill is *)
(* matched to it before it is finalised, and the successes among the       *)
(* attempts of five minutes decide.                                        *)
(*                                                                         *)
(* Each operator takes the player's data to what a callback makes of it.   *)
(* Points become one choice, whether the score is reached (enough); the    *)
(* buckets of a second become the attempts themselves; the end of the      *)
(* five minutes may come for the oldest at any frame.                      *)
(***************************************************************************)
EXTENDS PlayerSlot

CONSTANTS
  PendingLimit,    \* pendingLimit, 8 in the source
  MinSuccesses,    \* minimumSuccesses, 3 in the source
  MinAttempts      \* minimumAttempts, 5 in the source

ASSUME IrregularAssumption ==
  PendingLimit \in Nat \ {0} /\ MinSuccesses \in Nat /\ MinAttempts \in Nat

IrregularPending == [shotId : Nat, fireTick : Ticks, success : BOOLEAN]

\* IrregularPlayerData; an attempt's connection and cleared, the attempts an
\* announcement threw away, are history.
IrregularTypeOK(d) ==
  /\ DOMAIN d = {"pending", "evidence", "cleared"}
  /\ d.pending \in Seq(IrregularPending) /\ Len(d.pending) <= PendingLimit
  /\ d.evidence \in Seq([success : BOOLEAN, connection : Connections])
  /\ d.cleared \subseteq Nat

IrregularClean == [pending |-> <<>>, evidence |-> <<>>, cleared |-> {}]

-----------------------------------------------------------------------------
Successes(evidence) == Cardinality({i \in 1..Len(evidence) : evidence[i].success})

Convinces(evidence) ==
  /\ Len(evidence) >= MinAttempts
  /\ Successes(evidence) >= MinSuccesses
  /\ 2 * Successes(evidence) >= Len(evidence)

\* Evaluate: an announcement clears everything, what is still pending too.
Announced(d) ==
  [pending |-> <<>>, evidence |-> <<>>,
   cleared |-> d.cleared \union {d.pending[i].shotId : i \in 1..Len(d.pending)}]

\* The first n of pending become attempts of the five minutes.
Finished(d, n) ==
  [d EXCEPT !.pending = SubSeq(@, n + 1, Len(@)),
            !.evidence = @ \o [i \in 1..n |-> [success |-> d.pending[i].success,
                                               connection |-> connection]]]

\* Finalize, for the first n of pending in turn; an announcement ends it.
Finalize(d, n, enough) ==
  LET announcing == {k \in 1..n : enough /\ Convinces(Finished(d, k).evidence)}
  IN IF announcing = {} THEN Finished(d, n)
     ELSE Announced(Finished(d, CHOOSE k \in announcing : \A j \in announcing : k <= j))

Full(d) == Len(d.pending) >= PendingLimit

IrregularOnWeaponFire(d, shotId, enough) ==
  LET room == IF Full(d) THEN Finalize(d, 1, enough) ELSE d
  IN [room EXCEPT !.pending =
        Append(@, [shotId |-> shotId, fireTick |-> tick, success |-> FALSE])]

\* fair: the victim was an enemy, and far enough.
IrregularOnPlayerDeath(d, shotId, fair) ==
  [d EXCEPT !.pending =
     [i \in 1..Len(@) |-> IF @[i].shotId = shotId /\ fair
                          THEN [@[i] EXCEPT !.success = TRUE] ELSE @[i]]]

\* Plausible bug: an attempt is finalised while a kill may still come.
RipeAtOnce(attempt) == tick >= attempt.fireTick

Ripe(attempt) == tick - attempt.fireTick >= 2

\* How many attempts are ripe: the first ones.
RipeAttempts(d) ==
  CHOOSE n \in 0..Len(d.pending) : /\ \A i \in 1..n : Ripe(d.pending[i])
                                   /\ n < Len(d.pending) => ~Ripe(d.pending[n + 1])

\* Prune.
Lapsed(d) == IF d.evidence = <<>> THEN d ELSE [d EXCEPT !.evidence = Tail(@)]

IrregularOnGameFrame(d) ==
  UNION {{e, Lapsed(e)} : e \in {Finalize(d, RipeAttempts(d), enough) : enough \in BOOLEAN}}

=============================================================================
