----------------------------- MODULE GameEvents -----------------------------
(***************************************************************************)
(* The game events (hooks.cpp).  The plugin sees an event twice: before    *)
(* the engine fires it, when it keeps a copy of the event and the player   *)
(* it is about, and after, when it handles the copy.  In between the       *)
(* listeners run, which may fire events of their own, load CS2AC or        *)
(* unload it.  Only the order of a stack tells which copy an after-hook    *)
(* belongs to.                                                             *)
(*                                                                         *)
(* Abstractions: an event is its kind; the copy also records at which      *)
(* depth it was made (history), so that one event is told from another of  *)
(* the same kind.                                                          *)
(***************************************************************************)
EXTENDS Naturals, Sequences

CONSTANTS
  Events,      \* the kinds of events
  Consumed,    \* those of IsConsumedEvent
  MaxDepth     \* bound: how deep events are fired within events

ASSUME EventsAssumption ==
  /\ Consumed \subseteq Events
  /\ "none" \notin Events
  /\ MaxDepth \in Nat

VARIABLES
  loaded,      \* CS2ACPlugin::loaded
  firing,      \* the events the engine is firing, outermost first
  pending      \* pendingGameEvents

eventVars == <<loaded, firing, pending>>

\* A PendingGameEvent; an event that is not consumed leaves an empty one.
PendingGameEvent == [event : Consumed \union {"none"}, depth : 1..MaxDepth]

EventsTypeOK ==
  /\ loaded \in BOOLEAN
  /\ firing \in Seq(Events) /\ Len(firing) <= MaxDepth
  /\ pending \in Seq(PendingGameEvent) /\ Len(pending) <= Len(firing)

EventsInit ==
  /\ loaded = FALSE
  /\ firing = <<>>
  /\ pending = <<>>

\* HookFireEventBefore.
Kept(event) ==
  [event |-> IF event \in Consumed THEN event ELSE "none", depth |-> Len(firing) + 1]

FireEventBefore(event) ==
  /\ Len(firing) < MaxDepth
  /\ firing' = Append(firing, event)
  /\ pending' = IF loaded THEN Append(pending, Kept(event)) ELSE pending
  /\ UNCHANGED loaded

\* Plausible bug: the copies are taken in the order they were made.
Earliest == Head(pending)

\* HookFireEventAfter handles the latest copy, if there is one.
Latest == pending[Len(pending)]

Handled == IF loaded /\ pending # <<>> THEN Latest.event ELSE "none"

FireEventAfter ==
  /\ firing # <<>>
  /\ firing' = SubSeq(firing, 1, Len(firing) - 1)
  /\ pending' = IF loaded /\ pending # <<>> THEN SubSeq(pending, 1, Len(pending) - 1)
                ELSE pending
  /\ UNCHANGED loaded

\* Cleanup.
NonePending == <<>>

LoadHooks ==
  /\ ~loaded
  /\ loaded' = TRUE
  /\ UNCHANGED <<firing, pending>>

Cleanup ==
  /\ loaded
  /\ loaded' = FALSE
  /\ pending' = NonePending
  /\ UNCHANGED firing

-----------------------------------------------------------------------------

(***************************************************************************)
(* What an after-hook handles is the copy of the very event that has just  *)
(* been fired, however listeners nest and wherever CS2AC is unloaded and   *)
(* loaded again among them.                                                *)
(***************************************************************************)
HandlesItsOwn ==
  loaded /\ pending # <<>> =>
    /\ Latest.depth = Len(firing)
    /\ Latest.event \in {firing[Len(firing)], "none"}

=============================================================================
