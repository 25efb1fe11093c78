---------------------------- MODULE NameChanger -----------------------------
(***************************************************************************)
(* NameChangerModule (namechanger_module.cpp): a player who changes names  *)
(* too often within a minute.  The first name that is seen is the baseline *)
(* and never a change.                                                     *)
(*                                                                         *)
(* Each operator takes the player's data to what a callback makes of it.   *)
(* Of the names it matters whether the one that is seen differs from the   *)
(* last; changed says so, lapsed how many changes are older than a minute. *)
(***************************************************************************)
EXTENDS PlayerSlot

CONSTANT MaxNameChanges   \* detectionThreshold, 5 in the source

ASSUME NameAssumption == MaxNameChanges \in Nat \ {0}

\* The player's data: the connection of each change, a history, oldest first.
NameData == [initialized : BOOLEAN, changes : Seq(Connections)]

NameTypeOK(d) == d \in NameData /\ Len(d.changes) < MaxNameChanges

NameClean == [initialized |-> FALSE, changes |-> <<>>]

NameOnClientReady == [NameClean EXCEPT !.initialized = TRUE]

\* Reset takes the name of everybody in game for the baseline.
NameReset(inGame) == IF connected /\ inGame THEN NameOnClientReady ELSE NameClean

NameOnClientSettingsChanged(d, changed, lapsed) ==
  LET changes == Append(SubSeq(d.changes, lapsed + 1, Len(d.changes)), connection)
  IN IF ~d.initialized THEN [d EXCEPT !.initialized = TRUE]
     ELSE IF ~changed THEN d
     ELSE [d EXCEPT !.changes = IF Len(changes) >= MaxNameChanges THEN <<>> ELSE changes]

=============================================================================
