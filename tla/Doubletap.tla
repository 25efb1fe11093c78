----------------------------- MODULE Doubletap ------------------------------
(***************************************************************************)
(* DOUBLETAP (doubletap_module.cpp) for one player slot, with the events   *)
(* that tell it of shots (GameEvents) and the connection that may excuse   *)
(* them (NetworkSafety).                                                   *)
(*                                                                         *)
(* Two shots of one weapon in the same or in successive ticks are a pair;  *)
(* three pairs, however far apart, are a detection.  The connection is     *)
(* judged at each pair and remembered until the third, when what it showed *)
(* at the first is long out of the window.                                 *)
(*                                                                         *)
(* While listeners run, nothing else does: no frame and no command, and    *)
(* the time they take is not counted.  Whatever resets the detections is   *)
(* one action: a change of settings, a new map, or the next player in the  *)
(* slot; an unload resets them too.                                        *)
(***************************************************************************)
EXTENDS NetworkSafety, GameEvents

CONSTANTS
  Weapons,     \* the weapon_fire events of ballistic weapons
  Others       \* the weapon_fire events of other weapons

ASSUME DoubletapAssumption == Weapons \union Others \subseteq Consumed

VARIABLES
  fired,       \* ticks since the player last fired
  weapon,      \* the weapon, NoWeapon if there is none to compare with
  incidents,   \* the pairs since the last verdict
  vetoed,      \* networkEvidence.vetoed
  pairs,       \* history: for each pair of this player since the last verdict, whether
               \* the connection had shown anything within the window
  wronged      \* history: punished although not for three pairs on a sound connection

doubletapVars == <<fired, weapon, incidents, vetoed, pairs, wronged>>
vars == <<networkVars, eventVars, doubletapVars>>

\* detectionThreshold
Threshold == 3

NoWeapon == "none"
TooLate == 2

TypeOK ==
  /\ NetworkTypeOK
  /\ EventsTypeOK
  /\ fired \in 0..TooLate
  /\ weapon \in Weapons \union {NoWeapon}
  /\ incidents \in 0..(Threshold - 1)
  /\ vetoed \in BOOLEAN
  /\ pairs \in Seq(BOOLEAN) /\ Len(pairs) < Threshold
  /\ wronged \in BOOLEAN

Init ==
  /\ NetworkInit
  /\ EventsInit
  /\ fired = TooLate /\ weapon = NoWeapon
  /\ incidents = 0 /\ vetoed = FALSE /\ pairs = <<>>
  /\ wronged = FALSE

-----------------------------------------------------------------------------
\* OnWeaponFire.

\* A shot of another kind leaves nothing to compare the next with.
Interrupted ==
  /\ fired' = TooLate
  /\ weapon' = NoWeapon
  /\ UNCHANGED <<networkVars, incidents, vetoed, pairs, wronged>>

IsPair(w) == weapon = w /\ fired <= 1

Single(w) ==
  /\ ~IsPair(w)
  /\ fired' = 0
  /\ weapon' = w
  /\ UNCHANGED <<networkVars, incidents, vetoed, pairs, wronged>>

\* Plausible bug: only the connection at the last pair counts.
LatestEvidence == Vetoed

\* MergeNetworkEvidence.
Merged == vetoed \/ Vetoed

\* The history of a pair: what the connection really showed.
Paired == Append(pairs, broken <= Window)

Verdict ==
  /\ incidents + 1 = Threshold
  /\ incidents' = 0
  /\ vetoed' = FALSE
  /\ pairs' = <<>>
  /\ wronged' = (wronged \/ (~Merged /\ Paired # [i \in 1..Threshold |-> FALSE]))

Counted ==
  /\ incidents + 1 < Threshold
  /\ incidents' = incidents + 1
  /\ vetoed' = Merged
  /\ pairs' = Paired
  /\ UNCHANGED wronged

Pair(w) ==
  /\ IsPair(w)
  /\ fired' = 0
  /\ Evaluate
  /\ Counted \/ Verdict
  /\ UNCHANGED weapon

OnWeaponFire(event) ==
  \/ event \in Others /\ Interrupted
  \/ event \in Weapons /\ (Single(event) \/ Pair(event))

-----------------------------------------------------------------------------
\* The events.

Unaffected == UNCHANGED <<networkVars, doubletapVars>>

FireEvent(event) ==
  /\ FireEventBefore(event)
  /\ Unaffected

EventFired ==
  /\ FireEventAfter
  /\ \/ OnWeaponFire(Handled)
     \/ Handled \notin Weapons \union Others /\ Unaffected

-----------------------------------------------------------------------------
\* Resets.

\* DoubletapModule::Reset, OnClientDisconnect.
ResetState ==
  /\ fired' = TooLate
  /\ weapon' = NoWeapon
  /\ incidents' = 0
  /\ vetoed' = FALSE

ResetDoubletap ==
  /\ ResetState
  /\ pairs' = <<>>
  /\ UNCHANGED wronged

\* RefreshSettings, OnClientDisconnect, a new map.
Reset ==
  /\ loaded /\ firing = <<>>
  /\ NetworkReset
  /\ ResetDoubletap
  /\ UNCHANGED eventVars

Load ==
  /\ LoadHooks
  /\ Unaffected

Unload ==
  /\ Cleanup
  /\ NetworkReset
  /\ ResetDoubletap

-----------------------------------------------------------------------------
\* Commands, frames and time, outside of events.

OnProcessUsercmds(command) ==
  /\ loaded /\ firing = <<>>
  /\ NetworkOnProcessUsercmds(command)
  /\ UNCHANGED <<eventVars, doubletapVars>>

\* A frame ends the server's tick.
OnGameFrame ==
  /\ loaded /\ firing = <<>>
  /\ NetworkOnGameFrame
  /\ fired' = IF fired < TooLate THEN fired + 1 ELSE fired
  /\ UNCHANGED <<eventVars, weapon, incidents, vetoed, pairs, wronged>>

TimePasses ==
  /\ loaded /\ firing = <<>>
  /\ NetworkTimePasses
  /\ UNCHANGED <<eventVars, doubletapVars>>

Next ==
  \/ \E event \in Events : FireEvent(event)
  \/ EventFired
  \/ \E command \in Commands : OnProcessUsercmds(command)
  \/ OnGameFrame
  \/ TimePasses
  \/ Reset
  \/ Load
  \/ Unload

Spec == Init /\ [][Next]_vars

-----------------------------------------------------------------------------

(***************************************************************************)
(* Nobody is punished but for three pairs of his own, at none of which his *)
(* connection had shown a gap or a bad sample within the last five         *)
(* seconds, however long ago the first pair was.                           *)
(***************************************************************************)
PunishedOnSoundConnection == ~wronged

(***************************************************************************)
(* A disturbance excuses a player for five seconds and not for good: once  *)
(* the connection has been quiet that long and there are two samples to    *)
(* show it, nothing is vetoed.                                             *)
(***************************************************************************)
VetoHasCause ==
  broken > Window /\ uneasy > Window /\ Len(Recent(samples)) >= 2 => ~Vetoed

=============================================================================
