---------------------------- MODULE DllInjection ----------------------------
(***************************************************************************)
(* DllInjectionModule (dll_injection_module.cpp): when the event           *)
(* subscriptions of which player are scanned.  A player's first scan comes *)
(* some time after he is first seen in game and then at intervals, and a   *)
(* frame scans one player at most: who comes after him waits.              *)
(*                                                                         *)
(* All slots are modelled.  A frame is the unit of time; the delays are    *)
(* counted in frames, and there are more of those in ten seconds, and in   *)
(* two minutes, than slots.  Who is in game, has a listener or has left  *)
(* since the last frame is told the frame.  A scan changes nothing but the *)
(* time of the next one; what it finds is announced at once.               *)
(***************************************************************************)
EXTENDS PlayerSlot

CONSTANTS
  SlotCount,      \* MAXPLAYERS
  InitialDelay,   \* initialScanDelay
  ScanInterval    \* scanInterval

ASSUME ScanAssumption ==
  /\ {SlotCount, InitialDelay, ScanInterval} \subseteq Nat
  /\ InitialDelay > SlotCount /\ ScanInterval > SlotCount

Slots == 1..SlotCount
Unset == -1

\* nextScans, as the frames until then, and the history: since how many frames the
\* player in game was due and nobody looked at him.
ScanData ==
  [nextScan : [Slots -> Unset..(ScanInterval + InitialDelay)], waited : [Slots -> 0..SlotCount]]

ScanTypeOK(d) == d \in ScanData

ScanClean == [nextScan |-> [s \in Slots |-> Unset], waited |-> [s \in Slots |-> 0]]

\* OnClientDisconnect.
Departed(d, left) ==
  [nextScan |-> [s \in Slots |-> IF s \in left THEN Unset ELSE d.nextScan[s]],
   waited |-> [s \in Slots |-> IF s \in left THEN 0 ELSE d.waited[s]]]

\* Plausible bug: a player who was passed over waits an interval again.
PassedOver == ScanInterval

\* A player who is due but comes after the one that was scanned stays due.
StillDue == 0

OnFrame(d, inGame, listening) ==
  LET due == {s \in inGame : d.nextScan[s] = 0}
      ready == due \intersect listening
      scanned == {s \in ready : \A r \in ready : s <= r}
      \* asked: due, and reached before another was scanned
      asked(s) == \A r \in scanned : s <= r
      next(s) ==
        IF s \in inGame /\ d.nextScan[s] = Unset THEN InitialDelay
        ELSE IF s \in scanned THEN ScanInterval
        ELSE IF s \in due /\ asked(s) THEN InitialDelay
        ELSE IF s \in due THEN StillDue
        ELSE d.nextScan[s]
      after(n) == IF n > 0 THEN n - 1 ELSE n
  IN [nextScan |-> [s \in Slots |-> after(next(s))],
      waited |-> [s \in Slots |->
                    IF s \notin inGame \/ (s \in due /\ asked(s)) THEN 0
                    ELSE IF (s \in due \/ d.waited[s] > 0) /\ d.waited[s] < SlotCount
                         THEN d.waited[s] + 1 ELSE d.waited[s]]]

=============================================================================
