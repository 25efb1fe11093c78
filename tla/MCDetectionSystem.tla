------------------------- MODULE MCDetectionSystem --------------------------
(***************************************************************************)
(* Model of DetectionSystem, for two configurations.  Shots: the modules   *)
(* that judge shots, one person and four ticks, so that shots are made,    *)
(* matched, judged and pruned while the next ones are under way, and one   *)
(* more command and shot than are kept.  Views: every module, with one     *)
(* attack and a change of player; Aimlock and DllInjection need more ticks *)
(* than the others and no attack, and for Aimlock and AntiAim, whose       *)
(* states are the largest, it is enough that the player leaves.            *)
(***************************************************************************)
EXTENDS DetectionSystem

ShotsHorizon ==
  [s \in Settings |-> [tick |-> 4, command |-> 3, connection |-> 1, attacks |-> {1, 2, 3}]]

ViewsHorizon ==
  [s \in Settings |->
     CASE AntiAimDetection \in s -> [tick |-> 3, command |-> 3, connection |-> 1, attacks |-> {2}]
       [] AimlockDetection \in s -> [tick |-> 7, command |-> 7, connection |-> 1, attacks |-> {}]
       [] DllDetection \in s -> [tick |-> 7, command |-> 0, connection |-> 0, attacks |-> {}]
       [] OTHER -> [tick |-> 4, command |-> 3, connection |-> 2, attacks |-> {2}]]

Spin == <<2>>

=============================================================================
