------------------------- MODULE MCMovementDetection -------------------------
(***************************************************************************)
(* One player, with the detections of his jumps, of his landings or of his *)
(* commands enabled and every number of the code made as small as keeps    *)
(* its part: a landing counts after two movements through the air, two of  *)
(* them are enough to judge, a press may follow a landing by a tick, two   *)
(* perfect switches accuse, or two commands within two or three ticks.     *)
(***************************************************************************)
EXTENDS MovementDetection

MCMasks ==
  {{"BHOP", "HYPERSCROLL"}, {"AUTOSTRAFE"}, {"NULLS"}, {"AUTOSTRAFE", "NULLS"},
   {"INVALID INPUT", "DESUBTICKING"}, {"SUBTICK SPAM"}, {}}

MCNextMasks ==
  [m \in MCMasks |-> IF m \in {{"AUTOSTRAFE"}, {}} THEN {{"AUTOSTRAFE"}, {}} ELSE {m}]

MCVaries ==
  [m \in MCMasks |->
     CASE m \subseteq {"BHOP", "HYPERSCROLL"} \/ m = {"AUTOSTRAFE"} -> {"movement"}
       [] m = {"NULLS"} -> {"buttons"}
       [] m = {"AUTOSTRAFE", "NULLS"} -> {"views"}
       [] OTHER -> {"subticks"}]

MCMaxNumber == [m \in MCMasks |-> IF m = {"NULLS"} THEN 3 ELSE 4]

MCWindow == [k \in Lists |-> IF k \in {Invalid, Spam} THEN 1 ELSE 2]
MCThreshold == [k \in Lists |-> 2]

=============================================================================
