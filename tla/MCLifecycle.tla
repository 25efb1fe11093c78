---------------------------- MODULE MCLifecycle ----------------------------
(***************************************************************************)
(* Model of Lifecycle: the shared detection system and one player's        *)
(* movement service; a timer of two time units, so that the timer of a     *)
(* finished load runs out under the next one; a command buffer that can    *)
(* hold the rest of one file and another.                                  *)
(***************************************************************************)
EXTENDS Lifecycle

=============================================================================
