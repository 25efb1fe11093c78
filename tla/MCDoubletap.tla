----------------------------- MODULE MCDoubletap ----------------------------
(***************************************************************************)
(* Model of Doubletap: two weapons that make pairs, a knife that           *)
(* interrupts them and an event nobody consumes, fired within each other;  *)
(* a window of two sample intervals, so that it forgets between two pairs  *)
(* what it showed at the first.                                            *)
(***************************************************************************)
EXTENDS Doubletap

=============================================================================
