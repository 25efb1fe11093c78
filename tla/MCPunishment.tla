---------------------------- MODULE MCPunishment ----------------------------
(***************************************************************************)
(* Model of Punishment: two slots that two people take in turn, so that a  *)
(* newcomer follows a punished player; a detection that only kicks, one    *)
(* that kicks or bans, one the network may veto, so that a kick precedes a *)
(* ban and follows one.                                                    *)
(***************************************************************************)
EXTENDS Punishment, TLC

\* Slots and people are interchangeable.
Symmetry == Permutations(Players) \union Permutations(Slots)

=============================================================================
