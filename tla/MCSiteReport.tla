---------------------------- MODULE MCSiteReport ----------------------------
(***************************************************************************)
(* Model of SiteReport: a queue of three, five reports, so that it         *)
(* overflows with and without a request outstanding.                       *)
(***************************************************************************)
EXTENDS SiteReport

=============================================================================
