----------------------------- MODULE MCWebhook -----------------------------
(***************************************************************************)
(* Model of Webhook: two players, a queue of two reports and a cache of    *)
(* one avatar, so that the queue overflows under a lookup and under a      *)
(* post, and the cache is emptied while a report of the forgotten player   *)
(* still waits.                                                            *)
(***************************************************************************)
EXTENDS Webhook

=============================================================================
