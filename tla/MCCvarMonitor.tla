--------------------------- MODULE MCCvarMonitor ---------------------------
(***************************************************************************)
(* Model of CvarMonitor: one protected setting and the one with two        *)
(* sources; two cookies, so that the answer to a query that was cleared is *)
(* still on its way while the next one is pending; QUERYTIMEOUT and the    *)
(* grace period in their real proportion, ten seconds to thirty.           *)
(***************************************************************************)
EXTENDS CvarMonitor

CONSTANTS sensitivity, sv_cheats

MCcvarNames == <<sv_cheats, sensitivity>>
MCCookies == 1..2

=============================================================================
