----------------------------- MODULE Punishment -----------------------------
(***************************************************************************)
(* CS2ACPlugin::HandleDetection (cs2ac.cpp): what happens to a player a    *)
(* detector accuses, and the punishmentLevels that keep several detectors  *)
(* (or one that fires every tick) from punishing a player twice.           *)
(*                                                                         *)
(* Detectors accuse from inside the engine's callbacks on the game thread; *)
(* between two accusations players come and go, their SteamID64 and user   *)
(* ID become known, maps change, the plugin is unloaded and loaded, and    *)
(* the operator edits any setting.                                         *)
(*                                                                         *)
(* Abstractions: a command template is what can become of its expansion;   *)
(* announcements, the Discord report and log lines change no state here    *)
(* (Webhook models the Discord queue, SiteReport the website's).           *)
(***************************************************************************)
EXTENDS Naturals, Sequences

CONSTANTS
  Slots,       \* player slots
  Players,     \* the people who may occupy them
  NoPlayer,    \* an empty slot
  Detections,  \* detection names
  KickOnly,    \* the names IsKickOnlyDetection knows
  MayKickOnly, \* the detections whose detector may pass kickOnly (INVALID CVAR)
  Vetoable     \* those whose detector may pass networkVetoed (DOUBLETAP, ANTIAIM)

ASSUME PunishmentAssumption ==
  /\ NoPlayer \notin Players
  /\ KickOnly \union MayKickOnly \union Vetoable \subseteq Detections

VARIABLES
  loaded,      \* CS2ACPlugin::loaded; while FALSE every hook ignores its call
  occupant,    \* who is connected in each slot
  steamKnown,  \* the engine knows the SteamID64 of the client in the slot
  userKnown,   \* the engine gives the client in the slot a user ID
  levels,      \* punishmentLevels
  mode,        \* DetectionMode of each detection
  whitelist,   \* the players whose SteamID64 is whitelisted
  template,    \* the kick and ban command templates
  issued,      \* history: the levels of the commands sent against the client in
               \* each slot, since it connected, the map began, or CS2AC loaded
  unreported   \* history: a detection in website mode was handled, while the
               \* website took reports, and no report was queued

vars == <<loaded, occupant, steamKnown, userKnown, levels, mode, whitelist,
          template, issued, unreported>>

engine == <<occupant, steamKnown, userKnown>>
settings == <<mode, whitelist, template>>

\* PunishmentLevel
None == 0
Kick == 1
Ban == 2

Levels == {None, Kick, Ban}
Commands == {Kick, Ban}

DetectionMode == {"Disabled", "Report", "Punish"}

\* An empty template; one that names {userid}; one that expands beyond
\* CCommand::MaxCommandLength; any other.
Template == {"empty", "userid", "long", "plain"}

TypeOK ==
  /\ loaded \in BOOLEAN
  /\ occupant \in [Slots -> Players \union {NoPlayer}]
  /\ steamKnown \in [Slots -> BOOLEAN]
  /\ userKnown \in [Slots -> BOOLEAN]
  /\ levels \in [Slots -> Levels]
  /\ mode \in [Detections -> DetectionMode]
  /\ whitelist \in SUBSET Players
  /\ template \in [Commands -> Template]
  /\ issued \in [Slots -> Seq(Commands)]
  /\ unreported \in BOOLEAN

Init ==
  /\ loaded = FALSE
  /\ occupant = [s \in Slots |-> NoPlayer]
  /\ steamKnown = [s \in Slots |-> FALSE]
  /\ userKnown = [s \in Slots |-> FALSE]
  /\ levels = [s \in Slots |-> None]
  /\ mode \in [Detections -> DetectionMode]
  /\ whitelist = {}
  /\ template \in [Commands -> Template]
  /\ issued = [s \in Slots |-> <<>>]
  /\ unreported = FALSE

-----------------------------------------------------------------------------
\* The engine: connections and identities.

Connect(s, p) ==
  /\ occupant[s] = NoPlayer
  /\ \A t \in Slots : occupant[t] # p
  /\ occupant' = [occupant EXCEPT ![s] = p]
  /\ issued' = [issued EXCEPT ![s] = <<>>]
  /\ UNCHANGED <<loaded, steamKnown, userKnown, levels, settings, unreported>>

SteamIdReady(s) ==
  /\ occupant[s] # NoPlayer
  /\ ~steamKnown[s]
  /\ steamKnown' = [steamKnown EXCEPT ![s] = TRUE]
  /\ UNCHANGED <<loaded, occupant, userKnown, levels, settings, issued, unreported>>

UserIdReady(s) ==
  /\ occupant[s] # NoPlayer
  /\ ~userKnown[s]
  /\ userKnown' = [userKnown EXCEPT ![s] = TRUE]
  /\ UNCHANGED <<loaded, occupant, steamKnown, levels, settings, issued, unreported>>

\* Plausible bug: the level outlives the connection.
KeepLevel(s) == levels

\* OnClientDisconnect; the hook ignores the call while CS2AC is not loaded.
Forgive(s) == IF loaded THEN [levels EXCEPT ![s] = None] ELSE levels

Disconnect(s) ==
  /\ occupant[s] # NoPlayer
  /\ occupant' = [occupant EXCEPT ![s] = NoPlayer]
  /\ steamKnown' = [steamKnown EXCEPT ![s] = FALSE]
  /\ userKnown' = [userKnown EXCEPT ![s] = FALSE]
  /\ levels' = Forgive(s)
  /\ issued' = [issued EXCEPT ![s] = <<>>]
  /\ UNCHANGED <<loaded, settings, unreported>>

-----------------------------------------------------------------------------
\* The plugin's life: OnLevelInit and OnLevelShutdown call ResetRuntime, so does
\* Activate; Unload calls CleanupRuntime.

StartAfresh ==
  /\ levels' = [s \in Slots |-> None]
  /\ issued' = [s \in Slots |-> <<>>]

MapReset ==
  /\ loaded
  /\ StartAfresh
  /\ UNCHANGED <<loaded, engine, settings, unreported>>

Load ==
  /\ ~loaded
  /\ loaded' = TRUE
  /\ StartAfresh
  /\ UNCHANGED <<engine, settings, unreported>>

Unload ==
  /\ loaded
  /\ loaded' = FALSE
  /\ StartAfresh
  /\ UNCHANGED <<engine, settings, unreported>>

-----------------------------------------------------------------------------
\* The operator.

SetMode(d, m) ==
  /\ mode' = [mode EXCEPT ![d] = m]
  /\ UNCHANGED <<loaded, engine, levels, whitelist, template, issued, unreported>>

SetWhitelist(players) ==
  /\ whitelist' = players
  /\ UNCHANGED <<loaded, engine, levels, mode, template, issued, unreported>>

SetTemplate(level, t) ==
  /\ template' = [template EXCEPT ![level] = t]
  /\ UNCHANGED <<loaded, engine, levels, mode, whitelist, issued, unreported>>

-----------------------------------------------------------------------------
\* HandleDetection, by the way it ends.  The detector may ask for a kick at most
\* (kickOnly) and may say that the network vetoed its evidence (vetoed).

Accused(s, d) == loaded /\ occupant[s] # NoPlayer /\ mode[d] # "Disabled"

\* The outcomes NetworkUnstable, IdentityUnavailable and Whitelisted.
Excused(s, vetoed) == vetoed \/ ~steamKnown[s] \/ occupant[s] \in whitelist

\* siteReady: SiteReportService::Report would accept a report with a SteamID64.
Excuse(s, d, vetoed, siteReady) ==
  /\ Accused(s, d)
  /\ Excused(s, vetoed)
  /\ unreported' = (unreported \/ (mode[d] = "Report" /\ siteReady /\ steamKnown[s]))
  /\ UNCHANGED <<loaded, engine, levels, settings, issued>>

\* WebsiteReportQueued or WebsiteReportUnavailable: no command in this mode.
ReportToWebsite(s, d, vetoed) ==
  /\ Accused(s, d)
  /\ ~Excused(s, vetoed)
  /\ mode[d] = "Report"
  /\ UNCHANGED vars

Requested(d, kickOnly) == IF kickOnly \/ d \in KickOnly THEN Kick ELSE Ban

\* Plausible bug: only the very same punishment counts as a duplicate.
SamePunished(s, level) == levels[s] = level

AlreadyPunished(s, level) == levels[s] >= level

\* Neither PunishmentDisabled, nor a user ID the template needs and the engine
\* does not have, nor CommandTooLong.  The engine interface the code asks for
\* last was found before the plugin was activated.
Sendable(s, level) ==
  \/ template[level] = "plain"
  \/ template[level] = "userid" /\ userKnown[s]

Withhold(s, d, kickOnly, vetoed) ==
  LET level == Requested(d, kickOnly)
  IN /\ Accused(s, d)
     /\ ~Excused(s, vetoed)
     /\ mode[d] = "Punish"
     /\ AlreadyPunished(s, level) \/ ~Sendable(s, level)
     /\ UNCHANGED vars

\* Plausible bug: whatever was sent counts as a ban.
RaiseToBan(s, level) == levels' = [levels EXCEPT ![s] = Ban]

Raise(s, level) == levels' = [levels EXCEPT ![s] = level]

\* PunishmentSent.
Punish(s, d, kickOnly, vetoed) ==
  LET level == Requested(d, kickOnly)
  IN /\ Accused(s, d)
     /\ ~Excused(s, vetoed)
     /\ mode[d] = "Punish"
     /\ ~AlreadyPunished(s, level)
     /\ Sendable(s, level)
     /\ issued' = [issued EXCEPT ![s] = Append(@, level)]
     /\ Raise(s, level)
     /\ UNCHANGED <<loaded, engine, settings, unreported>>

Flag(d, names) == {flag \in BOOLEAN : flag => d \in names}

HandleDetection(s, d) ==
  \E kickOnly \in Flag(d, MayKickOnly), vetoed \in Flag(d, Vetoable) :
    \/ \E siteReady \in BOOLEAN : Excuse(s, d, vetoed, siteReady)
    \/ ReportToWebsite(s, d, vetoed)
    \/ Withhold(s, d, kickOnly, vetoed)
    \/ Punish(s, d, kickOnly, vetoed)

-----------------------------------------------------------------------------

Engine ==
  \E s \in Slots :
    \/ \E p \in Players : Connect(s, p)
    \/ SteamIdReady(s)
    \/ UserIdReady(s)
    \/ Disconnect(s)

Operator ==
  \/ \E d \in Detections, m \in DetectionMode : SetMode(d, m)
  \/ \E players \in SUBSET Players : SetWhitelist(players)
  \/ \E level \in Commands, t \in Template : SetTemplate(level, t)

Next ==
  \/ Engine
  \/ Operator
  \/ MapReset
  \/ Load
  \/ Unload
  \/ \E s \in Slots, d \in Detections : HandleDetection(s, d)

Spec == Init /\ [][Next]_vars

-----------------------------------------------------------------------------

(***************************************************************************)
(* punishmentLevels remembers exactly what was sent against whoever is in  *)
(* the slot now: nothing for a newcomer, whatever was sent against the     *)
(* person before, whenever CS2AC was unloaded and loaded, and never less   *)
(* than what was sent.                                                     *)
(***************************************************************************)
Highest(commands) == IF commands = <<>> THEN None ELSE commands[Len(commands)]

LevelMatchesCommands == \A s \in Slots : levels[s] = Highest(issued[s])

(***************************************************************************)
(* Nothing is held against an empty slot, and nothing against anybody      *)
(* while CS2AC is not loaded and would miss a disconnect: whoever connects *)
(* next never inherits a punishment.                                       *)
(***************************************************************************)
NobodyInherits ==
  \A s \in Slots : occupant[s] = NoPlayer \/ ~loaded => levels[s] = None

(***************************************************************************)
(* However many detections accuse a client, and however the settings       *)
(* change between them, it is sent at most one kick and after it at most   *)
(* one ban until it reconnects or the map changes: a later command is      *)
(* always a harder one.                                                    *)
(***************************************************************************)
EscalatesOnly ==
  \A s \in Slots : \A i, j \in 1..Len(issued[s]) :
    i < j => issued[s][i] < issued[s][j]

(***************************************************************************)
(* A punishment is forgotten only when the client leaves or everything     *)
(* starts afresh; a detection, a setting or another player's departure     *)
(* never lowers a level.                                                   *)
(***************************************************************************)
ForgottenOnlyWithCause ==
  [][\A s \in Slots : levels'[s] < levels[s] =>
       occupant'[s] = NoPlayer \/ \A t \in Slots : levels'[t] = None]_vars

(***************************************************************************)
(* README, on detection mode 1: the "detection is announced and queued for *)
(* the website".  Read as it stands: no such detection goes unreported     *)
(* while the website takes reports.                                        *)
(***************************************************************************)
ReportModeReports == ~unreported

=============================================================================
