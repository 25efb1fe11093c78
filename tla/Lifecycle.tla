----------------------------- MODULE Lifecycle -----------------------------
(***************************************************************************)
(* The life of the plugin (cs2ac.cpp), its configuration (settings.cpp)    *)
(* and its timers (ctimer.cpp), with what they mean for the detectors:     *)
(* whether the evidence they judge was gathered under the settings and on  *)
(* the map they judge it under.                                            *)
(*                                                                         *)
(* A load of cs2ac.cfg is a server command: the file's lines are executed  *)
(* later, one by one, between the frames, and the last one reports back    *)
(* (cs2ac_config_loaded).  The plugin waits for it with a timer.  Meanwhile *)
(* the operator may type settings, reload, change the map or unload.       *)
(*                                                                         *)
(* Abstractions: the detection settings are one of three modes; a revision *)
(* is whether a consumer has seen the latest one (settingsRevision has 64  *)
(* bits and never comes round); evidence is whether it was gathered before *)
(* or after the last change; timers count time units, not seconds, and two *)
(* that run out together are one, the second finds nothing pending; the    *)
(* report services that a finished load reloads are SiteReport and Webhook. *)
(***************************************************************************)
EXTENDS Naturals, Sequences

CONSTANTS
  Services,    \* the MovementDetectionServices, one per player slot
  System,      \* the DetectionSystem, shared by all slots
  Timeout,     \* the five seconds of ConfigLoadTimeout, in time units
  BufferLimit  \* bound: the lines waiting in the server's command buffer

ASSUME LifecycleAssumption ==
  /\ System \notin Services
  /\ Timeout \in Nat \ {0}
  /\ BufferLimit \in Nat

VARIABLES
  waiting,     \* activationPending: loaded with the game, AllPluginsLoaded to come
  loaded,      \* CS2ACPlugin::loaded; while FALSE every hook ignores its call
  configLoaded, pending, failed,  \* configLoaded, configReloadPending, configLoadFailed
  timers,      \* the time left of each armed ConfigLoadTimeout
  buffer,      \* the lines of cs2ac.cfg the server has still to execute
  whole,       \* history: the file executed last is complete
  mode,        \* the detection settings of the live console variables
  dirty, mask, \* detectionMaskDirty, detectionMask
  teammates,   \* the server's mp_teammates_are_enemies
  seen,        \* what each consumer remembers of the settings it worked under
  evidence,    \* history: whether what each consumer has was gathered before the last
               \* change, after it, or while teammates was the other way
  announced    \* history: the kinds of evidence ever announced, "off" if disabled

plugin == <<waiting, loaded>>
config == <<configLoaded, pending, failed>>
loading == <<timers, buffer, whole>>
live == <<mode, dirty, mask, teammates>>
detectors == <<seen, evidence, announced>>
vars == <<plugin, config, loading, live, detectors>>

Modes == {"off", "report", "punish"}
Lines == {"setting", "marker"}
Consumers == Services \union {System}

\* What a file that is complete, cut off or missing makes the server execute.
Contents ==
  [complete |-> <<"setting", "marker">>, cut |-> <<"setting">>, missing |-> <<>>]

\* settingsMask, settingsRevision (current is "it is the latest one") and, in the
\* DetectionSystem, teammatesAreEnemies.
Seen == [mask : BOOLEAN, current : BOOLEAN, teammates : BOOLEAN]

Gathered == {"new", "old", "other"}

TypeOK ==
  /\ waiting \in BOOLEAN /\ loaded \in BOOLEAN /\ ~(waiting /\ loaded)
  /\ configLoaded \in BOOLEAN /\ pending \in BOOLEAN /\ failed \in BOOLEAN
  /\ timers \subseteq 0..Timeout
  /\ buffer \in Seq(Lines)
  /\ whole \in BOOLEAN
  /\ mode \in Modes
  /\ dirty \in BOOLEAN /\ mask \in BOOLEAN
  /\ teammates \in BOOLEAN
  /\ seen \in [Consumers -> Seen]
  /\ evidence \in [Consumers -> SUBSET Gathered]
  /\ announced \subseteq Gathered \union {"off"}

NothingSeen == [mask |-> FALSE, current |-> FALSE, teammates |-> FALSE]

Init ==
  /\ waiting = FALSE /\ loaded = FALSE
  /\ configLoaded = FALSE /\ pending = FALSE /\ failed = FALSE
  /\ timers = {} /\ buffer = <<>> /\ whole = FALSE
  /\ mode = "report" /\ dirty = TRUE /\ mask = FALSE
  /\ teammates \in BOOLEAN
  /\ seen = [c \in Consumers |-> NothingSeen]
  /\ evidence = [c \in Consumers |-> {}]
  /\ announced = {}

-----------------------------------------------------------------------------
\* settings.cpp

\* GetDetectionMask: the mask is worked out again after a change, whoever asks.
GetDetectionMask == IF dirty THEN mode # "off" ELSE mask

MaskIsRead ==
  /\ mask' = GetDetectionMask
  /\ dirty' = FALSE

\* BumpRevision: nobody has seen the new revision.
Bumped == [c \in Consumers |-> [seen[c] EXCEPT !.current = FALSE]]

\* Whatever anybody has was gathered before this change.
Aged == [c \in Consumers |-> IF evidence[c] # {} THEN {"old"} ELSE {}]

\* OnPluginSettingChanged, OnDetectionSettingChanged.
DetectionSettingChanged(m) ==
  /\ mode' = m
  /\ dirty' = TRUE
  /\ seen' = Bumped
  /\ evidence' = Aged
  /\ UNCHANGED <<mask, teammates>>

\* OnWhitelistChanged, MarkConfigReloaded.
RevisionBumped ==
  /\ seen' = Bumped
  /\ evidence' = Aged

-----------------------------------------------------------------------------
\* The plugin: Load, AllPluginsLoaded, Activate, Unload.

\* What the services remember after MovementDetectionService::Reset.
SeenNow(c) == [mask |-> GetDetectionMask, current |-> TRUE, teammates |-> seen[c].teammates]

\* ResetRuntime on a configuration that is still loading.
Interrupt ==
  /\ pending' = FALSE
  /\ failed' = (failed \/ pending)
  /\ UNCHANGED configLoaded

\* ResetRuntime on the detectors: DetectionSystem::Reset empties the modules,
\* ResetPlayers makes every service start afresh under the present settings.
ResetDetectors ==
  /\ evidence' = [c \in Consumers |-> {}]
  /\ seen' = [c \in Consumers |-> IF c = System THEN seen[c] ELSE SeenNow(c)]
  /\ MaskIsRead
  /\ UNCHANGED announced

\* ExecuteConfig: the file joins whatever the server has still to execute.
ExecuteConfig ==
  \E f \in DOMAIN Contents :
    /\ whole' = (f = "complete")
    /\ buffer' = buffer \o Contents[f]

\* Load creates the settings with their defaults; Activate, at once or when the
\* game is ready, starts everything afresh and executes the configuration.
Activate ==
  /\ loaded' = TRUE
  /\ evidence' = [c \in Consumers |-> {}]
  /\ seen' = [c \in Consumers |->
                [mask |-> GetDetectionMask, current |-> TRUE, teammates |-> teammates]]
  /\ MaskIsRead
  /\ pending' = TRUE
  /\ failed' = FALSE
  /\ ExecuteConfig
  /\ timers' = {Timeout}
  /\ UNCHANGED <<configLoaded, mode, teammates, announced>>

\* Load; a late one is followed by Activate at once.
Load ==
  /\ ~loaded /\ ~waiting
  /\ waiting' = TRUE
  /\ mode' = "report"
  /\ dirty' = TRUE
  /\ UNCHANGED <<loaded, config, loading, mask, teammates, detectors>>

AllPluginsLoaded ==
  /\ waiting
  /\ Len(buffer) + 2 <= BufferLimit
  /\ Activate
  /\ waiting' = FALSE

\* CleanupRuntime: a refused activation, or Unload.  The server keeps the lines it
\* has not executed; their commands are unknown until the next activation.
CleanupRuntime ==
  /\ loaded \/ waiting
  /\ loaded' = FALSE /\ waiting' = FALSE
  /\ configLoaded' = FALSE /\ pending' = FALSE /\ failed' = FALSE
  /\ timers' = {} /\ whole' = FALSE
  /\ mask' = FALSE /\ dirty' = FALSE
  /\ evidence' = [c \in Consumers |-> {}]
  /\ seen' = [c \in Consumers |-> IF c = System THEN NothingSeen
                                  ELSE [SeenNow(c) EXCEPT !.mask = FALSE]]
  /\ UNCHANGED <<buffer, mode, teammates, announced>>

\* OnLevelInit, OnLevelShutdown: ResetRuntime.
MapReset ==
  /\ loaded
  /\ Interrupt
  /\ timers' = {}
  /\ ResetDetectors
  /\ UNCHANGED <<plugin, buffer, whole, mode, teammates>>

-----------------------------------------------------------------------------
\* The configuration.

\* cs2ac_reload.
ReloadConfig ==
  /\ loaded
  /\ ~pending
  /\ Len(buffer) + 2 <= BufferLimit
  /\ pending' = TRUE
  /\ failed' = FALSE
  /\ ExecuteConfig
  /\ timers' = timers \union {Timeout}
  /\ UNCHANGED <<plugin, configLoaded, live, detectors>>

\* Plausible bug: the verdict on an interrupted load is final.
StillFailed ==
  /\ configLoaded' = TRUE
  /\ pending' = FALSE
  /\ UNCHANGED failed

\* OnConfigLoaded, whether or not the plugin still waits for it.
Finished ==
  /\ configLoaded' = TRUE
  /\ pending' = FALSE
  /\ failed' = FALSE

\* The server executes the next line; without the plugin it knows neither the
\* settings nor the marker.
Unknown ==
  /\ ~loaded
  /\ UNCHANGED <<config, live, detectors>>

Setting ==
  /\ loaded
  /\ Head(buffer) = "setting"
  /\ \E m \in Modes : DetectionSettingChanged(m)
  /\ UNCHANGED <<config, announced>>

Marker ==
  /\ loaded
  /\ Head(buffer) = "marker"
  /\ Finished
  /\ RevisionBumped
  /\ UNCHANGED <<live, announced>>

ExecuteLine ==
  /\ buffer # <<>>
  /\ buffer' = Tail(buffer)
  /\ Unknown \/ Setting \/ Marker
  /\ UNCHANGED <<plugin, timers, whole>>

\* The operator types a setting, or changes one of the game's.
TypeSetting ==
  /\ loaded
  /\ \E m \in Modes \ {mode} : DetectionSettingChanged(m)
  /\ UNCHANGED <<plugin, config, loading, announced>>

TypeWhitelist ==
  /\ loaded
  /\ RevisionBumped
  /\ UNCHANGED <<plugin, config, loading, live, announced>>

\* A setting that is changed back is the same setting.
OtherWay == [new |-> "other", other |-> "new", old |-> "old"]

TeammatesChange ==
  /\ teammates' = ~teammates
  /\ evidence' = [evidence EXCEPT ![System] = {OtherWay[when] : when \in @}]
  /\ UNCHANGED <<plugin, config, loading, mode, dirty, mask, seen, announced>>

TimePasses ==
  /\ \E left \in timers : left > 0
  /\ timers' = {IF left > 0 THEN left - 1 ELSE 0 : left \in timers}
  /\ UNCHANGED <<plugin, config, buffer, whole, live, detectors>>

-----------------------------------------------------------------------------
\* The detectors' callbacks.  Each begins with RefreshSettings.

\* Plausible bug: only a detector switched on or off counts as a change.
OnlyMaskChanged(c) == seen[c].mask # GetDetectionMask

Changed(c) ==
  \/ seen[c].mask # GetDetectionMask
  \/ ~seen[c].current
  \/ c = System /\ seen[c].teammates # teammates

Kept(c) == IF Changed(c) THEN {} ELSE evidence[c]

RefreshSettings(c) ==
  /\ MaskIsRead
  /\ seen' = [seen EXCEPT ![c] = [mask |-> GetDetectionMask, current |-> TRUE,
                                  teammates |-> teammates]]

\* Evidence is gathered, or what there is suffices and is announced.
Gather(c) ==
  /\ evidence' = [evidence EXCEPT ![c] = Kept(c) \union (IF GetDetectionMask THEN {"new"} ELSE {})]
  /\ UNCHANGED announced

Announce(c) ==
  /\ GetDetectionMask
  /\ Kept(c) # {}
  /\ evidence' = [evidence EXCEPT ![c] = {}]
  /\ announced' = announced \union Kept(c) \union (IF mode = "off" THEN {"off"} ELSE {})

Callback(c) ==
  /\ loaded
  /\ RefreshSettings(c)
  /\ Gather(c) \/ Announce(c)
  /\ UNCHANGED <<plugin, config, loading, mode, teammates>>

\* ReportConfigLoadTimeout, once for every timer that is due.
Due == 0 \in timers

\* Plausible bug: a timer that runs out says nothing.
ProcessTimersSilently ==
  /\ timers' = timers \ {0}
  /\ UNCHANGED config

ProcessTimers ==
  /\ timers' = timers \ {0}
  /\ pending' = (pending /\ ~Due)
  /\ failed' = (failed \/ (pending /\ Due))
  /\ UNCHANGED configLoaded

\* The frame hook: the timers follow the detectors; a server that does not
\* simulate gives the detectors no frame.
GameFrame ==
  /\ loaded
  /\ \/ RefreshSettings(System) /\ (Gather(System) \/ Announce(System))
     \/ UNCHANGED <<dirty, mask, detectors>>
  /\ ProcessTimers
  /\ UNCHANGED <<plugin, buffer, whole, mode, teammates>>

Next ==
  \/ Load
  \/ AllPluginsLoaded
  \/ CleanupRuntime
  \/ MapReset
  \/ ReloadConfig
  \/ ExecuteLine
  \/ TypeSetting
  \/ TypeWhitelist
  \/ TeammatesChange
  \/ TimePasses
  \/ \E c \in Consumers : Callback(c)
  \/ GameFrame

Spec == Init /\ [][Next]_vars

\* The server runs frames and time passes.  Nothing is assumed of the file.
FairSpec == Spec /\ WF_vars(GameFrame) /\ WF_vars(TimePasses)

-----------------------------------------------------------------------------

(***************************************************************************)
(* While a load is pending, cs2ac_reload is refused; so a timer is armed   *)
(* that will end the wait, whatever became of the file, and a map reset    *)
(* that removes all timers ends the wait itself.                           *)
(***************************************************************************)
PendingIsWatched == pending => loaded /\ timers # {}

(***************************************************************************)
(* Every load of the configuration ends: with its marker, with a failure,  *)
(* with the map or with the plugin.                                        *)
(***************************************************************************)
LoadEnds == pending ~> ~pending

(***************************************************************************)
(* A complete file that has been executed to its end counts as loaded, and *)
(* nothing keeps calling it failed or waiting for it: not a timer left by  *)
(* an earlier load, nor a map reset in the middle of the file.             *)
(***************************************************************************)
FinishedLoadIsReported ==
  loaded /\ buffer = <<>> /\ whole => configLoaded /\ ~pending /\ ~failed

(***************************************************************************)
(* Nobody is accused on evidence gathered before the last change of the    *)
(* settings, of what counts as an enemy, of the map or of the plugin, nor  *)
(* by a detector that was switched off meanwhile.                          *)
(***************************************************************************)
AnnouncedIsCurrent == announced \subseteq {"new"}

=============================================================================
