# CS2AC, modelled and verified

CS2AC is a Metamod plugin for Counter-Strike 2 servers. It watches what clients
do, decides that somebody cheats, and then announces, reports or punishes.
Everything it does runs on the server's game thread, but nothing it does ends
there: answers come from Steam's HTTP interface seconds later, settings come
from a command buffer the server works off line by line, answers to questions
come from clients when they please, and the pieces of a single shot come in
half a dozen callbacks. This directory holds TLA+ models of that machinery, the
TLC configurations that check them, and TLAPS proofs.

Line numbers below are those of `src/src/`, unless another directory is named.

## 1. The system

### Components, their state and what they do

| component | state | operations |
|---|---|---|
| `CS2ACPlugin` (`cs2ac.cpp`) | `loaded`, `activationPending`, `configLoaded`, `configReloadPending`, `configLoadFailed`, `punishmentLevels[slot]` | `Load`, `AllPluginsLoaded`, `Unload`, `OnLevelInit/Shutdown`, `ReloadConfig`, `OnConfigLoaded`, `ConfigLoadTimeout`, `HandleDetection`, `OnClientDisconnect` |
| settings (`settings.cpp`) | console variables, `detectionMask` and its dirty flag, `settingsRevision`, the whitelist | change callbacks, `GetDetectionMask`, `MarkConfigReloaded` |
| timers (`utils/ctimer.cpp`) | a list of timers, those that end with the map and those that do not | `StartTimer`, `ProcessTimers`, `RemoveTimers`, `RemoveMapTimers` |
| `SiteReportService` (`site_report.cpp`) | queue of reports, the one outstanding request, `nextAttempt`, `disabled` | `Report`, `OnGameFrame`/`SendNext`, `OnCompleted`, `Reload`, `Shutdown` |
| `WebhookService` (`webhook.cpp`) | as above, and which kind of request is outstanding, and the avatar cache | as above, and `Test`, `SendAvatarLookup`, `FinishAvatarLookup` |
| `ShotCorrelator` and its modules (`detection/`) | per slot: the user commands with attack data, the shots that wait to be judged, evidence | `OnProcessUsercmds`, `OnSetupMove`, `OnWeaponFire`, `OnFireBullets`, `OnPlayerHurt`, `OnPlayerDeath`, `OnGameFrame` |
| `AimbotModule`, `AimlockModule`, `AntiAimModule`, `IrregularBehaviorModule` (`detection/`) | per slot: commands, a hit or a shot that waits, tracks, scores, incidents, latches | the same callbacks |
| `NameChangerModule`, `DllInjectionModule` (`detection/`) | the names of a minute; when each player is scanned next | `OnClientReady`, `OnClientSettingsChanged`; `OnGameFrame` |
| `NetworkSafetyMonitor` (`detection/network_safety.cpp`) | per slot: the last command, gaps between commands, samples of latency and loss | `OnProcessUsercmds`, `OnGameFrame` (a sample), `Evaluate`, `Prune` |
| `DoubletapModule` (`detection/doubletap_module.cpp`) | per slot: the last shot, the pairs so far, what the network showed at each | `OnWeaponFire`, `Reset` |
| `ClientCvarValue` (`clientcvar/`) | the pending queries, the cookie counter | `QueryCvarValue`, `OnProcessRespondCvarValue`, `ClearQueries` |
| `MovementDetectionService` (`movement_analysis/detection/`) | per slot: buffers of input and jump events, the cvar monitor, latches | `OnSetupMove`, `OnPhysicsSimulatePost` and the detectors they lead to (landings, jumps, null binds, subtick moves, strafe optimizers), `RefreshSettings`, `MarkInvalidCvar`, `MarkCvarSource`, `Reset` |
| jump analysis (`movement_analysis/jump_analysis/`) | per slot: the last three jumps, how each began, whether anything spoiled it | `AddJump`, `EndJump`, `HandleTeleport`, `InvalidateJumpAnalysis`, `UpdateJump` |
| movement tracking (`movement/`, `movement_analysis/player_context.cpp`) | per slot: where the player stood, walked and took off, copies of the engine's movement state | the detours around the engine's movement functions, and the callbacks they lead to |
| hooks and game events (`utils/hooks.cpp`) | the stack of events being fired | before- and after-hooks |
| registry, text, engine access | handles, translations, offsets | lookups |

### How they interact

* The **frame hook** calls, in this order, the detection modules, the two report
  services and the timers.
* A **detector** calls `HandleDetection` from inside an engine callback. That
  looks at the mode, the network veto, the SteamID64, the whitelist and the level
  the slot was punished at already, and then announces, queues a Discord report,
  queues a website report, or sends a command.
* A **report service** owns at most one Steam HTTP request. Steam calls back
  between two frames, or never if the service cancelled the call.
* A **configuration** load is one `exec` command. The server executes the file
  later, line by line; its last line is `cs2ac_config_loaded`, and a five-second
  timer fails the load if that never comes. A load that finishes reloads both
  report services and advances `settingsRevision`.
* Every **detector callback** first compares the revision it remembers
  (`RefreshSettings`) and throws its evidence away if it is not the current one.
* **Cvar queries** go to the client with a cookie. The answer comes back in a
  network message that may be late, or answer a question no longer asked.

### What is hard

Nothing here runs in two threads. What is hard is what happens *between* two
callbacks: a queue overflows while its head is on the wire; a reload, a map
change or an unload leaves something on its way; a player leaves and somebody
takes the slot in the same tick; an operator edits a setting that was validated
a minute ago; a timer outlives what it was armed for. `PROJECT.json` lists these
hazards, each at the line where it bites, with the properties that cover it.

What makes each component correct:

* report services: an answer is applied to the report it is about; reports leave
  in order, once; nothing waits for ever; a refused endpoint is left alone; a
  report never shows somebody else's avatar;
* punishment: nobody is sent the same punishment twice, nobody inherits one, and a
  level falls only with a cause;
* lifecycle: no reload is refused for good; a file that was read to its end counts
  as loaded; nobody is accused on evidence older than the settings or the map;
* shots: a command explains one shot; a shot is judged once, complete, before it
  is thrown away, and counts against who fired it; so are hits, and a movement of the
  aim counts in one of them; a kill finds the attempt it makes a success;
* anti-aim and aimlock: what lasts accuses once and again only after it has ended; a
  shot is compared with the command after it, or given up in time; a track is a run
  of ticks without holes;
* injection checks: everybody's turn comes;
* cvar monitor: everybody in game is checked and checked again; nobody is accused
  of a setting he could not help having, or on an answer from before a map change;
  an invalid setting is announced once until it was valid again;
* game events: an after-hook handles the event its own before-hook saw, however events
  nest and whatever their listeners load or unload;
* doubletap: nobody is punished for pairs that a bad connection may explain, and a bad
  connection excuses only as long as it is one;
* bhop and hyperscroll: no landing is left unjudged, and only a jump straight off a
  landing makes it a perfect one;
* autostrafe: a jump counts only if it was seen from its takeoff to its landing and
  nothing but the player moved him, and accuses only under the settings in force;
* null binds, subtick abuse, strafe optimizers: what is compared is of one unbroken run
  of commands; who is accused did enough lately, under these settings, after the last
  accusation.

## 2. The modules

`ReportSink` is the abstract specification that `SiteReport` and `Webhook`
implement. `Doubletap` composes the events that tell it of shots (`GameEvents`) and the
connection that may excuse them (`NetworkSafety`); `MovementDetection` composes the
movement of a player (`PlayerMovement`) with the two detectors that watch it (`Bhop`,
`JumpAnalysis`) and the three that watch his commands (`Nulls`, `Subtick`,
`StrafeOptimizer`); `DetectionSystem` composes one slot and its clock (`PlayerSlot`)
with the stored shots (`ShotCorrelator`) and the six modules that use them or their
own commands. The others model a component on their own; what they need of a
neighbour appears as an action of its environment (a reload in `SiteReport`
stands for the marker in `Lifecycle`; a detection in `Punishment` for any
detector).

| module | models | state ↔ code |
|---|---|---|
| `ReportSink` | the promise of a report service | `line` is the queue, `onWire` the report the outstanding request serves |
| `SiteReport` | `site_report.cpp` | `queue`, `retries`, `request`, `waiting` (`nextAttempt` is in the future), `disabled` |
| `Webhook` | `webhook.cpp` | the same, `requestKind`, `asked` (the player in the URL of the outstanding lookup, which the code leaves to Steam), `cache` (`avatarCache`); a report carries whether its avatar is resolved and its payload built |
| `Punishment` | `HandleDetection` and `punishmentLevels` in `cs2ac.cpp` | `levels`, `occupant`, `steamKnown`, `userKnown` (what the engine knows of the client), `mode`, `whitelist`, `template` |
| `Lifecycle` | `cs2ac.cpp`, `settings.cpp`, `ctimer.cpp`, the refreshes in `detection_system.cpp` and `movement_detection.cpp` | `waiting` (`activationPending`), `loaded`, `configLoaded`, `pending`, `failed`, `timers`, `buffer` (the server's command buffer), `dirty`, `mask`, `seen` (what a consumer remembers), `evidence` |
| `PlayerSlot` | the slot, the clock and the engine's progress through the commands | `tick`, `connection`, `connected`, `simulated`, `enabled` (the settings) |
| `ShotCorrelator` | the correlator in `detection_system.cpp`, `SilentAim` and `InhumanAccuracy` for one slot | `commands`, `shots`, `evidence` |
| `Aimbot` | `aimbot_module.cpp` | one record: the commands of the aim, the hit that waits, the last movement counted, the incidents |
| `Aimlock` | `aimlock_module.cpp` | one record: the track with its lags, the latch, since when the aim is off the target, the incidents |
| `AntiAim` | `antiaim_module.cpp` | one record: the commands, the score, spin and jitter with their breaks, the shot that waits, `suppressContinuous` |
| `IrregularBehavior` | `irregular_behavior_module.cpp` | one record: the attempts that wait for a kill and those of five minutes |
| `NameChanger` | `namechanger_module.cpp` | one record: whether a name is known, the changes of a minute |
| `DllInjection` | `dll_injection_module.cpp`, for all slots | one record: whose turn is next, when each slot is due |
| `DetectionSystem` | `detection_system.cpp`: the callbacks | a variable for each of the six modules, of the same name |
| `CvarMonitor` | `client_cvar_value.cpp`, `detectors/cvars.cpp`, the latches in `movement_detection.cpp` | `queries`, `asked` and `answers` (messages on their way), `started`, `timer`, `index`, `since` (grace period), `sources`, `latched` |
| `GameEvents` | the event hooks in `hooks.cpp` | `firing` (the engine's calls of `FireEvent`, outermost first), `pending` (`pendingGameEvents`), `loaded` |
| `NetworkSafety` | `network_safety.cpp` for one slot | `known` (a command was seen), `nextSample`, `samples`, `gap` (the newest of `commandGaps`) |
| `Doubletap` | `doubletap_module.cpp` for one slot, on the two above | `fired`, `weapon`, `incidents`, `vetoed` (`networkEvidence`) |
| `PlayerMovement` | `mv_hooks.cpp`, `mv_player.cpp` for one player | `stage` and `moves` (how far the engine is in the tick), `onGround`, `walkMoved`, `oldWalkMoved`, `takeoffFromLadder`, `possibleLadderHop`, `moveType`, `lastKnownMoveType`, `sinceTeleport` |
| `Bhop` | `detectors/bhop.cpp` | `airTime`, `airMoved`, `recentJumps`, `landings` (`recentLandingEvents`), `pending` (`pendingPerf` of the latest), `bhopDirty`, `sinceMoveType` |
| `JumpAnalysis` | `jump_analysis.cpp`, `jump_validating.cpp`, `detectors/jumps.cpp` | one record: `active` (`jumpAnalysisActive`), `count` and `jump` (the last of `jumps`), `ladderHop`, `flown`, `statuses` (`recentJumpStatuses`) |
| `Nulls` | `detectors/nulls.cpp`, one axis | one record: `events` (`recent…Events`), `dirty`, `last` (`lastNullsCmdNum`) |
| `Subtick` | `detectors/subtick.cpp` | one record: `times` (the four lists), `early` (`GetTimeInServer`) |
| `StrafeOptimizer` | `detectors/strafe_optimizer.cpp` | one record: `frames` (`angleFrameHistory`), `score` (`yawAccelPercent`) |
| `MovementDetection` | `player_context.cpp`, `movement_detection.cpp`: the callbacks | a variable for each of the three above; `number` and `held` (the last command and the buttons), `mask` and `revised` (the settings, and whether they are those the service remembers), `available` (`ShouldRunDetections`), `alive` |

Each `MC…` module instantiates one of them for TLC, each `…_proofs` module holds
the proofs about one of them. The comment at the head of a module names its
abstractions; variables marked *history* record what a property talks about and
no action reads them. Comments beginning "Plausible bug" introduce variants of a
definition that no action uses: substituted for the definition below them, each
makes TLC report the property it is listed with (`mutants` in `PROJECT.json`), so
no property holds for want of something that could break it.

What the actions contain, module by module:

* **`SiteReport`**, **`Webhook`**. `Report` evicts the oldest report that is not on
  the wire; `OnGameFrame` is the four ways `SendNext` ends; `OnCompleted` is one
  action per class of answer (confirmed, refused, throttled, failed); `Reload` ends
  in one of two ways by the URL found; `SettingChanged` edits the URL under the
  running service, which re-reads it only when it sends. The lookup of `Webhook` asks about
  the player whose report is the first when it is sent (`asked`); the answer, about that
  player, is written to whatever report is the first when it comes.
* **`Punishment`**. `HandleDetection` is split by outcome: excused (vetoed,
  SteamID64 unknown, whitelisted), website mode, already punished, held back (empty or
  too long a command, no user ID), sent. The engine's part is connections,
  identities that become known later, and disconnects the plugin does not see while
  it is unloaded.
* **`Lifecycle`**. Executing a file appends a complete, cut or empty file to the
  command buffer, `ExecuteLine` works it off while anything else happens in between.
  `Callback(c)` is any detector callback: refresh, gather, perhaps announce.
  `ProcessTimers` belongs to the frame and fires what has run out.
* **`DetectionSystem`**. One action per callback, with what the correlator and every enabled
  module make of it, in the order of the source. The modules are operators from a
  player's data to the data that may follow. Commands come again, late, out of order
  or not at all; each is simulated at most once, and the attack it carries is part of
  it. `OnGameFrame` hands the frame to each module, judges what is two ticks old, prunes what
  is older, and ends the tick. `Reset` is everything that clears all slots.
* **`CvarMonitor`**. `CheckClientCvars` is the one-second timer; `QueryCvarValue`
  may expire old queries; `Answer`, `Ignore` and the arrival of an answer are
  separate steps, and so is everything that may happen between them.
* **`Doubletap`**. `FireEvent` and `EventFired` are the two hooks around an event; another
  event, a load or an unload may come between them. `EventFired` of a weapon is all of
  `OnWeaponFire`: the pair, the evaluation of the network, the merged evidence, the
  verdict. Commands, frames and time are actions of `NetworkSafety`.
* **`MovementDetection`**. One action per callback, in the order the engine makes them
  (`stage`): the tick, the command, then a movement from `OnProcessMovement` over
  ladder, jump and air or walk to `OnProcessMovementPost`. Each action is the whole
  callback with all that it calls in the detectors: `OnSetupMove` the refresh, the presses
  of bhops, the checks of subtick moves, the button events and the optimizer,
  `OnPhysicsSimulatePost` the judgement of all that was noted. `JumpAnalysis` is written as
  operators from a state to the states that may follow, because one callback may end a
  jump, judge it and begin another. Settings, `sv_cheats`, death and the server's own
  changes of the move type come between two ticks, a teleport also within one.

## 3. The runs

| run | what it asks | instance | distinct states |
|---|---|---|---|
| `SiteReport` | does the website queue keep the promise, and settle every report | 5 reports, room for 3 | 8,634 |
| `Webhook` | the same with lookups on the wire; are avatars the right ones | 2 players and nobody, 4 reports, room for 2, cache of 1 | 14,199 |
| `Punishment` | is a client punished at most once per level, does anybody inherit | 2 slots, 2 people, 3 detections | 266,112 |
| `Shots` | is a shot judged once, complete; a hit, a snap and a kill once | 4 ticks, 3 commands and attacks, 1 connection, room for 2 commands and 2 shots | 957,382 |
| `Views` | do episodes, tracks, latches and turns end as they should; whose is the evidence | each module by itself, 3 to 7 ticks, up to 2 connections | 262,579 |
| `Lifecycle` | does every load end rightly; is evidence ever stale | one movement service and the detection system, timeout of 2 units, 3 lines in the buffer | 273,484 |
| `CvarMonitor` | is everybody monitored, nobody framed | 2 settings, 2 cookies, grace of 3 units | 222,402 |
| `Doubletap` | does each hook handle its own event; does the network excuse whom it should | window of two sample intervals, 2 weapons, a knife and an event nobody consumes, 2 deep | 1,400,203 |
| `MovementDetection` | is everything noted judged; are jumps his own; is evidence unbroken, are accusations current | one player, landings, jumps or commands watched, one movement a tick, 3 or 4 commands | 2,106,560 |
| `ReportMode`, `CvarLatch`, `AirborneBeforeLanding` | three claims the code does not keep (section 5) | as above | |

`ReportSink` has no run of its own: the runs of the two services check that they
implement it, and its own invariants are proved. `Shots` and `Views` check the same
specification, `DetectionSystem`, at two instances. Type correctness is checked in
`Views` and proved where there are proofs.

Why the bounds are enough:

* **Queues.** A queue overflows in two ways, with and without a request
  outstanding. Room for three (two in `Webhook`) and two reports more than fit
  reach both, and the second eviction in a row. 64 in the code.
* **`Webhook`.** With a cache of one, remembering a second player forgets the first
  while a report about him may still wait. Two reports about one player queued before
  the first lookup has answered are among the four, as are two of different players of
  which the one asked about would be evicted, were it not on the wire.
* **`Punishment`.** Two people suffice for a newcomer in a punished player's slot, and
  for one player's departure to affect another. The detections are one that only
  kicks, one that may kick or ban, and one the network may veto. Slots and people are
  interchangeable (`SYMMETRY`); no property of this run is temporal beyond a single
  step.
* **`DetectionSystem`.** A shot lives for two ticks after its own; four ticks hold the
  whole life of a shot with others before and after it. One command and one
  shot more than fit make both deques overflow. Slots share no state but the turns of
  `DllInjection`, so there is one for the others and two for that. The modules share
  nothing but the stored shots, so it is enough to enable those that keep their own
  commands one at a time. `Settings` are the sets that are tried, `Horizon` gives each its
  last tick, commands and connections: a track of aimlock that is announced, left for
  two ticks and begun again takes seven ticks and no shot; anti-aim, whose state is the
  largest, gets three commands and one attack, with which an announcement,
  its end by a break and the next one fit, but its history (of three) does not overflow. The
  change of the player is tried with the modules whose evidence carries over callbacks;
  for aimlock and anti-aim it is enough that the player leaves.
* **`Lifecycle`.** A timeout of two lets a second load start under the timer of
  the first. A buffer of three lines holds the rest of one file and all of another.
* **`CvarMonitor`.** One unit is ten seconds, the timeout of a query; the grace period
  is three, as in the code. The client follows `sv_cheats` within one unit, which is the
  assumption the grace period exists for. Two cookies let the answer to a cleared query
  be on its way while the next is pending.
* **`Doubletap`**. The window forgets between the first pair and the third; four samples are
  one more than fit into it. Two depths of events are enough for one to be fired within
  another, unloaded and loaded in between; the stack treats a third like the second.
* **`MovementDetection`**. The numbers of the code are made as small as keeps their part:
  two movements through the air before a landing counts (4 in the code), a pattern window
  and a grace of one tick (16; 4 and, for jumps, 3), two landings to judge (20) and to
  keep (30), a score of one below a chain of two (7 below 10), two jumps to keep (3; the
  code looks at no more than the last and whether there were others), two suspicious jumps
  or a very suspicious one. `MaxPresses` bounds the presses around a landing at one: a
  press before it, or one that follows late. `MaxMoves` is one movement a tick. The
  detectors share nothing but the callbacks, so each set of detections (`Masks`) comes with
  what its detectors see (`Varies`): landings and jumps are watched while the player moves
  and is moved, the others while he stays where he is and sends three (null binds) or four
  numbered commands, of which one may be lost. With these he can switch perfectly
  twice, lose a command between and switch again, and pass the window of the subtick lists
  (two or three ticks, two commands). `NextMasks`: autostrafe is switched off and on in the
  middle of jumps; with the others a change of settings leaves the detection enabled.

Runs that leave counters unbounded in the code stop at the bounds
named in the constants (`MaxReports`, `Horizon`, `MaxShots`, `MaxNumber`, …). Deadlock is
checked in every run but `Shots` and `Views`, which stop when the last tick is over: at
the bounds of the others something always remains possible, because settings change,
players leave and time passes.

### Fairness, and why the code justifies it

* `SiteReport`, `Webhook`: the engine runs frames, time passes, and Steam ends every
  request, because `SendNext` sets an absolute timeout. Two assumptions concern the
  outside and no code can enforce them: Steam's HTTP interface is not
  unavailable at *every* attempt, and the other side does not answer 429 to *every*
  attempt. Without the first the queue waits (`HttpUnavailable` counts nothing),
  without the second it throttles for ever: an answer 429 counts no attempt (`site_report.cpp:213`). Nothing is
  assumed about success.
* `Lifecycle`: frames run and time passes. Nothing is assumed of the file, nor that
  the server ever works off its buffer.
* `CvarMonitor`: the timer fires, time passes, each question is either answered or
  not, and an answer on its way arrives. A client that never answers is allowed.

## 4. What is proved

The proofs hold for every value of the constants that the modules' assumptions allow; `tlapm`
checks every leaf. What `ReportSink` needs of its constants (`SinkAssumption`) is a hypothesis
of its theorems. The assumptions that carry weight, and what of the code they stand for:

* `SiteReport`, `Webhook`: room for two reports or more (64 in the code). An eviction keeps
  the head, so there must be something else to evict.
* `GraceAssumption` (`CvarMonitor`): a client follows `sv_cheats` within the grace period. This
  is what the grace period is for; without it `NobodyIsFramed` is false.
* `NetworkAssumption` (`Doubletap`): the samples that are kept cover the window.
* `LimitAssumption` (`DetectionSystem`): there is room for two shots, and for no fewer attempts
  of irregular behaviour than shots. With fewer, a stored shot could have lost its attempt.
* `AntiAimAssumption`: a threshold above zero; a spin and a jitter are seen in two commands
  or more (16 and 8). A pattern of one command would need no command in the tick before, and
  `OnePerEpisode` would fail.
* `ScanAssumption` (`DllInjection`): more frames between two scans of a slot than there
  are slots.

Every invariant a run checks is either inductive together with others or follows from something
stronger that is. What had to be found is in the table, the arguments below it.

| module | invariants and action properties that runs check and a theorem states | also needed |
|---|---|---|
| `SiteReport_proofs` | `RequestServesHead`; that `SiteReport` implements `ReportSink` | `DisabledIsSilent`; of the sink `WireServesHead`, `InOrder` |
| `Webhook_proofs` | `AvatarIsOfThePlayer`; that `Webhook` implements `ReportSink` | `QueueIsSound`, `CacheIsHonest`, `RequestServesHead` |
| `Punishment_proofs` | `LevelMatchesCommands`, `NobodyInherits`, `EscalatesOnly`, `ForgottenOnlyWithCause` | |
| `Lifecycle_proofs` | `FinishedLoadIsReported`, `AnnouncedIsCurrent` | `MaskIsSound`, `EvidenceIsDated`, `MarkerComesLast` |
| `CvarMonitor_proofs` | `MonitorRuns`, `NothingOutdated`, `NobodyIsFramed` | `StartedHasTimer`, `OldHasNoQuery`, `BadIsExcused` |
| `Doubletap_proofs` | `HandlesItsOwn`, `PunishedOnSoundConnection`, `VetoHasCause` | `PendingIsInnermost`, `Spaced`, `TroubleShows`, `PairsAreExcused` |
| `DetectionSystem_proofs` | all of `Shots` and `Views`: 10 invariants, 3 action properties and `TypeOK` | one part for each module, below |
| `MovementDetection_proofs` | all of `MovementDetection`: 3 invariants, 3 action properties | `GateInv`, `AnalysisOK`, `AllKnown`, `BoundInv`, `EventsUnbroken`, `FramesUnbroken` |

* **`SiteReport_proofs`**: first the sink, alone: its invariant is type correctness,
  `WireServesHead` and `InOrder`. The first of the latter two is what makes an eviction keep
  the head; the second makes a delivery newer than the one before, which is the action
  property `DeliveredOnceInOrder`. Then the service: `TypeOK`, `RequestServesHead` and
  `DisabledIsSilent` are inductive together. `DisabledIsSilent` is needed because a disabled
  service accepts nothing; `RequestServesHead` because `OnCompleted` pops whatever is first.
  On top of the invariant, `ImplementsReportSink` maps every step to a step of the
  sink: an eviction with its `Append` to `Accept`, an answer to `Deliver`, `GiveUp`,
  `Return` or `Clear`. What the sink promises therefore holds of the service, and
  `WebsiteIsToldInOrder` says so.
* **`Webhook_proofs`**: a report shows its own player's avatar because the cache knows
  each player's own, a report that waits for its avatar has no payload yet, and the player a
  lookup asked about is still the one of the first report when the answer is written there:
  an eviction spares that report, and whatever else removes it (a reload, an unload)
  cancels the request. The refinement has one more kind of step than
  the website's: a lookup on the wire, which the sink sees as a request that is given back.
* **`Punishment_proofs`**: `LevelMatchesCommands` is not inductive alone. A
  connection starts a new history and leaves the level of its slot untouched, so it needs
  `NobodyInherits`; that in turn rests on `Unload` forgetting everything before a
  disconnect can go unnoticed. `EscalatesOnly` follows because the code
  compares with the level only, and the level is exact. `ForgottenOnlyWithCause` is
  an action property.
* **`Lifecycle_proofs`**: three facts strengthen the invariants that are checked.
  `MaskIsSound`: a mask that is not dirty is the mask of the settings.
  `EvidenceIsDated`: evidence older than the last change is held only by a consumer that
  has not seen it, so the refresh at the head of a callback drops it.
  `MarkerComesLast`: what remains of a complete file ends with its marker, so an
  interrupted load is still reported when the buffer is empty. From these follow
  `PendingIsWatched`, `FinishedLoadIsReported` and `AnnouncedIsCurrent`.
* **`CvarMonitor_proofs`**: a monitor that was started has its timer; no pending query bears
  the cookie of an answer from before a map change, because a cookie in use is not given out
  again; a bad value of a protected setting that is on its way was given while `sv_cheats`, or
  the time since, still excuses it when it arrives.
* **`Doubletap_proofs`**: the copies of events that wait are those of the innermost events
  being fired, for any depth. What the network did within the window still shows in the gap
  or in a sample: samples are an interval apart, so the limit drops only what is older than
  the window. And what shows did happen, so that a veto has a cause.
* **`DetectionSystem_proofs`**: one inductive invariant for the correlator and the six
  modules, and for each callback the lemma that says what it does to the slot, to a deque
  and to one module's data. Of the arguments the longest are these.
  - `OneShotPerCommand`: a command that is simulated has made no shot, and keeps its tick
    from then on; delivered again, it is behind the engine's progress.
  - `FrozenOnceJudged`, `JudgedBeforePruned`: an event finds shots of at most one tick ago, a
    shot is judged two ticks old and pruned when it is older.
  - `HitsAreJudged`: shots are stored in the order of their commands, and among those young
    enough to be hit the latest is the only one whose next command may still come. So the
    next hit belongs to a later command, and the one that waited has been judged, unless the
    module never got its next command.
  - `KillFindsItsAttempt`: attempts are stored and thrown away in the order of their shots;
    as many fit as shots do, so the limit never takes the attempt of a stored shot, and
    age takes it only after the kill could come.
  - `OnePerEpisode`: an announcement for something continuous silences the module until a
    command after which no mark is left; that command is quiet. For marks that a
    command sets itself this is plain. A motion is marked if it counts on from the tick
    before; and it does, as the history that shows a motion has a command for the tick
    before, at which motion was evaluated (`RowIsUnbroken`).
  - `SnapCountsOnce`, `TrackIsWhole`, `RearmedAfterABreak`, `ReturnIsResolved`,
    `NobodyStarves` (the slots that are scanned while one waits are all different) and
    `EvidenceIsOfThisConnection`.

* **`MovementDetection_proofs`**: the detectors share nothing but the callbacks, so the
  invariant is a conjunction of parts, each proved callback by callback.
  - The gate (`GateInv`): a movement is under way only after the command of its tick was
    looked at, and that refreshes the settings; hence `AccusedUnderTheseSettings`. What
    ends a jump between two ticks, a teleport or the end of the connection, accuses nobody,
    because it spoils the jump or forgets it.
  - `JumpsAreWhole`: a jump that may still count is whole, and so is every one that was
    counted. While the analysis stands still no jump is kept, so that the first one after
    it is begun as invalid; and where something else moves the player, the movement has
    begun by invalidating the jump, before anything moves him (`OnOtherMove`).
  - `CleanMeansJudged`: what is not dirty was judged *and* is complete, in that no press
    can follow any more, where there are enough landings to judge (`AllKnown`). Without
    the second half it is not inductive: a tick makes landings older, which completes
    patterns, and nothing marks them dirty. With it, ageing changes nothing that is judged.
  - `PerfectInOneBound`: where the player moved otherwise since the latest landing, that
    landing is not open to a jump at the start of the next movement, because
    `OnProcessMovementPost` closes it at the end of the movement in which he did. Between
    the two it may be open, which is why the invariant (`BoundInv`) distinguishes the
    stages of a movement.
  - `EvidenceIsUnbroken`: what is kept ends with the last command that was seen if that was
    looked at, and with an older one otherwise; the next command then finds a gap and
    forgets it. A detector that has just been switched off may still hold evidence, but the
    settings have been revised, and the next command forgets it.
  - `AccusationsAreBacked`: the times that count are always among those at which such
    commands were sent and not used yet: wherever the latter are forgotten, so are the
    former.

Only model-checked: the liveness properties (`EveryReportSettles`, `LoadEnds`, `AskedAgain`),
which under fairness are outside what the prover handles. Every invariant and every
action property of a run that passes is stated by a theorem.

## 5. Where the code disagrees with its documentation

* **Website mode** (`ReportMode`). `src/README.md:214` says of mode 1 that a detection
  "is announced and queued for the website", and `src/README.md:155` that for whitelisted
  players "only the punishment command is skipped". `HandleDetection` returns for a
  vetoed detection (679) and for a whitelisted player (692) before it looks at the mode
  (700): such a detection is announced and never queued.
* **The latch of sensitivity** (`CvarLatch`). `MarkCvarSource` keeps two sources apart
  so that the latch is released only when both are valid
  (`movement_detection.cpp:182`, 196). When settings have changed, it notes the source and
  then calls `MarkInvalidCvar`, whose `RefreshSettings` clears the sources; the latch
  is armed without its source, the other source's next valid value releases it, and the
  same invalid setting is announced again.
* **Four ticks in the air** (`AirborneBeforeLanding`). `detectors/bhop.cpp:3` counts a
  landing if "the player spent at least 4 ticks in the air before landing", so that weird
  collisions do no harm. `currentAirTime` is reset only by a movement that is not through the
  air (215), and who jumps off a landing at once makes none: from the second hop of a
  chain on, the time of the hops before counts too, and a landing that follows the last
  within fewer ticks is accepted.

## 6. What is not modelled

* **Scores and geometry**: angles, spread, traces, hit positions, the frames of positions.
  Where a module's control depends on them, the model chooses: whether a command shows
  invalid angles, whether a movement of the aim converged on the victim, whether the
  incidents of five minutes are enough. So the runs say nothing of false positives, only
  of what is judged, when, and how often.
* **The physics of movement**: positions, velocities, the statistics of strafes. Which
  kind of jump a takeoff could be, whether a movement spoils it, what its statistics
  amount to and whether a turn fits the optimizer's pattern are choices. The frame rate of
  the client, which sets how many perfect switches `NULLS` requires, is constant.
* **What a scan finds** (`dll_injection_module.cpp`), which reads the engine's memory.
* **The 429 of the report services beyond its effect**: `src/README.md:224` speaks of one
  retry; a throttled report is not counted and may be posted any number of times. The
  models have it so.
* **Platform code** (hook installation, signature scans, schema, vendored libraries),
  **text** (localization, the JSON payloads, log lines).
* **Inside the modelled components**: the operator typing `cs2ac_config_loaded` by hand
  (`Lifecycle` would call any file complete); an unload in `CvarMonitor`,
  which restarts the cookie counter, so that an answer of the last life could bear
  a cookie of this one; the order of two timers that run out in one frame (the second
  finds nothing pending).
* **The environment's promises**: Steam completes a call with the handle it was started
  with; a client's answers in one unit arrive within it.

## 7. Plan

Done, in this order, the most consequential behaviour first: the report
services and their abstract specification; punishment; shots; lifecycle; the cvar
monitor; game events with network safety and doubletap; movement with bhop, hyperscroll and
autostrafe; the modules of `DetectionSystem`; null binds, subtick abuse and strafe optimizers;
the proofs of all of them.

What would come next: positions and geometry for the scores that are choices today
(section 6), and an unload in `CvarMonitor`.
