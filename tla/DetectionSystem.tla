--------------------------- MODULE DetectionSystem --------------------------
(***************************************************************************)
(* DetectionSystem (detection_system.cpp) for one player slot: the engine's *)
(* callbacks, each handed to the shot correlator and to every enabled      *)
(* module in the order of the source.  Doubletap has modules of its own.   *)
(*                                                                         *)
(* The modules share the stored shots and nothing else, so that it is      *)
(* enough to enable one of those that keep their own commands at a time.   *)
(* RefreshSettings runs at the head of every callback: a change of the     *)
(* settings resets at once.  Whether the player is alive and in game is    *)
(* asked at each callback, and open there.                                 *)
(***************************************************************************)
EXTENDS ShotCorrelator, Aimbot, Aimlock, AntiAim, IrregularBehavior, NameChanger, DllInjection

\* pendingShotLimit and the module's pendingLimit are both 8.
ASSUME LimitAssumption == ShotLimit >= 2 /\ ShotLimit <= PendingLimit

VARIABLES
  aimbot,     \* AimbotModule's data of the player
  aimlock,    \* AimlockModule's
  antiAim,    \* AntiAimModule's
  irregular,  \* IrregularBehaviorModule's
  names,      \* NameChangerModule's
  scans       \* DllInjectionModule's, of all slots

moduleVars == <<aimbot, aimlock, antiAim, irregular, names, scans>>
vars == <<slotVars, shotVars, moduleVars>>

On(detection) == detection \in enabled

\* What an enabled module makes of a callback, if its data were d.
Handled(detection, d, results) == IF On(detection) THEN results ELSE {d}

TypeOK ==
  /\ SlotTypeOK /\ ShotTypeOK
  /\ AimbotTypeOK(aimbot) /\ AimlockTypeOK(aimlock) /\ AntiAimTypeOK(antiAim)
  /\ IrregularTypeOK(irregular) /\ NameTypeOK(names) /\ ScanTypeOK(scans)

Init ==
  /\ SlotInit /\ ShotInit
  /\ aimbot = AimbotClean /\ aimlock = AimlockClean /\ antiAim = AntiAimClean
  /\ irregular = IrregularClean /\ names = NameClean /\ scans = ScanClean

-----------------------------------------------------------------------------
\* Connections and settings.

Connect == Join /\ ShotsOfNewcomer /\ UNCHANGED moduleVars

OnClientReady ==
  /\ connected /\ On(NameChangerDetection)
  /\ names' = NameOnClientReady
  /\ UNCHANGED <<slotVars, shotVars, aimbot, aimlock, antiAim, irregular, scans>>

OnClientSettingsChanged(changed, lapsed) ==
  /\ connected /\ On(NameChangerDetection)
  /\ lapsed <= Len(names.changes)
  /\ names' = NameOnClientSettingsChanged(names, changed, lapsed)
  /\ UNCHANGED <<slotVars, shotVars, aimbot, aimlock, antiAim, irregular, scans>>

\* Plausible bug: the evidence of Aimlock survives like it does a death.
AimlockSurvives == aimlock' = ClearRuntime(aimlock)

AimlockGone == aimlock' = AimlockClean

OnClientDisconnect ==
  /\ Leave /\ ShotsCleared /\ AimlockGone
  /\ aimbot' = AimbotClean /\ antiAim' = AntiAimClean
  /\ irregular' = IrregularClean /\ names' = NameClean
  /\ UNCHANGED scans

\* Enabling or disabling a module, reloading the configuration, a new map.  Bound: it is
\* open whether the player is in game if his name is watched afterwards.
Reset ==
  /\ Refreshed /\ ShotsCleared
  /\ aimbot' = AimbotClean /\ aimlock' = AimlockClean /\ antiAim' = AntiAimClean
  /\ irregular' = IrregularClean /\ scans' = ScanClean
  /\ \E inGame \in IF NameChangerDetection \in enabled' THEN BOOLEAN ELSE {TRUE} :
       names' = NameReset(inGame)

-----------------------------------------------------------------------------
\* User commands.

OnProcessUsercmds(c) ==
  /\ Arrives(c)
  /\ ShotsOnProcessUsercmds(c)
  /\ aimbot' \in Handled(AimbotDetection, aimbot, {AimbotOnProcessUsercmds(aimbot, c)})
  /\ antiAim' \in Handled(AntiAimDetection, antiAim, {AntiAimOnProcessUsercmds(antiAim, c)})
  /\ UNCHANGED <<aimlock, irregular, names, scans>>

OnSetupMove(c) ==
  /\ Simulates(c)
  /\ ShotsOnSetupMove(c)
  /\ aimbot' \in Handled(AimbotDetection, aimbot, AimbotOnSetupMove(aimbot, c))
  /\ aimlock' \in Handled(AimlockDetection, aimlock,
                          {AimlockOnSetupMove(aimlock, usable) : usable \in BOOLEAN})
  /\ antiAim' \in Handled(AntiAimDetection, antiAim, AntiAimOnSetupMove(antiAim, c, c \in Attacks))
  /\ UNCHANGED <<irregular, names, scans>>

-----------------------------------------------------------------------------
\* Game events.

OnPlayerSpawn ==
  /\ connected /\ On(AntiAimDetection)
  /\ antiAim' = AntiAimClean
  /\ UNCHANGED <<slotVars, shotVars, aimbot, aimlock, irregular, names, scans>>

Shoots(weapon) ==
  \E i \in UsableCommands, difficult \in IF On(IrregularDetection) THEN BOOLEAN ELSE {FALSE} :
    LET c == commands[i].number
        shot == NewShot(c, weapon, difficult)
    IN /\ UsableCommands = {i}
       /\ Recorded(shot)
       /\ antiAim' \in Handled(AntiAimDetection, antiAim,
                               {AntiAimOnWeaponFire(antiAim, c, returned) : returned \in BOOLEAN})
       /\ irregular' \in IF difficult
                         THEN {IrregularOnWeaponFire(irregular, shot.id, enough) :
                                 enough \in BOOLEAN}
                         ELSE {irregular}

OnWeaponFire(weapon) ==
  /\ connected
  /\ \/ Shoots(weapon)
     \/ Discarded /\ UNCHANGED <<antiAim, irregular>>
  /\ UNCHANGED <<slotVars, aimbot, aimlock, names, scans>>

OnFireBullets ==
  /\ connected
  /\ ShotsOnFireBullets
  /\ UNCHANGED <<slotVars, moduleVars>>

OnPlayerHurt ==
  /\ connected
  /\ \E i \in 1..Len(shots) :
       /\ Hurt(i)
       /\ aimbot' \in Handled(AimbotDetection, aimbot,
                        AimbotOnPlayerHurt(aimbot, shots[i].command, shots[i].fireTick))
  /\ UNCHANGED <<slotVars, aimlock, antiAim, irregular, names, scans>>

OnPlayerDeath(weapon) ==
  /\ connected
  /\ \E i \in 1..Len(shots) :
       /\ Died(weapon, i)
       /\ irregular' \in Handled(IrregularDetection, irregular,
                           {IrregularOnPlayerDeath(irregular, shots[i].id, fair) :
                              fair \in BOOLEAN})
  /\ UNCHANGED <<slotVars, aimbot, aimlock, antiAim, names, scans>>

-----------------------------------------------------------------------------

Scanned ==
  {OnFrame(Departed(scans, left), inGame, listening) :
     left \in SUBSET Slots, inGame \in SUBSET Slots, listening \in SUBSET Slots}

\* The modules in turn, then Prune; the tick has ended.
OnGameFrame ==
  /\ Clock
  /\ aimbot' \in Handled(AimbotDetection, aimbot, AimbotOnGameFrame(aimbot))
  /\ aimlock' \in Handled(AimlockDetection, aimlock,
                          IF connected THEN AimlockOnGameFrame(aimlock) ELSE {aimlock})
  /\ antiAim' \in Handled(AntiAimDetection, antiAim,
                          {AntiAimOnGameFrame(antiAim, returned) : returned \in BOOLEAN})
  /\ irregular' \in Handled(IrregularDetection, irregular, IrregularOnGameFrame(irregular))
  /\ scans' \in Handled(DllDetection, scans, Scanned)
  /\ ShotsOnGameFrame
  /\ UNCHANGED names

Next ==
  \/ Connect
  \/ OnClientReady
  \/ \E changed \in BOOLEAN, lapsed \in 0..MaxNameChanges :
       OnClientSettingsChanged(changed, lapsed)
  \/ OnClientDisconnect
  \/ Reset
  \/ \E c \in Commands : OnProcessUsercmds(c) \/ OnSetupMove(c)
  \/ OnPlayerSpawn
  \/ \E w \in Weapons : OnWeaponFire(w) \/ OnPlayerDeath(w)
  \/ OnFireBullets
  \/ OnPlayerHurt
  \/ OnGameFrame

Spec == Init /\ [][Next]_vars

-----------------------------------------------------------------------------

(***************************************************************************)
(* A user command explains at most one shot of its connection, although    *)
(* commands are delivered again, weapon_fire accepts a command of the tick *)
(* before, and Reset forgets which commands were consumed.                 *)
(***************************************************************************)
OneShotPerCommand == \A c \in Commands : uses[c] <= 1

(***************************************************************************)
(* A shot stays stored after the frame that judged it; what is due in a    *)
(* later frame is never a shot the module has judged before, whichever     *)
(* modules were switched on in between.                                    *)
(***************************************************************************)
JudgedOnce == \A m \in Modules : \A i \in Due(m) : shots[i].judged[m] = 0

(***************************************************************************)
(* Whatever counts against a player in any module, or waits to be judged,  *)
(* was done on the player's own connection, never by who had the slot      *)
(* before.                                                                 *)
(***************************************************************************)
EvidenceIsOfThisConnection ==
  LET counted ==
        (UNION {evidence[m] : m \in Modules}) \union aimbot.evidence \union aimlock.evidence
        \union {irregular.evidence[i].connection : i \in 1..Len(irregular.evidence)}
        \union {names.changes[i] : i \in 1..Len(names.changes)}
        \union {shots[i].connection : i \in 1..Len(shots)}
  IN \A c \in counted : connected /\ c = connection

(***************************************************************************)
(* static_assert in detection_system.cpp: "Shots must survive long enough  *)
(* for every accepted event".  No event changes a shot that a module has   *)
(* already judged.                                                         *)
(***************************************************************************)
FrozenOnceJudged ==
  [][\A i \in 1..Len(shots) : shots[i].consumed # {} =>
       \A j \in 1..Len(shots') : shots'[j].id = shots[i].id =>
         /\ shots'[j].silentFireSeen = shots[i].silentFireSeen
         /\ shots'[j].hurtSeen = shots[i].hurtSeen
         /\ shots'[j].deathSeen = shots[i].deathSeen]_vars

(***************************************************************************)
(* A shot leaves unjudged by an enabled module only in a reset, with its   *)
(* player or in a burst of more than pendingShotLimit shots: Prune never   *)
(* takes a shot that somebody still has to judge.                          *)
(***************************************************************************)
JudgedBeforePruned ==
  [][\A m \in Modules \intersect enabled, i \in 1..Len(shots) :
       \/ m \in shots[i].consumed
       \/ \E j \in 1..Len(shots') : shots'[j].id = shots[i].id
       \/ shots' = <<>> /\ evidence' = Nothing /\ tick' = tick
       \/ i = 1 /\ Len(shots) = ShotLimit /\ recorded' > recorded]_vars

(***************************************************************************)
(* AimbotModule::OnPlayerHurt gives up a hit that still waits for its next *)
(* command when the next hit comes.  By then that command has been         *)
(* simulated without the module knowing it, so that there was nothing left *)
(* to judge: the correlator attributes two hits to two commands and only   *)
(* if their shots lie far enough apart.                                    *)
(***************************************************************************)
HitsAreJudged == ~aimbot.forgotten

(***************************************************************************)
(* A movement of the aim is evidence in one hit at most, although the      *)
(* movements before two hits overlap and a hit may be evaluated several    *)
(* times.                                                                  *)
(***************************************************************************)
SnapCountsOnce == \A c \in Commands : aimbot.counted[c] <= 1

(***************************************************************************)
(* As long as a kill can be matched to a difficult shot, the module still  *)
(* holds that shot's attempt, unless an announcement has cleared it; so    *)
(* no success is lost, and the attempts do not grow without theirs.        *)
(***************************************************************************)
KillFindsItsAttempt ==
  \A i \in 1..Len(shots) :
    shots[i].difficult /\ InWindow(shots[i].fireTick) =>
      shots[i].id \in irregular.cleared
                      \union {irregular.pending[k].shotId : k \in 1..Len(irregular.pending)}

(***************************************************************************)
(* A continuous episode of AntiAim is announced once: before the next      *)
(* announcement of that kind a command showed nothing wrong at all, or the *)
(* player died or began anew.                                              *)
(***************************************************************************)
OnePerEpisode == ~antiAim.repeated

(***************************************************************************)
(* An attack return is judged as soon as the last of its three commands is *)
(* simulated, whichever of command and weapon_fire is seen last, and no    *)
(* shot waits longer than the frame after the next tick.                   *)
(***************************************************************************)
ReturnIsResolved ==
  antiAim.pendingShot # Unknown =>
    /\ Find(antiAim, antiAim.pendingShot + 1) = {}
    /\ tick - antiAim.pendingShotTick <= 2

(***************************************************************************)
(* An aimlock track has one sample of each tick since its start and no lag *)
(* more hits than samples; otherwise the coverage would say nothing about  *)
(* the time.                                                               *)
(***************************************************************************)
TrackIsWhole ==
  LET t == aimlock.track IN
  t # NoTrack => /\ t.samples = t.last - t.start + 1
                 /\ \A l \in Lags : t.on[l] <= t.samples

(***************************************************************************)
(* Aimlock comes back after an announcement only when the aim has been off *)
(* the target for RearmTicks, or the player died or began anew.            *)
(***************************************************************************)
RearmedAfterABreak ==
  [][aimlock.latched /\ ~aimlock'.latched /\ aimlock'.lastOn # NoTick =>
       tick - aimlock.lastOn >= RearmTicks]_vars

(***************************************************************************)
(* A player in game who is due for a scan is passed over in fewer frames   *)
(* than there are slots, whoever comes and goes before him.                *)
(***************************************************************************)
NobodyStarves == \A s \in Slots : scans.waited[s] < SlotCount

=============================================================================
