--------------------------- MODULE ShotCorrelator ---------------------------
(***************************************************************************)
(* ShotCorrelator (detection_system.cpp) for one player slot, with the two *)
(* modules that judge its shots once they are old enough: SilentAim and    *)
(* InhumanAccuracy.  DetectionSystem composes the handlers.                *)
(*                                                                         *)
(* The engine shows a shot to the plugin in pieces: the user command, the  *)
(* moment it is simulated, the weapon_fire event, the FireBullets message, *)
(* player_hurt, player_death.  Nothing ties the pieces together but their  *)
(* ticks.  A piece is used when exactly one stored command or shot of this *)
(* tick or the tick before can be meant, and thrown away otherwise; a shot *)
(* is judged when it is two ticks old and pruned when it is older.         *)
(*                                                                         *)
(* Abstractions: a shot's id is its number since the beginning (nextShotId *)
(* restarts in Reset, where no shot survives); generation is left out      *)
(* because it only advances when shots is cleared; angles, positions and   *)
(* weapons' spread become what the modules conclude from them.  Frames of  *)
(* positions are not kept: the modules look up ticks in which the player's *)
(* commands were simulated, and those are captured when the tick has       *)
(* ended.                                                                  *)
(***************************************************************************)
EXTENDS PlayerSlot

CONSTANTS
  Weapons,         \* ballistic weapons
  CommandLimit,    \* shotCommandLimit, 32 in the source
  ShotLimit,       \* pendingShotLimit, 8 in the source
  MaxShots         \* bound: the shots recorded

ASSUME ShotAssumption ==
  CommandLimit \in Nat \ {0} /\ ShotLimit \in Nat \ {0} /\ MaxShots \in Nat

VARIABLES
  commands,    \* ShotPlayerData::commands, oldest first
  shots,       \* ShotPlayerData::shots, oldest first
  evidence,    \* for SilentAim and InhumanAccuracy, the connections whose shots count
  recorded,    \* history: how many shots were recorded
  uses         \* history: the shots each command of the connection was used for

shotVars == <<commands, shots, evidence, recorded, uses>>

\* The modules that judge stored shots.
Modules == {SilentAim, InhumanAccuracy}

\* shotMatchTicks and shotLifetimeTicks
MatchTicks == 1
LifetimeTicks == 2

Shots == 1..MaxShots

ShotCommand ==
  [number : Commands, serverTick : Ticks \union {NotSimulated}, consumed : BOOLEAN]

\* consumed is silentConsumed and accuracyConsumed; difficult: airborne or without scope;
\* connection and judged, how often each module judged the shot, are history.
ShotRecord ==
  [id : Shots, connection : Connections, command : Commands, weapon : Weapons,
   fireTick : Ticks, difficult : BOOLEAN, silentFireSeen : BOOLEAN, hurtSeen : BOOLEAN,
   deathSeen : BOOLEAN, consumed : SUBSET Modules, judged : [Modules -> 0..2]]

ShotTypeOK ==
  /\ commands \in Seq(ShotCommand) /\ Len(commands) <= CommandLimit
  /\ shots \in Seq(ShotRecord) /\ Len(shots) <= ShotLimit
  /\ evidence \in [Modules -> SUBSET Connections]
  /\ recorded \in 0..MaxShots
  /\ uses \in [Commands -> 0..2]

Nothing == [m \in Modules |-> {}]
Unused == [c \in Commands |-> 0]

ShotInit ==
  /\ commands = <<>>
  /\ shots = <<>>
  /\ evidence = Nothing
  /\ recorded = 0
  /\ uses = Unused

-----------------------------------------------------------------------------
\* Connections and settings.

\* AdvanceGeneration.
Forget ==
  /\ commands' = <<>>
  /\ shots' = <<>>

\* Reset, and OnClientDisconnect, of ShotCorrelator, SilentAimModule and
\* InhumanAccuracyModule.
ShotsCleared ==
  /\ Forget
  /\ evidence' = Nothing
  /\ UNCHANGED <<recorded, uses>>

ShotsOfNewcomer ==
  /\ uses' = Unused
  /\ UNCHANGED <<commands, shots, evidence, recorded>>

-----------------------------------------------------------------------------
\* User commands.

New(c, deque) == \A i \in 1..Len(deque) : deque[i].number # c

ShotsOnProcessUsercmds(c) ==
  /\ commands' = IF c \in Attacks /\ New(c, commands)
                 THEN Bounded(Append(commands, [number |-> c, serverTick |-> NotSimulated,
                                                consumed |-> FALSE]), CommandLimit)
                 ELSE commands
  /\ UNCHANGED <<shots, evidence, recorded, uses>>

ShotsOnSetupMove(c) ==
  /\ commands' = [i \in 1..Len(commands) |->
                    IF commands[i].number = c
                    THEN [commands[i] EXCEPT !.serverTick = tick] ELSE commands[i]]
  /\ UNCHANGED <<shots, evidence, recorded, uses>>

-----------------------------------------------------------------------------
\* The pieces of a shot.

InWindow(t) == tick - t \in 0..MatchTicks

Usable(i) ==
  /\ commands[i].serverTick # NotSimulated
  /\ ~commands[i].consumed
  /\ InWindow(commands[i].serverTick)

UsableCommands == {i \in 1..Len(commands) : Usable(i)}

\* Plausible bug: a command stays usable.
ConsumeNone == commands

\* One command or an ambiguous few: whatever could be meant is used up.
Consume ==
  [i \in 1..Len(commands) |->
     IF Usable(i) THEN [commands[i] EXCEPT !.consumed = TRUE] ELSE commands[i]]

NewShot(command, weapon, difficult) ==
  [id |-> recorded + 1, connection |-> connection, command |-> command, weapon |-> weapon,
   fireTick |-> tick, difficult |-> difficult, silentFireSeen |-> FALSE, hurtSeen |-> FALSE,
   deathSeen |-> FALSE, consumed |-> {}, judged |-> [m \in Modules |-> 0]]

\* weapon_fire finds its command: the shot that OnWeaponFire returns.
Recorded(shot) ==
  /\ recorded < MaxShots
  /\ recorded' = recorded + 1
  /\ shots' = Bounded(Append(shots, shot), ShotLimit)
  /\ uses' = [uses EXCEPT ![shot.command] = Twice(@)]
  /\ commands' = Consume
  /\ UNCHANGED evidence

\* weapon_fire finds no command, or several.
Discarded ==
  /\ Cardinality(UsableCommands) # 1
  /\ commands' = Consume
  /\ UNCHANGED <<shots, evidence, recorded, uses>>

ShotsOnFireBullets ==
  LET matches == {i \in 1..Len(shots) :
                    ~shots[i].silentFireSeen /\ InWindow(shots[i].fireTick)}
  IN /\ SilentAim \in enabled
     /\ \E i \in matches :
          /\ matches = {i}
          /\ shots' = [shots EXCEPT ![i].silentFireSeen = TRUE]
     /\ UNCHANGED <<commands, evidence, recorded, uses>>

\* Plausible bug: any shot that is still stored can be meant.
AnyStored(weapons) == {i \in 1..Len(shots) : shots[i].weapon \in weapons}

MatchEvent(weapons) ==
  {i \in 1..Len(shots) : InWindow(shots[i].fireTick) /\ shots[i].weapon \in weapons}

\* player_hurt finds its shot: i is what OnPlayerHurt returns.
Hurt(i) ==
  /\ MatchEvent(Weapons) = {i}
  /\ ~shots[i].hurtSeen
  /\ shots' = [shots EXCEPT ![i].hurtSeen = TRUE]
  /\ UNCHANGED <<commands, evidence, recorded, uses>>

\* player_death finds its shot.
Died(weapon, i) ==
  /\ MatchEvent({weapon}) = {i}
  /\ ~shots[i].deathSeen
  /\ shots' = [shots EXCEPT ![i].deathSeen = TRUE]
  /\ UNCHANGED <<commands, evidence, recorded, uses>>

-----------------------------------------------------------------------------
\* The game frame: the modules judge, then Prune.

Age(i) == tick - shots[i].fireTick

\* The shots a module judges in this frame.
Due(m) == {i \in 1..Len(shots) : m \notin shots[i].consumed /\ Age(i) >= 2}

\* Plausible bug: a judged shot is not marked.
MarkNone(s, judges) == s

\* silentConsumed, accuracyConsumed.
Mark(s, judges) == [s EXCEPT !.consumed = @ \union judges]

\* What a module makes of a due shot: SilentAim counts hits of bullets it saw, if
\* they left the visible aim, InhumanAccuracy shots aimed at somebody: telling.
Counts(m, i, telling) ==
  /\ i \in telling
  /\ m = SilentAim => shots[i].silentFireSeen /\ shots[i].hurtSeen

Counted(m, telling) ==
  IF m \in enabled THEN {shots[i].connection : i \in {j \in Due(m) : Counts(m, j, telling)}}
  ELSE {}

\* An announcement, or the end of the window, clears what a module had.
Evidence(telling, cleared) ==
  [m \in Modules |-> IF m \in cleared THEN {} ELSE evidence[m] \union Counted(m, telling)]

\* The modules that judge shot i in this frame.
Judges(i) == {m \in Modules \intersect enabled : i \in Due(m)}

Judged ==
  [i \in 1..Len(shots) |->
     Mark([shots[i] EXCEPT !.judged =
             [m \in Modules |-> IF m \in Judges(i) THEN Twice(@[m]) ELSE @[m]]], Judges(i))]

\* Plausible bug: a shot goes as soon as no event can match it.
TooOldAtOnce(age) == age >= MatchTicks

TooOld(age) == age > LifetimeTicks

\* What stays of a deque when the elements at the other places are removed.
Staying(deque, places) ==
  [k \in 1..Cardinality(places) |->
     deque[CHOOSE i \in places : Cardinality({j \in places : j <= i}) = k]]

Prune ==
  /\ commands' = Staying(commands, {i \in 1..Len(commands) :
                    \/ commands[i].serverTick = NotSimulated
                    \/ ~TooOld(tick - commands[i].serverTick)})
  /\ shots' = Staying(Judged, {i \in 1..Len(shots) : ~TooOld(Age(i))})

ShotsOnGameFrame ==
  /\ \E telling \in SUBSET {i \in 1..Len(shots) : Judges(i) # {}},
        cleared \in SUBSET (Modules \intersect enabled) :
       evidence' = Evidence(telling, cleared)
  /\ Prune
  /\ UNCHANGED <<recorded, uses>>

=============================================================================
