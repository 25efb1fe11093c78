----------------------------- MODULE PlayerSlot -----------------------------
(***************************************************************************)
(* What the modules of DetectionSystem (detection_system.cpp) share: one   *)
(* player slot, the server's clock and the engine's progress through the   *)
(* player's user commands.  No detection looks at another slot's state.    *)
(***************************************************************************)
EXTENDS Integers, Sequences, FiniteSets

CONSTANTS
  Settings,        \* bound: the sets of enabled detections that are tried
  MaxTick,         \* bound: the last server tick
  MaxCommand,      \* bound: the commands a connection sends
  MaxConnections,  \* bound: the people who take the slot
  MaxAhead,        \* bound: how far from the simulated command one arrives
  Horizon          \* bound: how far those are used, and the attacks, under each of Settings

ASSUME SlotAssumption ==
  /\ {MaxTick, MaxCommand, MaxConnections, MaxAhead} \subseteq Nat
  /\ Horizon \in [Settings -> [tick : 0..MaxTick, command : 0..MaxCommand,
                              connection : 0..MaxConnections, attacks : SUBSET (1..MaxCommand)]]

VARIABLES
  tick,        \* the server tick
  connection,  \* history: the number of the connection in the slot, the last one's if it is empty
  connected,   \* somebody is in the slot: IsEligibleHuman
  simulated,   \* the last command of the connection the engine simulated
  enabled      \* settings: which detections are enabled

slotVars == <<tick, connection, connected, simulated, enabled>>

SilentAim == "SILENTAIM"
InhumanAccuracy == "INHUMAN ACCURACY"
AimbotDetection == "AIMBOT"
AimlockDetection == "AIMLOCK"
AntiAimDetection == "ANTIAIM"
IrregularDetection == "IRREGULAR BEHAVIOR"
NameChangerDetection == "NAMECHANGER"
DllDetection == "DLL INJECTION"

Detections ==
  {SilentAim, InhumanAccuracy, AimbotDetection, AimlockDetection, AntiAimDetection,
   IrregularDetection, NameChangerDetection, DllDetection}

ASSUME SettingsAssumption == Settings \subseteq SUBSET Detections

NotSimulated == -1

Commands == 1..MaxCommand
Ticks == 0..MaxTick
Connections == 1..MaxConnections

\* The commands that bear an attack.
Attacks == Horizon[enabled].attacks

SlotTypeOK ==
  /\ tick \in Ticks
  /\ connection \in {0} \union Connections
  /\ connected \in BOOLEAN
  /\ simulated \in {0} \union Commands
  /\ enabled \in SUBSET Detections

SlotInit ==
  /\ tick = 0
  /\ connection = 0
  /\ connected = FALSE
  /\ simulated = 0
  /\ enabled \in Settings

\* Plausible bug: the limit is noticed one late.
BoundedLate(deque, limit) == IF Len(deque) > limit + 1 THEN Tail(deque) ELSE deque

\* A deque that loses its front beyond its limit.
Bounded(deque, limit) == IF Len(deque) > limit THEN Tail(deque) ELSE deque

\* A number of a history that counts up to two.
Twice(n) == IF n < 2 THEN n + 1 ELSE n

Join ==
  /\ ~connected
  /\ connection < Horizon[enabled].connection
  /\ connection' = connection + 1
  /\ connected' = TRUE
  /\ simulated' = 0
  /\ UNCHANGED <<tick, enabled>>

Leave ==
  /\ connected
  /\ connected' = FALSE
  /\ UNCHANGED <<tick, connection, simulated, enabled>>

\* RefreshSettings finds another mask or revision; the bounds of the new one hold.
Refreshed ==
  /\ enabled' \in Settings
  /\ tick <= Horizon[enabled'].tick
  /\ simulated <= Horizon[enabled'].command
  /\ connection <= Horizon[enabled'].connection
  /\ UNCHANGED <<tick, connection, connected, simulated>>

\* A command arrives: the next ones, or one of the last once more.
Arrives(c) ==
  /\ connected
  /\ c <= Horizon[enabled].command
  /\ simulated - c \in (-MaxAhead)..MaxAhead
  /\ UNCHANGED slotVars

\* The engine simulates each command once, in order.
Simulates(c) ==
  /\ connected
  /\ c = simulated + 1 /\ c <= Horizon[enabled].command
  /\ simulated' = c
  /\ UNCHANGED <<tick, connection, connected, enabled>>

\* Every tick ends with its game frame.
Clock ==
  /\ tick < Horizon[enabled].tick
  /\ tick' = tick + 1
  /\ UNCHANGED <<connection, connected, simulated, enabled>>

=============================================================================
