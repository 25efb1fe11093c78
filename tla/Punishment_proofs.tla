------------------------- MODULE Punishment_proofs -------------------------
(***************************************************************************)
(* Proofs about Punishment, for any slots, players and detections.         *)
(*                                                                         *)
(* LevelMatchesCommands is not inductive by itself: a Connect clears the   *)
(* history of a slot and leaves its level alone, so it needs               *)
(* NobodyInherits, which in turn rests on Unload forgetting everything     *)
(* before a Disconnect can go unnoticed.  EscalatesOnly needs              *)
(* LevelMatchesCommands, because the code compares with the level only.    *)
(***************************************************************************)
EXTENDS Punishment, TLAPS

IInv ==
  /\ TypeOK
  /\ NobodyInherits
  /\ LevelMatchesCommands
  /\ EscalatesOnly

-----------------------------------------------------------------------------

(***************************************************************************)
(* What appending a command that exceeds the last one does to a history.   *)
(***************************************************************************)
LEMMA AppendEscalates ==
  ASSUME NEW h \in Seq(Commands), NEW c \in Commands,
         Highest(h) < c,
         \A i, j \in 1..Len(h) : i < j => h[i] < h[j]
  PROVE  /\ Append(h, c) \in Seq(Commands)
         /\ Highest(Append(h, c)) = c
         /\ \A i, j \in 1..Len(Append(h, c)) :
              i < j => Append(h, c)[i] < Append(h, c)[j]
<1> DEFINE g == Append(h, c)
<1>1. /\ g \in Seq(Commands)
      /\ Len(g) = Len(h) + 1
      /\ g[Len(g)] = c
      /\ \A i \in 1..Len(h) : g[i] = h[i]
  OBVIOUS
<1>2. g # <<>>
  BY <1>1
<1>3. Highest(g) = c
  BY <1>1, <1>2 DEF Highest
<1>4. ASSUME NEW i \in 1..Len(g), NEW j \in 1..Len(g), i < j
      PROVE  g[i] < g[j]
  <2>1. CASE j \in 1..Len(h)
    BY <2>1, <1>1, <1>4
  <2>2. CASE j = Len(g)
    <3>1. i \in 1..Len(h) /\ h # <<>> /\ Len(h) \in 1..Len(h)
      BY <2>2, <1>1, <1>4
    <3>2. h[i] <= h[Len(h)]
      <4>1. h[i] \in Commands /\ h[Len(h)] \in Commands
        BY <3>1
      <4>2. CASE i = Len(h)
        BY <4>1, <4>2 DEF Commands, Kick, Ban
      <4>3. CASE i < Len(h)
        BY <4>1, <4>3, <3>1 DEF Commands, Kick, Ban
      <4> QED
        BY <4>2, <4>3, <3>1
    <3>3. h[Len(h)] < c
      BY <3>1 DEF Highest
    <3>4. h[i] \in 1..2 /\ h[Len(h)] \in 1..2 /\ c \in 1..2
      BY <3>1 DEF Commands, Kick, Ban
    <3> QED
      BY <3>1, <3>2, <3>3, <3>4, <2>2, <1>1
  <2> QED
    BY <2>1, <2>2, <1>1, <1>4
<1> QED
  BY <1>1, <1>3, <1>4

-----------------------------------------------------------------------------

LEMMA InitIInv == Init => IInv
<1> SUFFICES ASSUME Init PROVE IInv
  OBVIOUS
<1>1. TypeOK
  <2>1. issued \in [Slots -> Seq(Commands)]
    <3>1. <<>> \in Seq(Commands)
      OBVIOUS
    <3> QED
      BY <3>1 DEF Init
  <2>2. levels \in [Slots -> Levels]
    BY DEF Init, Levels
  <2> QED
    BY <2>1, <2>2 DEF Init, TypeOK
<1>2. NobodyInherits /\ LevelMatchesCommands /\ EscalatesOnly
  BY DEF Init, NobodyInherits, LevelMatchesCommands, EscalatesOnly, Highest
<1> QED
  BY <1>1, <1>2 DEF IInv

(***************************************************************************)
(* StartAfresh, shared by MapReset, Load and Unload.                       *)
(***************************************************************************)
LEMMA StartAfreshIInv ==
  ASSUME IInv, StartAfresh, UNCHANGED <<engine, settings, unreported>>,
         loaded' \in BOOLEAN
  PROVE  IInv'
<1>1. TypeOK'
  BY DEF IInv, TypeOK, StartAfresh, engine, settings, Levels, None, Kick, Ban
<1>2. NobodyInherits' /\ LevelMatchesCommands' /\ EscalatesOnly'
  BY DEF StartAfresh, NobodyInherits, LevelMatchesCommands, EscalatesOnly, Highest
<1> QED
  BY <1>1, <1>2 DEF IInv

LEMMA ConnectIInv ==
  ASSUME IInv, NEW s \in Slots, NEW p \in Players, Connect(s, p)
  PROVE  IInv'
<1> USE DEF IInv, Connect, settings
<1>1. TypeOK'
  BY DEF TypeOK
<1>2. levels[s] = None
  BY DEF NobodyInherits
<1>3. NobodyInherits'
  BY PunishmentAssumption DEF NobodyInherits, TypeOK
<1>4. LevelMatchesCommands'
  BY <1>2 DEF LevelMatchesCommands, Highest, TypeOK
<1>5. EscalatesOnly'
  BY DEF EscalatesOnly, TypeOK
<1> QED
  BY <1>1, <1>3, <1>4, <1>5

LEMMA DisconnectIInv ==
  ASSUME IInv, NEW s \in Slots, Disconnect(s)
  PROVE  IInv'
<1> USE DEF IInv, Disconnect, settings
<1>1. levels' = [levels EXCEPT ![s] = None]
  <2>1. CASE loaded
    BY <2>1 DEF Forgive
  <2>2. CASE ~loaded
    BY <2>2 DEF Forgive, NobodyInherits, TypeOK
  <2> QED
    BY <2>1, <2>2
<1>2. TypeOK'
  BY <1>1 DEF TypeOK, Levels
<1>3. NobodyInherits'
  BY <1>1 DEF NobodyInherits, TypeOK
<1>4. LevelMatchesCommands'
  BY <1>1 DEF LevelMatchesCommands, Highest, TypeOK
<1>5. EscalatesOnly'
  BY DEF EscalatesOnly, TypeOK
<1> QED
  BY <1>2, <1>3, <1>4, <1>5

(***************************************************************************)
(* Steps that leave occupants, levels and history alone.                   *)
(***************************************************************************)
LEMMA QuietIInv ==
  ASSUME IInv, TypeOK', UNCHANGED <<loaded, occupant, levels, issued>>
  PROVE  IInv'
BY DEF IInv, NobodyInherits, LevelMatchesCommands, EscalatesOnly, Highest

LEMMA PunishIInv ==
  ASSUME IInv, NEW s \in Slots, NEW d \in Detections,
         NEW kickOnly \in BOOLEAN, NEW vetoed \in BOOLEAN,
         Punish(s, d, kickOnly, vetoed)
  PROVE  IInv'
<1> DEFINE level == Requested(d, kickOnly)
<1>1. level \in Commands
  BY DEF Requested, Commands
<1>2. /\ loaded /\ occupant[s] # NoPlayer
      /\ levels' = [levels EXCEPT ![s] = level]
      /\ issued' = [issued EXCEPT ![s] = Append(@, level)]
      /\ UNCHANGED <<loaded, engine, settings, unreported>>
      /\ ~(levels[s] >= level)
  BY DEF Punish, Accused, AlreadyPunished, Raise
<1>3. issued[s] \in Seq(Commands) /\ levels[s] \in Levels
  BY DEF IInv, TypeOK
<1>4. Highest(issued[s]) < level
  <2>1. Highest(issued[s]) = levels[s]
    BY DEF IInv, LevelMatchesCommands
  <2> QED
    BY <1>1, <1>2, <1>3, <2>1 DEF Commands, Levels, None, Kick, Ban
<1>5. /\ Append(issued[s], level) \in Seq(Commands)
      /\ Highest(Append(issued[s], level)) = level
      /\ \A i, j \in 1..Len(Append(issued[s], level)) :
           i < j => Append(issued[s], level)[i] < Append(issued[s], level)[j]
  BY <1>1, <1>3, <1>4, AppendEscalates DEF IInv, EscalatesOnly
<1>6. TypeOK'
  BY <1>1, <1>2, <1>5 DEF IInv, TypeOK, engine, settings, Levels, Commands
<1>7. NobodyInherits'
  BY <1>2 DEF IInv, NobodyInherits, TypeOK, engine
<1>8. LevelMatchesCommands'
  BY <1>2, <1>5 DEF IInv, LevelMatchesCommands, Highest, TypeOK
<1>9. EscalatesOnly'
  BY <1>2, <1>5 DEF IInv, EscalatesOnly, TypeOK
<1> QED
  BY <1>6, <1>7, <1>8, <1>9 DEF IInv

LEMMA NextIInv == IInv /\ [Next]_vars => IInv'
<1> SUFFICES ASSUME IInv, [Next]_vars PROVE IInv'
  OBVIOUS
<1>1. CASE Engine
  <2>1. PICK s \in Slots :
          \/ \E p \in Players : Connect(s, p)
          \/ SteamIdReady(s)
          \/ UserIdReady(s)
          \/ Disconnect(s)
    BY <1>1 DEF Engine
  <2>2. CASE \E p \in Players : Connect(s, p)
    BY <2>2, ConnectIInv
  <2>3. CASE SteamIdReady(s)
    <3>1. TypeOK'
      BY <2>3 DEF IInv, TypeOK, SteamIdReady, settings
    <3> QED
      BY <2>3, <3>1, QuietIInv DEF SteamIdReady
  <2>4. CASE UserIdReady(s)
    <3>1. TypeOK'
      BY <2>4 DEF IInv, TypeOK, UserIdReady, settings
    <3> QED
      BY <2>4, <3>1, QuietIInv DEF UserIdReady
  <2>5. CASE Disconnect(s)
    BY <2>5, DisconnectIInv
  <2> QED
    BY <2>1, <2>2, <2>3, <2>4, <2>5
<1>2. CASE Operator
  <2>1. TypeOK'
    BY <1>2 DEF IInv, TypeOK, Operator, SetMode, SetWhitelist, SetTemplate, engine
  <2> QED
    BY <1>2, <2>1, QuietIInv
      DEF Operator, SetMode, SetWhitelist, SetTemplate, engine
<1>3. CASE MapReset \/ Load \/ Unload
  <2>1. StartAfresh /\ UNCHANGED <<engine, settings, unreported>> /\ loaded' \in BOOLEAN
    BY <1>3 DEF MapReset, Load, Unload, IInv, TypeOK
  <2> QED
    BY <2>1, StartAfreshIInv
<1>4. ASSUME NEW s \in Slots, NEW d \in Detections, HandleDetection(s, d)
      PROVE  IInv'
  <2>1. PICK kickOnly \in BOOLEAN, vetoed \in BOOLEAN :
          \/ \E siteReady \in BOOLEAN : Excuse(s, d, vetoed, siteReady)
          \/ ReportToWebsite(s, d, vetoed)
          \/ Withhold(s, d, kickOnly, vetoed)
          \/ Punish(s, d, kickOnly, vetoed)
    BY <1>4 DEF HandleDetection, Flag
  <2>2. CASE \E siteReady \in BOOLEAN : Excuse(s, d, vetoed, siteReady)
    <3>1. TypeOK'
      BY <2>2 DEF IInv, TypeOK, Excuse, engine, settings
    <3> QED
      BY <2>2, <3>1, QuietIInv DEF Excuse, engine
  <2>3. CASE ReportToWebsite(s, d, vetoed) \/ Withhold(s, d, kickOnly, vetoed)
    <3>1. UNCHANGED vars
      BY <2>3 DEF ReportToWebsite, Withhold
    <3>2. TypeOK'
      BY <3>1 DEF IInv, TypeOK, vars
    <3> QED
      BY <3>1, <3>2, QuietIInv DEF vars
  <2>4. CASE Punish(s, d, kickOnly, vetoed)
    BY <2>4, PunishIInv
  <2> QED
    BY <2>1, <2>2, <2>3, <2>4
<1>5. CASE UNCHANGED vars
  <2>1. TypeOK'
    BY <1>5 DEF IInv, TypeOK, vars
  <2> QED
    BY <1>5, <2>1, QuietIInv DEF vars
<1> QED
  BY <1>1, <1>2, <1>3, <1>4, <1>5 DEF Next

(***************************************************************************)
(* The inductive invariant holds in every reachable state.                 *)
(***************************************************************************)
THEOREM Invariance == Spec => []IInv
BY InitIInv, NextIInv, PTL DEF Spec

-----------------------------------------------------------------------------

(***************************************************************************)
(* Every variable of HandleDetection's state keeps its type.               *)
(***************************************************************************)
THEOREM TypeCorrect == Spec => []TypeOK
<1>1. IInv => TypeOK
  BY DEF IInv
<1> QED
  BY <1>1, Invariance, PTL

(***************************************************************************)
(* punishmentLevels always says what was sent against the present client.  *)
(***************************************************************************)
THEOREM LevelsAreExact == Spec => []LevelMatchesCommands
<1>1. IInv => LevelMatchesCommands
  BY DEF IInv
<1> QED
  BY <1>1, Invariance, PTL

(***************************************************************************)
(* A client is sent at most one kick and after it at most one ban.         *)
(***************************************************************************)
THEOREM PunishedAtMostOncePerLevel == Spec => []EscalatesOnly
<1>1. IInv => EscalatesOnly
  BY DEF IInv
<1> QED
  BY <1>1, Invariance, PTL

(***************************************************************************)
(* Whoever connects to a slot starts without a punishment.                 *)
(***************************************************************************)
THEOREM NewcomersStartClean == Spec => []NobodyInherits
<1>1. IInv => NobodyInherits
  BY DEF IInv
<1> QED
  BY <1>1, Invariance, PTL

(***************************************************************************)
(* A level falls only when its client leaves or everything starts afresh.  *)
(***************************************************************************)
THEOREM LevelsFallWithCause == Spec => ForgottenOnlyWithCause
<1> DEFINE Cause ==
      \A s \in Slots : levels'[s] < levels[s] =>
        occupant'[s] = NoPlayer \/ \A t \in Slots : levels'[t] = None
<1>1. IInv /\ [Next]_vars => [Cause]_vars
  <2> SUFFICES ASSUME IInv, Next PROVE Cause
    OBVIOUS
  <2>0. \A t \in Slots : levels[t] \in 0..2
    BY DEF IInv, TypeOK, Levels, None, Kick, Ban
  <2>1. CASE levels' = levels
    BY <2>0, <2>1
  <2>2. CASE StartAfresh
    BY <2>2 DEF StartAfresh
  <2>3. ASSUME NEW s \in Slots, Disconnect(s)
        PROVE  Cause
    <3>1. levels' = levels \/ levels' = [levels EXCEPT ![s] = None]
      BY <2>3 DEF Disconnect, Forgive
    <3>2. occupant'[s] = NoPlayer
      BY <2>3 DEF Disconnect, IInv, TypeOK
    <3>3. \A t \in Slots : t # s => levels'[t] = levels[t]
      BY <3>1 DEF IInv, TypeOK
    <3> QED
      BY <2>0, <3>2, <3>3
  <2>4. ASSUME NEW s \in Slots, NEW d \in Detections,
               NEW kickOnly \in BOOLEAN, NEW vetoed \in BOOLEAN,
               Punish(s, d, kickOnly, vetoed)
        PROVE  Cause
    <3>1. /\ levels' = [levels EXCEPT ![s] = Requested(d, kickOnly)]
          /\ ~(levels[s] >= Requested(d, kickOnly))
          /\ Requested(d, kickOnly) \in 1..2
      BY <2>4 DEF Punish, Raise, AlreadyPunished, Requested, Kick, Ban
    <3>2. \A t \in Slots : t # s => levels'[t] = levels[t]
      BY <3>1 DEF IInv, TypeOK
    <3>3. levels'[s] = Requested(d, kickOnly)
      BY <3>1 DEF IInv, TypeOK
    <3>4. \A t \in Slots : ~(levels'[t] < levels[t])
      BY <2>0, <3>1, <3>2, <3>3
    <3> QED
      BY <3>4
  <2>5. \/ levels' = levels
        \/ StartAfresh
        \/ \E s \in Slots : Disconnect(s)
        \/ \E s \in Slots, d \in Detections, kickOnly, vetoed \in BOOLEAN :
             Punish(s, d, kickOnly, vetoed)
    <3>1. CASE Engine
      BY <3>1 DEF Engine, Connect, SteamIdReady, UserIdReady
    <3>2. CASE Operator
      BY <3>2 DEF Operator, SetMode, SetWhitelist, SetTemplate
    <3>3. CASE MapReset \/ Load \/ Unload
      BY <3>3 DEF MapReset, Load, Unload
    <3>4. ASSUME NEW s \in Slots, NEW d \in Detections, HandleDetection(s, d)
          PROVE  \/ levels' = levels
                 \/ \E kickOnly, vetoed \in BOOLEAN : Punish(s, d, kickOnly, vetoed)
      BY <3>4 DEF HandleDetection, Flag, Excuse, ReportToWebsite, Withhold, vars
    <3> QED
      BY <3>1, <3>2, <3>3, <3>4 DEF Next
  <2> QED
    BY <2>1, <2>2, <2>3, <2>4, <2>5
<1> QED
  BY <1>1, Invariance, PTL DEF Spec, ForgottenOnlyWithCause

=============================================================================
