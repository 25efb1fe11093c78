------------------------- MODULE Lifecycle_proofs -------------------------
(***************************************************************************)
(* Proofs about Lifecycle, for any number of player services, any timeout  *)
(* and any length of the command buffer: a pending load is watched by a    *)
(* timer, and nobody is accused on evidence of another time.               *)
(*                                                                         *)
(* The last needs to know how a change reaches the evidence: evidence    *)
(* older than a change is owned by a consumer that has not seen the latest *)
(* revision, and evidence gathered while teammates were the other way by   *)
(* one that remembers them so.  Comparing before judging is then enough.   *)
(***************************************************************************)
EXTENDS Lifecycle, TLAPS

\* A mask that is not to be worked out again enables nothing that is off.
MaskIsSound == ~dirty /\ mask => mode # "off"

\* The evidence of consumer c is dated by what c remembers.
DatedOf(c) ==
  /\ "old" \in evidence[c] => ~seen[c].current
  /\ "other" \in evidence[c] => c = System /\ seen[c].teammates # teammates
  /\ c = System /\ "new" \in evidence[c] => seen[c].teammates = teammates

EvidenceIsDated == \A c \in Consumers : DatedOf(c)

\* The server ends a complete file with its marker.
MarkerComesLast == whole /\ buffer # <<>> => buffer[Len(buffer)] = "marker"

IInv ==
  /\ TypeOK
  /\ PendingIsWatched
  /\ MaskIsSound
  /\ EvidenceIsDated
  /\ AnnouncedIsCurrent
  /\ MarkerComesLast
  /\ FinishedLoadIsReported

-----------------------------------------------------------------------------

(***************************************************************************)
(* What GetDetectionMask answers, and leaves behind.                       *)
(***************************************************************************)
LEMMA MaskFact ==
  ASSUME TypeOK, MaskIsSound
  PROVE  /\ GetDetectionMask \in BOOLEAN
         /\ GetDetectionMask => mode # "off"
BY DEF TypeOK, MaskIsSound, GetDetectionMask

(***************************************************************************)
(* Executing the configuration leaves lines in the command buffer.         *)
(***************************************************************************)
LEMMA ExecuteConfigTypes ==
  ASSUME TypeOK, ExecuteConfig
  PROVE  buffer' \in Seq(Lines) /\ whole' \in BOOLEAN
<1>1. PICK f \in DOMAIN Contents : whole' = (f = "complete") /\ buffer' = buffer \o Contents[f]
  BY DEF ExecuteConfig
<1>2. Contents[f] \in Seq(Lines)
  <2>1. <<"setting", "marker">> \in Seq(Lines) /\ <<"setting">> \in Seq(Lines) /\ <<>> \in Seq(Lines)
    BY DEF Lines
  <2>2. f = "complete" \/ f = "cut" \/ f = "missing"
    BY DEF Contents
  <2>3. CASE f = "complete"
    BY <2>1, <2>3 DEF Contents
  <2>4. CASE f = "cut"
    BY <2>1, <2>4 DEF Contents
  <2>5. CASE f = "missing"
    BY <2>1, <2>5 DEF Contents
  <2> QED
    BY <2>2, <2>3, <2>4, <2>5
<1>3. buffer \in Seq(Lines)
  BY DEF TypeOK
<1> QED
  BY <1>1, <1>2, <1>3

(***************************************************************************)
(* What a change of the settings, a fresh start, a frame of the detectors  *)
(* and a callback leave behind is of the right type.                       *)
(***************************************************************************)
LEMMA BumpTypes ==
  ASSUME TypeOK
  PROVE  Bumped \in [Consumers -> Seen] /\ Aged \in [Consumers -> SUBSET Gathered]
<1>1. \A c \in Consumers : [seen[c] EXCEPT !.current = FALSE] \in Seen
  BY DEF TypeOK, Seen
<1>2. \A c \in Consumers : (IF evidence[c] # {} THEN {"old"} ELSE {}) \in SUBSET Gathered
  BY DEF Gathered
<1> QED
  BY <1>1, <1>2 DEF Bumped, Aged

LEMMA ActivateTypes ==
  ASSUME TypeOK, MaskIsSound, Activate, waiting' = FALSE
  PROVE  TypeOK'
<1>1. GetDetectionMask \in BOOLEAN
  BY MaskFact
<1>2. buffer' \in Seq(Lines) /\ whole' \in BOOLEAN
  BY ExecuteConfigTypes DEF Activate
<1>3. /\ seen' \in [Consumers -> Seen]
      /\ evidence' \in [Consumers -> SUBSET Gathered]
  BY <1>1 DEF Activate, TypeOK, Seen
<1>4. timers' \subseteq 0..Timeout
  BY LifecycleAssumption DEF Activate
<1> QED
  BY <1>1, <1>2, <1>3, <1>4 DEF Activate, TypeOK, MaskIsRead

LEMMA CallbackTypes ==
  ASSUME TypeOK, MaskIsSound, NEW c \in Consumers, RefreshSettings(c), Gather(c) \/ Announce(c)
  PROVE  /\ mask' \in BOOLEAN /\ dirty' \in BOOLEAN
         /\ seen' \in [Consumers -> Seen]
         /\ evidence' \in [Consumers -> SUBSET Gathered]
         /\ announced' \subseteq Gathered \union {"off"}
<1>1. GetDetectionMask \in BOOLEAN
  BY MaskFact
<1>2. Kept(c) \subseteq Gathered
  BY DEF Kept, TypeOK
<1>3. [mask |-> GetDetectionMask, current |-> TRUE, teammates |-> teammates] \in Seen
  BY <1>1 DEF TypeOK, Seen
<1>4. seen' \in [Consumers -> Seen]
  BY <1>3 DEF RefreshSettings, TypeOK
<1>5. CASE Gather(c)
  <2>1. Kept(c) \union (IF GetDetectionMask THEN {"new"} ELSE {}) \in SUBSET Gathered
    BY <1>2 DEF Gathered
  <2>2. evidence' \in [Consumers -> SUBSET Gathered]
    BY <1>5, <2>1 DEF Gather, TypeOK
  <2> QED
    BY <1>1, <1>4, <1>5, <2>2 DEF Gather, TypeOK, RefreshSettings, MaskIsRead
<1>6. CASE Announce(c)
  <2>1. evidence' \in [Consumers -> SUBSET Gathered]
    BY <1>6 DEF Announce, TypeOK
  <2>2. announced' \subseteq Gathered \union {"off"}
    BY <1>2, <1>6 DEF Announce, TypeOK
  <2> QED
    BY <1>1, <1>4, <2>1, <2>2 DEF RefreshSettings, MaskIsRead
<1> QED
  BY <1>5, <1>6

-----------------------------------------------------------------------------

(***************************************************************************)
(* The initial state.                                                      *)
(***************************************************************************)
LEMMA Initialized == Init => IInv
<1> SUFFICES ASSUME Init PROVE IInv
  OBVIOUS
<1> USE LifecycleAssumption DEF Init
<1>1. TypeOK
  <2>1. buffer \in Seq(Lines)
    OBVIOUS
  <2>2. seen \in [Consumers -> Seen]
    BY DEF Seen, NothingSeen
  <2>3. evidence \in [Consumers -> SUBSET Gathered]
    OBVIOUS
  <2> QED
    BY <2>1, <2>2, <2>3 DEF TypeOK, Modes
<1>2. PendingIsWatched /\ MaskIsSound /\ AnnouncedIsCurrent
  BY DEF PendingIsWatched, MaskIsSound, AnnouncedIsCurrent
<1>4. MarkerComesLast /\ FinishedLoadIsReported
  BY DEF MarkerComesLast, FinishedLoadIsReported
<1>3. EvidenceIsDated
  BY DEF EvidenceIsDated, DatedOf
<1> QED
  BY <1>1, <1>2, <1>3, <1>4 DEF IInv

(***************************************************************************)
(* Every step keeps the types.                                             *)
(***************************************************************************)
LEMMA TypeStep == IInv /\ [Next]_vars => TypeOK'
<1> SUFFICES ASSUME IInv, [Next]_vars PROVE TypeOK'
  OBVIOUS
<1> USE DEF IInv, plugin, config, loading, live, detectors
<1>0. GetDetectionMask \in BOOLEAN
  BY MaskFact
<1>1. CASE Load
  BY <1>1 DEF Load, TypeOK, Modes
<1>2. CASE AllPluginsLoaded
  <2>1. Activate /\ waiting' = FALSE
    BY <1>2 DEF AllPluginsLoaded
  <2> QED
    BY <2>1, ActivateTypes
<1>3. CASE CleanupRuntime
  <2>1. NothingSeen \in Seen
    BY DEF NothingSeen, Seen
  <2>2. \A c \in Consumers : [SeenNow(c) EXCEPT !.mask = FALSE] \in Seen
    BY <1>0 DEF SeenNow, Seen, TypeOK
  <2>3. seen' \in [Consumers -> Seen] /\ evidence' \in [Consumers -> SUBSET Gathered]
    BY <1>3, <2>1, <2>2 DEF CleanupRuntime
  <2> QED
    BY <1>3, <2>3 DEF CleanupRuntime, TypeOK
<1>4. CASE MapReset
  <2>1. \A c \in Consumers : SeenNow(c) \in Seen
    BY <1>0 DEF SeenNow, Seen, TypeOK
  <2>2. seen' \in [Consumers -> Seen] /\ evidence' \in [Consumers -> SUBSET Gathered]
    BY <1>4, <2>1 DEF MapReset, ResetDetectors, TypeOK
  <2>3. pending' \in BOOLEAN /\ failed' \in BOOLEAN /\ configLoaded' \in BOOLEAN
    BY <1>4 DEF MapReset, Interrupt, TypeOK
  <2> QED
    BY <1>0, <1>4, <2>2, <2>3 DEF MapReset, ResetDetectors, MaskIsRead, TypeOK
<1>5. CASE ReloadConfig
  <2>1. buffer' \in Seq(Lines) /\ whole' \in BOOLEAN
    BY <1>5, ExecuteConfigTypes DEF ReloadConfig
  <2>2. timers' \subseteq 0..Timeout
    BY <1>5, LifecycleAssumption DEF ReloadConfig, TypeOK
  <2> QED
    BY <1>5, <2>1, <2>2 DEF ReloadConfig, TypeOK
<1>6. CASE ExecuteLine
  <2>1. buffer' \in Seq(Lines)
    BY <1>6 DEF ExecuteLine, TypeOK
  <2>2. CASE Unknown
    BY <1>6, <2>1, <2>2 DEF ExecuteLine, Unknown, TypeOK
  <2>3. CASE Setting
    BY <1>6, <2>1, <2>3, BumpTypes DEF ExecuteLine, Setting, DetectionSettingChanged, TypeOK
  <2>4. CASE Marker
    BY <1>6, <2>1, <2>4, BumpTypes DEF ExecuteLine, Marker, Finished, RevisionBumped, TypeOK
  <2> QED
    BY <1>6, <2>2, <2>3, <2>4 DEF ExecuteLine
<1>7. CASE TypeSetting
  BY <1>7, BumpTypes DEF TypeSetting, DetectionSettingChanged, TypeOK
<1>8. CASE TypeWhitelist
  BY <1>8, BumpTypes DEF TypeWhitelist, RevisionBumped, TypeOK
<1>9. CASE TeammatesChange
  <2>1. \A when \in Gathered : OtherWay[when] \in Gathered
    BY DEF OtherWay, Gathered
  <2>2. {OtherWay[when] : when \in evidence[System]} \in SUBSET Gathered
    BY <2>1 DEF TypeOK, Consumers
  <2>3. evidence' \in [Consumers -> SUBSET Gathered]
    BY <1>9, <2>2 DEF TeammatesChange, TypeOK
  <2> QED
    BY <1>9, <2>3 DEF TeammatesChange, TypeOK
<1>10. CASE TimePasses
  <2>1. timers' \subseteq 0..Timeout
    BY <1>10, LifecycleAssumption DEF TimePasses, TypeOK
  <2> QED
    BY <1>10, <2>1 DEF TimePasses, TypeOK
<1>11. CASE \E c \in Consumers : Callback(c)
  <2>1. PICK c \in Consumers : Callback(c)
    BY <1>11
  <2> QED
    BY <2>1, CallbackTypes DEF Callback, TypeOK
<1>12. CASE GameFrame
  <2>1. /\ timers' \subseteq 0..Timeout /\ pending' \in BOOLEAN
        /\ failed' \in BOOLEAN /\ configLoaded' \in BOOLEAN
    BY <1>12 DEF GameFrame, ProcessTimers, Due, TypeOK
  <2>2. CASE RefreshSettings(System) /\ (Gather(System) \/ Announce(System))
    BY <1>12, <2>1, <2>2, CallbackTypes DEF GameFrame, Consumers, TypeOK
  <2>3. CASE UNCHANGED <<dirty, mask, detectors>>
    BY <1>12, <2>1, <2>3 DEF GameFrame, TypeOK
  <2> QED
    BY <1>12, <2>2, <2>3 DEF GameFrame
<1>13. CASE UNCHANGED vars
  BY <1>13 DEF vars, TypeOK
<1> QED
  BY <1>1, <1>2, <1>3, <1>4, <1>5, <1>6, <1>7, <1>8, <1>9, <1>10, <1>11, <1>12, <1>13 DEF Next

-----------------------------------------------------------------------------

(***************************************************************************)
(* Whoever sets configReloadPending arms a timer, and only a map reset and *)
(* CleanupRuntime, which end the wait, remove one that has not run out.    *)
(***************************************************************************)
LEMMA PendingStep == IInv /\ [Next]_vars => PendingIsWatched'
<1> SUFFICES ASSUME IInv, [Next]_vars PROVE PendingIsWatched'
  OBVIOUS
<1> USE DEF PendingIsWatched, plugin, config, loading, live, detectors
<1>0. TypeOK /\ PendingIsWatched
  BY DEF IInv
<1>1. CASE Load
  BY <1>0, <1>1 DEF Load
<1>2. CASE AllPluginsLoaded
  BY <1>0, <1>2 DEF AllPluginsLoaded, Activate
<1>3. CASE CleanupRuntime
  BY <1>3 DEF CleanupRuntime
<1>4. CASE MapReset
  BY <1>4 DEF MapReset, Interrupt
<1>5. CASE ReloadConfig
  BY <1>5 DEF ReloadConfig
<1>6. CASE ExecuteLine
  BY <1>0, <1>6 DEF ExecuteLine, Unknown, Setting, Marker, Finished
<1>7. CASE TypeSetting
  BY <1>0, <1>7 DEF TypeSetting
<1>8. CASE TypeWhitelist
  BY <1>0, <1>8 DEF TypeWhitelist
<1>9. CASE TeammatesChange
  BY <1>0, <1>9 DEF TeammatesChange
<1>10. CASE TimePasses
  <2>1. timers' # {}
    BY <1>10 DEF TimePasses
  <2> QED
    BY <1>0, <1>10, <2>1 DEF TimePasses
<1>11. CASE \E c \in Consumers : Callback(c)
  BY <1>0, <1>11 DEF Callback
<1>12. CASE GameFrame
  <2>1. pending' => pending /\ 0 \notin timers
    BY <1>12 DEF GameFrame, ProcessTimers, Due
  <2>2. 0 \notin timers => timers' = timers
    BY <1>12 DEF GameFrame, ProcessTimers
  <2> QED
    BY <1>0, <1>12, <2>1, <2>2 DEF GameFrame
<1>13. CASE UNCHANGED vars
  BY <1>0, <1>13 DEF vars
<1> QED
  BY <1>1, <1>2, <1>3, <1>4, <1>5, <1>6, <1>7, <1>8, <1>9, <1>10, <1>11, <1>12, <1>13 DEF Next

(***************************************************************************)
(* Whoever changes a mode marks the mask dirty.                            *)
(***************************************************************************)
LEMMA MaskStep == IInv /\ [Next]_vars => MaskIsSound'
<1> SUFFICES ASSUME IInv, [Next]_vars PROVE MaskIsSound'
  OBVIOUS
<1> USE DEF plugin, config, loading, live, detectors
<1>0. TypeOK /\ MaskIsSound
  BY DEF IInv
<1>1. ASSUME MaskIsRead, mode' = mode PROVE MaskIsSound'
  BY <1>0, <1>1, MaskFact DEF MaskIsRead, MaskIsSound
<1>2. ASSUME UNCHANGED <<mode, dirty, mask>> PROVE MaskIsSound'
  BY <1>0, <1>2 DEF MaskIsSound
<1>3. CASE Load
  BY <1>3 DEF Load, MaskIsSound
<1>4. CASE AllPluginsLoaded
  BY <1>1, <1>4 DEF AllPluginsLoaded, Activate
<1>5. CASE CleanupRuntime
  BY <1>5 DEF CleanupRuntime, MaskIsSound
<1>6. CASE MapReset
  BY <1>1, <1>6 DEF MapReset, ResetDetectors
<1>7. CASE ReloadConfig
  BY <1>2, <1>7 DEF ReloadConfig
<1>8. CASE ExecuteLine
  <2>1. CASE Setting
    BY <2>1 DEF Setting, DetectionSettingChanged, MaskIsSound
  <2>2. CASE Unknown \/ Marker
    BY <1>2, <2>2 DEF Unknown, Marker
  <2> QED
    BY <1>8, <2>1, <2>2 DEF ExecuteLine
<1>9. CASE TypeSetting
  BY <1>9 DEF TypeSetting, DetectionSettingChanged, MaskIsSound
<1>10. CASE TypeWhitelist
  BY <1>2, <1>10 DEF TypeWhitelist
<1>11. CASE TeammatesChange
  BY <1>2, <1>11 DEF TeammatesChange
<1>12. CASE TimePasses
  BY <1>2, <1>12 DEF TimePasses
<1>13. CASE \E c \in Consumers : Callback(c)
  BY <1>1, <1>13 DEF Callback, RefreshSettings
<1>14. CASE GameFrame
  BY <1>1, <1>2, <1>14 DEF GameFrame, RefreshSettings
<1>15. CASE UNCHANGED vars
  BY <1>2, <1>15 DEF vars
<1> QED
  BY <1>3, <1>4, <1>5, <1>6, <1>7, <1>8, <1>9, <1>10, <1>11, <1>12, <1>13, <1>14, <1>15 DEF Next

-----------------------------------------------------------------------------

(***************************************************************************)
(* What RefreshSettings keeps is new: a consumer that has noticed no       *)
(* change owns nothing older than one.                                     *)
(***************************************************************************)
LEMMA KeptIsNew ==
  ASSUME TypeOK, EvidenceIsDated, NEW c \in Consumers
  PROVE  Kept(c) \subseteq {"new"}
<1>1. CASE Changed(c)
  BY <1>1 DEF Kept
<1>2. CASE ~Changed(c)
  <2>1. seen[c].current /\ (c = System => seen[c].teammates = teammates)
    BY <1>2 DEF Changed
  <2>2. "old" \notin evidence[c] /\ "other" \notin evidence[c]
    BY <2>1 DEF EvidenceIsDated, DatedOf
  <2>3. evidence[c] \subseteq Gathered
    BY DEF TypeOK
  <2> QED
    BY <1>2, <2>2, <2>3 DEF Kept, Gathered
<1> QED
  BY <1>1, <1>2

(***************************************************************************)
(* A callback leaves its consumer with evidence of the present only.       *)
(***************************************************************************)
LEMMA CallbackDates ==
  ASSUME TypeOK, EvidenceIsDated, NEW c \in Consumers,
         RefreshSettings(c), Gather(c) \/ Announce(c), teammates' = teammates
  PROVE  EvidenceIsDated'
<1>1. /\ evidence'[c] \subseteq {"new"}
      /\ \A d \in Consumers \ {c} : evidence'[d] = evidence[d]
  BY KeptIsNew DEF Gather, Announce, TypeOK
<1>2. /\ seen'[c].teammates = teammates
      /\ \A d \in Consumers \ {c} : seen'[d] = seen[d]
  BY DEF RefreshSettings, TypeOK
<1>3. DatedOf(c)'
  BY <1>1, <1>2 DEF DatedOf
<1>4. ASSUME NEW d \in Consumers \ {c} PROVE DatedOf(d)'
  BY <1>1, <1>2 DEF DatedOf, EvidenceIsDated
<1> QED
  BY <1>3, <1>4 DEF EvidenceIsDated

(***************************************************************************)
(* A change ages all evidence and is unseen by everybody.                  *)
(***************************************************************************)
LEMMA ChangeDates ==
  ASSUME TypeOK, seen' = Bumped, evidence' = Aged
  PROVE  EvidenceIsDated'
<1> SUFFICES ASSUME NEW c \in Consumers PROVE DatedOf(c)'
  BY DEF EvidenceIsDated
<1>1. evidence'[c] \subseteq {"old"}
  BY DEF Aged
<1>2. ~seen'[c].current
  BY DEF Bumped, TypeOK, Seen
<1> QED
  BY <1>1, <1>2 DEF DatedOf

LEMMA DatedStep == IInv /\ [Next]_vars => EvidenceIsDated'
<1> SUFFICES ASSUME IInv, [Next]_vars PROVE EvidenceIsDated'
  OBVIOUS
<1> USE DEF plugin, config, loading, live, detectors
<1>0. TypeOK /\ EvidenceIsDated
  BY DEF IInv
<1>1. ASSUME evidence' = [c \in Consumers |-> {}] PROVE EvidenceIsDated'
  BY <1>1 DEF EvidenceIsDated, DatedOf
<1>2. ASSUME UNCHANGED <<teammates, seen, evidence>> PROVE EvidenceIsDated'
  BY <1>0, <1>2 DEF EvidenceIsDated, DatedOf
<1>3. CASE Load
  BY <1>2, <1>3 DEF Load
<1>4. CASE AllPluginsLoaded
  BY <1>1, <1>4 DEF AllPluginsLoaded, Activate
<1>5. CASE CleanupRuntime
  BY <1>1, <1>5 DEF CleanupRuntime
<1>6. CASE MapReset
  BY <1>1, <1>6 DEF MapReset, ResetDetectors
<1>7. CASE ReloadConfig
  BY <1>2, <1>7 DEF ReloadConfig
<1>8. CASE ExecuteLine
  <2>1. CASE Setting
    BY <1>0, <2>1, ChangeDates DEF Setting, DetectionSettingChanged
  <2>2. CASE Marker
    BY <1>0, <2>2, ChangeDates DEF Marker, RevisionBumped
  <2>3. CASE Unknown
    BY <1>2, <2>3 DEF Unknown
  <2> QED
    BY <1>8, <2>1, <2>2, <2>3 DEF ExecuteLine
<1>9. CASE TypeSetting
  BY <1>0, <1>9, ChangeDates DEF TypeSetting, DetectionSettingChanged
<1>10. CASE TypeWhitelist
  BY <1>0, <1>10, ChangeDates DEF TypeWhitelist, RevisionBumped
<1>11. CASE TeammatesChange
  <2>1. System \in Consumers
    BY DEF Consumers
  <2>2. /\ evidence'[System] = {OtherWay[when] : when \in evidence[System]}
        /\ \A c \in Consumers \ {System} : evidence'[c] = evidence[c]
        /\ seen' = seen /\ teammates' = ~teammates
    BY <1>0, <1>11, <2>1 DEF TeammatesChange, TypeOK
  <2>3. /\ OtherWay["new"] = "other" /\ OtherWay["other"] = "new" /\ OtherWay["old"] = "old"
        /\ evidence[System] \subseteq Gathered
    BY <1>0, <2>1 DEF OtherWay, TypeOK
  <2>4. /\ "old" \in evidence'[System] => "old" \in evidence[System]
        /\ "other" \in evidence'[System] => "new" \in evidence[System]
        /\ "new" \in evidence'[System] => "other" \in evidence[System]
    BY <2>2, <2>3 DEF Gathered
  <2>5. DatedOf(System)'
    <3>1. teammates \in BOOLEAN /\ seen[System].teammates \in BOOLEAN
      BY <1>0, <2>1 DEF TypeOK, Seen
    <3> QED
      BY <1>0, <2>1, <2>2, <2>4, <3>1 DEF EvidenceIsDated, DatedOf
  <2>6. ASSUME NEW c \in Consumers \ {System} PROVE DatedOf(c)'
    BY <1>0, <2>2, <2>6 DEF EvidenceIsDated, DatedOf
  <2> QED
    BY <2>5, <2>6 DEF EvidenceIsDated
<1>12. CASE TimePasses
  BY <1>2, <1>12 DEF TimePasses
<1>13. CASE \E c \in Consumers : Callback(c)
  BY <1>0, <1>13, CallbackDates DEF Callback
<1>14. CASE GameFrame
  <2>1. CASE RefreshSettings(System) /\ (Gather(System) \/ Announce(System))
    BY <1>0, <1>14, <2>1, CallbackDates DEF GameFrame, Consumers
  <2>2. CASE UNCHANGED <<dirty, mask, detectors>>
    BY <1>2, <1>14, <2>2 DEF GameFrame
  <2> QED
    BY <1>14, <2>1, <2>2 DEF GameFrame
<1>15. CASE UNCHANGED vars
  BY <1>2, <1>15 DEF vars
<1> QED
  BY <1>3, <1>4, <1>5, <1>6, <1>7, <1>8, <1>9, <1>10, <1>11, <1>12, <1>13, <1>14, <1>15 DEF Next

(***************************************************************************)
(* Only a callback announces, and it announces what it kept.               *)
(***************************************************************************)
LEMMA AnnouncedStep == IInv /\ [Next]_vars => AnnouncedIsCurrent'
<1> SUFFICES ASSUME IInv, [Next]_vars PROVE AnnouncedIsCurrent'
  OBVIOUS
<1> USE DEF plugin, config, loading, live, detectors
<1>0. TypeOK /\ MaskIsSound /\ EvidenceIsDated /\ AnnouncedIsCurrent
  BY DEF IInv
<1>1. ASSUME announced' = announced PROVE AnnouncedIsCurrent'
  BY <1>0, <1>1 DEF AnnouncedIsCurrent
<1>2. ASSUME NEW c \in Consumers, Gather(c) \/ Announce(c) PROVE AnnouncedIsCurrent'
  <2>1. CASE Gather(c)
    BY <1>1, <2>1 DEF Gather
  <2>2. CASE Announce(c)
    <3>1. Kept(c) \subseteq {"new"}
      BY <1>0, KeptIsNew
    <3>2. mode # "off"
      BY <1>0, <2>2, MaskFact DEF Announce
    <3> QED
      BY <1>0, <2>2, <3>1, <3>2 DEF Announce, AnnouncedIsCurrent
  <2> QED
    BY <1>2, <2>1, <2>2
<1>3. CASE Load \/ AllPluginsLoaded \/ CleanupRuntime \/ MapReset \/ ReloadConfig
  BY <1>1, <1>3
  DEF Load, AllPluginsLoaded, Activate, CleanupRuntime, MapReset, ResetDetectors, ReloadConfig
<1>4. CASE ExecuteLine \/ TypeSetting \/ TypeWhitelist \/ TeammatesChange \/ TimePasses
  BY <1>1, <1>4
  DEF ExecuteLine, Unknown, Setting, Marker, TypeSetting, TypeWhitelist, TeammatesChange, TimePasses
<1>5. CASE \E c \in Consumers : Callback(c)
  BY <1>2, <1>5 DEF Callback
<1>6. CASE GameFrame
  BY <1>1, <1>2, <1>6 DEF GameFrame, Consumers
<1>7. CASE UNCHANGED vars
  BY <1>1, <1>7 DEF vars
<1> QED
  BY <1>3, <1>4, <1>5, <1>6, <1>7 DEF Next

(***************************************************************************)
(* What the server still has to execute after one more file, and after one *)
(* line less.                                                              *)
(***************************************************************************)
LEMMA ExecuteConfigEnds ==
  ASSUME TypeOK, ExecuteConfig
  PROVE  whole' => buffer' # <<>> /\ buffer'[Len(buffer')] = "marker"
<1> SUFFICES ASSUME whole' PROVE buffer' # <<>> /\ buffer'[Len(buffer')] = "marker"
  OBVIOUS
<1> DEFINE file == <<"setting", "marker">>
           lines == buffer \o file
<1>1. buffer' = lines
  <2>1. PICK f \in DOMAIN Contents : whole' = (f = "complete") /\ buffer' = buffer \o Contents[f]
    BY DEF ExecuteConfig
  <2>2. f = "complete"
    BY <2>1
  <2>3. Contents["complete"] = file
    BY DEF Contents
  <2> QED
    BY <2>1, <2>2, <2>3
<1>2. buffer \in Seq(Lines) /\ file \in Seq(Lines) /\ Len(file) = 2 /\ file[2] = "marker"
  BY DEF TypeOK, Lines
<1>3. lines \in Seq(Lines) /\ Len(lines) = Len(buffer) + 2 /\ lines[Len(buffer) + 2] = "marker"
  BY <1>2
<1>4. lines # <<>> /\ lines[Len(lines)] = "marker"
  BY <1>2, <1>3
<1> QED
  BY <1>1, <1>4

LEMMA NextLine ==
  ASSUME NEW b \in Seq(Lines), b # <<>>
  PROVE  /\ Tail(b) # <<>> => Tail(b)[Len(Tail(b))] = b[Len(b)]
         /\ Tail(b) = <<>> => Head(b) = b[Len(b)]
<1>1. /\ Len(b) \in Nat \ {0} /\ Head(b) = b[1]
      /\ Tail(b) \in Seq(Lines) /\ Len(Tail(b)) = Len(b) - 1
      /\ \A i \in 1..(Len(b) - 1) : Tail(b)[i] = b[i + 1]
  OBVIOUS
<1>2. Tail(b) # <<>> => Len(b) - 1 \in 1..(Len(b) - 1)
  BY <1>1
<1>3. Tail(b) = <<>> => Len(b) = 1
  <2>1. ASSUME NEW t, t = <<>> PROVE Len(t) = 0
    BY <2>1
  <2>2. Tail(b) = <<>> => Len(Tail(b)) = 0
    BY <2>1
  <2> QED
    BY <1>1, <2>2
<1> QED
  BY <1>1, <1>2, <1>3

(***************************************************************************)
(* The marker of a complete file is executed last, and nothing that comes  *)
(* later takes back what it says before the next load.                     *)
(***************************************************************************)
LEMMA FinishedStep == IInv /\ [Next]_vars => MarkerComesLast' /\ FinishedLoadIsReported'
<1> SUFFICES ASSUME IInv, [Next]_vars PROVE MarkerComesLast' /\ FinishedLoadIsReported'
  OBVIOUS
<1> USE DEF plugin, config, loading, live, detectors
<1>0. TypeOK /\ MarkerComesLast /\ FinishedLoadIsReported
  BY DEF IInv
<1>1. ASSUME ExecuteConfig PROVE MarkerComesLast' /\ FinishedLoadIsReported'
  BY <1>0, <1>1, ExecuteConfigEnds DEF MarkerComesLast, FinishedLoadIsReported
<1>2. ASSUME UNCHANGED <<whole, buffer>>, loaded' => UNCHANGED <<loaded, config>>
      PROVE  MarkerComesLast' /\ FinishedLoadIsReported'
  BY <1>0, <1>2 DEF MarkerComesLast, FinishedLoadIsReported
<1>3. CASE Load
  BY <1>2, <1>3 DEF Load
<1>4. CASE AllPluginsLoaded
  BY <1>1, <1>4 DEF AllPluginsLoaded, Activate
<1>5. CASE CleanupRuntime
  BY <1>5 DEF CleanupRuntime, MarkerComesLast, FinishedLoadIsReported
<1>6. CASE MapReset
  BY <1>0, <1>6 DEF MapReset, Interrupt, MarkerComesLast, FinishedLoadIsReported
<1>7. CASE ReloadConfig
  BY <1>1, <1>7 DEF ReloadConfig
<1>8. CASE ExecuteLine
  <2>1. /\ buffer \in Seq(Lines) /\ buffer # <<>> /\ buffer' = Tail(buffer)
        /\ UNCHANGED <<loaded, whole>>
    BY <1>0, <1>8 DEF ExecuteLine, TypeOK
  <2>2. MarkerComesLast'
    BY <1>0, <2>1, NextLine DEF MarkerComesLast
  <2>3. ASSUME loaded', whole', buffer' = <<>> PROVE configLoaded' /\ ~pending' /\ ~failed'
    <3>1. Head(buffer) = "marker"
      BY <1>0, <2>1, <2>3, NextLine DEF MarkerComesLast
    <3>2. Marker
      BY <1>8, <2>1, <2>3, <3>1 DEF ExecuteLine, Unknown, Setting
    <3> QED
      BY <3>2 DEF Marker, Finished
  <2> QED
    BY <2>2, <2>3 DEF FinishedLoadIsReported
<1>9. CASE TypeSetting
  BY <1>2, <1>9 DEF TypeSetting
<1>10. CASE TypeWhitelist
  BY <1>2, <1>10 DEF TypeWhitelist
<1>11. CASE TeammatesChange
  BY <1>2, <1>11 DEF TeammatesChange
<1>12. CASE TimePasses
  BY <1>2, <1>12 DEF TimePasses
<1>13. CASE \E c \in Consumers : Callback(c)
  BY <1>2, <1>13 DEF Callback
<1>14. CASE GameFrame
  BY <1>0, <1>14 DEF GameFrame, ProcessTimers, MarkerComesLast, FinishedLoadIsReported
<1>15. CASE UNCHANGED vars
  BY <1>2, <1>15 DEF vars
<1> QED
  BY <1>3, <1>4, <1>5, <1>6, <1>7, <1>8, <1>9, <1>10, <1>11, <1>12, <1>13, <1>14, <1>15 DEF Next

-----------------------------------------------------------------------------

(***************************************************************************)
(* The inductive invariant.                                                *)
(***************************************************************************)
THEOREM Invariance == Spec => []IInv
<1>1. IInv /\ [Next]_vars => IInv'
  BY TypeStep, PendingStep, MaskStep, DatedStep, AnnouncedStep, FinishedStep DEF IInv
<1> QED
  BY Initialized, <1>1, PTL DEF Spec

(***************************************************************************)
(* The plugin's state, the command buffer and the detectors' memory keep   *)
(* their types for any number of services and any timeout.                 *)
(***************************************************************************)
THEOREM TypeCorrect == Spec => []TypeOK
<1>1. IInv => TypeOK
  BY DEF IInv
<1> QED
  BY Invariance, <1>1, PTL

(***************************************************************************)
(* While cs2ac_reload is refused because a load is pending, a timer is     *)
(* armed that will end the wait.                                           *)
(***************************************************************************)
THEOREM ReloadIsNeverRefusedForGood == Spec => []PendingIsWatched
<1>1. IInv => PendingIsWatched
  BY DEF IInv
<1> QED
  BY Invariance, <1>1, PTL

(***************************************************************************)
(* A complete file that has been executed counts as loaded, whatever       *)
(* timers and map resets there were meanwhile.                             *)
(***************************************************************************)
THEOREM CompleteFileCounts == Spec => []FinishedLoadIsReported
<1>1. IInv => FinishedLoadIsReported
  BY DEF IInv
<1> QED
  BY Invariance, <1>1, PTL

(***************************************************************************)
(* Nobody is accused on evidence from before the last change of the        *)
(* settings, the map or the plugin, nor by a detector that is off.         *)
(***************************************************************************)
THEOREM NoStaleAccusation == Spec => []AnnouncedIsCurrent
<1>1. IInv => AnnouncedIsCurrent
  BY DEF IInv
<1> QED
  BY Invariance, <1>1, PTL

=============================================================================
