-------------------------------- MODULE Bhop --------------------------------
(***************************************************************************)
(* BHOP and HYPERSCROLL (bhop.cpp): the landings of one player, which of   *)
(* them he jumped off without walking, and how often he pressed jump       *)
(* around each.  They are judged once a tick, and only if something has    *)
(* changed since (bhopDirty).                                              *)
(*                                                                         *)
(* Each operator is what one callback does to this state; the callbacks    *)
(* themselves are actions of MovementDetection.                            *)
(*                                                                         *)
(* Abstractions: a tick is one command and its movements last a tick each; *)
(* the times of presses and landings are the ticks since, counted as long  *)
(* as they matter.                                                         *)
(***************************************************************************)
EXTENDS PlayerMovement, SequencesExt

CONSTANTS
  MinAirTime,    \* MIN_AIR_TIME_FOR_BHOP
  PatternWindow, \* JUMP_PATTERN_WINDOW, in ticks
  MinSamples,    \* MIN_SAMPLE_COUNT
  WindowSize,    \* WINDOW_SIZE
  PerfectChain,  \* NUM_CONSECUTIVE_PERFS_FOR_INFRACTION
  PatternScore,  \* PERF_SCORE_FOR_PATTERN_CHECK
  LowPattern,    \* LOW_PATTERN_THRESHOLD
  HighPattern,   \* HIGH_PATTERN_THRESHOLD
  MaxPresses     \* bound: the presses around one landing

ASSUME BhopAssumption ==
  /\ {MinAirTime, PatternWindow, MinSamples, WindowSize, PerfectChain, PatternScore,
      LowPattern, HighPattern, MaxPresses} \subseteq Nat \ {0}
  /\ MinSamples <= WindowSize

VARIABLES
  airTime,       \* currentAirTime
  airMoved,      \* airMovedThisFrame
  recentJumps,   \* the ages of the presses, oldest first
  landings,      \* recentLandingEvents
  pending,       \* pendingPerf of the latest, the only one that is read
  bhopDirty,
  sinceMoveType, \* ticks since lastValidMoveTypeTime
  strayed        \* history: he moved otherwise since the latest landing that counts

bhopVars ==
  <<airTime, airMoved, recentJumps, landings, pending, bhopDirty, sinceMoveType, strayed>>

\* Ages count one beyond the window, so that the last press within it counts.
LandingEvent ==
  [age : 0..(PatternWindow + 1),
   perfect : BOOLEAN,       \* hasPerfectBhop
   eligible : BOOLEAN,      \* shouldCountTowardsPerfChains
   presses : 0..MaxPresses] \* numJumpBefore + numJumpAfter

BhopTypeOK ==
  /\ airTime \in 0..MinAirTime
  /\ airMoved \in BOOLEAN /\ strayed \in BOOLEAN
  /\ recentJumps \in Seq(0..(PatternWindow + 1)) /\ Len(recentJumps) <= MaxPresses
  /\ landings \in Seq(LandingEvent) /\ pending \in BOOLEAN
  /\ bhopDirty \in BOOLEAN
  /\ sinceMoveType \in 0..Grace

BhopInit ==
  /\ airTime = 0 /\ airMoved = FALSE
  /\ recentJumps = <<>> /\ landings = <<>> /\ pending = FALSE /\ bhopDirty = FALSE
  /\ sinceMoveType = Grace
  /\ strayed = FALSE

\* The part of ClearDetectionBuffers.
BhopClear ==
  /\ airTime' = 0 /\ airMoved' = FALSE
  /\ recentJumps' = <<>> /\ landings' = <<>> /\ pending' = FALSE /\ bhopDirty' = FALSE
  /\ sinceMoveType' = Grace
  /\ strayed' = FALSE

CountTo(limit, n) == IF n < limit THEN n + 1 ELSE limit

-----------------------------------------------------------------------------
\* OnPhysicsSimulate: a tick has passed, and the move type may have changed.

BhopTick(changed) ==
  /\ recentJumps' = [i \in 1..Len(recentJumps) |-> CountTo(PatternWindow + 1, recentJumps[i])]
  /\ landings' =
       [i \in 1..Len(landings) |-> [landings[i] EXCEPT !.age = CountTo(PatternWindow + 1, @)]]
  /\ sinceMoveType' = IF changed THEN 0 ELSE CountTo(Grace, sinceMoveType)
  /\ UNCHANGED <<airTime, airMoved, pending, bhopDirty, strayed>>

BhopChangeMoveType(strays) ==
  /\ sinceMoveType' = 0
  /\ strayed' = (strayed \/ (strays /\ landings # <<>>))
  /\ UNCHANGED <<airTime, airMoved, recentJumps, landings, pending, bhopDirty>>

-----------------------------------------------------------------------------
\* ParseCommandForJump, of a command that brings one press at most; afresh: the
\* buffers have just been cleared.

\* The oldest presses go.
Purged(jumps) ==
  LET stale == {i \in 1..Len(jumps) : jumps[i] > PatternWindow}
  IN SubSeq(jumps, Cardinality(stale) + 1, Len(jumps))

\* recordJump, for the landings before.
Pressed(ls) ==
  [i \in 1..Len(ls) |->
     [ls[i] EXCEPT !.presses = IF ls[i].age <= PatternWindow THEN @ + 1 ELSE @]]

BhopPress ==
  /\ \A i \in 1..Len(landings) : Pressed(landings)[i].presses <= MaxPresses
  /\ Len(recentJumps) < MaxPresses
  /\ recentJumps' = Purged(Append(recentJumps, 0))
  /\ landings' = Pressed(landings)
  /\ bhopDirty' = TRUE
  /\ UNCHANGED <<airTime, airMoved, pending, sinceMoveType, strayed>>

BhopNoPress ==
  /\ recentJumps' = Purged(recentJumps)
  /\ UNCHANGED <<airTime, airMoved, landings, pending, bhopDirty, sinceMoveType, strayed>>

\* A press at a time outside of the command.
BhopInvalidPress ==
  /\ recentJumps' = <<>> /\ landings' = <<>> /\ pending' = FALSE /\ bhopDirty' = FALSE
  /\ airTime' = 0 /\ airMoved' = FALSE
  /\ strayed' = FALSE
  /\ UNCHANGED sinceMoveType

\* The first press after the buffers were cleared.
BhopFirstPress ==
  /\ recentJumps' = <<0>> /\ landings' = <<>> /\ pending' = FALSE /\ bhopDirty' = TRUE
  /\ airTime' = 0 /\ airMoved' = FALSE /\ sinceMoveType' = Grace
  /\ strayed' = FALSE

BhopCommand(afresh) ==
  \/ afresh /\ (BhopFirstPress \/ BhopClear)
  \/ ~afresh /\ (BhopPress \/ BhopNoPress \/ BhopInvalidPress)

-----------------------------------------------------------------------------
\* CreateLandEvent.

LandingAccepted(available, autobunnyhopping) ==
  /\ available
  /\ airTime >= MinAirTime
  /\ sinceMoveType >= Grace
  /\ ~JustTeleported
  /\ ~autobunnyhopping

Landing(penalty) ==
  [age |-> 0, perfect |-> FALSE, eligible |-> penalty,
   presses |-> Len(recentJumps)]

\* He touches the ground, under the settings the server has at that moment.
Land(available) ==
  /\ \E autobunnyhopping, penalty \in BOOLEAN :
       IF LandingAccepted(available, autobunnyhopping)
       THEN /\ landings' = Append(landings, Landing(penalty))
            /\ pending' = TRUE /\ bhopDirty' = TRUE /\ strayed' = FALSE
       ELSE UNCHANGED <<landings, pending, bhopDirty, strayed>>

BhopStartTouchGround(available) ==
  /\ Land(available)
  /\ UNCHANGED <<airTime, airMoved, recentJumps, sinceMoveType>>

\* OnProcessMovement, at which he may have touched the ground.
BhopProcessMovement(lands, available) ==
  /\ airMoved' = FALSE
  /\ IF lands THEN Land(available) ELSE UNCHANGED <<landings, pending, bhopDirty, strayed>>
  /\ UNCHANGED <<airTime, recentJumps, sinceMoveType>>

-----------------------------------------------------------------------------
\* OnJump, OnAirMove and OnProcessMovementPost.

BhopJump(available) ==
  /\ IF available /\ FramePerfect /\ pending
     THEN /\ landings' = [landings EXCEPT ![Len(landings)].perfect = TRUE]
          /\ bhopDirty' = TRUE
     ELSE UNCHANGED <<landings, bhopDirty>>
  /\ UNCHANGED <<airTime, airMoved, recentJumps, pending, sinceMoveType, strayed>>

BhopAirMove ==
  /\ airMoved' = TRUE
  /\ airTime' = CountTo(MinAirTime, airTime)
  /\ UNCHANGED <<recentJumps, landings, pending, bhopDirty, sinceMoveType, strayed>>

\* History only: he walks, climbs or flies.
BhopOtherMove ==
  /\ strayed' = (landings # <<>>)
  /\ UNCHANGED <<airTime, airMoved, recentJumps, landings, pending, bhopDirty, sinceMoveType>>

\* Plausible bug: a landing stays open to a jump after he walked.
BhopMovementPostOpen ==
  /\ airTime' = IF airMoved THEN airTime ELSE 0
  /\ UNCHANGED <<airMoved, recentJumps, landings, pending, bhopDirty, sinceMoveType, strayed>>

BhopMovementPost ==
  /\ airTime' = IF airMoved THEN airTime ELSE 0
  /\ IF ~airMoved /\ pending
     THEN pending' = FALSE /\ bhopDirty' = TRUE ELSE UNCHANGED <<pending, bhopDirty>>
  /\ UNCHANGED <<airMoved, recentJumps, landings, sinceMoveType, strayed>>

-----------------------------------------------------------------------------
\* CheckLandingEvents.

\* What the chains know of the landings; those that are not eligible break none.
Marks(ls) ==
  [i \in 1..Len(ls) |-> [perfect |-> ls[i].perfect, eligible |-> ls[i].eligible]]

Presses(ls) == [i \in 1..Len(ls) |-> ls[i].presses]

\* The longest chain of perfect landings, and the score that a perfect landing
\* raises and another lowers, at its highest.
Scores(marks) ==
  LET Step(acc, landing) ==
        LET chain == IF landing.perfect THEN acc.chain + 1 ELSE 0
            score == IF landing.perfect THEN acc.score + 1
                     ELSE IF acc.score > 0 THEN acc.score - 1 ELSE 0
        IN IF ~landing.eligible THEN acc
           ELSE [chain |-> chain,
                 longest |-> IF chain > acc.longest THEN chain ELSE acc.longest,
                 score |-> score, best |-> IF score > acc.best THEN score ELSE acc.best]
  IN FoldLeft(Step, [chain |-> 0, longest |-> 0, score |-> 0, best |-> 0], marks)

\* The landings whose presses are all known, by their places.
Complete(ls) == {i \in 1..Len(ls) : ls[i].age >= PatternWindow /\ ls[i].presses > 0}

\* Nine in ten complete patterns are one and the same, of few presses.
Repetitive(complete, presses) ==
  /\ Cardinality(complete) >= PatternScore
  /\ \E pattern \in 1..(LowPattern - 1) :
       10 * Cardinality({i \in complete : presses[i] = pattern}) >= 9 * Cardinality(complete)

Hyperscrolled(complete, presses, marks) ==
  LET total == FoldFunctionOnSet(+, 0, presses, complete)
      eligible == {i \in DOMAIN marks : marks[i].eligible}
      perfect == {i \in eligible : marks[i].perfect}
  IN /\ Cardinality(complete) >= MinSamples /\ Cardinality(eligible) >= MinSamples
     /\ total >= HighPattern * Cardinality(complete)
     /\ 10 * Cardinality(perfect) > 6 * Cardinality(eligible)

\* What the landings show, if they are enough, of what is looked for.
Infraction(ls, enabled) ==
  LET scores == Scores(Marks(ls))
  IN /\ Len(ls) >= MinSamples
     /\ \/ "BHOP" \in enabled /\ scores.longest >= PerfectChain
        \/ /\ "BHOP" \in enabled /\ scores.best >= PatternScore
           /\ Repetitive(Complete(ls), Presses(ls))
        \/ /\ "HYPERSCROLL" \in enabled
           /\ Hyperscrolled(Complete(ls), Presses(ls), Marks(ls))

Trimmed == IF Len(landings) > WindowSize
           THEN SubSeq(landings, Len(landings) - WindowSize + 1, Len(landings)) ELSE landings

\* Plausible bug: judged landings are left alone although presses may follow.
JudgedForGood(ls) == FALSE

\* A landing whose presses are not all known has to be judged again.
JudgeAgain(ls) == Len(ls) >= MinSamples /\ \E i \in 1..Len(ls) : ls[i].age < PatternWindow

CheckLandingEvents(enabled) ==
  /\ IF ~bhopDirty THEN UNCHANGED <<landings, pending, bhopDirty>>
     ELSE IF Infraction(Trimmed, enabled) THEN landings' = <<>> /\ pending' = FALSE /\ bhopDirty' = FALSE
     ELSE landings' = Trimmed /\ bhopDirty' = JudgeAgain(Trimmed) /\ UNCHANGED pending
  /\ UNCHANGED <<airTime, airMoved, recentJumps, sinceMoveType, strayed>>

=============================================================================
