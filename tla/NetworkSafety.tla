---------------------------- MODULE NetworkSafety ----------------------------
(***************************************************************************)
(* NetworkSafetyMonitor (network_safety.cpp) for one player slot: what the *)
(* server knows of the quality of a connection, for the detections that a  *)
(* bad one could explain.                                                  *)
(*                                                                         *)
(* The commands of the client show gaps, the frames sample its latency and *)
(* loss ten times a second, and Evaluate vetoes a detection if the last    *)
(* five seconds show anything.  Each of the three forgets what is older    *)
(* before it does anything else.                                           *)
(*                                                                         *)
(* Abstractions: time is counted in units that divide the two intervals;   *)
(* what matters of the gaps is the newest; a sample is unacceptable by     *)
(* itself (a limit crossed, or not available), or has a low or a high ping *)
(* that only their variation makes suspicious; a command is told apart by  *)
(* how its number and client tick continue those of the newest one.  The   *)
(* commands of one call are handled one after another.                     *)
(***************************************************************************)
EXTENDS Naturals, Sequences, FiniteSets

CONSTANTS
  Window,      \* networkWindow, in time units
  Interval,    \* networkSampleInterval, in time units
  SampleLimit, \* the samples kept, 64 in the source
  JitterShare  \* maximumJitterMilliseconds: one ping in so many may differ from the last

ASSUME NetworkAssumption ==
  /\ Window \in Nat \ {0} /\ Interval \in Nat \ {0}
  /\ SampleLimit \in Nat /\ JitterShare \in Nat \ {0}
  /\ SampleLimit * Interval > Window

VARIABLES
  known,       \* lastCommandNumber and lastClientTick are those of a command
  nextSample,  \* the time left until the next sample is due
  samples,     \* the samples, oldest first
  gap,         \* the age of the newest of commandGaps
  broken,      \* history: time since the connection last showed a gap or a bad sample
  uneasy       \* history: time since its ping last changed

networkVars == <<known, nextSample, samples, gap, broken, uneasy>>

Kinds == {"low", "high", "bad"}
Commands == {"older", "same", "next", "skip", "jump", "back"}

\* Ages are counted until they are out of the window.
Stale == Window + 1
NoGap == Window + 2
Older(age) == IF age < Stale THEN age + 1 ELSE age

NetworkSafetySample == [age : 0..Stale, kind : Kinds]

NetworkTypeOK ==
  /\ known \in BOOLEAN
  /\ nextSample \in 0..Interval
  /\ samples \in Seq(NetworkSafetySample)
  /\ Len(samples) <= SampleLimit
  /\ gap \in 0..NoGap
  /\ broken \in 0..Stale /\ uneasy \in 0..Stale

\* NetworkSafetyPlayerData as it is first; also Reset and OnClientDisconnect.
NetworkInit ==
  /\ known = FALSE
  /\ nextSample = 0
  /\ samples = <<>>
  /\ gap = NoGap
  /\ broken = Stale /\ uneasy = Stale

NetworkReset ==
  /\ known' = FALSE
  /\ nextSample' = 0
  /\ samples' = <<>>
  /\ gap' = NoGap
  /\ broken' = Stale /\ uneasy' = Stale

NetworkTimePasses ==
  /\ nextSample' = IF nextSample > 0 THEN nextSample - 1 ELSE 0
  /\ samples' = [i \in 1..Len(samples) |-> [samples[i] EXCEPT !.age = Older(@)]]
  /\ gap' = IF gap = NoGap THEN gap ELSE Older(gap)
  /\ broken' = Older(broken) /\ uneasy' = Older(uneasy)
  /\ UNCHANGED known

-----------------------------------------------------------------------------
\* Prune.

\* How many samples go: the first ones, as long as they are too old.
Outdated(ss) ==
  CHOOSE n \in 0..Len(ss) : /\ \A i \in 1..n : ss[i].age > Window
                            /\ n < Len(ss) => ss[n + 1].age <= Window

Recent(ss) == SubSeq(ss, Outdated(ss) + 1, Len(ss))

\* Plausible bug: only the samples are pruned.
GapsKept == gap

RecentGap == IF gap = Stale THEN NoGap ELSE gap

-----------------------------------------------------------------------------
\* OnProcessUsercmds, for one command.

\* The first command is always new.
Discontinuity(command) ==
  \/ command = "older"
  \/ known /\ command \in {"skip", "jump", "back"}

NetworkOnProcessUsercmds(command) ==
  /\ command \in {"older", "same"} => known
  /\ known' = TRUE
  /\ samples' = Recent(samples)
  /\ gap' = IF Discontinuity(command) THEN 0 ELSE RecentGap
  /\ broken' = IF Discontinuity(command) THEN 0 ELSE broken
  /\ UNCHANGED <<nextSample, uneasy>>

-----------------------------------------------------------------------------
\* OnGameFrame: the sample that is due, or none.

\* The samples that have a ping.
Pings(ss) == {i \in 1..Len(ss) : ss[i].kind # "bad"}

\* Those whose ping differs from the one before.
Changes(ss) ==
  {i \in Pings(ss) : \E j \in Pings(ss) :
                       /\ j < i /\ \A k \in Pings(ss) : k <= j \/ i <= k
                       /\ ss[j].kind # ss[i].kind}

Limited(ss) == IF Len(ss) > SampleLimit THEN Tail(ss) ELSE ss

Sample(kind) ==
  LET taken == Append(samples, [age |-> 0, kind |-> kind])
  IN /\ nextSample = 0
     /\ nextSample' = Interval
     /\ samples' = Recent(Limited(taken))
     /\ gap' = RecentGap
     /\ broken' = IF kind = "bad" THEN 0 ELSE broken
     /\ uneasy' = IF Len(taken) \in Changes(taken) THEN 0 ELSE uneasy
     /\ UNCHANGED known

NetworkOnGameFrame ==
  \/ \E kind \in Kinds : Sample(kind)
  \/ nextSample > 0 /\ UNCHANGED networkVars

-----------------------------------------------------------------------------
\* Evaluate.

\* The average variation between successive pings.
Jittery(ss) ==
  /\ Cardinality(Pings(ss)) >= 2
  /\ JitterShare * Cardinality(Changes(ss)) >= Cardinality(Pings(ss)) - 1

\* ShouldVeto.
ShouldVeto(ss, newestGap) ==
  \/ newestGap # NoGap
  \/ \E i \in 1..Len(ss) : ss[i].kind = "bad"
  \/ Cardinality(Pings(ss)) < 2
  \/ Jittery(ss)

Vetoed == ShouldVeto(Recent(samples), RecentGap)

\* What Evaluate does besides.
Evaluate ==
  /\ samples' = Recent(samples)
  /\ gap' = RecentGap
  /\ UNCHANGED <<known, nextSample, broken, uneasy>>

=============================================================================
