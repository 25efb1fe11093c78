------------------------- MODULE CvarMonitor_proofs -------------------------
(***************************************************************************)
(* Proofs about CvarMonitor, for any settings, any supply of cookies and   *)
(* any timeouts, as long as a client follows sv_cheats within the grace    *)
(* period (GraceAssumption).                                               *)
(*                                                                         *)
(* None of the three invariants is inductive.  That a player in game is    *)
(* monitored needs that the monitor was never started without a timer;     *)
(* that nothing outdated is judged, that no pending query bears the cookie *)
(* of an answer from before a map change; that nobody is framed, that a    *)
(* bad value of a protected setting that is on its way was given while     *)
(* sv_cheats, or the time since, still excuses it.                         *)
(***************************************************************************)
EXTENDS CvarMonitor, WellFoundedInduction, TLAPS

\* What was started has its timer.
StartedHasTimer == /\ inGame => started
                   /\ started => timer

\* An answer from before a map change has no query left to answer.
OldHasNoQuery == \A a \in answers, q \in queries : a.old => a.cookie # q.cookie

\* A bad value of a protected setting arrives only while it is excused.
BadIsExcused ==
  \A a \in answers : a.name \in Protected /\ a.value = "bad" => cheats \/ since < Grace

IInv ==
  /\ TypeOK
  /\ StartedHasTimer
  /\ OldHasNoQuery /\ NothingOutdated
  /\ BadIsExcused /\ NobodyIsFramed

-----------------------------------------------------------------------------

(***************************************************************************)
(* A set of natural numbers that is not empty has a least one.             *)
(***************************************************************************)
LEMMA HasMinimal ==
  ASSUME NEW R, IsWellFoundedOn(R, Nat), NEW T, T \subseteq Nat, T # {}
  PROVE  \E x \in T : \A y \in T : ~(<<y, x>> \in R)
BY WFMin

LEMMA LeastBy ==
  ASSUME NEW R, IsWellFoundedOn(R, Nat), \A x, y \in Nat : x < y => <<x, y>> \in R,
         NEW T, T \subseteq Nat, T # {}
  PROVE  \E x \in T : \A y \in T : x <= y
<1>1. PICK x \in T : \A y \in T : ~(<<y, x>> \in R)
  BY HasMinimal, Zenon
<1>2. ASSUME NEW y \in T PROVE x <= y
  <2>1. x \in Nat /\ y \in Nat
    OBVIOUS
  <2>2. ~(y < x)
    BY <1>1, <2>1
  <2> QED
    BY <2>1, <2>2
<1> QED
  BY <1>2

LEMMA LeastNumber ==
  ASSUME NEW T, T \subseteq Nat, T # {}
  PROVE  \E x \in T : \A y \in T : x <= y
<1>1. IsWellFoundedOn(OpToRel(<, Nat), Nat)
  BY NatLessThanWellFounded, Zenon
<1>2. \A x, y \in Nat : x < y => <<x, y>> \in OpToRel(<, Nat)
  BY Zenon DEF OpToRel
<1> QED
  BY <1>1, <1>2, LeastBy, Zenon

(***************************************************************************)
(* The cookie of a new query is borne by nothing that is pending or on its *)
(* way.                                                                    *)
(***************************************************************************)
LEMMA CookieIsFree ==
  ASSUME NEW kept, Free(kept) # {}
  PROVE  NextCookie(kept) \in Free(kept)
<1>1. Free(kept) \subseteq Nat
  BY MonitorAssumption DEF Free
<1>2. \E c \in Free(kept) : \A d \in Free(kept) : c <= d
  BY <1>1, LeastNumber, Zenon
<1> QED
  BY <1>2 DEF NextCookie

-----------------------------------------------------------------------------

(***************************************************************************)
(* The verdict keeps its type, and a report of sensitivity frames nobody.  *)
(***************************************************************************)
VerdictTypeOK ==
  /\ current \in BOOLEAN /\ sources \subseteq Sources /\ latched \subseteq Names
  /\ reported \subseteq Sources /\ framed \in BOOLEAN

LEMMA SourceMarked ==
  ASSUME TypeOK, NEW source \in Sources, NEW v, MarkCvarSource(source, v)
  PROVE  VerdictTypeOK' /\ framed' = framed
<1>1. Sensitivity \in Names
  BY MonitorAssumption
<1>2. CASE SourceInvalid(source)
  BY <1>1, <1>2 DEF SourceInvalid, Latch, TypeOK, VerdictTypeOK
<1>3. CASE SourceValid(source)
  BY <1>1, <1>3 DEF SourceValid, TypeOK, VerdictTypeOK
<1> QED
  BY <1>2, <1>3 DEF MarkCvarSource

(***************************************************************************)
(* A query leaves the names and the cookies of the pending ones distinct,  *)
(* and gives a new one a cookie that no answer bears.                      *)
(***************************************************************************)
LEMMA Queried ==
  ASSUME TypeOK, NEW name \in Names, QueryCvarValue(name)
  PROVE  /\ queries' \subseteq Queries /\ asked' \subseteq Questions
         /\ \A p, q \in queries' : p.name = q.name \/ p.cookie = q.cookie => p = q
         /\ answers' = answers
         /\ \A q \in queries' : q \in queries \/ \A a \in answers : a.cookie # q.cookie
<1>1. CASE \E found \in SUBSET Expired : queries' = queries \ found /\ UNCHANGED <<asked, answers>>
  BY <1>1 DEF TypeOK
<1>2. CASE /\ \A q \in queries \ Expired : q.name # name
           /\ Send(name, queries \ Expired)
  <2> DEFINE kept == queries \ Expired
             c == NextCookie(kept)
             new == [cookie |-> c, name |-> name, age |-> 0]
  <2>1. /\ kept \subseteq queries /\ Free(kept) # {}
        /\ queries' = kept \union {new}
        /\ asked' = asked \union {[cookie |-> c, name |-> name]}
        /\ answers' = answers
    BY <1>2 DEF Send
  <2>2. /\ c \in Cookies
        /\ \A q \in kept : q.cookie # c
        /\ \A a \in answers : a.cookie # c
    BY <2>1, CookieIsFree DEF Free
  <2>3. new \in Queries /\ new.cookie = c /\ new.name = name
    BY <2>2, MonitorAssumption DEF Queries
  <2>4. [cookie |-> c, name |-> name] \in Questions
    BY <2>2 DEF Questions
  <2>5. \A q \in kept : q.name # name
    BY <1>2
  <2> HIDE DEF c, new, kept
  <2>6. \A p, q \in queries' : p.name = q.name \/ p.cookie = q.cookie => p = q
    BY <2>1, <2>2, <2>3, <2>5 DEF TypeOK
  <2> QED
    BY <2>1, <2>2, <2>3, <2>4, <2>6 DEF TypeOK
<1> QED
  BY <1>1, <1>2 DEF QueryCvarValue

-----------------------------------------------------------------------------

LEMMA InitIInv == Init => IInv
<1> SUFFICES ASSUME Init PROVE IInv
  OBVIOUS
<1>1. Len(cvarNames) \in Nat /\ 1 \in 1..Len(cvarNames)
  <2>1. PICK i \in DOMAIN cvarNames : cvarNames[i] = Sensitivity
    BY MonitorAssumption DEF Names, ToSet
  <2>2. DOMAIN cvarNames = 1..Len(cvarNames) /\ Len(cvarNames) \in Nat
    BY MonitorAssumption
  <2> QED
    BY <2>1, <2>2
<1>2. TypeOK
  <2>1. 0 \in 0..Grace
    BY MonitorAssumption
  <2> QED
    BY <1>1, <2>1 DEF Init, TypeOK
<1> QED
  BY <1>2 DEF Init, IInv, StartedHasTimer, OldHasNoQuery, NothingOutdated, BadIsExcused,
              NobodyIsFramed

LEMMA AnswerIInv ==
  ASSUME IInv, NEW question \in asked, Answer(question)
  PROVE  IInv'
<1>1. PICK v \in Possible(question.name) \union {"unreadable"} :
        answers' = answers \union
          {[cookie |-> question.cookie, name |-> question.name, value |-> v, old |-> FALSE]}
  BY DEF Answer
<1> DEFINE new == [cookie |-> question.cookie, name |-> question.name, value |-> v,
                   old |-> FALSE]
<1>2. question.cookie \in Cookies /\ question.name \in Names
  BY DEF IInv, TypeOK, Questions
<1>3. v \in {"ok", "bad", "unreadable"}
  BY DEF Possible
<1>4. /\ asked' \subseteq asked
      /\ UNCHANGED <<inGame, monitor, queries, server, enabled, verdict, outdated>>
  BY DEF Answer
<1>5. new \in Answers /\ ~new.old /\ new.name = question.name /\ new.value = v
  BY <1>2, <1>3 DEF Answers
<1>6. new.name \in Protected /\ new.value = "bad" => cheats \/ since < Grace
  <2>1. question.name \in Protected /\ v = "bad" => cheats \/ since < Propagation
    BY DEF Possible, Protected
  <2> QED
    BY <1>5, <2>1, GraceAssumption, MonitorAssumption DEF IInv, TypeOK
<1> HIDE DEF new
<1>7. TypeOK'
  BY <1>1, <1>4, <1>5 DEF new, IInv, TypeOK, monitor, server, verdict
<1>8. OldHasNoQuery'
  BY <1>1, <1>4, <1>5 DEF new, IInv, OldHasNoQuery
<1>9. BadIsExcused'
  BY <1>1, <1>4, <1>5, <1>6 DEF new, IInv, BadIsExcused, server
<1> QED
  BY <1>4, <1>7, <1>8, <1>9
    DEF IInv, monitor, verdict, StartedHasTimer, NothingOutdated, NobodyIsFramed

(***************************************************************************)
(* MarkInvalidCvar is what frames: it is reached only for a protected      *)
(* setting that is invalid while it is enforced.                           *)
(***************************************************************************)
LEMMA ProcessIInv ==
  ASSUME IInv, NEW a \in answers, OnProcessRespondCvarValue(a)
  PROVE  IInv'
<1>1. /\ answers' \subseteq answers /\ queries' \subseteq queries
      /\ Matching(a) \subseteq queries
      /\ UNCHANGED <<inGame, monitor, asked, server, enabled>>
  BY DEF OnProcessRespondCvarValue, Matching
<1>2. VerdictTypeOK' /\ framed' = framed /\ outdated' = outdated
  <2>1. CASE UNCHANGED <<verdict, outdated>>
    BY <2>1 DEF verdict, VerdictTypeOK, IInv, TypeOK
  <2>2. CASE Matching(a) # {} /\ ~Ignored(a) /\ Validate(a)
    <3>1. PICK q \in queries : q.cookie = a.cookie
      BY <2>2 DEF Matching
    <3>2. outdated' = outdated
      <4>1. ~a.old /\ a.old \in BOOLEAN
        BY <3>1 DEF IInv, OldHasNoQuery, TypeOK, Answers
      <4> QED
        BY <2>2, <4>1 DEF Validate, IInv, NothingOutdated, TypeOK
    <3>3. CASE a.name = Sensitivity /\ MarkCvarSource("query", a.value)
      BY <3>2, <3>3, SourceMarked DEF IInv, Sources
    <3>4. CASE a.name \in Protected /\ a.value = "bad"
      BY <2>2, <3>4 DEF Ignored, ShouldEnforceCheatCvars, IInv, BadIsExcused, TypeOK
    <3>5. CASE a.name \in Protected /\ a.value = "ok" /\ MarkValidCvar(a.name)
      BY <3>2, <3>5 DEF MarkValidCvar, VerdictTypeOK, IInv, TypeOK
    <3> QED
      BY <2>2, <3>3, <3>4, <3>5 DEF Validate
  <2> QED
    BY <2>1, <2>2 DEF OnProcessRespondCvarValue, Validate
<1>3. TypeOK'
  BY <1>1, <1>2 DEF monitor, server, VerdictTypeOK, IInv, TypeOK
<1>4. OldHasNoQuery' /\ BadIsExcused'
  BY <1>1 DEF server, IInv, OldHasNoQuery, BadIsExcused
<1> QED
  BY <1>1, <1>2, <1>3, <1>4
    DEF monitor, IInv, StartedHasTimer, NothingOutdated, NobodyIsFramed

LEMMA CheckIInv ==
  ASSUME IInv, CheckClientCvars
  PROVE  IInv'
<1>1. /\ UNCHANGED <<inGame, started, timer, server, enabled, outdated>>
      /\ cvarNames \in Seq(Names) /\ index \in 1..Len(cvarNames)
  BY MonitorAssumption DEF CheckClientCvars, IInv, TypeOK
<1>2. CASE Rest
  BY <1>1, <1>2 DEF Rest, IInv, TypeOK, channel, server, verdict, StartedHasTimer,
       OldHasNoQuery, NothingOutdated, BadIsExcused, NobodyIsFramed
<1>3. CASE Ask
  <2>1. cvarNames[index] \in Names /\ index' \in 1..Len(cvarNames)
    BY <1>1, <1>3 DEF Ask
  <2>2. /\ queries' \subseteq Queries /\ asked' \subseteq Questions
        /\ \A p, q \in queries' : p.name = q.name \/ p.cookie = q.cookie => p = q
        /\ answers' = answers
        /\ \A q \in queries' : q \in queries \/ \A a \in answers : a.cookie # q.cookie
    BY <1>3, <2>1, Queried DEF Ask, IInv
  <2>3. VerdictTypeOK' /\ framed' = framed
    <3>1. CASE UNCHANGED verdict
      BY <3>1 DEF verdict, VerdictTypeOK, IInv, TypeOK
    <3>2. CASE \E v \in {"ok", "bad"} : MarkCvarSource("info", v)
      BY <3>2, SourceMarked DEF IInv, Sources
    <3> QED
      BY <1>3, <3>1, <3>2 DEF Ask, CheckUserInfoCvars
  <2>4. TypeOK'
    BY <1>1, <2>1, <2>2, <2>3 DEF server, VerdictTypeOK, IInv, TypeOK
  <2>5. OldHasNoQuery' /\ BadIsExcused'
    BY <1>1, <2>2 DEF server, IInv, OldHasNoQuery, BadIsExcused
  <2> QED
    BY <1>1, <2>3, <2>4, <2>5 DEF IInv, StartedHasTimer, NothingOutdated, NobodyIsFramed
<1> QED
  BY <1>2, <1>3 DEF CheckClientCvars

LEMMA MapResetIInv ==
  ASSUME IInv, MapReset
  PROVE  IInv'
<1>1. /\ inGame' = FALSE /\ started' = FALSE /\ timer' = FALSE
      /\ queries' = {} /\ answers' = {[a EXCEPT !.old = TRUE] : a \in answers}
      /\ UNCHANGED <<asked, server, enabled, framed, outdated>>
      /\ index' = 1 /\ sources' = {} /\ latched' = {} /\ reported' = {} /\ current' = TRUE
  BY DEF MapReset, ResetService, ClearLatches
<1>2. \A a \in answers : /\ [a EXCEPT !.old = TRUE] \in Answers
                         /\ [a EXCEPT !.old = TRUE].name = a.name
                         /\ [a EXCEPT !.old = TRUE].value = a.value
  BY DEF IInv, TypeOK, Answers
<1>3. TypeOK'
  <2>1. 1 \in 1..Len(cvarNames)
    BY MonitorAssumption DEF IInv, TypeOK
  <2> QED
    BY <1>1, <1>2, <2>1 DEF server, IInv, TypeOK
<1>4. BadIsExcused'
  BY <1>1, <1>2 DEF server, IInv, BadIsExcused
<1> QED
  BY <1>1, <1>3, <1>4 DEF IInv, StartedHasTimer, OldHasNoQuery, NothingOutdated, NobodyIsFramed

LEMMA ConnectionIInv ==
  ASSUME IInv, FullyConnect \/ Disconnect
  PROVE  IInv'
<1>1. CASE FullyConnect
  BY <1>1 DEF FullyConnect, IInv, TypeOK, channel, server, verdict, StartedHasTimer,
       OldHasNoQuery, NothingOutdated, BadIsExcused, NobodyIsFramed
<1>2. CASE Disconnect
  <2>1. 1 \in 1..Len(cvarNames)
    BY MonitorAssumption DEF IInv, TypeOK
  <2> QED
    BY <1>2, <2>1 DEF Disconnect, ResetService, ClearLatches, IInv, TypeOK, server,
         StartedHasTimer, OldHasNoQuery, NothingOutdated, BadIsExcused, NobodyIsFramed
<1> QED
  BY <1>1, <1>2

LEMMA AroundIInv ==
  ASSUME IInv, ChangeCheats \/ ChangeSettings \/ Move
  PROVE  IInv'
<1> USE DEF IInv, StartedHasTimer, OldHasNoQuery, NothingOutdated, NobodyIsFramed
<1>1. CASE ChangeCheats
  <2>1. /\ UNCHANGED <<inGame, monitor, channel, enabled, current, framed, outdated>>
        /\ sources' = {} /\ latched' = {} /\ reported' = {}
    BY <1>1 DEF ChangeCheats, ClearLatches
  <2>2. \/ cheats' = ~cheats /\ since' = 0 /\ testing' = testing
        \/ testing' = ~testing /\ cheats' = cheats /\ since' = since
    BY <1>1 DEF ChangeCheats
  <2>3. TypeOK'
    <3>1. cheats' \in BOOLEAN /\ testing' \in BOOLEAN
      BY <2>2, Zenon DEF TypeOK
    <3>2. since' \in 0..Grace
      <4>1. since' = 0 \/ since' = since
        BY <2>2
      <4> QED
        BY <4>1, MonitorAssumption DEF TypeOK
    <3> QED
      BY <2>1, <3>1, <3>2 DEF monitor, channel, TypeOK
  <2>4. BadIsExcused'
    BY <2>1, <2>2, MonitorAssumption DEF channel, BadIsExcused
  <2> QED
    BY <2>1, <2>3, <2>4 DEF monitor, channel
<1>2. CASE ChangeSettings
  BY <1>2 DEF ChangeSettings, TypeOK, monitor, channel, server, BadIsExcused
<1>3. CASE Move
  BY <1>3 DEF Move, ClearLatches, TypeOK, monitor, channel, server, BadIsExcused
<1> QED
  BY <1>1, <1>2, <1>3

LEMMA TimePassesIInv ==
  ASSUME IInv, TimePasses
  PROVE  IInv'
<1> DEFINE Aged(q) == [q EXCEPT !.age = IF @ = QueryTimeout THEN @ ELSE @ + 1]
<1>1. /\ answers = {} /\ queries' = {Aged(q) : q \in queries}
      /\ since' = IF cheats \/ since = Grace THEN since ELSE since + 1
      /\ UNCHANGED <<inGame, monitor, asked, answers, cheats, testing, enabled, verdict,
                     outdated>>
  BY DEF TimePasses
<1>2. \A q \in queries : /\ Aged(q) \in Queries
                         /\ Aged(q).name = q.name /\ Aged(q).cookie = q.cookie
  BY MonitorAssumption DEF IInv, TypeOK, Queries
<1> HIDE DEF Aged
<1>3. \A p, q \in queries' : p.name = q.name \/ p.cookie = q.cookie => p = q
  BY <1>1, <1>2 DEF IInv, TypeOK
<1>4. since' \in 0..Grace
  BY <1>1, MonitorAssumption DEF IInv, TypeOK
<1>5. TypeOK'
  BY <1>1, <1>2, <1>3, <1>4 DEF monitor, verdict, IInv, TypeOK
<1> QED
  BY <1>1, <1>5 DEF monitor, verdict, IInv, StartedHasTimer, OldHasNoQuery,
       NothingOutdated, BadIsExcused, NobodyIsFramed

LEMMA IgnoreIInv ==
  ASSUME IInv, NEW question \in asked, Ignore(question)
  PROVE  IInv'
BY DEF Ignore, IInv, TypeOK, monitor, server, verdict, StartedHasTimer, OldHasNoQuery,
       NothingOutdated, BadIsExcused, NobodyIsFramed

LEMMA NextIInv == IInv /\ [Next]_vars => IInv'
<1> SUFFICES ASSUME IInv, [Next]_vars PROVE IInv'
  OBVIOUS
<1>1. CASE UNCHANGED vars
  BY <1>1 DEF vars, monitor, channel, server, verdict, IInv, TypeOK, StartedHasTimer,
       OldHasNoQuery, NothingOutdated, BadIsExcused, NobodyIsFramed
<1> QED
  BY <1>1, AnswerIInv, IgnoreIInv, ProcessIInv, CheckIInv, ConnectionIInv, MapResetIInv,
     AroundIInv, TimePassesIInv DEF Next

THEOREM Invariance == Spec => []IInv
BY InitIInv, NextIInv, PTL DEF Spec

-----------------------------------------------------------------------------

(***************************************************************************)
(* Type correctness, and that no two pending queries share a name or a     *)
(* cookie.                                                                 *)
(***************************************************************************)
THEOREM TypeCorrect == Spec => []TypeOK
<1>1. IInv => TypeOK
  BY DEF IInv
<1> QED
  BY <1>1, Invariance, PTL

(***************************************************************************)
(* Whoever is in game is monitored, whatever map changes and reconnects    *)
(* there were (InitCvarMonitor, Reset).                                    *)
(***************************************************************************)
THEOREM EverybodyIsMonitored == Spec => []MonitorRuns
<1>1. IInv => MonitorRuns
  BY DEF IInv, StartedHasTimer, MonitorRuns
<1> QED
  BY <1>1, Invariance, PTL

(***************************************************************************)
(* An honest client is never accused of a setting that sv_cheats protects. *)
(***************************************************************************)
THEOREM HonestClientsAreSafe == Spec => []NobodyIsFramed
<1>1. IInv => NobodyIsFramed
  BY DEF IInv
<1> QED
  BY <1>1, Invariance, PTL

(***************************************************************************)
(* No answer given before a map change is judged after it.                 *)
(***************************************************************************)
THEOREM OldAnswersAreDropped == Spec => []NothingOutdated
<1>1. IInv => NothingOutdated
  BY DEF IInv
<1> QED
  BY <1>1, Invariance, PTL

=============================================================================
