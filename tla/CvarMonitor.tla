---------------------------- MODULE CvarMonitor ----------------------------
(***************************************************************************)
(* INVALID CVAR: the queries for client settings (client_cvar_value.cpp),  *)
(* the timer that asks them round-robin and the judgement of the answers   *)
(* (cvars.cpp), and the latches that keep an invalid setting from being    *)
(* announced twice (movement_detection.cpp), for one player slot.          *)
(*                                                                         *)
(* The game answers a query when it pleases, late, or not at all; a map    *)
(* change clears the queries while answers are on their way; sv_cheats and *)
(* the settings of CS2AC change at any moment.                             *)
(*                                                                         *)
(* Abstractions: one setting that has two sources, the answers and the     *)
(* userinfo of the client (sensitivity), and settings sv_cheats protects.  *)
(* A value is acceptable or not.  A cookie is any that neither a pending   *)
(* query nor a message on its way bears: the counter behind them has 31    *)
(* bits.  Time passes in units of ten seconds, the timeout of a query, and *)
(* an answer arrives within its unit or not at all.  The ten names never   *)
(* fill the room for eleven queries, so none is refused; a malformed       *)
(* answer is none.  The player may set sensitivity, and what its userinfo  *)
(* says, to anything at any time, and is honest in what sv_cheats protects. *)
(***************************************************************************)
EXTENDS Naturals, FiniteSets, Sequences, SequencesExt

CONSTANTS
  cvarNames,     \* the names in the order they are asked for
  Sensitivity,   \* the one that has two sources; sv_cheats protects the others
  Cookies,       \* bound: cookies to tell queries and messages apart
  QueryTimeout,  \* QUERYTIMEOUT, in time units
  Grace,         \* SV_CHEATS_MAX_PROPAGATION_DELAY, in time units
  Propagation    \* the time the client really takes to follow sv_cheats

Names == ToSet(cvarNames)

ASSUME MonitorAssumption ==
  /\ cvarNames \in Seq(Names)
  /\ Sensitivity \in Names
  /\ Cookies \subseteq Nat /\ IsFiniteSet(Cookies)
  /\ QueryTimeout \in Nat \ {0}
  /\ Grace \in Nat \ {0} /\ Propagation \in Nat

\* What the grace period is for: an honest client follows sv_cheats within it.
ASSUME GraceAssumption == Propagation <= Grace

VARIABLES
  inGame,      \* a human is fully connected and in game
  started,     \* cvarMonitorStarted
  timer,       \* CheckClientCvars is armed for the connection
  index,       \* cvarQueryIndex
  queries,     \* m_QueryCallback: the pending queries
  asked,       \* the questions the client has still to answer, or never will
  answers,     \* the answers on their way
  cheats,      \* sv_cheats on the server
  testing,     \* cs2ac_allow_sv_cheats_testing
  since,       \* time since it was switched off, Grace if that is over:
               \* cheatCvarCheckerGraceUntil
  enabled,     \* INVALID CVAR and the plugin are switched on
  current,     \* settingsRevision is the latest one
  sources,     \* which of invalidQueriedCvars, invalidUserInfoCvars name sensitivity
  latched,     \* invalidCvarLatches
  framed,      \* history: accused of a protected setting
  outdated,    \* history: an answer given before a map change was judged after it
  reported     \* history: the sources whose last report, since the latches were
               \* cleared, was of an invalid sensitivity

monitor == <<started, timer, index>>
channel == <<queries, asked, answers>>
server == <<cheats, testing, since>>
verdict == <<current, sources, latched, framed, reported>>
vars == <<inGame, monitor, channel, server, enabled, verdict, outdated>>

Sources == {"query", "info"}
Protected == Names \ {Sensitivity}

Questions == [cookie : Cookies, name : Names]
Queries == [cookie : Cookies, name : Names, age : 0..QueryTimeout]
Answers == [cookie : Cookies, name : Names, value : {"ok", "bad", "unreadable"},
            old : BOOLEAN]

TypeOK ==
  /\ inGame \in BOOLEAN /\ enabled \in BOOLEAN
  /\ started \in BOOLEAN /\ timer \in BOOLEAN
  /\ index \in 1..Len(cvarNames)
  /\ queries \subseteq Queries /\ asked \subseteq Questions /\ answers \subseteq Answers
  /\ \A p, q \in queries : p.name = q.name \/ p.cookie = q.cookie => p = q
  /\ cheats \in BOOLEAN /\ testing \in BOOLEAN /\ since \in 0..Grace
  /\ current \in BOOLEAN
  /\ sources \subseteq Sources /\ latched \subseteq Names
  /\ framed \in BOOLEAN /\ outdated \in BOOLEAN /\ reported \subseteq Sources

Init ==
  /\ inGame = FALSE /\ enabled = TRUE
  /\ started = FALSE /\ timer = FALSE /\ index = 1
  /\ queries = {} /\ asked = {} /\ answers = {}
  /\ cheats = FALSE /\ testing = FALSE /\ since = 0
  /\ current = TRUE
  /\ sources = {} /\ latched = {} /\ reported = {}
  /\ framed = FALSE /\ outdated = FALSE

-----------------------------------------------------------------------------
\* The latches.

\* ResetTransientDetectionState.
ClearLatches ==
  /\ sources' = {}
  /\ latched' = {}
  /\ reported' = {}

\* Plausible bug: only the transient state is reset.
ResetTransient ==
  /\ index' = 1
  /\ ClearLatches
  /\ current' = TRUE
  /\ UNCHANGED started

\* MovementDetectionService::Reset.
ResetService ==
  /\ started' = FALSE
  /\ index' = 1
  /\ ClearLatches
  /\ current' = TRUE

\* MarkInvalidCvar begins with RefreshSettings, which may clear everything.
Latch(name) == latched' = (IF current THEN latched ELSE {}) \union {name}

MarkInvalidCvar(name) ==
  /\ Latch(name)
  /\ current' = TRUE
  /\ sources' = IF current THEN sources ELSE {}
  /\ reported' = IF current THEN reported ELSE {}
  /\ framed' = (framed \/ ~current \/ name \notin latched)

MarkValidCvar(name) ==
  /\ latched' = latched \ {name}
  /\ UNCHANGED <<current, sources, framed, reported>>

\* MarkCvarSource: the source is noted before MarkInvalidCvar, and lost again if
\* that finds the settings changed.
SourceInvalid(source) ==
  /\ sources' = IF current THEN sources \union {source} ELSE {}
  /\ reported' = (IF current THEN reported ELSE {}) \union {source}
  /\ Latch(Sensitivity)
  /\ current' = TRUE
  /\ UNCHANGED framed

SourceValid(source) ==
  /\ sources' = sources \ {source}
  /\ reported' = reported \ {source}
  /\ latched' = IF sources \ {source} = {} THEN latched \ {Sensitivity} ELSE latched
  /\ UNCHANGED <<current, framed>>

MarkCvarSource(source, v) ==
  \/ v = "bad" /\ SourceInvalid(source)
  \/ v = "ok" /\ SourceValid(source)

-----------------------------------------------------------------------------
\* What a player is held to.

\* ShouldRunDetections, ShouldCheckClientCvars.
ShouldCheckClientCvars == enabled /\ (~cheats \/ testing)

\* Plausible bug: the client is expected to follow sv_cheats at once.
EnforceAtOnce == ~cheats

ShouldEnforceCheatCvars == ~cheats /\ since = Grace

\* An honest client has a protected setting invalid only while sv_cheats allows it.
Possible(name) ==
  IF name = Sensitivity \/ cheats \/ since < Propagation THEN {"ok", "bad"} ELSE {"ok"}

-----------------------------------------------------------------------------
\* The queries.

\* Plausible bug: a query that is never answered is never forgotten.
NeverExpired == {}

Expired == {q \in queries : q.age = QueryTimeout}

\* NextQueryCookie, when the queries in kept are still pending.
Free(kept) == Cookies \ {m.cookie : m \in kept \union asked \union answers}
NextCookie(kept) == CHOOSE c \in Free(kept) : \A d \in Free(kept) : c <= d

\* SendCvarValueQueryToClient.
Send(name, kept) ==
  /\ Free(kept) # {}
  /\ queries' = kept \union {[cookie |-> NextCookie(kept), name |-> name, age |-> 0]}
  /\ asked' = asked \union {[cookie |-> NextCookie(kept), name |-> name]}
  /\ UNCHANGED answers

\* QueryCvarValue.  Asking again for what is pending sends nothing, and ends the
\* search for expired queries wherever it is.
QueryCvarValue(name) ==
  \/ /\ \E q \in queries \ Expired : q.name = name
     /\ \E found \in SUBSET Expired : queries' = queries \ found
     /\ UNCHANGED <<asked, answers>>
  \/ /\ \A q \in queries \ Expired : q.name # name
     /\ Send(name, queries \ Expired)

\* The client reads its setting and answers.
Answer(question) ==
  /\ asked' = asked \ {question}
  /\ \E v \in Possible(question.name) \union {"unreadable"} :
       answers' = answers \union
         {[cookie |-> question.cookie, name |-> question.name, value |-> v, old |-> FALSE]}
  /\ UNCHANGED <<inGame, monitor, queries, server, enabled, verdict, outdated>>

\* The client never answers, or what arrives is malformed.
Ignore(question) ==
  /\ asked' = asked \ {question}
  /\ UNCHANGED <<inGame, monitor, queries, answers, server, enabled, verdict, outdated>>

\* Plausible bug: an answer is matched by the name it is about.
SameName(a) == {q \in queries : q.name = a.name}

Matching(a) == {q \in queries : q.cookie = a.cookie /\ q.name = a.name}

\* ValidateQueriedCvar.
Ignored(a) ==
  \/ a.value = "unreadable"
  \/ ~inGame
  \/ ~ShouldCheckClientCvars
  \/ a.name \in Protected /\ ~ShouldEnforceCheatCvars

Validate(a) ==
  \/ Ignored(a) /\ UNCHANGED <<verdict, outdated>>
  \/ /\ ~Ignored(a)
     /\ outdated' = (outdated \/ a.old)
     /\ \/ a.name = Sensitivity /\ MarkCvarSource("query", a.value)
        \/ a.name \in Protected /\ a.value = "bad" /\ MarkInvalidCvar(a.name)
        \/ a.name \in Protected /\ a.value = "ok" /\ MarkValidCvar(a.name)

\* OnProcessRespondCvarValue.
OnProcessRespondCvarValue(a) ==
  /\ answers' = answers \ {a}
  /\ queries' = queries \ Matching(a)
  /\ IF Matching(a) # {} THEN Validate(a) ELSE UNCHANGED <<verdict, outdated>>
  /\ UNCHANGED <<inGame, monitor, asked, server, enabled>>

-----------------------------------------------------------------------------
\* The monitor.

\* CheckUserInfoCvars: there is none yet, or it says something.
CheckUserInfoCvars ==
  \/ UNCHANGED verdict
  \/ \E v \in {"ok", "bad"} : MarkCvarSource("info", v)

\* CheckClientCvars: userinfo at the start of each round, then one query.
Rest ==
  /\ ~ShouldCheckClientCvars
  /\ index' = 1
  /\ UNCHANGED <<channel, verdict>>

Ask ==
  /\ ShouldCheckClientCvars
  /\ IF index = 1 THEN CheckUserInfoCvars ELSE UNCHANGED verdict
  /\ QueryCvarValue(cvarNames[index])
  /\ index' = IF index = Len(cvarNames) THEN 1 ELSE index + 1

CheckClientCvars ==
  /\ timer
  /\ Rest \/ Ask
  /\ UNCHANGED <<inGame, started, timer, server, enabled, outdated>>

\* OnClientFullyConnect, InitCvarMonitor.
FullyConnect ==
  /\ ~inGame
  /\ inGame' = TRUE
  /\ started' = TRUE
  /\ timer' = (timer \/ ~started)
  /\ UNCHANGED <<index, channel, server, enabled, verdict, outdated>>

\* OnClientDisconnect: the connection takes its messages with it; the timer ends
\* at its next turn, finding nobody with its user ID.
Disconnect ==
  /\ inGame
  /\ inGame' = FALSE
  /\ queries' = {} /\ asked' = {} /\ answers' = {}
  /\ timer' = FALSE
  /\ ResetService
  /\ UNCHANGED <<server, enabled, framed, outdated>>

\* OnMapReset and RemoveAllTimers: the client stays and connects fully once more.
MapReset ==
  /\ inGame' = FALSE
  /\ queries' = {}
  /\ answers' = {[a EXCEPT !.old = TRUE] : a \in answers}
  /\ timer' = FALSE
  /\ ResetService
  /\ UNCHANGED <<asked, server, enabled, framed, outdated>>

-----------------------------------------------------------------------------
\* What changes around it.

\* OnCvarChanged.
ChangeCheats ==
  /\ \/ cheats' = ~cheats /\ since' = 0 /\ UNCHANGED testing
     \/ testing' = ~testing /\ UNCHANGED <<cheats, since>>
  /\ ClearLatches
  /\ UNCHANGED <<inGame, monitor, channel, enabled, current, framed, outdated>>

\* A setting of CS2AC changes, perhaps the mode of this detection.
ChangeSettings ==
  /\ current' = FALSE
  /\ enabled' \in BOOLEAN
  /\ UNCHANGED <<inGame, monitor, channel, server, sources, latched, framed, reported,
                 outdated>>

\* OnSetupMove, OnPhysicsSimulatePost: RefreshSettings.
Move ==
  /\ inGame /\ ~current
  /\ current' = TRUE
  /\ ClearLatches
  /\ UNCHANGED <<inGame, monitor, channel, server, enabled, framed, outdated>>

TimePasses ==
  /\ answers = {}
  /\ queries' = {[q EXCEPT !.age = IF @ = QueryTimeout THEN @ ELSE @ + 1] : q \in queries}
  /\ since' = IF cheats \/ since = Grace THEN since ELSE since + 1
  /\ UNCHANGED <<inGame, monitor, asked, answers, cheats, testing, enabled, verdict, outdated>>

Next ==
  \/ \E question \in asked : Answer(question) \/ Ignore(question)
  \/ \E a \in answers : OnProcessRespondCvarValue(a)
  \/ CheckClientCvars
  \/ FullyConnect
  \/ Disconnect
  \/ MapReset
  \/ ChangeCheats
  \/ ChangeSettings
  \/ Move
  \/ TimePasses

Spec == Init /\ [][Next]_vars

\* Frames run and time passes; the client gets to each question, to answer it or not.
FairSpec ==
  /\ Spec
  /\ WF_vars(CheckClientCvars)
  /\ WF_vars(TimePasses)
  /\ WF_vars(\E question \in asked : Answer(question) \/ Ignore(question))
  /\ WF_vars(\E a \in answers : OnProcessRespondCvarValue(a))

-----------------------------------------------------------------------------

(***************************************************************************)
(* Whoever is in game is monitored: a map change, which takes the timer    *)
(* away, and a change of player also forget that it was started.           *)
(***************************************************************************)
MonitorRuns == inGame => timer

(***************************************************************************)
(* Nobody is accused of a protected setting he could not help having: the  *)
(* grace period covers the time the client takes to follow sv_cheats and   *)
(* every answer given in that time.                                        *)
(***************************************************************************)
NobodyIsFramed == ~framed

(***************************************************************************)
(* No answer given before a map change is judged after it: it finds no     *)
(* query with its cookie, even when the same setting has been asked for    *)
(* again.                                                                  *)
(***************************************************************************)
NothingOutdated == ~outdated

(***************************************************************************)
(* A player who does not answer is asked again: no query blocks those that *)
(* would follow it for the same setting for ever.                          *)
(***************************************************************************)
AskedAgain ==
  \A name \in Names :
    <>[](timer /\ ShouldCheckClientCvars) => []<>(\E q \in queries : q.name = name /\ q.age = 0)

(***************************************************************************)
(* "%s returned %s to a valid value; its latch is armed for a future       *)
(* change" (movement_detection.cpp:182): the latch of sensitivity stays    *)
(* armed while one of its sources was last reported invalid.               *)
(***************************************************************************)
ReleasedWhenValid == reported # {} => Sensitivity \in latched

=============================================================================
