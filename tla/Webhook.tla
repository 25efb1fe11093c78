------------------------------ MODULE Webhook ------------------------------
(***************************************************************************)
(* WebhookService (webhook.cpp): the Discord reports.  It shares its queue *)
(* discipline with SiteReport, and before the first post of a report it    *)
(* may look up the player's avatar over the same one-request-at-a-time     *)
(* channel, through a cache that several reports of a player share.        *)
(*                                                                         *)
(* The service runs on the game thread: Report and Test are called from    *)
(* HandleDetection and a console command, OnGameFrame from the frame hook, *)
(* OnCompleted from Steam between two frames, Reload from the config       *)
(* marker; the operator may empty or change the URL at any moment.         *)
(*                                                                         *)
(* Abstractions: a report is its acceptance number with the player it is   *)
(* about; an avatar is named by the player it shows, NoAvatar being the    *)
(* empty URL; a payload is the avatar it was built with, the other fields  *)
(* never change after Report; the request handle is the report it serves,  *)
(* and of the URL of a lookup only the player in it is kept; the clock is  *)
(* "the time nextAttempt has or has not come".                             *)
(***************************************************************************)
EXTENDS Naturals, Sequences, FiniteSets

CONSTANTS
  Players,     \* the SteamID64s that can be known; 0 is NoPlayer
  NoPlayer,    \* no SteamID64: a bot, or the report of cs2ac_webhook_test
  NoAvatar,    \* the empty avatar URL
  NotBuilt,    \* the empty payload
  MaxReports,  \* bound: how many reports are accepted in a behaviour
  Capacity,    \* maximumQueueSize, 64 in the source
  CacheSize    \* maximumAvatarCacheSize

ASSUME WebhookAssumption ==
  /\ MaxReports \in Nat
  /\ Capacity \in Nat /\ Capacity >= 2
  /\ CacheSize \in Nat /\ CacheSize >= 1
  /\ NoPlayer \notin Players /\ NoAvatar \notin Players
  /\ NotBuilt \notin Players \union {NoAvatar}

VARIABLES
  url,         \* the live webhook settings: "none", "valid", "invalid"
  http,        \* whether Steam's HTTP interface was obtained
  queue,       \* the queued reports (ReportData), oldest first
  cache,       \* avatarCache: a function from some players to avatars
  request,     \* the report the outstanding request serves, 0 when there is none
  requestKind, \* "None", "Avatar" or "Discord"
  asked,       \* the player whose profile the outstanding lookup is for, or NoPlayer
  waiting,     \* nextAttempt lies in the future
  disabled,    \* the webhook was refused; nothing is sent until the next reload
  accepted,    \* history: how many reports were accepted
  delivered    \* history: the report Discord confirmed last, 0 if none

vars == <<url, http, queue, cache, request, requestKind, asked, waiting, disabled,
          accepted, delivered>>

Reports == 1..MaxReports
Avatars == Players \union {NoAvatar}

ReportData ==
  [id : Reports, steamId : Players \union {NoPlayer}, retries : 0..1,
   resolved : BOOLEAN, avatar : Avatars, payload : Avatars \union {NotBuilt}]

TypeOK ==
  /\ url \in {"none", "valid", "invalid"}
  /\ http \in BOOLEAN
  /\ queue \in Seq(ReportData)
  /\ Len(queue) <= Capacity
  /\ \E known \in SUBSET Players :
       Cardinality(known) <= CacheSize /\ cache \in [known -> Avatars]
  /\ request \in {0} \union Reports
  /\ requestKind \in {"None", "Avatar", "Discord"}
  /\ asked \in Players \union {NoPlayer}
  /\ waiting \in BOOLEAN
  /\ disabled \in BOOLEAN
  /\ accepted \in 0..MaxReports
  /\ delivered \in {0} \union Reports

Init ==
  /\ url = "none"
  /\ http = FALSE
  /\ queue = <<>>
  /\ cache = <<>>
  /\ request = 0
  /\ requestKind = "None"
  /\ asked = NoPlayer
  /\ waiting = FALSE
  /\ disabled = FALSE
  /\ accepted = 0
  /\ delivered = 0

IsConfigured == url # "none"

-----------------------------------------------------------------------------
\* Report and Test.

\* Plausible bug: the oldest report goes, whether it is on the wire or not.
EvictedOldest == Tail(queue)

Evicted ==
  IF request = 0 THEN Tail(queue) ELSE <<Head(queue)>> \o Tail(Tail(queue))

MakeRoom == IF Len(queue) >= Capacity THEN Evicted ELSE queue

\* Plausible bug: any remembered avatar will do.
AnyAvatar(p) ==
  IF DOMAIN cache # {} THEN cache[CHOOSE q \in DOMAIN cache : TRUE] ELSE NoAvatar

CachedAvatar(p) == IF p \in DOMAIN cache THEN cache[p] ELSE NoAvatar

\* A report about player p joins the queue; Test queues one about nobody.
Enqueue(p) ==
  /\ accepted < MaxReports
  /\ IsConfigured
  /\ ~disabled
  /\ accepted' = accepted + 1
  /\ queue' = Append(MakeRoom,
                [id |-> accepted', steamId |-> p, retries |-> 0,
                 resolved |-> p = NoPlayer \/ p \in DOMAIN cache,
                 avatar |-> CachedAvatar(p), payload |-> NotBuilt])
  /\ UNCHANGED <<url, http, cache, request, requestKind, asked, waiting, disabled, delivered>>

Report(p) == Enqueue(p)

Test == Enqueue(NoPlayer)

-----------------------------------------------------------------------------
\* What ends an attempt.  Each changes the queue q the attempt left behind.

\* Plausible bug: a retry that is never counted.
RetryForever(q) ==
  /\ queue' = q
  /\ waiting' = TRUE

\* One more attempt after two seconds, then the report is dropped.
RetryOrDrop(q) ==
  IF q[1].retries = 0
  THEN /\ queue' = [q EXCEPT ![1].retries = 1]
       /\ waiting' = TRUE
  ELSE /\ queue' = Tail(q)
       /\ waiting' = FALSE

\* A full cache is emptied before it remembers one more player.
Remember(p, a) ==
  LET kept == IF Cardinality(DOMAIN cache) >= CacheSize THEN {} ELSE DOMAIN cache
  IN cache' = [q \in kept \union {p} |-> IF q = p THEN a ELSE cache[q]]

\* FinishAvatarLookup: the answer, found or not, settles the head's avatar.
WithAvatar(a) == [queue EXCEPT ![1].resolved = TRUE, ![1].avatar = a]

Disable ==
  /\ disabled' = TRUE
  /\ queue' = <<>>

-----------------------------------------------------------------------------
\* OnGameFrame, SendNext and SendAvatarLookup.

ReadyToSend == request = 0 /\ queue # <<>> /\ ~waiting

NeedsLookup ==
  ~Head(queue).resolved /\ Head(queue).steamId \notin DOMAIN cache

HttpUnavailable ==
  /\ ReadyToSend
  /\ ~http
  /\ waiting' = TRUE
  /\ UNCHANGED <<url, http, queue, cache, request, requestKind, asked, disabled,
                 accepted, delivered>>

LookUpAvatar ==
  /\ ReadyToSend
  /\ http' = TRUE
  /\ NeedsLookup
  /\ request' = Head(queue).id
  /\ requestKind' = "Avatar"
  /\ asked' = Head(queue).steamId
  /\ UNCHANGED <<url, queue, cache, waiting, disabled, accepted, delivered>>

\* The queue as SendNext posts from it: the head's avatar is settled, by now or
\* from the cache or by a lookup that could not be sent, and its payload built.
Settled ==
  LET report == Head(queue)
  IN IF report.resolved THEN queue ELSE WithAvatar(CachedAvatar(report.steamId))

Built(q) == [q EXCEPT ![1].payload = IF @ = NotBuilt THEN q[1].avatar ELSE @]

CacheAfterSettling ==
  IF NeedsLookup THEN Remember(Head(queue).steamId, NoAvatar) ELSE UNCHANGED cache

SendFails ==
  /\ ReadyToSend
  /\ http' = TRUE
  /\ CacheAfterSettling
  /\ RetryOrDrop(Built(Settled))
  /\ UNCHANGED <<url, request, requestKind, asked, disabled, accepted, delivered>>

Send ==
  /\ ReadyToSend
  /\ http' = TRUE
  /\ CacheAfterSettling
  /\ queue' = Built(Settled)
  /\ request' = Head(queue).id
  /\ requestKind' = "Discord"
  /\ UNCHANGED <<url, asked, waiting, disabled, accepted, delivered>>

OnGameFrame == HttpUnavailable \/ LookUpAvatar \/ SendFails \/ Send

-----------------------------------------------------------------------------
\* OnCompleted, by the kind of the request and what the answer says.

\* The answer shows the avatar of the player who was asked about, or none; it goes to
\* the report that is the first by now, and is remembered of that report's player.
AvatarAnswered(a) ==
  /\ requestKind = "Avatar"
  /\ a \in {asked, NoAvatar}
  /\ queue' = WithAvatar(a)
  /\ Remember(Head(queue).steamId, a)
  /\ request' = 0
  /\ requestKind' = "None"
  /\ asked' = NoPlayer
  /\ UNCHANGED <<url, http, waiting, disabled, accepted, delivered>>

Answered ==
  /\ requestKind = "Discord"
  /\ request' = 0
  /\ requestKind' = "None"
  /\ UNCHANGED <<url, http, cache, asked, accepted>>

\* Plausible bug: the confirmed report stays at the head.
ConfirmedNotPopped ==
  /\ Answered
  /\ delivered' = request
  /\ waiting' = FALSE
  /\ UNCHANGED <<queue, disabled>>

Confirmed ==
  /\ Answered
  /\ queue' = Tail(queue)
  /\ delivered' = request
  /\ waiting' = FALSE
  /\ UNCHANGED disabled

\* 429: the time Discord asks for, without counting the attempt.
Throttled ==
  /\ Answered
  /\ waiting' = TRUE
  /\ UNCHANGED <<queue, disabled, delivered>>

\* 401, 403 or 404.
Refused ==
  /\ Answered
  /\ Disable
  /\ UNCHANGED <<waiting, delivered>>

Failed ==
  /\ Answered
  /\ RetryOrDrop(queue)
  /\ UNCHANGED <<disabled, delivered>>

OnCompleted ==
  \/ \E a \in Avatars : AvatarAnswered(a)
  \/ Confirmed \/ Throttled \/ Refused \/ Failed

-----------------------------------------------------------------------------
\* The operator and the clock.

Reload ==
  /\ request' = 0
  /\ requestKind' = "None"
  /\ asked' = NoPlayer
  /\ queue' = <<>>
  /\ cache' = <<>>
  /\ waiting' = FALSE
  /\ disabled' = (url = "invalid")
  /\ UNCHANGED <<url, http, accepted, delivered>>

\* Unload, followed by the service of the next activation.
Unload ==
  /\ request' = 0
  /\ requestKind' = "None"
  /\ asked' = NoPlayer
  /\ queue' = <<>>
  /\ cache' = <<>>
  /\ waiting' = FALSE
  /\ disabled' = FALSE
  /\ http' = FALSE
  /\ UNCHANGED <<url, accepted, delivered>>

SettingChanged ==
  /\ url' \in {"none", "valid", "invalid"} \ {url}
  /\ UNCHANGED <<http, queue, cache, request, requestKind, asked, waiting,
                 disabled, accepted, delivered>>

\* nextAttempt comes.
TimePasses ==
  /\ waiting
  /\ waiting' = FALSE
  /\ UNCHANGED <<url, http, queue, cache, request, requestKind, asked,
                 disabled, accepted, delivered>>

Next ==
  \/ \E p \in Players \union {NoPlayer} : Report(p)
  \/ Test
  \/ OnGameFrame
  \/ OnCompleted
  \/ Reload
  \/ Unload
  \/ SettingChanged
  \/ TimePasses

(***************************************************************************)
(* As for SiteReport: frames run, time passes, Steam ends every request    *)
(* (the code sets an absolute timeout); Steam's HTTP interface is not      *)
(* unavailable at every attempt and Discord not rate-limiting every one.   *)
(***************************************************************************)
Fairness ==
  /\ WF_vars(OnGameFrame)
  /\ SF_vars(LookUpAvatar \/ SendFails \/ Send)
  /\ WF_vars(TimePasses)
  /\ WF_vars(OnCompleted)
  /\ SF_vars(Confirmed \/ Refused \/ Failed)

Spec == Init /\ [][Next]_vars

FairSpec == Spec /\ Fairness

-----------------------------------------------------------------------------

(***************************************************************************)
(* Whatever kind of request is outstanding, it serves the head of the      *)
(* queue: an avatar answer resolves the report it was looked up for, and   *)
(* Discord's answer settles the report that was posted, even when the      *)
(* queue overflowed in between.                                            *)
(***************************************************************************)
RequestServesHead ==
  /\ request = 0 <=> requestKind = "None"
  /\ request # 0 => queue # <<>> /\ Head(queue).id = request
  /\ requestKind = "Avatar" => ~Head(queue).resolved /\ asked = Head(queue).steamId
  /\ requestKind = "Discord" => Head(queue).resolved /\ Head(queue).payload # NotBuilt

(***************************************************************************)
(* A report never shows another player's avatar and the cache remembers    *)
(* none for him, although an answer is written to whatever report is the   *)
(* first when it comes, the reports share one request and one cache that   *)
(* is emptied when full, and a payload is built once and posted again on a *)
(* retry.                                                                  *)
(***************************************************************************)
AvatarIsOfThePlayer ==
  /\ \A i \in 1..Len(queue) :
       /\ queue[i].avatar \in {queue[i].steamId, NoAvatar}
       /\ queue[i].payload # NotBuilt => queue[i].payload = queue[i].avatar
  /\ \A p \in DOMAIN cache : cache[p] \in {p, NoAvatar}

Waits(r) == \E i \in 1..Len(queue) : queue[i].id = r

(***************************************************************************)
(* No report waits for ever, neither behind a lookup that fails nor behind *)
(* a post that does.                                                       *)
(***************************************************************************)
EveryReportSettles == \A r \in Reports : Waits(r) ~> ~Waits(r)

(***************************************************************************)
(* The service implements ReportSink.                                      *)
(***************************************************************************)
Sink == INSTANCE ReportSink
  WITH line <- [i \in 1..Len(queue) |-> queue[i].id],
       onWire <- request

SinkSpec == Sink!SinkSpec

=============================================================================
