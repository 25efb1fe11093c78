----------------------------- MODULE SiteReport -----------------------------
(***************************************************************************)
(* SiteReportService (site_report.cpp): the mode-1 reports queued for the  *)
(* website and posted one at a time through Steam's asynchronous HTTP API. *)
(*                                                                         *)
(* The service runs on the game thread.  HandleDetection calls Report, the *)
(* game-frame hook calls OnGameFrame, Steam calls OnCompleted between two  *)
(* frames, the config marker calls Reload, and the operator may change the *)
(* two settings the service reads at any moment.                           *)
(*                                                                         *)
(* Abstractions: a report is its acceptance number; a payload is the       *)
(* report it was built from; the request handle is the report whose        *)
(* payload the request carries; the clock is "the time nextAttempt has or  *)
(* has not come"; log lines and their warn-once flags are left out.        *)
(***************************************************************************)
EXTENDS Naturals, Sequences

CONSTANTS
  MaxReports,  \* bound: how many reports are accepted in a behaviour
  Capacity     \* maximumQueueSize, 64 in the source

ASSUME SiteAssumption == MaxReports \in Nat /\ Capacity \in Nat /\ Capacity >= 2

VARIABLES
  url,         \* the live cs2ac_report_url and secret: "none", "valid", "invalid"
  http,        \* whether Steam's HTTP interface was obtained
  queue,       \* the queued reports, oldest first
  retries,     \* ReportData::retries of each report
  request,     \* the report the outstanding request carries, 0 when there is none
  waiting,     \* nextAttempt lies in the future
  disabled,    \* the endpoint was refused; nothing is sent until the next reload
  accepted,    \* history: how many reports Report accepted
  delivered    \* history: the report the website confirmed last, 0 if none

vars == <<url, http, queue, retries, request, waiting, disabled, accepted, delivered>>

Reports == 1..MaxReports

TypeOK ==
  /\ url \in {"none", "valid", "invalid"}
  /\ http \in BOOLEAN
  /\ queue \in Seq(Reports)
  /\ Len(queue) <= Capacity
  /\ retries \in [Reports -> 0..1]
  /\ request \in {0} \union Reports
  /\ waiting \in BOOLEAN
  /\ disabled \in BOOLEAN
  /\ accepted \in 0..MaxReports
  /\ delivered \in {0} \union Reports

Init ==
  /\ url = "none"
  /\ http = FALSE
  /\ queue = <<>>
  /\ retries = [r \in Reports |-> 0]
  /\ request = 0
  /\ waiting = FALSE
  /\ disabled = FALSE
  /\ accepted = 0
  /\ delivered = 0

IsConfigured == url # "none"

-----------------------------------------------------------------------------
\* Report: a full queue loses its oldest report that is not on the wire.

\* Plausible bug: the head makes room whatever is on the wire.
EvictHead == Tail(queue)

Evicted ==
  IF request = 0 THEN Tail(queue) ELSE <<Head(queue)>> \o Tail(Tail(queue))

MakeRoom == IF Len(queue) >= Capacity THEN Evicted ELSE queue

Report ==
  /\ accepted < MaxReports
  /\ IsConfigured
  /\ ~disabled
  /\ accepted' = accepted + 1
  /\ queue' = Append(MakeRoom, accepted')
  /\ UNCHANGED <<url, http, retries, request, waiting, disabled, delivered>>

-----------------------------------------------------------------------------
\* What ends an attempt.

\* The plausible bugs of the retry bookkeeping: a lost increment, a report that
\* rejoins the queue at its tail.
UncountedRetry ==
  /\ waiting' = TRUE
  /\ UNCHANGED <<queue, retries>>

RequeuedRetry ==
  IF retries[Head(queue)] = 0
  THEN /\ retries' = [retries EXCEPT ![Head(queue)] = @ + 1]
       /\ queue' = Append(Tail(queue), Head(queue))
       /\ waiting' = TRUE
  ELSE /\ queue' = Tail(queue)
       /\ waiting' = FALSE
       /\ UNCHANGED retries

\* One more attempt after two seconds, then the report is dropped.
RetryOrDrop ==
  IF retries[Head(queue)] = 0
  THEN /\ retries' = [retries EXCEPT ![Head(queue)] = @ + 1]
       /\ waiting' = TRUE
       /\ UNCHANGED queue
  ELSE /\ queue' = Tail(queue)
       /\ waiting' = FALSE
       /\ UNCHANGED retries

Disable ==
  /\ disabled' = TRUE
  /\ queue' = <<>>

-----------------------------------------------------------------------------
\* OnGameFrame and SendNext.

ReadyToSend == request = 0 /\ queue # <<>> /\ ~waiting

HttpUnavailable ==
  /\ ReadyToSend
  /\ ~http
  /\ waiting' = TRUE
  /\ UNCHANGED <<url, http, queue, retries, request, disabled,
                 accepted, delivered>>

\* Creating, filling or sending the request fails.
SendFails ==
  /\ ReadyToSend
  /\ http' = TRUE
  /\ RetryOrDrop
  /\ UNCHANGED <<url, request, disabled, accepted, delivered>>

Send ==
  /\ ReadyToSend
  /\ http' = TRUE
  /\ request' = Head(queue)
  /\ UNCHANGED <<url, queue, retries, waiting, disabled, accepted, delivered>>

OnGameFrame == HttpUnavailable \/ SendFails \/ Send

-----------------------------------------------------------------------------
\* OnCompleted, by what the answer says.

\* 2xx, or 409: the website already has the report.
Confirmed ==
  /\ request # 0
  /\ queue' = Tail(queue)
  /\ delivered' = request
  /\ waiting' = FALSE
  /\ request' = 0
  /\ UNCHANGED <<url, http, retries, disabled, accepted>>

\* 401, 403 or 404.
Refused ==
  /\ request # 0
  /\ Disable
  /\ request' = 0
  /\ UNCHANGED <<url, http, retries, waiting, accepted, delivered>>

\* 429: try again in five seconds, without counting the attempt.
Throttled ==
  /\ request # 0
  /\ waiting' = TRUE
  /\ request' = 0
  /\ UNCHANGED <<url, http, queue, retries, disabled, accepted, delivered>>

\* Any other status, a timeout or a lost connection.
Failed ==
  /\ request # 0
  /\ RetryOrDrop
  /\ request' = 0
  /\ UNCHANGED <<url, http, disabled, accepted, delivered>>

OnCompleted == Confirmed \/ Refused \/ Throttled \/ Failed

-----------------------------------------------------------------------------
\* The operator and the clock.

\* CancelRequest and the resets of Reload; an invalid URL disables the service.
Reload ==
  /\ request' = 0
  /\ queue' = <<>>
  /\ waiting' = FALSE
  /\ disabled' = (url = "invalid")
  /\ UNCHANGED <<url, http, retries, accepted, delivered>>

\* Unload, followed by the service of the next activation.
Unload ==
  /\ request' = 0
  /\ queue' = <<>>
  /\ waiting' = FALSE
  /\ disabled' = FALSE
  /\ http' = FALSE
  /\ UNCHANGED <<url, retries, accepted, delivered>>

SettingChanged ==
  /\ url' \in {"none", "valid", "invalid"} \ {url}
  /\ UNCHANGED <<http, queue, retries, request, waiting, disabled,
                 accepted, delivered>>

\* nextAttempt comes.
TimePasses ==
  /\ waiting
  /\ waiting' = FALSE
  /\ UNCHANGED <<url, http, queue, retries, request, disabled,
                 accepted, delivered>>

Next ==
  \/ Report
  \/ OnGameFrame
  \/ OnCompleted
  \/ Reload
  \/ Unload
  \/ SettingChanged
  \/ TimePasses

(***************************************************************************)
(* The engine runs a frame for ever, time passes, and every request ends:  *)
(* SendNext gives it an absolute timeout.  Two things the code cannot      *)
(* enforce are assumed of the outside: Steam's HTTP interface does not     *)
(* stay unavailable at every attempt, and the website does not answer 429  *)
(* to every attempt.                                                       *)
(***************************************************************************)
Fairness ==
  /\ WF_vars(OnGameFrame)
  /\ SF_vars(SendFails \/ Send)
  /\ WF_vars(TimePasses)
  /\ WF_vars(OnCompleted)
  /\ SF_vars(Confirmed \/ Refused \/ Failed)

Spec == Init /\ [][Next]_vars

FairSpec == Spec /\ Fairness

-----------------------------------------------------------------------------

(***************************************************************************)
(* A refused endpoint is left alone: after Disable there is nothing queued *)
(* and nothing on the wire until the operator reloads.                     *)
(***************************************************************************)
DisabledIsSilent == disabled => queue = <<>> /\ request = 0

(***************************************************************************)
(* While a request is outstanding it carries the head of the queue, even   *)
(* when Report overflows the queue meanwhile, so OnCompleted never drops   *)
(* or counts a retry against another report.                               *)
(***************************************************************************)
RequestServesHead == request # 0 => queue # <<>> /\ Head(queue) = request

(***************************************************************************)
(* No report waits for ever behind a failing one: whatever is queued is    *)
(* delivered, given up, dropped by overflow or cleared.                    *)
(***************************************************************************)
EveryReportSettles ==
  \A r \in Reports :
    (\E i \in 1..Len(queue) : queue[i] = r) ~> ~(\E i \in 1..Len(queue) : queue[i] = r)

(***************************************************************************)
(* The service implements ReportSink.                                      *)
(***************************************************************************)
Sink == INSTANCE ReportSink WITH line <- queue, onWire <- request

SinkSpec == Sink!SinkSpec

=============================================================================
