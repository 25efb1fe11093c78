----------------------------- MODULE ReportSink -----------------------------
(***************************************************************************)
(* What a report service promises the detectors, whichever wire it uses.   *)
(*                                                                         *)
(* Reports are numbered in the order they were accepted.  They wait in a   *)
(* bounded line, the head of the line is the only one that may be on the   *)
(* wire, and a report leaves the line for good: delivered, given up,       *)
(* dropped because the line was full, or cleared by the operator.          *)
(* SiteReport and Webhook are both shown to implement this module.         *)
(***************************************************************************)
EXTENDS Naturals, Sequences

CONSTANTS
  MaxReports,  \* bound: how many reports are accepted in a behaviour
  Capacity     \* maximumQueueSize

\* What the constants have to satisfy; the modules that implement this one assume it
\* of theirs.
SinkAssumption == MaxReports \in Nat /\ Capacity \in Nat /\ Capacity >= 2

VARIABLES
  line,        \* the reports waiting, oldest first
  onWire,      \* the report an outstanding request serves, 0 when there is none
  accepted,    \* how many reports were accepted so far; also the newest's number
  delivered    \* the report the other side confirmed last, 0 when there is none

sinkVars == <<line, onWire, accepted, delivered>>

Report == 1..MaxReports

SinkTypeOK ==
  /\ line \in Seq(Report)
  /\ Len(line) <= Capacity
  /\ onWire \in {0} \union Report
  /\ accepted \in 0..MaxReports
  /\ delivered \in {0} \union Report

SinkInit ==
  /\ line = <<>>
  /\ onWire = 0
  /\ accepted = 0
  /\ delivered = 0

\* The oldest report that is not on the wire makes room for a new one.
WithoutOldest ==
  IF onWire = 0 THEN Tail(line) ELSE <<Head(line)>> \o Tail(Tail(line))

Room == IF Len(line) < Capacity THEN line ELSE WithoutOldest

Accept ==
  /\ accepted < MaxReports
  /\ accepted' = accepted + 1
  /\ line' = Append(Room, accepted')
  /\ UNCHANGED <<onWire, delivered>>

Begin ==
  /\ onWire = 0
  /\ line # <<>>
  /\ onWire' = Head(line)
  /\ UNCHANGED <<line, accepted, delivered>>

\* The attempt ended without an answer that settles the report.
Return ==
  /\ onWire # 0
  /\ onWire' = 0
  /\ UNCHANGED <<line, accepted, delivered>>

Deliver ==
  /\ onWire # 0
  /\ delivered' = onWire
  /\ line' = Tail(line)
  /\ onWire' = 0
  /\ UNCHANGED accepted

\* The head is given up, on the wire or not.
GiveUp ==
  /\ line # <<>>
  /\ line' = Tail(line)
  /\ onWire' = 0
  /\ UNCHANGED <<accepted, delivered>>

Clear ==
  /\ line' = <<>>
  /\ onWire' = 0
  /\ UNCHANGED <<accepted, delivered>>

SinkNext == Accept \/ Begin \/ Return \/ Deliver \/ GiveUp \/ Clear

SinkSpec == SinkInit /\ [][SinkNext]_sinkVars

-----------------------------------------------------------------------------

(***************************************************************************)
(* The request on the wire always carries the head of the line, so an      *)
(* answer can only be applied to the report it is about.                   *)
(***************************************************************************)
WireServesHead == onWire # 0 => line # <<>> /\ Head(line) = onWire

(***************************************************************************)
(* Reports keep the order in which they were accepted, and what was        *)
(* delivered precedes everything still waiting.                            *)
(***************************************************************************)
InOrder ==
  /\ \A i, j \in 1..Len(line) : i < j => line[i] < line[j]
  /\ \A i \in 1..Len(line) : delivered < line[i] /\ line[i] <= accepted
  /\ delivered <= accepted

(***************************************************************************)
(* A confirmed report is never confirmed again, and none that was accepted *)
(* before it is confirmed after it.                                        *)
(***************************************************************************)
DeliveredOnceInOrder == [][delivered' # delivered => delivered' > delivered]_sinkVars

=============================================================================
