------------------------------- MODULE Reports ------------------------------
(***************************************************************************)
(* What the dashboards say of the ticket of SlaBreach and its SLA: the     *)
(* administrators' overview and summaries (admin.service.ts), the          *)
(* reporting dashboard (reporting.service.ts), the list of breaches and    *)
(* the live status (sla.service.ts), the breach rate that routing and      *)
(* anomaly detection go by (ml.service.ts). Each counts tickets by         *)
(* conditions of its own; of one ticket it counts it or not.               *)
(*                                                                         *)
(* A report is read from one state. Two of them do not look at all rows:   *)
(* the escalation summary takes the latest 50 events of all tickets, the   *)
(* breach rate the tracking rows of the last 30 days. What the periodic    *)
(* metrics tables say is left out: only the seed writes them.              *)
(***************************************************************************)
EXTENDS SlaBreach

CONSTANTS
  ListLimit,  (* events the escalation summary takes: 50 in the code *)
  RateWindow  (* age of the oldest row in the breach rate: 30 days   *)

ASSUME ReportsAssumption ==
  /\ ListLimit \in Nat \ {0}
  /\ RateWindow \in Nat

(* A definition named <Name>_<Change> is <Name> with a plausible mistake   *)
(* in it, to be put in its place to see that the properties notice.        *)

(***************************************************************************)
(* The administrators' overview, SLA summary and escalation summary.       *)
(***************************************************************************)
OverviewTiles ==
  [open      |-> ticket.status \in {"OPEN", "ASSIGNED", "IN_PROGRESS", "REOPENED"},
   resolved  |-> ticket.status = "RESOLVED",
   closed    |-> ticket.status = "CLOSED",
   escalated |-> ticket.isEscalated]

CompliantInOverview == \A t \in BreachTypes : sla.met[t] # FALSE

BreachedInSummary == {t \in BreachTypes : sla.breached[t]}

CompliantInSummary == BreachedInSummary = {}

(* Events are listed latest first. Those of other tickets that came        *)
(* between leave room for n of this ticket's, which are its latest.        *)
ListedEscalations(n) == {i \in DOMAIN escalations : i > Len(escalations) - n}

(* A listed event of a ticket neither resolved nor closed is pending.      *)
PendingEscalations(n) ==
  {i \in ListedEscalations(n) : ticket.status \notin {"RESOLVED", "CLOSED"}}

(***************************************************************************)
(* The reporting dashboard.                                                *)
(***************************************************************************)
OpenInReporting ==
  ticket.status \in {"OPEN", "ASSIGNED", "IN_PROGRESS", "ESCALATED", "REOPENED"} \ ClosedStatuses

ActiveIncident == ticket.isEscalated /\ OpenInReporting

CompliantInReporting_EitherMet ==
  \/ \E t \in BreachTypes : sla.met[t] = TRUE
  \/ \A t \in BreachTypes : ~sla.breached[t]

CompliantInReporting ==
  \/ \A t \in BreachTypes : sla.met[t] = TRUE
  \/ \A t \in BreachTypes : ~sla.breached[t]

(***************************************************************************)
(* The SLA's own pages, and the rate of breaches.                          *)
(***************************************************************************)
BreachList == breachLogs

(* A tracking row that was judged late counts as overdue now, for good.    *)
OverdueNow(t) == sla.met[t] # TRUE /\ ~sla.breached[t] /\ sla.due[t] < now

InRateWindow == tracking.createdAt >= now - RateWindow

CountsInBreachRate ==
  tracking.attached /\ InRateWindow /\ \E t \in BreachTypes : sla.breached[t]

(***************************************************************************)
(* Properties.                                                             *)
(***************************************************************************)

(* Every ticket is in a tile of the overview: one that was escalated has   *)
(* left the open ones, whatever happened since, but is in another.         *)
NoTicketVanishes == \E tile \in DOMAIN OverviewTiles : OverviewTiles[tile]

(* The two dashboards tell of the same escalations, as far as the list of  *)
(* the one goes: whatever it shows as pending is an active incident in the *)
(* other, automatic and requested ones alike, and an active incident is    *)
(* pending there unless events of other tickets have filled the list. (A   *)
(* ticket that waits for its citizen would be pending and not active, but  *)
(* no operation of the service moves a ticket to PENDING_CITIZEN.)         *)
EscalationReportsAgree ==
  \A n \in 0..ListLimit :
    /\ PendingEscalations(n) # {} => ActiveIncident
    /\ ActiveIncident => n = 0 \/ PendingEscalations(n) # {}

(* An active incident is pending, wherever other tickets' events stand: it *)
(* fails, 50 later escalations make a pending one disappear.               *)
ActiveIsPending ==
  \A n \in 0..ListLimit : ActiveIncident => PendingEscalations(n) # {}

(* The SLA summary and the list of breaches agree: as many rows are listed *)
(* as flags are counted, of the same types. The breach rate counts no      *)
(* ticket they do not have, and leaves none out before its tracking row,   *)
(* not its breach, has grown older than the window.                        *)
BreachReportsAgree ==
  /\ Len(BreachList) = Cardinality(BreachedInSummary)
  /\ {BreachList[i] : i \in DOMAIN BreachList} = BreachedInSummary
  /\ CountsInBreachRate => BreachList # <<>>
  /\ BreachList # <<>> => CountsInBreachRate \/ now - tracking.createdAt > RateWindow

(* The breach rate knows of every breach that the list has: it fails for a *)
(* ticket that was breached late enough.                                   *)
RateKnowsBreaches == BreachList # <<>> => CountsInBreachRate

(* The reporting dashboard and the SLA summary count the same tickets as   *)
(* compliant, though one of them lets met verdicts make up for a breach.   *)
ComplianceFiguresAgree == CompliantInReporting <=> CompliantInSummary

(* All of them: whichever page one asks, a ticket is told of alike, but    *)
(* for the two limits above.                                               *)
ReportsAgree ==
  /\ NoTicketVanishes
  /\ EscalationReportsAgree
  /\ BreachReportsAgree
  /\ ComplianceFiguresAgree

(* The overview goes by the verdicts instead and has a breached ticket     *)
(* that was never answered compliant, so it does not agree with them.      *)
OverviewAgrees == CompliantInOverview <=> CompliantInSummary

(* A ticket that waits for its first answer beyond the due date shows as   *)
(* overdue or breached on its SLA page at every moment: before, between    *)
(* and after scans, however often it was closed, reopened or its due date  *)
(* overridden.                                                             *)
UnansweredIsShown ==
  tracking.attached /\ ticket.firstResponseAt = None /\ sla.due["RESPONSE"] < now
    => OverdueNow("RESPONSE") \/ "RESPONSE" \in BreachedInSummary
=============================================================================
