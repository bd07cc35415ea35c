------------------------------ MODULE SlaBreach -----------------------------
(***************************************************************************)
(* The SLA engine (sla.service.ts) at work on the ticket of                *)
(* TicketLifecycle: the tracking row, the scan for breaches that a cron    *)
(* starts every minute, the breach log, the automatic escalation, and the  *)
(* administrator's override of the due dates (admin.service.ts).           *)
(*                                                                         *)
(* A scan first copies the overdue rows with their tickets, then works     *)
(* through the copies with writes that no longer look at the tables. The   *)
(* cron does not wait for the previous scan to end and every server        *)
(* process has one, so several scans may be under way.                     *)
(***************************************************************************)
EXTENDS TicketLifecycle

CONSTANTS
  Scans,        (* scans that may be under way at once                      *)
  AttachDue,    (* due dates attachSlaToTicket computes, per breach type    *)
  OverrideDues, (* due dates an administrator may set instead               *)
  MatrixLevels  (* levels that the agency's escalation matrix defines       *)

(* BreachType, in the order a scan works through them. *)
BreachTypes == {"RESPONSE", "RESOLUTION"}

(* A rule allows at least a minute, an override is a date, and NULL is no  *)
(* verdict.                                                                *)
ASSUME SlaAssumption ==
  /\ None \notin BOOLEAN
  /\ AttachDue \in [BreachTypes -> Nat]
  /\ OverrideDues \subseteq Nat
  /\ MatrixLevels \subseteq Nat

VARIABLES
  sla,        (* the due, breached and met columns of the sla_tracking row *)
  breachLogs, (* breachType of the rows of breach_logs                     *)
  scans       (* per scan: where it is and what it copied                  *)

slaVars == <<vars, sla, breachLogs, scans>>

Verdict == BOOLEAN \cup {None}
Sla     == [due : [BreachTypes -> Nat], breached : [BreachTypes -> BOOLEAN],
            met : [BreachTypes -> Verdict]]

(* What a scan copies of an overdue row: the ticket's answer or resolution *)
(* date, whether its status is closed, and the due date.                   *)
Copy     == [settledAt : Stamp, closed : BOOLEAN, due : Nat]
ScanIdle == [stage |-> "idle"]
Scanning == [stage : {"select", "judge", "escalate", "commit"}, type : BreachTypes,
             at : Time, copies : [BreachTypes -> Copy \cup {None}], level : Nat]

SlaTypeOK ==
  /\ TypeOK
  /\ sla \in Sla
  /\ breachLogs \in Seq(BreachTypes)
  /\ scans \in [Scans -> Scanning \cup {ScanIdle}]

SlaInit ==
  /\ Init
  /\ sla = [due      |-> AttachDue,
            breached |-> [t \in BreachTypes |-> FALSE],
            met      |-> [t \in BreachTypes |-> None]]
  /\ breachLogs = <<>>
  /\ scans = [s \in Scans |-> ScanIdle]

(***************************************************************************)
(* The scan.                                                               *)
(***************************************************************************)
SettledAt(t) == IF t = "RESPONSE" THEN ticket.firstResponseAt ELSE ticket.resolvedAt

(* The where clause of the scan's two queries. *)
Overdue_BreachedToo(t, date) ==
  /\ tracking.attached
  /\ sla.met[t] = None
  /\ sla.due[t] < date

Overdue(t, date) ==
  /\ tracking.attached
  /\ ~sla.breached[t] /\ sla.met[t] = None
  /\ sla.due[t] < date

Go(s, stage) == scans' = [scans EXCEPT ![s].stage = stage]

(* Once done with one type the scan turns to the other, then ends.         *)
Turn(s) == scans' = [scans EXCEPT ![s] =
  IF @.type = "RESPONSE" THEN [@ EXCEPT !.stage = "judge", !.type = "RESOLUTION"]
                         ELSE ScanIdle]

StartScan(s) ==
  /\ scans[s] = ScanIdle
  /\ scans' = [scans EXCEPT ![s] =
       [stage |-> "select", type |-> "RESPONSE", at |-> now,
        copies |-> [t \in BreachTypes |-> None], level |-> 0]]
  /\ UNCHANGED <<vars, sla, breachLogs>>

(* findMany, for one type and then the other.                              *)
Select_AssignedOnly(s) ==
  LET t    == scans[s].type
      copy == IF Overdue(t, scans[s].at) /\ ticket.assignee # None
                THEN [settledAt |-> SettledAt(t), due |-> sla.due[t],
                      closed |-> ticket.status \in ClosedStatuses]
                ELSE None
  IN
  /\ scans[s].stage = "select"
  /\ scans' = [scans EXCEPT
       ![s].copies[t] = copy,
       ![s].stage     = IF t = "RESPONSE" THEN "select" ELSE "judge",
       ![s].type      = IF t = "RESPONSE" THEN "RESOLUTION" ELSE "RESPONSE"]
  /\ UNCHANGED <<vars, sla, breachLogs>>

Select(s) ==
  LET t    == scans[s].type
      copy == IF Overdue(t, scans[s].at)
                THEN [settledAt |-> SettledAt(t), due |-> sla.due[t],
                      closed |-> ticket.status \in ClosedStatuses]
                ELSE None
  IN
  /\ scans[s].stage = "select"
  /\ scans' = [scans EXCEPT
       ![s].copies[t] = copy,
       ![s].stage     = IF t = "RESPONSE" THEN "select" ELSE "judge",
       ![s].type      = IF t = "RESPONSE" THEN "RESOLUTION" ELSE "RESPONSE"]
  /\ UNCHANGED <<vars, sla, breachLogs>>

Judging(s) == scans[s].stage = "judge"
CopyOf(s)  == scans[s].copies[scans[s].type]

(* Nothing was overdue, or the copy is of a closed ticket never answered.  *)
Skip(s) ==
  /\ Judging(s)
  /\ CopyOf(s) # None => CopyOf(s).closed /\ CopyOf(s).settledAt = None
  /\ Turn(s)
  /\ UNCHANGED <<vars, sla, breachLogs>>

(* The copy was answered or resolved: was it in time?                      *)
MarkMet_FallsThrough(s) ==
  /\ Judging(s)
  /\ CopyOf(s) # None /\ CopyOf(s).settledAt # None
  /\ sla' = [sla EXCEPT !.met[scans[s].type] = CopyOf(s).settledAt <= CopyOf(s).due]
  /\ Go(s, "escalate")
  /\ UNCHANGED <<vars, breachLogs>>

MarkMet_ClosedToo(s) ==
  /\ Judging(s)
  /\ CopyOf(s) # None /\ (CopyOf(s).settledAt # None \/ CopyOf(s).closed)
  /\ sla' = [sla EXCEPT !.met[scans[s].type] =
                CopyOf(s).settledAt = None \/ CopyOf(s).settledAt <= CopyOf(s).due]
  /\ Turn(s)
  /\ UNCHANGED <<vars, breachLogs>>

MarkMet(s) ==
  /\ Judging(s)
  /\ CopyOf(s) # None /\ CopyOf(s).settledAt # None
  /\ sla' = [sla EXCEPT !.met[scans[s].type] = CopyOf(s).settledAt <= CopyOf(s).due]
  /\ Turn(s)
  /\ UNCHANGED <<vars, breachLogs>>

(* It was neither: the flag and the log row, in one transaction.           *)
Breach(s) ==
  LET t == scans[s].type IN
  /\ Judging(s)
  /\ CopyOf(s) # None /\ CopyOf(s).settledAt = None /\ ~CopyOf(s).closed
  /\ sla' = [sla EXCEPT !.breached[t] = TRUE]
  /\ breachLogs' = Append(breachLogs, t)
  /\ Go(s, "escalate")
  /\ UNCHANGED vars

(* triggerEscalation reads the level of the tracking row (not the          *)
(* ticket's) and looks the next one up in the matrix,                      *)
ReadLevel_CurrentLevel(s) ==
  /\ scans[s].stage = "escalate"
  /\ IF tracking.level \in MatrixLevels
       THEN scans' = [scans EXCEPT ![s].stage = "commit", ![s].level = tracking.level]
       ELSE Turn(s)
  /\ UNCHANGED <<vars, sla, breachLogs>>

ReadLevel(s) ==
  /\ scans[s].stage = "escalate"
  /\ IF tracking.level + 1 \in MatrixLevels
       THEN scans' = [scans EXCEPT ![s].stage = "commit", ![s].level = tracking.level]
       ELSE Turn(s)
  /\ UNCHANGED <<vars, sla, breachLogs>>

(* then writes the event, the tracking row and the ticket in a transaction *)
(* that leaves the ticket's status and history alone.                      *)
AutoEscalate_Increments(s) ==
  LET newLevel == scans[s].level + 1 IN
  /\ scans[s].stage = "commit"
  /\ escalations' = Append(escalations, [previousLevel |-> scans[s].level,
                                         newLevel |-> newLevel, by |-> "scan"])
  /\ tracking' = [tracking EXCEPT !.level = newLevel]
  /\ ticket' = [ticket EXCEPT !.isEscalated = TRUE, !.level = @ + 1]
  /\ Turn(s)
  /\ UNCHANGED <<history, assignments, comments, requests, now, failures,
                 sla, breachLogs>>

AutoEscalate(s) ==
  LET newLevel == scans[s].level + 1 IN
  /\ scans[s].stage = "commit"
  /\ escalations' = Append(escalations, [previousLevel |-> scans[s].level,
                                         newLevel |-> newLevel, by |-> "scan"])
  /\ tracking' = [tracking EXCEPT !.level = newLevel]
  /\ ticket' = [ticket EXCEPT !.isEscalated = TRUE, !.level = newLevel]
  /\ Turn(s)
  /\ UNCHANGED <<history, assignments, comments, requests, now, failures,
                 sla, breachLogs>>

(* The process stops, or a statement fails and ends the scan.              *)
FailScan(s) ==
  /\ scans[s] # ScanIdle
  /\ failures < MaxFailures
  /\ failures' = failures + 1
  /\ scans' = [scans EXCEPT ![s] = ScanIdle]
  /\ UNCHANGED <<rows, requests, now, sla, breachLogs>>

Scan(s) ==
  \/ StartScan(s) \/ Select(s) \/ Skip(s) \/ MarkMet(s)
  \/ Breach(s) \/ ReadLevel(s) \/ AutoEscalate(s)

(* overrideSla: either due date or both, whatever the verdicts say. What   *)
(* it writes next, to the ticket and the audit log, no scan reads.         *)
OverrideSla ==
  /\ tracking.attached
  /\ \E T \in SUBSET BreachTypes : \E due \in [T -> OverrideDues] :
       sla' = [sla EXCEPT !.due = [t \in BreachTypes |-> IF t \in T THEN due[t] ELSE @[t]]]
  /\ UNCHANGED <<vars, breachLogs, scans>>

SlaNext ==
  \/ Next /\ UNCHANGED <<sla, breachLogs, scans>>
  \/ \E s \in Scans : Scan(s) \/ FailScan(s)
  \/ OverrideSla

SlaSpec == SlaInit /\ [][SlaNext]_slaVars

(* The cron starts a scan every minute, a scan and a request once started  *)
(* are carried through unless they fail, and time passes.                  *)
Fairness ==
  /\ \A s \in Scans : WF_slaVars(Scan(s))
  /\ \A r \in Requests : WF_slaVars(Handle(r) /\ UNCHANGED <<sla, breachLogs, scans>>)
  /\ WF_slaVars(Tick /\ UNCHANGED <<sla, breachLogs, scans>>)

FairSpec == SlaSpec /\ Fairness

(***************************************************************************)
(* What holds however scans and requests interleave.                       *)
(***************************************************************************)
LogRows(t)     == {i \in DOMAIN breachLogs : breachLogs[i] = t}
ScanRows(e)    == {i \in DOMAIN e : e[i].by = "scan"}
Escalating     == {s \in Scans : scans[s].stage \in {"escalate", "commit"}}

(* The breached flag of a type is set exactly when the log has a breach of *)
(* that type: both are written in one transaction.                         *)
BreachesAreLogged ==
  \A t \in BreachTypes : sla.breached[t] <=> LogRows(t) # {}

(* Every automatic escalation on record, and every one a scan is busy      *)
(* with, is owed to a breach of its own in the log: no ticket is escalated *)
(* automatically more often than it was breached.                          *)
EscalationsAreOwed ==
  Cardinality(ScanRows(escalations)) + Cardinality(Escalating) <= Len(breachLogs)

(***************************************************************************)
(* What holds as long as no two scans overlap.                             *)
(***************************************************************************)

(* A ticket breaches its response time once, and its resolution time once. *)
OneLogPerBreach ==
  \A t \in BreachTypes : Cardinality(LogRows(t)) <= 1

(* A type is breached or it has been judged met or not met, never both:    *)
(* the scan's queries leave out what has a verdict.                        *)
MetOrBreached ==
  \A t \in BreachTypes : sla.breached[t] => sla.met[t] = None

(* A row found overdue is judged in the end, unless a reopening, a closure *)
(* or an override lifts it out of the scan's sight: met, breached, or no   *)
(* longer overdue. A scan that dies is made good by a later one.           *)
OverdueIsJudged ==
  \A t \in BreachTypes :
    Overdue(t, now) ~> (~Overdue(t, now) \/ ticket.status \in ClosedStatuses)

(* Every breach is followed by the automatic escalation it calls for, as   *)
(* long as the matrix has a level left, unless something died on the way.  *)
BreachIsEscalated ==
  \A n \in 1..Cardinality(BreachTypes) :
    Len(breachLogs) >= n ~> Cardinality(ScanRows(escalations)) >= n \/ failures > 0

(* The same, whatever dies: "SLA breaches shall automatically trigger      *)
(* escalation as defined in the escalation matrix". It fails: the scan     *)
(* that recorded a breach is the only one that will ever escalate it.      *)
EveryBreachIsEscalated ==
  \A n \in 1..Cardinality(BreachTypes) :
    Len(breachLogs) >= n ~> Cardinality(ScanRows(escalations)) >= n

(***************************************************************************)
(* What even a single scan breaks, when an escalation request overlaps it. *)
(***************************************************************************)

(* The escalation level of a ticket never goes down. The scan takes the    *)
(* level from the tracking row, which lags behind the ticket's.            *)
LevelNeverDrops == [][ticket'.level >= ticket.level]_slaVars
=============================================================================
