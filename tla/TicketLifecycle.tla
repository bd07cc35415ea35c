--------------------------- MODULE TicketLifecycle --------------------------
(***************************************************************************)
(* One ticket and the requests that work on it (tickets.service.ts, and    *)
(* the reassignment endpoint of admin.service.ts).                         *)
(*                                                                         *)
(* A handler first READS the ticket and validates what it was asked to do  *)
(* against that copy; it then COMMITS one transaction (the array form of   *)
(* prisma.$transaction is atomic); some handlers finish with a write of    *)
(* their own AFTER it. The database runs READ COMMITTED and no statement   *)
(* is conditional on the copy, so other requests may commit between any    *)
(* two of these steps. Tickets share no row that these handlers write, so  *)
(* one ticket stands for all.                                              *)
(***************************************************************************)
EXTENDS Integers, Sequences, FiniteSets, TicketStatus

CONSTANTS
  Requests,       (* requests that may be in flight at once           *)
  Agents,         (* users a ticket may be assigned to                *)
  Ops,            (* the operations the clients of this instance call *)
  None,           (* the database's NULL                              *)
  MaxTime,        (* bound: the clock stops here                      *)
  MaxHistory,     (* bound: no status change is started past it       *)
  MaxAssignments, (* bound: no assignment is started past it          *)
  MaxEdits,       (* bound: field edits and comments started          *)
  MaxFailures     (* bound: requests that die half-way                *)

AllOps == {"resolve", "close", "reopen", "escalate",
           "assign", "message", "update", "reassign"}

(* Any agents, any number of concurrent requests, any subset of the API.   *)
ASSUME LifecycleAssumption ==
  /\ Ops \subseteq AllOps
  /\ None \notin Agents \cup Statuses \cup Int
  /\ {MaxTime, MaxHistory, MaxAssignments, MaxEdits, MaxFailures} \subseteq Nat

VARIABLES
  ticket,      (* the row of tickets                                    *)
  history,     (* its rows of ticket_history, oldest first              *)
  assignments, (* assignedTo of its rows of ticket_assignments          *)
  escalations, (* its rows of escalation_events, oldest first           *)
  tracking,    (* level and creation date of its row of sla_tracking    *)
  comments,    (* number of its ticket_messages not from its creator    *)
  requests,    (* per request: where its handler is and what it read    *)
  now,         (* the clock                                             *)
  failures     (* requests that died between two of their steps         *)

rows == <<ticket, history, assignments, escalations, tracking, comments>>
vars == <<rows, requests, now, failures>>

(***************************************************************************)
(* Types                                                                   *)
(***************************************************************************)
Time     == 0..MaxTime
Stamp    == Time \cup {None}
Assignee == Agents \cup {None}

Ticket == [status : Statuses, assignee : Assignee, level : Nat,
           isEscalated : BOOLEAN, reopenCount : Nat, edits : Nat,
           firstResponseAt : Stamp, resolvedAt : Stamp, closedAt : Stamp]

HistoryRow    == [old : Statuses \cup {None}, new : Statuses]
(* "by" tells the code that wrote the row: escalateTicket or the SLA scan. *)
EscalationRow == [previousLevel : Nat, newLevel : Nat, by : {"request", "scan"}]
Tracking      == [attached : BOOLEAN, level : Nat, createdAt : Stamp]

(* seen and tracked are the copy the handler took when it read the ticket  *)
(* at time "at"; agent is the assignee its caller named.                   *)
Idle   == [stage |-> "idle"]
Active == [stage : {"commit", "after"}, op : AllOps, agent : Assignee,
           seen : Ticket, tracked : BOOLEAN, at : Time]

TypeOK ==
  /\ ticket \in Ticket
  /\ history \in Seq(HistoryRow)
  /\ assignments \in Seq(Assignee)
  /\ escalations \in Seq(EscalationRow)
  /\ tracking \in Tracking
  /\ comments \in Nat
  /\ requests \in [Requests -> Active \cup {Idle}]
  /\ now \in Time
  /\ failures \in Nat

(***************************************************************************)
(* A definition named <Name>_<Change> is <Name> with one plausible mistake *)
(* in it. Nothing below uses it: it is there to be put in the place of     *)
(* <Name>, to see that the properties notice.                              *)
(***************************************************************************)

(***************************************************************************)
(* Creation. createTicket writes the row and its first history row in one  *)
(* transaction; email ingestion writes the row alone.                      *)
(***************************************************************************)
NewTicket ==
  [status |-> "OPEN", assignee |-> None, level |-> 0, isEscalated |-> FALSE,
   reopenCount |-> 0, edits |-> 0, firstResponseAt |-> None,
   resolvedAt |-> None, closedAt |-> None]

CreatedByApi   == <<[old |-> None, new |-> "OPEN"]>>
CreatedByEmail == <<>>

Init ==
  /\ ticket = NewTicket
  /\ history \in {CreatedByApi, CreatedByEmail}
  /\ assignments = <<>> /\ escalations = <<>>
  /\ tracking = [attached |-> FALSE, level |-> 0, createdAt |-> None]
  /\ comments = 0
  /\ requests = [r \in Requests |-> Idle]
  /\ now = 0 /\ failures = 0

(***************************************************************************)
(* Reading: the checks every handler makes on the copy it takes.           *)
(***************************************************************************)
Target == [op \in {"resolve", "close", "reopen", "escalate"} |->
             CASE op = "resolve"  -> "RESOLVED"
               [] op = "close"    -> "CLOSED"
               [] op = "reopen"   -> "REOPENED"
               [] op = "escalate" -> "ESCALATED"]

Accepts_AnyEscalation(op, row) ==
  /\ op \in DOMAIN Target \ {"escalate"} => ValidTransition(row.status, Target[op])
  /\ op = "update" => row.status \notin ClosedStatuses

Accepts(op, row) ==
  /\ op \in DOMAIN Target => ValidTransition(row.status, Target[op])
  /\ op = "update" => row.status \notin ClosedStatuses

(* The caller of an assignment names a user; an administrator's            *)
(* reassignment may name nobody; the other operations name no assignee.    *)
Names(op) == CASE op = "assign"   -> Agents
               [] op = "reassign" -> Assignee
               [] OTHER           -> {None}

WithinBounds(op) ==
  /\ op \in DOMAIN Target \cup {"assign"} => Len(history) < MaxHistory
  /\ op \in {"assign", "reassign"} => Len(assignments) < MaxAssignments
  /\ op \in {"message", "update"} => comments + ticket.edits < MaxEdits

Read(r) ==
  /\ requests[r] = Idle
  /\ \E op \in Ops : \E a \in Names(op) :
       /\ WithinBounds(op)
       /\ Accepts(op, ticket)
       /\ requests' = [requests EXCEPT ![r] =
            [stage |-> "commit", op |-> op, agent |-> a,
             seen |-> ticket, tracked |-> tracking.attached, at |-> now]]
  /\ UNCHANGED <<rows, now, failures>>

(***************************************************************************)
(* Committing and what follows.                                            *)
(***************************************************************************)
At(r, stage, ops) ==
  /\ requests[r].stage = stage
  /\ requests[r].op \in ops

Finish(r)   == requests' = [requests EXCEPT ![r] = Idle]
Continue(r) == requests' = [requests EXCEPT ![r].stage = "after"]

Record(from, to) == history' = Append(history, [old |-> from, new |-> to])

(* new Date() is taken somewhere between reading and committing.           *)
Clock(r) == requests[r].at .. now

(* The columns transitionStatus updates, for each of its three callers.    *)
Transitioned_CopiedCount(q, date) ==
  CASE q.op = "resolve" -> [ticket EXCEPT !.status = "RESOLVED", !.resolvedAt = date]
    [] q.op = "close"   -> [ticket EXCEPT !.status = "CLOSED", !.closedAt = date]
    [] q.op = "reopen"  -> [ticket EXCEPT !.status = "REOPENED",
                              !.resolvedAt = None, !.closedAt = None,
                              !.reopenCount = q.seen.reopenCount + 1]

Transitioned_StampsKept(q, date) ==
  CASE q.op = "resolve" -> [ticket EXCEPT !.status = "RESOLVED", !.resolvedAt = date]
    [] q.op = "close"   -> [ticket EXCEPT !.status = "CLOSED", !.closedAt = date]
    [] q.op = "reopen"  -> [ticket EXCEPT !.status = "REOPENED", !.reopenCount = @ + 1]

Transitioned(q, date) ==
  CASE q.op = "resolve" -> [ticket EXCEPT !.status = "RESOLVED", !.resolvedAt = date]
    [] q.op = "close"   -> [ticket EXCEPT !.status = "CLOSED", !.closedAt = date]
    [] q.op = "reopen"  -> [ticket EXCEPT !.status = "REOPENED",
                              !.resolvedAt = None, !.closedAt = None,
                              !.reopenCount = @ + 1]

(* transitionStatus, for resolveTicket, closeTicket and reopenTicket. The  *)
(* notifications and events these then send never touch the ticket.        *)
TransitionStatus(r) ==
  LET q == requests[r] IN
  /\ At(r, "commit", {"resolve", "close", "reopen"})
  /\ \E date \in Clock(r) : ticket' = Transitioned(q, date)
  /\ Record(q.seen.status, Target[q.op])
  /\ Finish(r)
  /\ UNCHANGED <<assignments, escalations, tracking, comments, now, failures>>

(* assignTicket when the copy is OPEN, REOPENED or ESCALATED.              *)
AssignAndTransition(r) ==
  LET q == requests[r] IN
  /\ At(r, "commit", {"assign"})
  /\ q.seen.status \in StatusesThatTransitionToAssigned
  /\ ticket' = [ticket EXCEPT !.status = "ASSIGNED", !.assignee = q.agent]
  /\ Record(q.seen.status, "ASSIGNED")
  /\ assignments' = Append(assignments, q.agent)
  /\ IF q.seen.firstResponseAt = None THEN Continue(r) ELSE Finish(r)
  /\ UNCHANGED <<escalations, tracking, comments, now, failures>>

(* assignTicket otherwise: the assignee changes, the status is kept.       *)
AssignOnly(r) ==
  LET q == requests[r] IN
  /\ At(r, "commit", {"assign"})
  /\ q.seen.status \notin StatusesThatTransitionToAssigned
  /\ ticket' = [ticket EXCEPT !.assignee = q.agent]
  /\ assignments' = Append(assignments, q.agent)
  /\ Finish(r)
  /\ UNCHANGED <<history, escalations, tracking, comments, now, failures>>

(* escalateTicket: the new level is computed from the copy.                *)
EscalateTicket(r) ==
  LET q        == requests[r]
      newLevel == q.seen.level + 1
  IN
  /\ At(r, "commit", {"escalate"})
  /\ ticket' = [ticket EXCEPT !.status = "ESCALATED", !.level = newLevel,
                              !.isEscalated = TRUE]
  /\ Record(q.seen.status, "ESCALATED")
  /\ escalations' = Append(escalations, [previousLevel |-> q.seen.level,
                                         newLevel |-> newLevel,
                                         by |-> "request"])
  /\ IF q.tracked THEN Continue(r) ELSE Finish(r)
  /\ UNCHANGED <<assignments, tracking, comments, now, failures>>

(* ... then, in a write of its own, the level of the tracking row that the *)
(* copy included.                                                          *)
SyncTracking(r) ==
  /\ At(r, "after", {"escalate"})
  /\ tracking' = [tracking EXCEPT !.level = requests[r].seen.level + 1]
  /\ Finish(r)
  /\ UNCHANGED <<ticket, history, assignments, escalations, comments, now, failures>>

(* addMessage by anybody but the ticket's creator (whose messages touch    *)
(* nothing else); whatever the status.                                     *)
AddMessage_OnlyOnceAssigned(r) ==
  LET seen == requests[r].seen IN
  /\ At(r, "commit", {"message"})
  /\ comments' = comments + 1
  /\ IF seen.firstResponseAt = None /\ seen.status # "OPEN" THEN Continue(r)
                                                           ELSE Finish(r)
  /\ UNCHANGED <<ticket, history, assignments, escalations, tracking, now, failures>>

AddMessage_AlwaysFirst(r) ==
  /\ At(r, "commit", {"message"})
  /\ comments' = comments + 1
  /\ Continue(r)
  /\ UNCHANGED <<ticket, history, assignments, escalations, tracking, now, failures>>

AddMessage(r) ==
  /\ At(r, "commit", {"message"})
  /\ comments' = comments + 1
  /\ IF requests[r].seen.firstResponseAt = None THEN Continue(r) ELSE Finish(r)
  /\ UNCHANGED <<ticket, history, assignments, escalations, tracking, now, failures>>

(* The last write of assignTicket and addMessage: the first response, if   *)
(* the copy had none.                                                      *)
StampFirstResponse(r) ==
  /\ At(r, "after", {"assign", "message"})
  /\ ticket' = [ticket EXCEPT !.firstResponseAt = now]
  /\ Finish(r)
  /\ UNCHANGED <<history, assignments, escalations, tracking, comments, now, failures>>

(* updateTicket: subject, description, category, priority... as one field. *)
UpdateTicket(r) ==
  /\ At(r, "commit", {"update"})
  /\ ticket' = [ticket EXCEPT !.edits = @ + 1]
  /\ Finish(r)
  /\ UNCHANGED <<history, assignments, escalations, tracking, comments, now, failures>>

(* The administrator's reassignment: no transaction, two writes.           *)
ReassignTicket(r) ==
  /\ At(r, "commit", {"reassign"})
  /\ ticket' = [ticket EXCEPT !.assignee = requests[r].agent]
  /\ Continue(r)
  /\ UNCHANGED <<history, assignments, escalations, tracking, comments, now, failures>>

RecordReassignment_Former(r) ==
  /\ At(r, "after", {"reassign"})
  /\ assignments' = Append(assignments, requests[r].seen.assignee)
  /\ Finish(r)
  /\ UNCHANGED <<ticket, history, escalations, tracking, comments, now, failures>>

RecordReassignment(r) ==
  /\ At(r, "after", {"reassign"})
  /\ assignments' = Append(assignments, requests[r].agent)
  /\ Finish(r)
  /\ UNCHANGED <<ticket, history, escalations, tracking, comments, now, failures>>

(* A request dies between two of its steps: the process stops, or the next *)
(* statement fails. What it has committed stays.                           *)
Fail(r) ==
  /\ requests[r] # Idle
  /\ failures < MaxFailures
  /\ failures' = failures + 1
  /\ Finish(r)
  /\ UNCHANGED <<rows, now>>

(* attachSlaToTicket, started by createTicket alone and not awaited.       *)
AttachSla ==
  /\ ~tracking.attached
  /\ history # <<>> /\ history[1].old = None
  /\ tracking' = [attached |-> TRUE, level |-> 0, createdAt |-> now]
  /\ UNCHANGED <<ticket, history, assignments, escalations, comments,
                 requests, now, failures>>

Tick ==
  /\ now < MaxTime
  /\ now' = now + 1
  /\ UNCHANGED <<rows, requests, failures>>

(* A step of the handler of request r.                                     *)
Handle(r) ==
  \/ TransitionStatus(r) \/ AssignAndTransition(r) \/ AssignOnly(r)
  \/ EscalateTicket(r) \/ SyncTracking(r)
  \/ AddMessage(r) \/ StampFirstResponse(r) \/ UpdateTicket(r)
  \/ ReassignTicket(r) \/ RecordReassignment(r)

Next ==
  \/ \E r \in Requests : Read(r) \/ Handle(r) \/ Fail(r)
  \/ AttachSla
  \/ Tick

Spec == Init /\ [][Next]_vars

(***************************************************************************)
(* What holds however the requests interleave, fail and overlap.           *)
(***************************************************************************)

(* The status of the ticket is the one its last history row gives: each    *)
(* handler that moves the status records it in the same transaction, so no *)
(* overlap or failure separates the two (ticket_history "tracks every      *)
(* state transition").                                                     *)
StatusIsLatestHistory ==
  ticket.status = IF history = <<>> THEN "OPEN" ELSE history[Len(history)].new

(* reopenCount is the number of REOPENED rows in the history: the counter  *)
(* is incremented by the database, never from the copy, so overlapping     *)
(* reopenings lose no increment.                                           *)
ReopenRows(h) == {i \in DOMAIN h : h[i].new = "REOPENED"}

ReopenCountIsHistory ==
  ticket.reopenCount = Cardinality(ReopenRows(history))

(* A ticket's escalation level is the one its last escalation event went   *)
(* to, whatever stale level that event started from.                       *)
LevelIsLatestEscalation ==
  ticket.level = IF escalations = <<>> THEN 0
                 ELSE escalations[Len(escalations)].newLevel

(* Each escalation a request made is one ESCALATED row of the history, and *)
(* isEscalated tells whether any escalation, the SLA scan's included, is   *)
(* on record: the trail and the events are written together or not at all. *)
EscalatedRows(h) == {i \in DOMAIN h : h[i].new = "ESCALATED"}
RequestedRows(e) == {i \in DOMAIN e : e[i].by = "request"}

EscalationsAreLedgered ==
  /\ Cardinality(RequestedRows(escalations)) = Cardinality(EscalatedRows(history))
  /\ ticket.isEscalated <=> (escalations # <<>>)

(* Who has the ticket can be told from its assignment rows. The            *)
(* administrator's reassignment writes the ticket and the row apart, and   *)
(* what commits in between gets its row first: the latest row may then     *)
(* name somebody who lost the ticket again. But unless a request died, the *)
(* assignee is the one of a reassignment that has its row still to write,  *)
(* or of one of the last rows, no further back than requests can overlap.  *)
Reassigning == {r \in Requests : At(r, "after", {"reassign"})}

(* Row 0 stands for the ticket as it was created, with nobody.             *)
RowNames(i) == IF i = 0 THEN None ELSE assignments[i]

AssigneeIsOnRecord ==
  \/ failures > 0
  \/ \E r \in Reassigning : requests[r].agent = ticket.assignee
  \/ \E i \in 0..Len(assignments) :
       /\ RowNames(i) = ticket.assignee
       /\ Len(assignments) - i < Cardinality(Requests)

(* A ticket that stands RESOLVED or CLOSED has the time stamp the SLA scan *)
(* and the reports look for, even if a reopening overlapped.               *)
SettledIsStamped ==
  /\ ticket.status = "RESOLVED" => ticket.resolvedAt # None
  /\ ticket.status = "CLOSED" => ticket.closedAt # None

(* All of the above together: the rows that hang on a ticket explain its   *)
(* status, counters, level, flag and stamps at every moment, whatever      *)
(* requests and scans overlap or die.                                      *)
TrailExplainsTicket ==
  /\ StatusIsLatestHistory
  /\ ReopenCountIsHistory
  /\ LevelIsLatestEscalation
  /\ EscalationsAreLedgered
  /\ SettledIsStamped

(* An answer without a first-response stamp is always one whose request is *)
(* still about to write the stamp, or a request has died: no overlap of    *)
(* answers alone can leave an answered ticket unanswered for the SLA scan. *)
NoAnswerIsLost ==
  (comments > 0 /\ ticket.firstResponseAt = None)
    => \/ \E r \in Requests : At(r, "after", {"message"})
       \/ failures > 0

(***************************************************************************)
(* What holds as long as the requests on a ticket do not overlap (one      *)
(* member of Requests), and fails when they do.                            *)
(***************************************************************************)

(* With one request at a time the service is the atomic machine: every     *)
(* transaction is one of its steps and nothing else changes its state.     *)
Machine == INSTANCE TicketMachine
             WITH status   <- ticket.status,
                  assignee <- ticket.assignee,
                  level    <- ticket.level,
                  reopens  <- ticket.reopenCount,
                  resolved <- ticket.resolvedAt # None,
                  closed   <- ticket.closedAt # None

ImplementsMachine == Machine!Spec

(* Each history row starts from the status the previous one ended in: the  *)
(* audit trail can be replayed.                                            *)
HistoryChained ==
  \A i \in 1..(Len(history) - 1) : history[i + 1].old = history[i].new

(* A resolution or closure stamp is there only while the ticket is settled *)
(* (the stamps are what keeps the SLA scan from breaching it).             *)
StampsMatchStatus ==
  /\ ticket.resolvedAt # None => ticket.status \in {"RESOLVED", "CLOSED"}
  /\ ticket.closedAt # None <=> ticket.status = "CLOSED"

(* Both: the trail tells exactly when the ticket was settled, and how it   *)
(* came to that.                                                           *)
TrailIsExact == HistoryChained /\ StampsMatchStatus

(* Once written, the time of the first response never moves.               *)
FirstResponseStable ==
  [][ticket.firstResponseAt # None
       => ticket'.firstResponseAt = ticket.firstResponseAt]_vars

(* A status only moves along an edge of STATUS_TRANSITIONS.                *)
TransitionsAreValidated ==
  [][ticket'.status # ticket.status
       => ValidTransition(ticket.status, ticket'.status)]_vars
=============================================================================
