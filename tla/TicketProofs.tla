---------------------------- MODULE TicketProofs ----------------------------
(***************************************************************************)
(* Theorems about the ticket, part by part:                                *)
(*   TicketLifecycle, for any set of requests working on the ticket at     *)
(*     once, any agents and any bounds;                                    *)
(*   TicketMachine, which the service implements if requests come one at a *)
(*     time, any number of them one after the other, dying where they like *)
(*     (its trail is then exact);                                          *)
(*   SlaBreach, for any number of requests and of scans under way at once, *)
(*     any due dates, overrides and escalation matrix;                     *)
(*   Reports, whose pages agree on a ticket in every state that any number *)
(*     of requests can bring about beside a scan, and where it does not    *)
(*     matter how many scans there are, beside any number.                 *)
(***************************************************************************)
EXTENDS Reports, FiniteSetTheorems, FunctionTheorems, TLAPS

(***************************************************************************)
(* Types.                                                                  *)
(***************************************************************************)

(* A busy request holds a well-typed copy of the ticket.                   *)
LEMMA BusyIsActive ==
  ASSUME TypeOK, NEW r \in Requests, requests[r].stage \in {"commit", "after"}
  PROVE  requests[r] \in Active
  BY DEF TypeOK, Idle

(* A date a handler takes is a time of the model.                          *)
LEMMA ClockIsTime ==
  ASSUME TypeOK, NEW r \in Requests, requests[r] \in Active
  PROVE  Clock(r) \subseteq Time
  BY LifecycleAssumption DEF TypeOK, Active, Clock, Time

(* Sending a request back to idle, or on to its last write, keeps the      *)
(* types of all of them.                                                   *)
LEMMA FinishType ==
  ASSUME TypeOK, NEW r \in Requests, Finish(r)
  PROVE  requests' \in [Requests -> Active \cup {Idle}]
  BY DEF TypeOK, Finish

(* ... and so does sending it on to the write it has left.                 *)
LEMMA ContinueType ==
  ASSUME TypeOK, NEW r \in Requests, requests[r] \in Active, Continue(r)
  PROVE  requests' \in [Requests -> Active \cup {Idle}]
  <1>1. [requests[r] EXCEPT !.stage = "after"] \in Active
    BY DEF Active
  <1> QED
    BY <1>1 DEF TypeOK, Continue

(* transitionStatus writes a well-formed row.                              *)
LEMMA TransitionedType ==
  ASSUME TypeOK, NEW q \in Active, q.op \in {"resolve", "close", "reopen"},
         NEW date \in Time
  PROVE  Transitioned(q, date) \in Ticket
  <1> ticket \in Ticket
    BY DEF TypeOK
  <1>1. CASE q.op = "resolve"
    BY <1>1 DEF Transitioned, Ticket, Statuses, Stamp
  <1>2. CASE q.op = "close"
    BY <1>2 DEF Transitioned, Ticket, Statuses, Stamp
  <1>3. CASE q.op = "reopen"
    <2>1. ticket.reopenCount + 1 \in Nat
      BY DEF Ticket
    <2>2. "REOPENED" \in Statuses /\ None \in Stamp
      BY DEF Statuses, Stamp
    <2>3. [ticket EXCEPT !.status = "REOPENED", !.resolvedAt = None, !.closedAt = None,
                         !.reopenCount = ticket.reopenCount + 1] \in Ticket
      BY <2>1, <2>2 DEF Ticket
    <2> QED
      BY <1>3, <2>3 DEF Transitioned
  <1> QED
    BY <1>1, <1>2, <1>3

(* A row added to the history is well formed.                              *)
LEMMA RecordType ==
  ASSUME TypeOK, NEW from \in Statuses, NEW to \in Statuses, Record(from, to)
  PROVE  history' \in Seq(HistoryRow)
  <1>1. [old |-> from, new |-> to] \in HistoryRow
    BY DEF HistoryRow
  <1> QED
    BY <1>1 DEF TypeOK, Record

(* A ticket as it is created is well typed.                                *)
LEMMA InitTypeOK == Init => TypeOK
  <1> SUFFICES ASSUME Init PROVE TypeOK
    OBVIOUS
  <1> USE LifecycleAssumption DEF Init
  <1>1. ticket \in Ticket
    BY DEF NewTicket, Ticket, Statuses, Assignee, Stamp
  <1>2. history \in Seq(HistoryRow)
    <2>1. [old |-> None, new |-> "OPEN"] \in HistoryRow
      BY DEF HistoryRow, Statuses
    <2>2. CreatedByApi \in Seq(HistoryRow)
      BY <2>1 DEF CreatedByApi
    <2>3. CreatedByEmail \in Seq(HistoryRow)
      BY DEF CreatedByEmail
    <2> QED
      BY <2>2, <2>3
  <1>3. assignments \in Seq(Assignee) /\ escalations \in Seq(EscalationRow)
    OBVIOUS
  <1>4. tracking \in Tracking
    BY DEF Tracking, Stamp
  <1>5. requests \in [Requests -> Active \cup {Idle}]
    OBVIOUS
  <1>6. comments \in Nat /\ now \in Time /\ failures \in Nat
    BY DEF Time
  <1> QED
    BY <1>1, <1>2, <1>3, <1>4, <1>5, <1>6 DEF TypeOK

(* Every step of every handler keeps the types: one step per action.       *)
LEMMA NextTypeOK == TypeOK /\ [Next]_vars => TypeOK'
  <1> SUFFICES ASSUME TypeOK, [Next]_vars PROVE TypeOK'
    OBVIOUS
  <1> USE LifecycleAssumption
  <1>1. CASE UNCHANGED vars
    BY <1>1 DEF TypeOK, vars, rows
  <1>2. ASSUME NEW r \in Requests, Read(r)
        PROVE  TypeOK'
    <2>1. PICK op \in Ops : \E a \in Names(op) :
            requests' = [requests EXCEPT ![r] =
              [stage |-> "commit", op |-> op, agent |-> a,
               seen |-> ticket, tracked |-> tracking.attached, at |-> now]]
      BY <1>2 DEF Read
    <2>2. PICK a \in Names(op) :
            requests' = [requests EXCEPT ![r] =
              [stage |-> "commit", op |-> op, agent |-> a,
               seen |-> ticket, tracked |-> tracking.attached, at |-> now]]
      BY <2>1
    <2>3. a \in Assignee
      BY DEF Names, Assignee
    <2>4. [stage |-> "commit", op |-> op, agent |-> a, seen |-> ticket,
           tracked |-> tracking.attached, at |-> now] \in Active
      BY <2>3 DEF TypeOK, Active, Tracking
    <2> QED
      BY <1>2, <2>2, <2>4 DEF TypeOK, Read, rows
  <1>3. ASSUME NEW r \in Requests, TransitionStatus(r)
        PROVE  TypeOK'
    <2> DEFINE q == requests[r]
    <2>1. q \in Active
      BY <1>3, BusyIsActive DEF TransitionStatus, At
    <2>2. ticket' \in Ticket
      BY <1>3, <2>1, ClockIsTime, TransitionedType DEF TransitionStatus, At
    <2>3. history' \in Seq(HistoryRow)
      <3>1. q.seen.status \in Statuses
        BY <2>1 DEF Active, Ticket
      <3>2. Target[q.op] \in Statuses
        BY <1>3 DEF TransitionStatus, At, Target, Statuses
      <3> QED
        BY <1>3, <3>1, <3>2, RecordType DEF TransitionStatus
    <2>4. requests' \in [Requests -> Active \cup {Idle}]
      BY <1>3, FinishType DEF TransitionStatus
    <2> QED
      BY <1>3, <2>2, <2>3, <2>4 DEF TypeOK, TransitionStatus
  <1>4. ASSUME NEW r \in Requests, AssignAndTransition(r)
        PROVE  TypeOK'
    <2> DEFINE q == requests[r]
    <2>1. q \in Active
      BY <1>4, BusyIsActive DEF AssignAndTransition, At
    <2>2. ticket' \in Ticket
      BY <1>4, <2>1 DEF AssignAndTransition, TypeOK, Active, Ticket, Statuses
    <2>3. history' \in Seq(HistoryRow)
      BY <1>4, <2>1, RecordType DEF AssignAndTransition, Active, Ticket, Statuses
    <2>4. assignments' \in Seq(Assignee)
      BY <1>4, <2>1 DEF AssignAndTransition, TypeOK, Active
    <2>5. requests' \in [Requests -> Active \cup {Idle}]
      BY <1>4, <2>1, FinishType, ContinueType DEF AssignAndTransition
    <2> QED
      BY <1>4, <2>2, <2>3, <2>4, <2>5 DEF TypeOK, AssignAndTransition
  <1>5. ASSUME NEW r \in Requests, AssignOnly(r)
        PROVE  TypeOK'
    <2> DEFINE q == requests[r]
    <2>1. q \in Active
      BY <1>5, BusyIsActive DEF AssignOnly, At
    <2>2. ticket' \in Ticket
      BY <1>5, <2>1 DEF AssignOnly, TypeOK, Active, Ticket
    <2>3. assignments' \in Seq(Assignee)
      BY <1>5, <2>1 DEF AssignOnly, TypeOK, Active
    <2> QED
      BY <1>5, <2>2, <2>3, FinishType DEF TypeOK, AssignOnly
  <1>6. ASSUME NEW r \in Requests, EscalateTicket(r)
        PROVE  TypeOK'
    <2> DEFINE q == requests[r]
    <2>1. q \in Active /\ q.seen \in Ticket
      BY <1>6, BusyIsActive DEF EscalateTicket, At, Active
    <2>2. q.seen.level \in Nat /\ q.seen.status \in Statuses
      BY <2>1 DEF Ticket
    <2>3. ticket' \in Ticket
      <3>1. q.seen.level + 1 \in Nat /\ "ESCALATED" \in Statuses /\ ticket \in Ticket
        BY <2>2 DEF Statuses, TypeOK
      <3>2. ticket' = [ticket EXCEPT !.status = "ESCALATED", !.level = q.seen.level + 1,
                                     !.isEscalated = TRUE]
        BY <1>6 DEF EscalateTicket
      <3> HIDE DEF q
      <3> QED
        BY <3>1, <3>2 DEF Ticket
    <2>4. history' \in Seq(HistoryRow)
      BY <1>6, <2>2, RecordType DEF EscalateTicket, Statuses
    <2>5. escalations' \in Seq(EscalationRow)
      <3>1. [previousLevel |-> q.seen.level, newLevel |-> q.seen.level + 1,
             by |-> "request"] \in EscalationRow
        BY <2>2 DEF EscalationRow
      <3> QED
        BY <1>6, <3>1 DEF EscalateTicket, TypeOK
    <2>6. requests' \in [Requests -> Active \cup {Idle}]
      BY <1>6, <2>1, FinishType, ContinueType DEF EscalateTicket
    <2> QED
      BY <1>6, <2>3, <2>4, <2>5, <2>6 DEF TypeOK, EscalateTicket
  <1>7. ASSUME NEW r \in Requests, SyncTracking(r)
        PROVE  TypeOK'
    <2>1. requests[r].seen.level \in Nat
      BY <1>7, BusyIsActive DEF SyncTracking, At, Active, Ticket
    <2>2. requests[r].seen.level + 1 \in Nat
      BY <2>1
    <2>3. tracking' \in Tracking
      BY <1>7, <2>2 DEF SyncTracking, TypeOK, Tracking
    <2> QED
      BY <1>7, <2>3, FinishType DEF TypeOK, SyncTracking
  <1>8. ASSUME NEW r \in Requests, AddMessage(r)
        PROVE  TypeOK'
    <2>1. requests[r] \in Active
      BY <1>8, BusyIsActive DEF AddMessage, At
    <2>2. requests' \in [Requests -> Active \cup {Idle}]
      BY <1>8, <2>1, FinishType, ContinueType DEF AddMessage
    <2> QED
      BY <1>8, <2>2 DEF TypeOK, AddMessage
  <1>9. ASSUME NEW r \in Requests, StampFirstResponse(r)
        PROVE  TypeOK'
    <2>1. ticket' \in Ticket
      BY <1>9 DEF StampFirstResponse, TypeOK, Ticket, Stamp
    <2> QED
      BY <1>9, <2>1, FinishType DEF TypeOK, StampFirstResponse
  <1>10. ASSUME NEW r \in Requests, UpdateTicket(r)
         PROVE  TypeOK'
    <2>1. ticket.edits + 1 \in Nat
      BY DEF TypeOK, Ticket
    <2>2. ticket' \in Ticket
      BY <1>10, <2>1 DEF UpdateTicket, TypeOK, Ticket
    <2> QED
      BY <1>10, <2>2, FinishType DEF TypeOK, UpdateTicket
  <1>11. ASSUME NEW r \in Requests, ReassignTicket(r)
         PROVE  TypeOK'
    <2>1. requests[r] \in Active
      BY <1>11, BusyIsActive DEF ReassignTicket, At
    <2>2. ticket' \in Ticket
      BY <1>11, <2>1 DEF ReassignTicket, TypeOK, Active, Ticket
    <2> QED
      BY <1>11, <2>1, <2>2, ContinueType DEF TypeOK, ReassignTicket
  <1>12. ASSUME NEW r \in Requests, RecordReassignment(r)
         PROVE  TypeOK'
    <2>1. requests[r] \in Active
      BY <1>12, BusyIsActive DEF RecordReassignment, At
    <2>2. assignments' \in Seq(Assignee)
      BY <1>12, <2>1 DEF RecordReassignment, TypeOK, Active
    <2> QED
      BY <1>12, <2>2, FinishType DEF TypeOK, RecordReassignment
  <1>13. ASSUME NEW r \in Requests, Fail(r)
         PROVE  TypeOK'
    BY <1>13, FinishType DEF TypeOK, Fail, rows
  <1>14. CASE AttachSla
    BY <1>14 DEF TypeOK, AttachSla, Tracking, Stamp
  <1>15. CASE Tick
    BY <1>15 DEF TypeOK, Tick, Time, rows
  <1> QED
    BY <1>1, <1>2, <1>3, <1>4, <1>5, <1>6, <1>7, <1>8, <1>9, <1>10, <1>11,
       <1>12, <1>13, <1>14, <1>15 DEF Next, Handle

(* Every reachable state is well typed: no interleaving of handlers, and   *)
(* no failure between their steps, writes anything but what the schema     *)
(* allows.                                                                 *)
THEOREM TypeCorrect == Spec => []TypeOK
  <1> QED
    BY InitTypeOK, NextTypeOK, PTL DEF Spec

(***************************************************************************)
(* What a step may do to the ticket's status and to what counts its moves. *)
(***************************************************************************)

(* Either nothing of it changes, ...                                       *)
Kept ==
  /\ UNCHANGED <<history, escalations>>
  /\ ticket'.status = ticket.status
  /\ ticket'.reopenCount = ticket.reopenCount
  /\ ticket'.level = ticket.level
  /\ ticket'.isEscalated = ticket.isEscalated
  /\ ticket'.resolvedAt = ticket.resolvedAt
  /\ ticket'.closedAt = ticket.closedAt

(* ... or the ticket moves to a status, in one transaction with the        *)
(* history row, the counter and the escalation event that go with it.      *)
Escalated ==
  \E e \in EscalationRow :
    /\ e.by = "request"
    /\ escalations' = Append(escalations, e)
    /\ ticket'.level = e.newLevel
    /\ ticket'.isEscalated = TRUE

NotEscalated ==
  /\ UNCHANGED escalations
  /\ ticket'.level = ticket.level
  /\ ticket'.isEscalated = ticket.isEscalated

Moved(from, to) ==
  /\ Record(from, to)
  /\ ticket'.status = to
  /\ ticket'.reopenCount = IF to = "REOPENED" THEN ticket.reopenCount + 1
                                              ELSE ticket.reopenCount
  /\ IF to = "ESCALATED" THEN Escalated ELSE NotEscalated
  /\ to = "RESOLVED" => ticket'.resolvedAt # None
  /\ to = "CLOSED" => ticket'.closedAt # None

(* transitionStatus moves status, history and stamps together.             *)
LEMMA TransitionMoves ==
  ASSUME TypeOK, NEW r \in Requests, TransitionStatus(r)
  PROVE  \E from, to \in Statuses : Moved(from, to)
  <1> DEFINE q == requests[r]
  <1>1. q \in Active /\ q.seen.status \in Statuses
    BY BusyIsActive DEF TransitionStatus, At, Active, Ticket
  <1>2. PICK date \in Clock(r) : ticket' = Transitioned(q, date)
    BY DEF TransitionStatus
  <1>3. date # None
    BY <1>1, ClockIsTime, LifecycleAssumption DEF Time
  <1>4. /\ Record(q.seen.status, Target[q.op])
        /\ UNCHANGED escalations
        /\ ticket \in Ticket
    BY DEF TransitionStatus, TypeOK
  <1>5. CASE q.op = "resolve"
    <2>1. ticket' = [ticket EXCEPT !.status = "RESOLVED", !.resolvedAt = date]
      BY <1>2, <1>5 DEF Transitioned
    <2>2. Target[q.op] = "RESOLVED"
      BY <1>5 DEF Target
    <2>3. Moved(q.seen.status, "RESOLVED")
      BY <1>3, <1>4, <2>1, <2>2 DEF Moved, NotEscalated, Ticket
    <2> QED
      BY <1>1, <2>3 DEF Statuses
  <1>6. CASE q.op = "close"
    <2>1. ticket' = [ticket EXCEPT !.status = "CLOSED", !.closedAt = date]
      BY <1>2, <1>6 DEF Transitioned
    <2>2. Target[q.op] = "CLOSED"
      BY <1>6 DEF Target
    <2>3. Moved(q.seen.status, "CLOSED")
      BY <1>3, <1>4, <2>1, <2>2 DEF Moved, NotEscalated, Ticket
    <2> QED
      BY <1>1, <2>3 DEF Statuses
  <1>7. CASE q.op = "reopen"
    <2>1. ticket' = [ticket EXCEPT !.status = "REOPENED", !.resolvedAt = None,
                                   !.closedAt = None, !.reopenCount = @ + 1]
      BY <1>2, <1>7 DEF Transitioned
    <2>2. Target[q.op] = "REOPENED"
      BY <1>7 DEF Target
    <2>3. Moved(q.seen.status, "REOPENED")
      BY <1>4, <2>1, <2>2 DEF Moved, NotEscalated, Ticket
    <2> QED
      BY <1>1, <2>3 DEF Statuses
  <1> QED
    BY <1>5, <1>6, <1>7 DEF TransitionStatus, At

(* The transaction of assignTicket moves status and history together.      *)
LEMMA AssignmentMoves ==
  ASSUME TypeOK, NEW r \in Requests, AssignAndTransition(r)
  PROVE  \E from, to \in Statuses : Moved(from, to)
  <1> DEFINE q == requests[r]
  <1>1. q.seen.status \in Statuses
    BY BusyIsActive DEF AssignAndTransition, At, Active, Ticket
  <1>2. ticket' = [ticket EXCEPT !.status = "ASSIGNED", !.assignee = q.agent]
    BY DEF AssignAndTransition
  <1>3. Moved(q.seen.status, "ASSIGNED")
    BY <1>2 DEF AssignAndTransition, Moved, NotEscalated, TypeOK, Ticket
  <1> QED
    BY <1>1, <1>3 DEF Statuses

(* The transaction of escalateTicket moves status, history, level and the  *)
(* escalation events together.                                             *)
LEMMA EscalationMoves ==
  ASSUME TypeOK, NEW r \in Requests, EscalateTicket(r)
  PROVE  \E from, to \in Statuses : Moved(from, to)
  <1> DEFINE q == requests[r]
             e == [previousLevel |-> q.seen.level, newLevel |-> q.seen.level + 1,
                   by |-> "request"]
  <1>1. q.seen.status \in Statuses /\ q.seen.level \in Nat
    BY BusyIsActive DEF EscalateTicket, At, Active, Ticket
  <1>2. /\ Record(q.seen.status, "ESCALATED")
        /\ ticket' = [ticket EXCEPT !.status = "ESCALATED", !.level = q.seen.level + 1,
                                    !.isEscalated = TRUE]
        /\ escalations' = Append(escalations, e)
        /\ ticket \in Ticket
    BY DEF EscalateTicket, TypeOK
  <1>3. e \in EscalationRow /\ e.by = "request" /\ e.newLevel = q.seen.level + 1
    BY <1>1 DEF EscalationRow
  <1>4. Escalated
    <2> HIDE DEF e
    <2> QED
      BY <1>2, <1>3 DEF Escalated, Ticket
  <1>5. Moved(q.seen.status, "ESCALATED")
    BY <1>2, <1>4 DEF Moved, Ticket
  <1> QED
    BY <1>1, <1>5 DEF Statuses

(* The fact the invariants below rest on: a step of the system keeps what  *)
(* they relate, or is one of the moves that changes all of it at once.     *)
LEMMA EveryStepKeepsOrMoves ==
  TypeOK /\ [Next]_vars => Kept \/ \E from, to \in Statuses : Moved(from, to)
  <1> SUFFICES ASSUME TypeOK, [Next]_vars
               PROVE  Kept \/ \E from, to \in Statuses : Moved(from, to)
    OBVIOUS
  <1> USE DEF Kept
  <1>1. CASE UNCHANGED vars
    BY <1>1 DEF vars, rows
  <1>2. ASSUME NEW r \in Requests, Read(r) \/ Fail(r)
        PROVE  Kept
    BY <1>2 DEF Read, Fail, rows
  <1>3. ASSUME NEW r \in Requests, TransitionStatus(r)
        PROVE  \E from, to \in Statuses : Moved(from, to)
    BY <1>3, TransitionMoves
  <1>4. ASSUME NEW r \in Requests, AssignAndTransition(r)
        PROVE  \E from, to \in Statuses : Moved(from, to)
    BY <1>4, AssignmentMoves
  <1>5. ASSUME NEW r \in Requests, EscalateTicket(r)
        PROVE  \E from, to \in Statuses : Moved(from, to)
    BY <1>5, EscalationMoves
  <1>6. ASSUME NEW r \in Requests, AssignOnly(r) \/ ReassignTicket(r)
        PROVE  Kept
    BY <1>6 DEF AssignOnly, ReassignTicket, TypeOK, Ticket
  <1>7. ASSUME NEW r \in Requests, StampFirstResponse(r) \/ UpdateTicket(r)
        PROVE  Kept
    BY <1>7 DEF StampFirstResponse, UpdateTicket, TypeOK, Ticket
  <1>8. ASSUME NEW r \in Requests,
               SyncTracking(r) \/ AddMessage(r) \/ RecordReassignment(r)
        PROVE  Kept
    BY <1>8 DEF SyncTracking, AddMessage, RecordReassignment
  <1>9. CASE AttachSla \/ Tick
    BY <1>9 DEF AttachSla, Tick, rows
  <1> QED
    BY <1>1, <1>2, <1>3, <1>4, <1>5, <1>6, <1>7, <1>8, <1>9 DEF Next, Handle

(***************************************************************************)
(* The invariants that hold however the requests interleave and fail.      *)
(***************************************************************************)

(* A step keeps the status and the history, or moves both.                *)
LEMMA StatusStep ==
  TypeOK /\ StatusIsLatestHistory /\ [Next]_vars
    => StatusIsLatestHistory'
  <1> SUFFICES ASSUME TypeOK, StatusIsLatestHistory, [Next]_vars
               PROVE  StatusIsLatestHistory'
    OBVIOUS
  <1>1. CASE Kept
    BY <1>1 DEF Kept, StatusIsLatestHistory
  <1>2. ASSUME NEW from \in Statuses, NEW to \in Statuses, Moved(from, to)
        PROVE  StatusIsLatestHistory'
    <2>1. /\ history \in Seq(HistoryRow)
          /\ [old |-> from, new |-> to] \in HistoryRow
          /\ history' = Append(history, [old |-> from, new |-> to])
      BY <1>2 DEF Moved, Record, TypeOK, HistoryRow
    <2>2. /\ history' # <<>>
          /\ history'[Len(history')] = [old |-> from, new |-> to]
      BY <2>1
    <2> QED
      BY <1>2, <2>2 DEF Moved, StatusIsLatestHistory
  <1> QED
    BY <1>1, <1>2, EveryStepKeepsOrMoves

(* The last history row gives the ticket's status: for any number of       *)
(* overlapping requests, not only the instances that are model checked.    *)
THEOREM StatusFollowsHistory == Spec => []StatusIsLatestHistory
  <1>1. Init => StatusIsLatestHistory
    BY DEF Init, StatusIsLatestHistory, NewTicket, CreatedByApi, CreatedByEmail
  <1> QED
    BY <1>1, StatusStep, TypeCorrect, PTL DEF Spec

(* A step keeps the level and the escalation events, or moves both.        *)
LEMMA LevelStep ==
  TypeOK /\ LevelIsLatestEscalation /\ [Next]_vars
    => LevelIsLatestEscalation'
  <1> SUFFICES ASSUME TypeOK, LevelIsLatestEscalation, [Next]_vars
               PROVE  LevelIsLatestEscalation'
    OBVIOUS
  <1>1. CASE Kept \/ NotEscalated
    BY <1>1 DEF Kept, NotEscalated, LevelIsLatestEscalation
  <1>2. CASE Escalated
    <2>1. PICK e \in EscalationRow : /\ escalations' = Append(escalations, e)
                                     /\ ticket'.level = e.newLevel
      BY <1>2 DEF Escalated
    <2>2. escalations \in Seq(EscalationRow)
      BY DEF TypeOK
    <2>3. escalations' # <<>> /\ escalations'[Len(escalations')] = e
      BY <2>1, <2>2
    <2> QED
      BY <2>1, <2>3 DEF LevelIsLatestEscalation
  <1> QED
    BY <1>1, <1>2, EveryStepKeepsOrMoves DEF Moved

(* The last escalation event gives the ticket's level.                     *)
THEOREM LevelFollowsEscalations == Spec => []LevelIsLatestEscalation
  <1>1. Init => LevelIsLatestEscalation
    BY DEF Init, LevelIsLatestEscalation, NewTicket
  <1> QED
    BY <1>1, LevelStep, TypeCorrect, PTL DEF Spec

(* A step that settles the ticket stamps it, one that clears a stamp       *)
(* reopens it.                                                             *)
LEMMA SettledStep ==
  TypeOK /\ SettledIsStamped /\ [Next]_vars => SettledIsStamped'
  BY EveryStepKeepsOrMoves DEF Kept, Moved, SettledIsStamped

(* A resolved or closed ticket is stamped, even one that was reopened in   *)
(* between: the stamp and the status are written together.                 *)
THEOREM SettledTicketsAreStamped == Spec => []SettledIsStamped
  <1>1. Init => SettledIsStamped
    BY DEF Init, SettledIsStamped, NewTicket
  <1> QED
    BY <1>1, SettledStep, TypeCorrect, PTL DEF Spec

(***************************************************************************)
(* Counting rows.                                                          *)
(***************************************************************************)

(* A set of positions of a sequence is finite, and one position past its   *)
(* end makes the set larger by one.                                        *)
LEMMA OneRowMore ==
  ASSUME NEW n \in Nat, NEW I \in SUBSET (1..n)
  PROVE  /\ Cardinality(I) \in Nat
         /\ Cardinality(I \cup {n + 1}) = Cardinality(I) + 1
  <1>1. IsFiniteSet(I)
    <2>1. IsFiniteSet(1..n)
      BY FS_Interval
    <2> QED
      BY <2>1, FS_Subset
  <1>2. n + 1 \notin I
    OBVIOUS
  <1> QED
    BY <1>1, <1>2, FS_AddElement, FS_CardinalityType

(* A row appended to the history adds one REOPENED row or none.            *)
LEMMA ReopenRowsAppend ==
  ASSUME NEW h \in Seq(HistoryRow), NEW row \in HistoryRow
  PROVE  Cardinality(ReopenRows(Append(h, row))) =
           IF row.new = "REOPENED" THEN Cardinality(ReopenRows(h)) + 1
                                   ELSE Cardinality(ReopenRows(h))
  <1>1. ReopenRows(h) \in SUBSET (1..Len(h)) /\ Len(h) \in Nat
    BY DEF ReopenRows
  <1>2. ReopenRows(Append(h, row)) = IF row.new = "REOPENED"
                                       THEN ReopenRows(h) \cup {Len(h) + 1}
                                       ELSE ReopenRows(h)
    BY DEF ReopenRows
  <1> QED
    BY <1>1, <1>2, OneRowMore

(* ... and one ESCALATED row or none.                                      *)
LEMMA EscalatedRowsAppend ==
  ASSUME NEW h \in Seq(HistoryRow), NEW row \in HistoryRow
  PROVE  Cardinality(EscalatedRows(Append(h, row))) =
           IF row.new = "ESCALATED" THEN Cardinality(EscalatedRows(h)) + 1
                                    ELSE Cardinality(EscalatedRows(h))
  <1>1. EscalatedRows(h) \in SUBSET (1..Len(h)) /\ Len(h) \in Nat
    BY DEF EscalatedRows
  <1>2. EscalatedRows(Append(h, row)) = IF row.new = "ESCALATED"
                                          THEN EscalatedRows(h) \cup {Len(h) + 1}
                                          ELSE EscalatedRows(h)
    BY DEF EscalatedRows
  <1> QED
    BY <1>1, <1>2, OneRowMore

(* An escalation event a request appends is one more such event.           *)
LEMMA RequestedRowsAppend ==
  ASSUME NEW es \in Seq(EscalationRow), NEW e \in EscalationRow
  PROVE  Cardinality(RequestedRows(Append(es, e))) =
           IF e.by = "request" THEN Cardinality(RequestedRows(es)) + 1
                               ELSE Cardinality(RequestedRows(es))
  <1>1. RequestedRows(es) \in SUBSET (1..Len(es)) /\ Len(es) \in Nat
    BY DEF RequestedRows
  <1>2. RequestedRows(Append(es, e)) = IF e.by = "request"
                                         THEN RequestedRows(es) \cup {Len(es) + 1}
                                         ELSE RequestedRows(es)
    BY DEF RequestedRows
  <1> QED
    BY <1>1, <1>2, OneRowMore

(* A step that reopens counts one more and records one more.               *)
LEMMA ReopenStep ==
  TypeOK /\ ReopenCountIsHistory /\ [Next]_vars => ReopenCountIsHistory'
  <1> SUFFICES ASSUME TypeOK, ReopenCountIsHistory, [Next]_vars
               PROVE  ReopenCountIsHistory'
    OBVIOUS
  <1>1. CASE Kept
    BY <1>1 DEF Kept, ReopenCountIsHistory
  <1>2. ASSUME NEW from \in Statuses, NEW to \in Statuses, Moved(from, to)
        PROVE  ReopenCountIsHistory'
    <2>1. /\ history \in Seq(HistoryRow)
          /\ [old |-> from, new |-> to] \in HistoryRow
          /\ history' = Append(history, [old |-> from, new |-> to])
      BY <1>2 DEF Moved, Record, TypeOK, HistoryRow
    <2> QED
      BY <1>2, <2>1, ReopenRowsAppend DEF Moved, ReopenCountIsHistory
  <1> QED
    BY <1>1, <1>2, EveryStepKeepsOrMoves

(* A new ticket was never reopened.                                        *)
LEMMA InitReopenings == Init => ReopenCountIsHistory
  <1> SUFFICES ASSUME Init PROVE ReopenCountIsHistory
    OBVIOUS
  <1>1. ReopenRows(history) = {}
    BY DEF Init, CreatedByApi, CreatedByEmail, ReopenRows
  <1> QED
    BY <1>1, FS_EmptySet DEF Init, NewTicket, ReopenCountIsHistory

(* reopenCount counts the reopenings on record, for any number of          *)
(* overlapping requests: no increment is lost.                             *)
THEOREM ReopeningsAreCounted == Spec => []ReopenCountIsHistory
  BY InitReopenings, ReopenStep, TypeCorrect, PTL DEF Spec

(* A step that escalates adds an event and an ESCALATED row, others none.  *)
LEMMA LedgerStep ==
  TypeOK /\ EscalationsAreLedgered /\ [Next]_vars
    => EscalationsAreLedgered'
  <1> SUFFICES ASSUME TypeOK, EscalationsAreLedgered, [Next]_vars
               PROVE  EscalationsAreLedgered'
    OBVIOUS
  <1>1. CASE Kept
    BY <1>1 DEF Kept, EscalationsAreLedgered
  <1>2. ASSUME NEW from \in Statuses, NEW to \in Statuses, Moved(from, to)
        PROVE  EscalationsAreLedgered'
    <2>1. /\ history \in Seq(HistoryRow) /\ escalations \in Seq(EscalationRow)
          /\ [old |-> from, new |-> to] \in HistoryRow
          /\ history' = Append(history, [old |-> from, new |-> to])
      BY <1>2 DEF Moved, Record, TypeOK, HistoryRow
    <2>2. CASE to = "ESCALATED"
      <3>1. PICK e \in EscalationRow :
              /\ e.by = "request"
              /\ escalations' = Append(escalations, e)
              /\ ticket'.isEscalated = TRUE
        BY <1>2, <2>2 DEF Moved, Escalated
      <3>2. escalations' # <<>>
        BY <2>1, <3>1
      <3> QED
        BY <2>1, <2>2, <3>1, <3>2, EscalatedRowsAppend, RequestedRowsAppend
           DEF EscalationsAreLedgered
    <2>3. CASE to # "ESCALATED"
      BY <1>2, <2>1, <2>3, EscalatedRowsAppend
         DEF Moved, NotEscalated, EscalationsAreLedgered
    <2> QED
      BY <2>2, <2>3
  <1> QED
    BY <1>1, <1>2, EveryStepKeepsOrMoves

(* The escalations requests made are the ESCALATED rows of the history,    *)
(* and isEscalated tells whether there is any.                             *)
THEOREM EscalationsMatchHistory == Spec => []EscalationsAreLedgered
  <1>1. Init => EscalationsAreLedgered
    <2> SUFFICES ASSUME Init PROVE EscalationsAreLedgered
      OBVIOUS
    <2>1. EscalatedRows(history) = {} /\ RequestedRows(escalations) = {}
      BY DEF Init, CreatedByApi, CreatedByEmail, EscalatedRows, RequestedRows
    <2> QED
      BY <2>1, FS_EmptySet DEF Init, NewTicket, EscalationsAreLedgered
  <1> QED
    BY <1>1, LedgerStep, TypeCorrect, PTL DEF Spec

(* The rows that hang on a ticket explain its status, counters, level,     *)
(* flag and stamps at every moment, for any number of overlapping and      *)
(* dying requests.                                                         *)
THEOREM TrailExplainsTheTicket == Spec => []TrailExplainsTicket
  <1>1. StatusIsLatestHistory /\ ReopenCountIsHistory /\ LevelIsLatestEscalation /\
      EscalationsAreLedgered /\ SettledIsStamped => TrailExplainsTicket
    BY DEF TrailExplainsTicket
  <1> QED
    BY <1>1, StatusFollowsHistory, ReopeningsAreCounted, LevelFollowsEscalations,
       EscalationsMatchHistory, SettledTicketsAreStamped, PTL

(***************************************************************************)
(* Answers and their stamp.                                                *)
(***************************************************************************)

(* The first-response stamp may move, but once there it is never cleared.  *)
LEMMA ResponseStays ==
  TypeOK /\ [Next]_vars /\ ticket.firstResponseAt # None
    => ticket'.firstResponseAt # None
  <1> SUFFICES ASSUME TypeOK, [Next]_vars, ticket.firstResponseAt # None
               PROVE  ticket'.firstResponseAt # None
    OBVIOUS
  <1> USE DEF TypeOK, Ticket
  <1>1. CASE UNCHANGED vars
    BY <1>1 DEF vars, rows
  <1>2. ASSUME NEW r \in Requests, TransitionStatus(r)
        PROVE  ticket'.firstResponseAt # None
    BY <1>2 DEF TransitionStatus, At, Transitioned
  <1>3. ASSUME NEW r \in Requests,
               \/ AssignAndTransition(r) \/ AssignOnly(r)
               \/ EscalateTicket(r) \/ UpdateTicket(r) \/ ReassignTicket(r)
        PROVE  ticket'.firstResponseAt # None
    BY <1>3 DEF AssignAndTransition, AssignOnly, EscalateTicket, UpdateTicket,
                ReassignTicket
  <1>4. ASSUME NEW r \in Requests, StampFirstResponse(r)
        PROVE  ticket'.firstResponseAt # None
    BY <1>4, LifecycleAssumption DEF StampFirstResponse, Time
  <1>5. ASSUME NEW r \in Requests,
               \/ Read(r) \/ Fail(r) \/ AddMessage(r)
               \/ SyncTracking(r) \/ RecordReassignment(r)
        PROVE  ticket' = ticket
    BY <1>5 DEF Read, Fail, AddMessage, SyncTracking, RecordReassignment, rows
  <1>6. CASE AttachSla \/ Tick
    BY <1>6 DEF AttachSla, Tick, rows
  <1> QED
    BY <1>1, <1>2, <1>3, <1>4, <1>5, <1>6 DEF Next, Handle

(* A request that read a first response reads it still: its copy may be    *)
(* stale about everything but that.                                        *)
SeenResponseStands ==
  \A r \in Requests :
    (requests[r].stage = "commit" /\ requests[r].seen.firstResponseAt # None)
      => ticket.firstResponseAt # None

(* A step of one request leaves the others where they are.                 *)
OthersStay(r) == \A x \in Requests \ {r} : requests'[x] = requests[x]

(* ... whichever of its steps it takes.                                    *)
LEMMA OneRequestMoves ==
  ASSUME TypeOK, NEW r \in Requests, Read(r) \/ Handle(r) \/ Fail(r)
  PROVE  OthersStay(r)
  <1> USE DEF TypeOK, OthersStay
  <1>1. CASE Read(r)
    BY <1>1 DEF Read
  <1>2. CASE Finish(r) \/ Continue(r)
    BY <1>2 DEF Finish, Continue
  <1>3. Handle(r) \/ Fail(r) => Finish(r) \/ Continue(r)
    BY DEF Handle, Fail, TransitionStatus, AssignAndTransition, AssignOnly,
           EscalateTicket, SyncTracking, AddMessage, StampFirstResponse,
           UpdateTicket, ReassignTicket, RecordReassignment
  <1> QED
    BY <1>1, <1>2, <1>3

(* A step that leaves a request about to commit either is its Read or      *)
(* leaves it alone.                                                        *)
LEMMA CommitComesFromRead ==
  ASSUME TypeOK, [Next]_vars, NEW r \in Requests, requests'[r].stage = "commit"
  PROVE  Read(r) \/ requests'[r] = requests[r]
  <1>1. CASE UNCHANGED requests
    BY <1>1
  <1>2. ASSUME NEW x \in Requests, Read(x) \/ Handle(x) \/ Fail(x)
        PROVE  Read(r) \/ requests'[r] = requests[r]
    <2>1. CASE x # r
      BY <1>2, <2>1, OneRequestMoves DEF OthersStay
    <2>2. CASE x = r /\ ~Read(r)
      <3>1. Finish(r) \/ Continue(r)
        BY <1>2, <2>2 DEF Handle, Fail, TransitionStatus, AssignAndTransition,
           AssignOnly, EscalateTicket, SyncTracking, AddMessage,
           StampFirstResponse, UpdateTicket, ReassignTicket, RecordReassignment
      <3>2. CASE Finish(r)
        BY <3>2 DEF Finish, TypeOK, Idle
      <3>3. CASE Continue(r)
        <4>1. requests[r] \in Active
          BY <1>2, <2>2, BusyIsActive DEF TypeOK, Idle, Handle, Fail, At,
             TransitionStatus, AssignAndTransition, AssignOnly, EscalateTicket,
             SyncTracking, AddMessage, StampFirstResponse, UpdateTicket,
             ReassignTicket, RecordReassignment
        <4> QED
          BY <3>3, <4>1 DEF Continue, TypeOK, Active
      <3> QED
        BY <3>1, <3>2, <3>3
    <2> QED
      BY <2>1, <2>2
  <1> QED
    BY <1>1, <1>2 DEF Next, AttachSla, Tick, vars

(* No step clears the stamp under a copy that had one.                     *)
LEMMA SeenResponseStandsStep ==
  TypeOK /\ SeenResponseStands /\ [Next]_vars => SeenResponseStands'
  <1> SUFFICES ASSUME TypeOK, SeenResponseStands, [Next]_vars, NEW r \in Requests,
                      requests'[r].stage = "commit",
                      requests'[r].seen.firstResponseAt # None
               PROVE  ticket'.firstResponseAt # None
    BY DEF SeenResponseStands
  <1>1. CASE requests'[r] = requests[r]
    BY <1>1, ResponseStays DEF SeenResponseStands
  <1>2. CASE Read(r)
    <2>1. requests'[r].seen = ticket
      BY <1>2 DEF Read, TypeOK
    <2> QED
      BY <2>1, ResponseStays
  <1> QED
    BY <1>1, <1>2, CommitComesFromRead

(* The step that answers, and the steps of the other requests, keep an     *)
(* answer from being lost.                                                 *)
LEMMA NoAnswerIsLostStep ==
  TypeOK /\ SeenResponseStands /\ NoAnswerIsLost /\ [Next]_vars => NoAnswerIsLost'
  <1> SUFFICES ASSUME TypeOK, SeenResponseStands, NoAnswerIsLost, [Next]_vars,
                      comments' > 0, ticket'.firstResponseAt = None
               PROVE  (\E r \in Requests : At(r, "after", {"message"}))' \/ failures' > 0
    BY DEF NoAnswerIsLost
  <1>1. ticket.firstResponseAt = None
    BY ResponseStays
  <1>2. CASE UNCHANGED <<comments, requests, failures>>
    BY <1>1, <1>2 DEF NoAnswerIsLost, At
  <1>3. ASSUME NEW r \in Requests, AddMessage(r)
        PROVE  At(r, "after", {"message"})'
    <2>1. requests[r] \in Active /\ requests[r].op = "message"
      BY <1>3, BusyIsActive DEF AddMessage, At
    <2>2. requests[r].seen.firstResponseAt = None
      BY <1>1, <1>3 DEF AddMessage, At, SeenResponseStands
    <2>3. requests' = [requests EXCEPT ![r].stage = "after"]
      BY <1>3, <2>2 DEF AddMessage, Continue
    <2> QED
      BY <2>1, <2>3 DEF At, TypeOK, Active
  <1>4. ASSUME NEW r \in Requests, StampFirstResponse(r)
        PROVE  FALSE
    BY <1>4, LifecycleAssumption DEF StampFirstResponse, TypeOK, Ticket, Time
  <1>5. ASSUME NEW r \in Requests, Fail(r)
        PROVE  failures' > 0
    BY <1>5 DEF Fail, TypeOK
  <1>6. ASSUME NEW r \in Requests, Read(r) \/ Handle(r),
               ~AddMessage(r), ~StampFirstResponse(r)
        PROVE  (\E x \in Requests : At(x, "after", {"message"}))' \/ failures' > 0
    <2>1. UNCHANGED <<comments, failures>> /\ ~At(r, "after", {"message"})
      BY <1>6 DEF Read, Handle, At, Idle, TransitionStatus, AssignAndTransition,
         AssignOnly, EscalateTicket, SyncTracking, UpdateTicket, ReassignTicket,
         RecordReassignment, rows
    <2>2. OthersStay(r)
      BY <1>6, OneRequestMoves
    <2> QED
      BY <1>1, <2>1, <2>2 DEF NoAnswerIsLost, OthersStay, At
  <1> QED
    BY <1>2, <1>3, <1>4, <1>5, <1>6 DEF Next, Handle, AttachSla, Tick, vars, rows

(* However many answers overlap, an answered ticket ends up stamped unless *)
(* a request died. It needs SeenResponseStands: a handler that skips the   *)
(* stamp because its copy had one relies on the stamp never going away.    *)
THEOREM AnswersAreStamped == Spec => []NoAnswerIsLost
  <1>1. Init => SeenResponseStands /\ NoAnswerIsLost
    BY DEF Init, SeenResponseStands, NoAnswerIsLost, Idle
  <1> QED
    BY <1>1, SeenResponseStandsStep, NoAnswerIsLostStep, TypeCorrect, PTL DEF Spec

(***************************************************************************)
(* Assignments.                                                            *)
(***************************************************************************)

(* The assignee is named by a reassignment that has its row still to       *)
(* write, or by row i, when no more rows can come after it than requests   *)
(* that are about to write one.                                            *)
NamedByPending == \E r \in Reassigning : requests[r].agent = ticket.assignee

NamedByRow(i) ==
  /\ RowNames(i) = ticket.assignee
  /\ Len(assignments) - i + Cardinality(Reassigning) < Cardinality(Requests)

AssigneeIsTraced ==
  failures > 0 \/ NamedByPending \/ \E i \in 0..Len(assignments) : NamedByRow(i)

(* Except the two writes of a reassignment, no step changes which          *)
(* reassignments have their row still to write, or whom they name.         *)
LEMMA ReassigningStays ==
  ASSUME TypeOK, NEW r \in Requests, Read(r) \/ Handle(r),
         ~ReassignTicket(r), ~RecordReassignment(r)
  PROVE  /\ Reassigning' = Reassigning
         /\ \A x \in Reassigning : requests'[x].agent = requests[x].agent
  <1>1. OthersStay(r)
    BY OneRequestMoves
  <1>2. r \notin Reassigning /\ ~At(r, "after", {"reassign"})'
    <2>1. CASE Read(r)
      <3>1. requests[r] = Idle /\ requests'[r].stage = "commit"
        BY <2>1 DEF Read, TypeOK
      <3> QED
        BY <3>1 DEF Reassigning, At, Idle
    <2>2. CASE Handle(r)
      <3>1. Finish(r) \/ Continue(r)
        BY <2>2 DEF Handle, TransitionStatus, AssignAndTransition, AssignOnly,
           EscalateTicket, SyncTracking, AddMessage, StampFirstResponse,
           UpdateTicket, ReassignTicket, RecordReassignment
      <3>2. requests[r].op # "reassign" /\ requests[r] \in Active
        BY <2>2, BusyIsActive DEF Handle, At, TransitionStatus,
           AssignAndTransition, AssignOnly, EscalateTicket, SyncTracking,
           AddMessage, StampFirstResponse, UpdateTicket
      <3>3. CASE Finish(r)
        BY <3>2, <3>3 DEF Finish, TypeOK, Reassigning, At, Idle
      <3>4. CASE Continue(r)
        BY <3>2, <3>4 DEF Continue, TypeOK, Reassigning, At, Active
      <3> QED
        BY <3>1, <3>3, <3>4
    <2> QED
      BY <2>1, <2>2
  <1> QED
    BY <1>1, <1>2 DEF OthersStay, Reassigning, At

(* The trace survives a step that writes neither the assignee nor a row    *)
(* nor moves a reassignment.                                               *)
LEMMA TraceStays ==
  ASSUME AssigneeIsTraced, UNCHANGED <<assignments, failures>>,
         ticket'.assignee = ticket.assignee, Reassigning' = Reassigning,
         \A x \in Reassigning : requests'[x].agent = requests[x].agent
  PROVE  AssigneeIsTraced'
  <1>1. NamedByPending => NamedByPending'
    BY DEF NamedByPending
  <1>2. \A i \in 0..Len(assignments) : NamedByRow(i) => NamedByRow(i)'
    BY DEF NamedByRow, RowNames
  <1> QED
    BY <1>1, <1>2 DEF AssigneeIsTraced

(* A row that is written leaves the earlier ones as they were.             *)
LEMMA RowAdded ==
  ASSUME TypeOK, NEW a \in Assignee, assignments' = Append(assignments, a)
  PROVE  \E n \in Nat :
           /\ Len(assignments) = n /\ Len(assignments') = n + 1
           /\ RowNames(n + 1)' = a
           /\ \A i \in 0..n : RowNames(i)' = RowNames(i)
  <1>1. assignments \in Seq(Assignee)
    BY DEF TypeOK
  <1>2. PICK n \in Nat : n = Len(assignments)
    BY <1>1
  <1>3. /\ Len(assignments') = n + 1 /\ assignments'[n + 1] = a
        /\ \A i \in 1..n : assignments'[i] = assignments[i]
    BY <1>1, <1>2
  <1>4. RowNames(n + 1)' = a
    BY <1>3 DEF RowNames
  <1>5. \A i \in 0..n : RowNames(i)' = RowNames(i)
    BY <1>3 DEF RowNames
  <1> QED
    BY <1>2, <1>3, <1>4, <1>5

(* assignTicket names the assignee in a row of the same transaction.       *)
LEMMA AssignIsTraced ==
  ASSUME TypeOK, IsFiniteSet(Requests), NEW r \in Requests,
         AssignAndTransition(r) \/ AssignOnly(r)
  PROVE  AssigneeIsTraced'
  <1> DEFINE a == requests[r].agent
  <1>1. a \in Assignee /\ ticket \in Ticket
    BY BusyIsActive DEF AssignAndTransition, AssignOnly, At, Active, TypeOK
  <1>2. assignments' = Append(assignments, a)
    BY DEF AssignAndTransition, AssignOnly
  <1>3. ticket'.assignee = a
    <2>1. \/ ticket' = [ticket EXCEPT !.status = "ASSIGNED", !.assignee = a]
          \/ ticket' = [ticket EXCEPT !.assignee = a]
      BY DEF AssignAndTransition, AssignOnly
    <2> QED
      BY <1>1, <2>1 DEF Ticket
  <1>4. PICK n \in Nat : Len(assignments') = n + 1 /\ RowNames(n + 1)' = a
    BY <1>1, <1>2, RowAdded
  <1>5. Cardinality(Reassigning') < Cardinality(Requests) /\ Cardinality(Reassigning') \in Nat
    <2>1. Reassigning' = Reassigning
      BY ReassigningStays DEF Handle, AssignAndTransition, AssignOnly, At,
         ReassignTicket, RecordReassignment
    <2>2. r \notin Reassigning /\ Reassigning \subseteq Requests
      BY DEF Reassigning, AssignAndTransition, AssignOnly, At
    <2>3. Reassigning # Requests
      BY <2>2
    <2> QED
      BY <2>1, <2>2, <2>3, FS_Subset, FS_CardinalityType
  <1>6. NamedByRow(n + 1)'
    <2>1. n + 1 - (n + 1) + Cardinality(Reassigning') = Cardinality(Reassigning')
      BY <1>4, <1>5
    <2> QED
      BY <1>3, <1>4, <1>5, <2>1 DEF NamedByRow
  <1> QED
    BY <1>4, <1>6 DEF AssigneeIsTraced

(* A reassignment names the assignee until it has written its row.         *)
LEMMA ReassignIsTraced ==
  ASSUME TypeOK, NEW r \in Requests, ReassignTicket(r)
  PROVE  AssigneeIsTraced'
  <1>1. requests[r] \in Active /\ ticket \in Ticket
    BY BusyIsActive DEF ReassignTicket, At, TypeOK
  <1>2. ticket'.assignee = requests[r].agent
    BY <1>1 DEF ReassignTicket, Ticket
  <1>3. At(r, "after", {"reassign"})' /\ requests'[r].agent = requests[r].agent
    BY <1>1 DEF ReassignTicket, At, Continue, TypeOK, Active
  <1>4. r \in Reassigning'
    BY <1>3 DEF Reassigning
  <1>5. NamedByPending'
    BY <1>2, <1>3, <1>4 DEF NamedByPending
  <1> QED
    BY <1>5 DEF AssigneeIsTraced

(* Its row then names the assignee, or comes after the one that does: one  *)
(* row more, one request fewer that is about to write one.                 *)
LEMMA RecordingIsTraced ==
  ASSUME TypeOK, IsFiniteSet(Requests), AssigneeIsTraced,
         NEW r \in Requests, RecordReassignment(r)
  PROVE  AssigneeIsTraced'
  <1> DEFINE a == requests[r].agent
  <1>1. requests[r] \in Active /\ a \in Assignee /\ ticket' = ticket
        /\ failures' = failures
    BY BusyIsActive DEF RecordReassignment, At, Active
  <1>2. assignments' = Append(assignments, a) /\ r \in Reassigning
    BY DEF RecordReassignment, Reassigning
  <1>3. PICK n \in Nat :
           /\ Len(assignments) = n /\ Len(assignments') = n + 1
           /\ RowNames(n + 1)' = a
           /\ \A i \in 0..n : RowNames(i)' = RowNames(i)
    BY <1>1, <1>2, RowAdded
  <1>4. /\ Reassigning' = Reassigning \ {r}
        /\ \A x \in Reassigning \ {r} : requests'[x] = requests[x]
    <2>1. OthersStay(r)
      BY OneRequestMoves DEF Handle
    <2>2. requests'[r] = Idle
      BY DEF RecordReassignment, Finish, TypeOK
    <2> QED
      BY <2>1, <2>2 DEF OthersStay, Reassigning, At, Idle
  <1>5. /\ Cardinality(Reassigning') = Cardinality(Reassigning) - 1
        /\ Cardinality(Reassigning) \in Nat /\ Cardinality(Requests) \in Nat
        /\ Cardinality(Reassigning) <= Cardinality(Requests)
    <2>1. IsFiniteSet(Reassigning) /\ Reassigning \subseteq Requests
      BY FS_Subset DEF Reassigning
    <2> QED
      BY <2>1, <1>2, <1>4, FS_Subset, FS_CardinalityType, FS_RemoveElement
  <1>6. CASE failures > 0
    BY <1>1, <1>6 DEF AssigneeIsTraced
  <1>7. ASSUME NEW x \in Reassigning, requests[x].agent = ticket.assignee
        PROVE  AssigneeIsTraced'
    <2>1. CASE x = r
      <3>1. n + 1 - (n + 1) + Cardinality(Reassigning') < Cardinality(Requests)
        BY <1>3, <1>5
      <3>2. NamedByRow(n + 1)'
        BY <3>1, <2>1, <1>7, <1>1, <1>3 DEF NamedByRow
      <3> QED
        BY <3>2, <1>3 DEF AssigneeIsTraced
    <2>2. CASE x # r
      BY <2>2, <1>7, <1>1, <1>4 DEF AssigneeIsTraced, NamedByPending
    <2> QED
      BY <2>1, <2>2
  <1>8. ASSUME NEW i \in 0..n, NamedByRow(i)
        PROVE  AssigneeIsTraced'
    <2>1. n + 1 - i + Cardinality(Reassigning') < Cardinality(Requests)
      BY <1>8, <1>3, <1>5 DEF NamedByRow
    <2>2. NamedByRow(i)'
      BY <2>1, <1>8, <1>1, <1>3 DEF NamedByRow
    <2> QED
      BY <2>2, <1>3 DEF AssigneeIsTraced
  <1> QED
    BY <1>3, <1>6, <1>7, <1>8 DEF AssigneeIsTraced, NamedByPending

(* Whatever a step does, the assignee stays traced.                        *)
LEMMA AssigneeIsTracedStep ==
  ASSUME IsFiniteSet(Requests)
  PROVE  TypeOK /\ AssigneeIsTraced /\ [Next]_vars => AssigneeIsTraced'
  <1> SUFFICES ASSUME TypeOK, AssigneeIsTraced, [Next]_vars
               PROVE  AssigneeIsTraced'
    OBVIOUS
  <1>1. CASE AttachSla \/ Tick \/ UNCHANGED vars
    BY <1>1, TraceStays DEF AttachSla, Tick, vars, rows, Reassigning, At
  <1>2. ASSUME NEW r \in Requests, Fail(r)
        PROVE  AssigneeIsTraced'
    BY <1>2 DEF Fail, TypeOK, AssigneeIsTraced
  <1>3. ASSUME NEW r \in Requests, AssignAndTransition(r) \/ AssignOnly(r)
        PROVE  AssigneeIsTraced'
    BY <1>3, AssignIsTraced
  <1>4. ASSUME NEW r \in Requests, ReassignTicket(r)
        PROVE  AssigneeIsTraced'
    BY <1>4, ReassignIsTraced
  <1>5. ASSUME NEW r \in Requests, RecordReassignment(r)
        PROVE  AssigneeIsTraced'
    BY <1>5, RecordingIsTraced
  <1>6. ASSUME NEW r \in Requests,
               \/ Read(r) \/ TransitionStatus(r) \/ EscalateTicket(r)
               \/ SyncTracking(r) \/ AddMessage(r) \/ StampFirstResponse(r)
               \/ UpdateTicket(r)
        PROVE  AssigneeIsTraced'
    <2>1. UNCHANGED <<assignments, failures>> /\ ticket'.assignee = ticket.assignee
      <3>1. CASE TransitionStatus(r)
        BY <3>1 DEF TransitionStatus, At, Transitioned, TypeOK, Ticket
      <3>2. CASE ~TransitionStatus(r)
        BY <1>6, <3>2 DEF Read, EscalateTicket, SyncTracking, AddMessage,
           StampFirstResponse, UpdateTicket, TypeOK, Ticket, rows
      <3> QED
        BY <3>1, <3>2
    <2>2. /\ Reassigning' = Reassigning
          /\ \A x \in Reassigning : requests'[x].agent = requests[x].agent
      <3>1. ~ReassignTicket(r) /\ ~RecordReassignment(r)
        BY <1>6 DEF Read, At, Idle, TransitionStatus, EscalateTicket, SyncTracking,
           AddMessage, StampFirstResponse, UpdateTicket, ReassignTicket,
           RecordReassignment
      <3> QED
        BY <1>6, <3>1, ReassigningStays DEF Handle
    <2> QED
      BY <2>1, <2>2, TraceStays
  <1> QED
    BY <1>1, <1>2, <1>3, <1>4, <1>5, <1>6 DEF Next, Handle

(* However assignments and administrators' reassignments overlap, and      *)
(* however far apart a reassignment's two writes are, whoever has the      *)
(* ticket is named by one of its last rows or about to be, unless a        *)
(* request died. The invariant counts the rows that can still come after   *)
(* the one that names the assignee.                                        *)
THEOREM AssigneeStaysOnRecord ==
  ASSUME IsFiniteSet(Requests), Requests # {}
  PROVE  Spec => []AssigneeIsOnRecord
  <1>1. Init => AssigneeIsTraced
    <2> SUFFICES ASSUME Init PROVE AssigneeIsTraced
      OBVIOUS
    <2>1. Reassigning = {} /\ Cardinality(Reassigning) = 0
      BY FS_EmptySet DEF Init, Reassigning, At, Idle
    <2>2. Cardinality(Requests) \in Nat /\ Cardinality(Requests) # 0
      BY FS_EmptySet, FS_CardinalityType
    <2>3. Len(assignments) = 0 /\ RowNames(0) = ticket.assignee
      BY DEF Init, RowNames, NewTicket
    <2>4. NamedByRow(0)
      BY <2>1, <2>2, <2>3 DEF NamedByRow
    <2> QED
      BY <2>3, <2>4 DEF AssigneeIsTraced
  <1>2. TypeOK /\ AssigneeIsTraced => AssigneeIsOnRecord
    <2> SUFFICES ASSUME TypeOK, NEW i \in 0..Len(assignments), NamedByRow(i)
                 PROVE  AssigneeIsOnRecord
      BY DEF AssigneeIsTraced, AssigneeIsOnRecord, NamedByPending
    <2>1. Cardinality(Reassigning) \in Nat /\ Cardinality(Requests) \in Nat
      BY FS_Subset, FS_CardinalityType DEF Reassigning
    <2>2. Len(assignments) \in Nat
      BY DEF TypeOK
    <2>3. Len(assignments) - i < Cardinality(Requests)
      BY <2>1, <2>2 DEF NamedByRow
    <2> QED
      BY <2>3 DEF NamedByRow, AssigneeIsOnRecord
  <1> QED
    BY <1>1, <1>2, AssigneeIsTracedStep, TypeCorrect, PTL DEF Spec

(***************************************************************************)
(* One request at a time.                                                  *)
(***************************************************************************)

(* What the theorems suppose: a request is not overlapped by another.      *)
Lone == \A r, s \in Requests : r = s

(* A lone request commits on the ticket it read, one that is about to      *)
(* write the first response finds none.                                    *)
CopyIsCurrent ==
  \A r \in Requests :
    /\ requests[r].stage = "commit" =>
         /\ requests[r].seen = ticket
         /\ Accepts(requests[r].op, ticket)
         /\ requests[r].agent \in Names(requests[r].op)
    /\ At(r, "after", {"assign", "message"}) => ticket.firstResponseAt = None

(* With nobody else to write, what a request read stays as it is until it  *)
(* commits.                                                                *)
LEMMA CopyIsCurrentStep ==
  ASSUME Lone
  PROVE  TypeOK /\ CopyIsCurrent /\ [Next]_vars => CopyIsCurrent'
  <1> SUFFICES ASSUME TypeOK, CopyIsCurrent, [Next]_vars PROVE CopyIsCurrent'
    OBVIOUS
  <1>1. requests \in [Requests -> Active \cup {Idle}]
    BY DEF TypeOK
  <1>2. CASE UNCHANGED <<ticket, requests>>
    BY <1>2 DEF CopyIsCurrent, At
  <1>3. ASSUME NEW r \in Requests, Read(r)
        PROVE  CopyIsCurrent'
    <2>1. PICK op \in Ops : \E a \in Names(op) :
            /\ Accepts(op, ticket)
            /\ requests' = [requests EXCEPT ![r] =
                 [stage |-> "commit", op |-> op, agent |-> a,
                  seen |-> ticket, tracked |-> tracking.attached, at |-> now]]
      BY <1>3 DEF Read
    <2>2. /\ requests'[r].stage = "commit" /\ requests'[r].seen = ticket
          /\ requests'[r].op = op /\ requests'[r].agent \in Names(op)
      BY <1>1, <2>1
    <2>3. ticket' = ticket /\ \A x \in Requests : x = r
      BY <1>3 DEF Read, rows, Lone
    <2> QED
      BY <2>1, <2>2, <2>3 DEF CopyIsCurrent, At
  <1>4. ASSUME NEW r \in Requests, Finish(r)
        PROVE  CopyIsCurrent'
    <2>1. requests'[r] = Idle /\ \A x \in Requests : x = r
      BY <1>1, <1>4 DEF Finish, Lone
    <2> QED
      BY <2>1 DEF CopyIsCurrent, At, Idle
  <1>5. ASSUME NEW r \in Requests, requests[r].stage = "commit", Continue(r),
               requests[r].op \in {"assign", "message"} =>
                 ticket'.firstResponseAt = None
        PROVE  CopyIsCurrent'
    <2>1. requests[r] \in Active /\ \A x \in Requests : x = r
      BY <1>5, BusyIsActive DEF Lone
    <2>2. requests'[r].stage = "after" /\ requests'[r].op = requests[r].op
      BY <1>1, <1>5, <2>1 DEF Continue, Active
    <2> QED
      BY <1>5, <2>1, <2>2 DEF CopyIsCurrent, At
  <1>6. ASSUME NEW r \in Requests, AssignAndTransition(r) \/ AddMessage(r)
        PROVE  CopyIsCurrent'
    <2>1. requests[r].stage = "commit" /\ requests[r].seen = ticket /\ ticket \in Ticket
      BY <1>6 DEF AssignAndTransition, AddMessage, At, CopyIsCurrent, TypeOK
    <2>2. ticket'.firstResponseAt = ticket.firstResponseAt
      BY <1>6, <2>1 DEF AssignAndTransition, AddMessage, Ticket
    <2> QED
      BY <1>4, <1>5, <1>6, <2>1, <2>2 DEF AssignAndTransition, AddMessage
  <1>7. ASSUME NEW r \in Requests, EscalateTicket(r) \/ ReassignTicket(r)
        PROVE  CopyIsCurrent'
    BY <1>4, <1>5, <1>7 DEF EscalateTicket, ReassignTicket, At
  <1>8. ASSUME NEW r \in Requests,
               \/ TransitionStatus(r) \/ AssignOnly(r) \/ SyncTracking(r)
               \/ StampFirstResponse(r) \/ UpdateTicket(r) \/ RecordReassignment(r)
               \/ Fail(r)
        PROVE  CopyIsCurrent'
    BY <1>4, <1>8 DEF TransitionStatus, AssignOnly, SyncTracking, StampFirstResponse,
                      UpdateTicket, RecordReassignment, Fail
  <1>9. CASE AttachSla \/ Tick \/ UNCHANGED vars
    BY <1>2, <1>9 DEF AttachSla, Tick, vars, rows
  <1> QED
    BY <1>3, <1>6, <1>7, <1>8, <1>9 DEF Next, Handle

(* No request is there at the start.                                       *)
LEMMA InitCopyIsCurrent == Init => CopyIsCurrent
  BY DEF Init, CopyIsCurrent, At, Idle

(* The copy of a lone request is its ticket at every moment.               *)
LEMMA CopiesAreCurrent ==
  ASSUME Lone
  PROVE  Spec => []CopyIsCurrent
  BY InitCopyIsCurrent, CopyIsCurrentStep, TypeCorrect, PTL DEF Spec

(***************************************************************************)
(* The transactions of a lone request, as the columns they write.          *)
(***************************************************************************)

(* transitionStatus, for its three callers.                                *)
LEMMA LoneTransition ==
  ASSUME TypeOK, CopyIsCurrent, NEW r \in Requests, TransitionStatus(r)
  PROVE  \E date \in Time :
           \/ /\ ValidTransition(ticket.status, "RESOLVED")
              /\ Record(ticket.status, "RESOLVED")
              /\ ticket' = [ticket EXCEPT !.status = "RESOLVED", !.resolvedAt = date]
           \/ /\ ValidTransition(ticket.status, "CLOSED")
              /\ Record(ticket.status, "CLOSED")
              /\ ticket' = [ticket EXCEPT !.status = "CLOSED", !.closedAt = date]
           \/ /\ ValidTransition(ticket.status, "REOPENED")
              /\ Record(ticket.status, "REOPENED")
              /\ ticket' = [ticket EXCEPT !.status = "REOPENED", !.resolvedAt = None,
                                          !.closedAt = None, !.reopenCount = @ + 1]
  <1>1. /\ requests[r].stage = "commit" /\ requests[r].op \in {"resolve", "close", "reopen"}
        /\ requests[r].seen = ticket /\ requests[r] \in Active
    BY BusyIsActive DEF TransitionStatus, At, CopyIsCurrent
  <1>2. PICK date \in Clock(r) : ticket' = Transitioned(requests[r], date)
    BY DEF TransitionStatus
  <1>3. date \in Time
    BY <1>1, ClockIsTime
  <1>4. /\ Record(ticket.status, Target[requests[r].op])
        /\ ValidTransition(ticket.status, Target[requests[r].op])
    BY <1>1 DEF TransitionStatus, CopyIsCurrent, Accepts, Target
  <1> QED
    BY <1>1, <1>2, <1>3, <1>4 DEF Transitioned, Target

(* assignTicket, when it moves the ticket.                                 *)
LEMMA LoneAssignment ==
  ASSUME TypeOK, CopyIsCurrent, NEW r \in Requests, AssignAndTransition(r)
  PROVE  /\ ticket.status \in StatusesThatTransitionToAssigned
         /\ Record(ticket.status, "ASSIGNED")
         /\ \E a \in Agents :
              ticket' = [ticket EXCEPT !.status = "ASSIGNED", !.assignee = a]
  <1>1. requests[r].seen = ticket /\ requests[r].agent \in Agents
    BY DEF AssignAndTransition, At, CopyIsCurrent, Names
  <1> QED
    BY <1>1 DEF AssignAndTransition

(* ... and when it does not.                                               *)
LEMMA LoneReplacement ==
  ASSUME TypeOK, CopyIsCurrent, NEW r \in Requests, AssignOnly(r)
  PROVE  /\ ticket.status \notin StatusesThatTransitionToAssigned
         /\ UNCHANGED history
         /\ \E a \in Agents : ticket' = [ticket EXCEPT !.assignee = a]
  <1>1. requests[r].seen = ticket /\ requests[r].agent \in Agents
    BY DEF AssignOnly, At, CopyIsCurrent, Names
  <1> QED
    BY <1>1 DEF AssignOnly

(* escalateTicket.                                                         *)
LEMMA LoneEscalation ==
  ASSUME TypeOK, CopyIsCurrent, NEW r \in Requests, EscalateTicket(r)
  PROVE  /\ ValidTransition(ticket.status, "ESCALATED")
         /\ Record(ticket.status, "ESCALATED")
         /\ ticket' = [ticket EXCEPT !.status = "ESCALATED", !.level = @ + 1,
                                     !.isEscalated = TRUE]
  <1>1. requests[r].seen = ticket /\ ValidTransition(ticket.status, "ESCALATED")
    BY DEF EscalateTicket, At, CopyIsCurrent, Accepts, Target
  <1> QED
    BY <1>1 DEF EscalateTicket

(* The administrator's reassignment.                                       *)
LEMMA LoneReassignment ==
  ASSUME TypeOK, CopyIsCurrent, NEW r \in Requests, ReassignTicket(r)
  PROVE  /\ UNCHANGED history
         /\ \E a \in Assignee : ticket' = [ticket EXCEPT !.assignee = a]
  <1>1. requests[r].agent \in Assignee
    BY BusyIsActive DEF ReassignTicket, At, Active
  <1> QED
    BY <1>1 DEF ReassignTicket

(* Everything else leaves the columns alone that the machine shows.        *)
LEMMA OtherStepsAreStutters ==
  ASSUME TypeOK, [Next]_vars,
         ~ \E r \in Requests :
             \/ TransitionStatus(r) \/ AssignAndTransition(r) \/ AssignOnly(r)
             \/ EscalateTicket(r) \/ ReassignTicket(r)
  PROVE  /\ UNCHANGED history
         /\ UNCHANGED <<ticket.status, ticket.assignee, ticket.level, ticket.reopenCount>>
         /\ UNCHANGED <<ticket.resolvedAt, ticket.closedAt>>
  <1> USE DEF TypeOK, Ticket
  <1>1. ASSUME NEW r \in Requests, StampFirstResponse(r) \/ UpdateTicket(r)
        PROVE  /\ UNCHANGED history
               /\ UNCHANGED <<ticket.status, ticket.assignee, ticket.level, ticket.reopenCount>>
               /\ UNCHANGED <<ticket.resolvedAt, ticket.closedAt>>
    BY <1>1 DEF StampFirstResponse, UpdateTicket
  <1>2. ASSUME NEW r \in Requests,
               \/ Read(r) \/ Fail(r) \/ AddMessage(r) \/ SyncTracking(r)
               \/ RecordReassignment(r)
        PROVE  UNCHANGED <<history, ticket>>
    BY <1>2 DEF Read, Fail, AddMessage, SyncTracking, RecordReassignment, rows
  <1>3. CASE AttachSla \/ Tick \/ UNCHANGED vars
    BY <1>3 DEF AttachSla, Tick, rows, vars
  <1> QED
    BY <1>1, <1>2, <1>3 DEF Next, Handle

(***************************************************************************)
(* The trail of a lone request is exact.                                   *)
(***************************************************************************)

(* A row recorded from the present status keeps the trail replayable.      *)
LEMMA RecordChains ==
  ASSUME TypeOK, StatusIsLatestHistory, HistoryChained,
         NEW to \in Statuses, Record(ticket.status, to)
  PROVE  HistoryChained'
  <1> DEFINE row == [old |-> ticket.status, new |-> to]
  <1>1. history \in Seq(HistoryRow) /\ row \in HistoryRow
    BY DEF TypeOK, Ticket, HistoryRow
  <1>2. /\ Len(history') = Len(history) + 1
        /\ \A i \in 1..Len(history) : history'[i] = history[i]
        /\ history'[Len(history) + 1] = row
    BY <1>1 DEF Record
  <1> SUFFICES ASSUME NEW i \in 1..Len(history)
               PROVE  history'[i + 1].old = history'[i].new
    BY <1>1, <1>2 DEF HistoryChained
  <1>3. Len(history) \in Nat
    BY <1>1
  <1>4. CASE i = Len(history)
    <2>1. history # <<>>
      BY <1>1, <1>3, <1>4
    <2> QED
      BY <1>2, <1>4, <2>1 DEF StatusIsLatestHistory
  <1>5. CASE i # Len(history)
    <2>1. i \in 1..(Len(history) - 1) /\ i + 1 \in 1..Len(history)
      BY <1>3, <1>5
    <2> QED
      BY <1>2, <2>1 DEF HistoryChained
  <1> QED
    BY <1>4, <1>5

(* No move of the table takes a settled ticket to ESCALATED or RESOLVED.   *)
LEMMA OnlyUnsettledMove ==
  \A from \in Statuses :
    ValidTransition(from, "ESCALATED") \/ ValidTransition(from, "RESOLVED")
      => from \notin {"RESOLVED", "CLOSED"}
  BY DEF Statuses, ValidTransition, StatusTransitions

(* One step of the lone request leaves the trail as exact as it was.       *)
LEMMA TrailIsExactStep ==
  TypeOK /\ CopyIsCurrent /\ StatusIsLatestHistory /\ TrailIsExact /\ [Next]_vars
    => TrailIsExact'
  <1> SUFFICES ASSUME TypeOK, CopyIsCurrent, StatusIsLatestHistory, TrailIsExact,
                      [Next]_vars
               PROVE  TrailIsExact'
    OBVIOUS
  <1>1. /\ ticket \in Ticket /\ ticket.status \in Statuses
        /\ HistoryChained /\ StampsMatchStatus
    BY DEF TypeOK, Ticket, TrailIsExact
  <1>2. {"RESOLVED", "CLOSED", "REOPENED", "ASSIGNED", "ESCALATED"} \subseteq Statuses
    BY DEF Statuses
  <1>3. ASSUME NEW r \in Requests, TransitionStatus(r)
        PROVE  TrailIsExact'
    <2>1. PICK date \in Time :
            \/ /\ ValidTransition(ticket.status, "RESOLVED")
               /\ Record(ticket.status, "RESOLVED")
               /\ ticket' = [ticket EXCEPT !.status = "RESOLVED", !.resolvedAt = date]
            \/ /\ ValidTransition(ticket.status, "CLOSED")
               /\ Record(ticket.status, "CLOSED")
               /\ ticket' = [ticket EXCEPT !.status = "CLOSED", !.closedAt = date]
            \/ /\ ValidTransition(ticket.status, "REOPENED")
               /\ Record(ticket.status, "REOPENED")
               /\ ticket' = [ticket EXCEPT !.status = "REOPENED", !.resolvedAt = None,
                                           !.closedAt = None, !.reopenCount = @ + 1]
      BY <1>3, LoneTransition
    <2>2. date # None
      BY LifecycleAssumption DEF Time
    <2>3. HistoryChained'
      BY <1>1, <1>2, <2>1, RecordChains
    <2>4. StampsMatchStatus'
      BY <1>1, <2>1, <2>2, OnlyUnsettledMove DEF StampsMatchStatus, Ticket
    <2> QED
      BY <2>3, <2>4 DEF TrailIsExact
  <1>4. ASSUME NEW r \in Requests, AssignAndTransition(r)
        PROVE  TrailIsExact'
    <2>1. /\ ticket.status \in StatusesThatTransitionToAssigned
          /\ Record(ticket.status, "ASSIGNED")
          /\ \E a \in Agents :
               ticket' = [ticket EXCEPT !.status = "ASSIGNED", !.assignee = a]
      BY <1>4, LoneAssignment
    <2>2. HistoryChained'
      BY <1>1, <1>2, <2>1, RecordChains
    <2>3. StampsMatchStatus'
      BY <1>1, <2>1 DEF StampsMatchStatus, StatusesThatTransitionToAssigned, Ticket
    <2> QED
      BY <2>2, <2>3 DEF TrailIsExact
  <1>5. ASSUME NEW r \in Requests, EscalateTicket(r)
        PROVE  TrailIsExact'
    <2>1. /\ ValidTransition(ticket.status, "ESCALATED")
          /\ Record(ticket.status, "ESCALATED")
          /\ ticket' = [ticket EXCEPT !.status = "ESCALATED", !.level = @ + 1,
                                      !.isEscalated = TRUE]
      BY <1>5, LoneEscalation
    <2>2. HistoryChained'
      BY <1>1, <1>2, <2>1, RecordChains
    <2>3. StampsMatchStatus'
      BY <1>1, <2>1, OnlyUnsettledMove DEF StampsMatchStatus, Ticket
    <2> QED
      BY <2>2, <2>3 DEF TrailIsExact
  <1>6. ASSUME UNCHANGED history,
               UNCHANGED <<ticket.status, ticket.resolvedAt, ticket.closedAt>>
        PROVE  TrailIsExact'
    BY <1>1, <1>6 DEF TrailIsExact, HistoryChained, StampsMatchStatus
  <1>7. ASSUME NEW r \in Requests, AssignOnly(r) \/ ReassignTicket(r)
        PROVE  TrailIsExact'
    <2>1. UNCHANGED history /\ \E a : ticket' = [ticket EXCEPT !.assignee = a]
      BY <1>7, LoneReplacement, LoneReassignment
    <2> QED
      BY <1>1, <1>6, <2>1 DEF Ticket
  <1> QED
    BY <1>3, <1>4, <1>5, <1>6, <1>7, OtherStepsAreStutters

(* A ticket as it is created has an exact trail.                           *)
LEMMA InitTrailIsExact == Init => TrailIsExact
  BY DEF Init, TrailIsExact, HistoryChained, StampsMatchStatus, NewTicket,
         CreatedByApi, CreatedByEmail

(* As long as no request overlaps another on the ticket, its history can   *)
(* be replayed row by row and its stamps tell when it was settled: what    *)
(* the table of the code promises, and loses to an overlap.                *)
THEOREM LoneTrailIsExact ==
  ASSUME Lone
  PROVE  Spec => []TrailIsExact
  BY InitTrailIsExact, TrailIsExactStep, CopiesAreCurrent, StatusFollowsHistory,
     TypeCorrect, PTL DEF Spec

(***************************************************************************)
(* The lone request's service implements the atomic machine.               *)
(***************************************************************************)

(* A new ticket is the machine's first state.                              *)
LEMMA InitIsMachines == Init => Machine!Init
  BY DEF Init, NewTicket, Machine!Init

(* Every step of the handlers is an operation of the machine, or nothing.  *)
LEMMA StepIsMachines ==
  TypeOK /\ CopyIsCurrent /\ [Next]_vars => [Machine!Next]_(Machine!machine)
  <1> SUFFICES ASSUME TypeOK, CopyIsCurrent, [Next]_vars
               PROVE  [Machine!Next]_(Machine!machine)
    OBVIOUS
  <1>1. ticket \in Ticket
    BY DEF TypeOK
  <1>2. ASSUME NEW r \in Requests, TransitionStatus(r)
        PROVE  Machine!Next
    <2>1. PICK date \in Time :
            \/ /\ ValidTransition(ticket.status, "RESOLVED")
               /\ ticket' = [ticket EXCEPT !.status = "RESOLVED", !.resolvedAt = date]
            \/ /\ ValidTransition(ticket.status, "CLOSED")
               /\ ticket' = [ticket EXCEPT !.status = "CLOSED", !.closedAt = date]
            \/ /\ ValidTransition(ticket.status, "REOPENED")
               /\ ticket' = [ticket EXCEPT !.status = "REOPENED", !.resolvedAt = None,
                                           !.closedAt = None, !.reopenCount = @ + 1]
      BY <1>2, LoneTransition
    <2>2. date # None
      BY LifecycleAssumption DEF Time
    <2>3. Machine!Resolve \/ Machine!Close \/ Machine!Reopen
      BY <1>1, <2>1, <2>2 DEF Ticket, Machine!Resolve, Machine!Close, Machine!Reopen,
                              Machine!Move, Machine!ValidTransition, ValidTransition,
                              Machine!StatusTransitions, StatusTransitions
    <2> QED
      BY <2>3 DEF Machine!Next
  <1>3. ASSUME NEW r \in Requests, AssignAndTransition(r) \/ AssignOnly(r)
        PROVE  Machine!Next
    <2>1. PICK a \in Agents :
            IF ticket.status \in StatusesThatTransitionToAssigned
              THEN ticket' = [ticket EXCEPT !.status = "ASSIGNED", !.assignee = a]
              ELSE ticket' = [ticket EXCEPT !.assignee = a]
      BY <1>3, LoneAssignment, LoneReplacement
    <2>2. Machine!Assign(a)
      BY <1>1, <2>1 DEF Ticket, Machine!Assign, Machine!Move, Machine!ValidTransition,
                        Machine!StatusTransitions, StatusesThatTransitionToAssigned,
                        Machine!StatusesThatTransitionToAssigned
    <2> QED
      BY <2>2 DEF Machine!Next
  <1>4. ASSUME NEW r \in Requests, EscalateTicket(r)
        PROVE  Machine!Next
    <2>1. /\ ValidTransition(ticket.status, "ESCALATED")
          /\ ticket' = [ticket EXCEPT !.status = "ESCALATED", !.level = @ + 1,
                                      !.isEscalated = TRUE]
      BY <1>4, LoneEscalation
    <2>2. Machine!Escalate
      BY <1>1, <2>1 DEF Ticket, Machine!Escalate, Machine!Move,
                        Machine!ValidTransition, ValidTransition,
                        Machine!StatusTransitions, StatusTransitions
    <2> QED
      BY <2>2 DEF Machine!Next
  <1>5. ASSUME NEW r \in Requests, ReassignTicket(r)
        PROVE  Machine!Next
    <2>1. PICK a \in Assignee : ticket' = [ticket EXCEPT !.assignee = a]
      BY <1>5, LoneReassignment
    <2>2. Machine!Reassign(a)
      BY <1>1, <2>1 DEF Ticket, Machine!Reassign
    <2> QED
      BY <2>2 DEF Machine!Next, Assignee
  <1>6. CASE ~ \E r \in Requests :
               \/ TransitionStatus(r) \/ AssignAndTransition(r) \/ AssignOnly(r)
               \/ EscalateTicket(r) \/ ReassignTicket(r)
    BY <1>6, OtherStepsAreStutters DEF Machine!machine
  <1> QED
    BY <1>2, <1>3, <1>4, <1>5, <1>6

(* The service is the atomic machine, for any agents, clock and bounds and *)
(* with requests that die where they like, as long as none overlaps        *)
(* another: validation and write are two steps, yet act as one.            *)
THEOREM LoneServiceIsTheMachine ==
  ASSUME Lone
  PROVE  Spec => ImplementsMachine
  BY InitIsMachines, StepIsMachines, CopiesAreCurrent, TypeCorrect, PTL
     DEF Spec, ImplementsMachine, Machine!Spec

(***************************************************************************)
(* The first response of a lone request stands.                            *)
(***************************************************************************)

(* What a step does to the date is written once, by a request that read    *)
(* that there was none.                                                    *)
LEMMA FirstResponseStands ==
  TypeOK /\ CopyIsCurrent /\ [Next]_vars
    => [ticket.firstResponseAt # None
          => ticket'.firstResponseAt = ticket.firstResponseAt]_vars
  <1> SUFFICES ASSUME TypeOK, CopyIsCurrent, [Next]_vars, ticket.firstResponseAt # None
               PROVE  ticket'.firstResponseAt = ticket.firstResponseAt
    OBVIOUS
  <1> USE DEF TypeOK, Ticket
  <1>1. ASSUME NEW r \in Requests
        PROVE  ~ StampFirstResponse(r)
    BY DEF StampFirstResponse, CopyIsCurrent
  <1>2. ASSUME NEW r \in Requests, TransitionStatus(r)
        PROVE  ticket'.firstResponseAt = ticket.firstResponseAt
    BY <1>2, LoneTransition
  <1>3. ASSUME NEW r \in Requests,
               \/ AssignAndTransition(r) \/ AssignOnly(r) \/ EscalateTicket(r)
               \/ ReassignTicket(r) \/ UpdateTicket(r)
        PROVE  ticket'.firstResponseAt = ticket.firstResponseAt
    BY <1>3 DEF AssignAndTransition, AssignOnly, EscalateTicket, ReassignTicket,
                UpdateTicket
  <1>4. ASSUME NEW r \in Requests,
               \/ Read(r) \/ Fail(r) \/ AddMessage(r) \/ SyncTracking(r)
               \/ RecordReassignment(r)
        PROVE  ticket'.firstResponseAt = ticket.firstResponseAt
    BY <1>4 DEF Read, Fail, AddMessage, SyncTracking, RecordReassignment, rows
  <1>5. CASE AttachSla \/ Tick \/ UNCHANGED vars
    BY <1>5 DEF AttachSla, Tick, rows, vars
  <1> QED
    BY <1>1, <1>2, <1>3, <1>4, <1>5 DEF Next, Handle

(* Once a lone request has written the first response, no assignment and   *)
(* no later message moves the date the response time is measured to.       *)
THEOREM LoneFirstResponseStands ==
  ASSUME Lone
  PROVE  Spec => FirstResponseStable
  BY FirstResponseStands, CopiesAreCurrent, TypeCorrect, PTL DEF Spec, FirstResponseStable

(***************************************************************************)
(* What each step of the composition does to the ticket's own rows.        *)
(***************************************************************************)
slaRows == <<sla, breachLogs>>

(* Steps of a scan before its escalation, and the administrator's, leave   *)
(* the variables of TicketLifecycle alone: there they are stutters.        *)
LEMMA ScanIsStutter ==
  ASSUME \/ \E s \in Scans : \/ StartScan(s) \/ Select(s) \/ Skip(s) \/ MarkMet(s)
                             \/ Breach(s) \/ ReadLevel(s)
         \/ OverrideSla
  PROVE  UNCHANGED vars
  BY DEF StartScan, Select, Skip, MarkMet, Breach, ReadLevel, OverrideSla, vars

(* A scan that takes its turn or ends is well typed, and is not about to   *)
(* escalate.                                                               *)
LEMMA TurnType ==
  ASSUME SlaTypeOK, NEW s \in Scans, scans[s] # ScanIdle, Turn(s)
  PROVE  /\ scans' \in [Scans -> Scanning \cup {ScanIdle}]
         /\ scans'[s].stage \in {"judge", "idle"}
         /\ \A u \in Scans : u # s => scans'[u] = scans[u]
  <1>1. scans \in [Scans -> Scanning \cup {ScanIdle}] /\ scans[s] \in Scanning
    BY DEF SlaTypeOK
  <1>2. [scans[s] EXCEPT !.stage = "judge", !.type = "RESOLUTION"] \in Scanning
    BY <1>1 DEF Scanning, BreachTypes
  <1>3. scans'[s] \in {[scans[s] EXCEPT !.stage = "judge", !.type = "RESOLUTION"], ScanIdle}
    BY <1>1 DEF Turn
  <1> QED
    BY <1>1, <1>2, <1>3 DEF Turn, ScanIdle, Scanning

(* ... and one that goes on to a stage is there.                           *)
LEMMA ScanGoType ==
  ASSUME SlaTypeOK, NEW s \in Scans, scans[s] # ScanIdle,
         NEW stage \in {"select", "judge", "escalate", "commit"}, Go(s, stage)
  PROVE  /\ scans' \in [Scans -> Scanning \cup {ScanIdle}]
         /\ scans'[s] = [scans[s] EXCEPT !.stage = stage]
         /\ scans'[s].stage = stage
         /\ \A u \in Scans : u # s => scans'[u] = scans[u]
  <1>1. scans \in [Scans -> Scanning \cup {ScanIdle}] /\ scans[s] \in Scanning
    BY DEF SlaTypeOK
  <1>2. [scans[s] EXCEPT !.stage = stage] \in Scanning
    BY <1>1 DEF Scanning
  <1> QED
    BY <1>1, <1>2 DEF Go, Scanning

(* A scan that is somewhere is under way, and has a type, copies, a level. *)
LEMMA ScanIsUnderWay ==
  ASSUME SlaTypeOK, NEW s \in Scans, scans[s].stage # "idle"
  PROVE  /\ scans[s] # ScanIdle /\ scans[s] \in Scanning
         /\ scans[s].type \in BreachTypes /\ scans[s].level \in Nat
         /\ CopyOf(s) \in Copy \cup {None}
  <1>1. scans[s] # ScanIdle /\ scans[s] \in Scanning
    BY DEF SlaTypeOK, ScanIdle
  <1> QED
    BY <1>1 DEF Scanning, CopyOf

(***************************************************************************)
(* Types.                                                                  *)
(***************************************************************************)

(* A tracking row as attachment leaves it.                                 *)
LEMMA InitSlaTypeOK == SlaInit => SlaTypeOK
  <1> SUFFICES ASSUME SlaInit PROVE SlaTypeOK
    OBVIOUS
  <1>1. TypeOK
    BY InitTypeOK DEF SlaInit
  <1>2. sla \in Sla
    BY SlaAssumption DEF SlaInit, Sla, Verdict
  <1>3. breachLogs \in Seq(BreachTypes) /\ scans \in [Scans -> Scanning \cup {ScanIdle}]
    BY DEF SlaInit
  <1> QED
    BY <1>1, <1>2, <1>3 DEF SlaTypeOK

(* The scan's reading steps.                                               *)
LEMMA ReadingType ==
  ASSUME SlaTypeOK, NEW s \in Scans, StartScan(s) \/ Select(s) \/ Skip(s) \/ ReadLevel(s)
  PROVE  scans' \in [Scans -> Scanning \cup {ScanIdle}]
  <1>1. scans \in [Scans -> Scanning \cup {ScanIdle}]
    BY DEF SlaTypeOK
  <1>2. CASE StartScan(s)
    <2>1. [stage |-> "select", type |-> "RESPONSE", at |-> now,
           copies |-> [t \in BreachTypes |-> None], level |-> 0] \in Scanning
      BY DEF SlaTypeOK, TypeOK, Scanning, BreachTypes
    <2> QED
      BY <1>1, <1>2, <2>1 DEF StartScan
  <1>3. CASE Select(s)
    <2> DEFINE t    == scans[s].type
               copy == IF Overdue(t, scans[s].at)
                         THEN [settledAt |-> SettledAt(t), due |-> sla.due[t],
                               closed |-> ticket.status \in ClosedStatuses]
                         ELSE None
               next == [scans[s] EXCEPT
                          !.copies[t] = copy,
                          !.stage     = IF t = "RESPONSE" THEN "select" ELSE "judge",
                          !.type      = IF t = "RESPONSE" THEN "RESOLUTION" ELSE "RESPONSE"]
    <2>1. scans[s] \in Scanning /\ t \in BreachTypes
      BY <1>3, ScanIsUnderWay DEF Select
    <2>2. copy \in Copy \cup {None}
      BY <2>1 DEF SlaTypeOK, TypeOK, Ticket, Sla, Copy, SettledAt
    <2>3. scans[s].copies \in [BreachTypes -> Copy \cup {None}]
      BY <2>1 DEF Scanning
    <2>4. [scans[s].copies EXCEPT ![t] = copy] \in [BreachTypes -> Copy \cup {None}]
      BY <2>2, <2>3
    <2>5. ASSUME NEW copies \in [BreachTypes -> Copy \cup {None}],
                 NEW stage \in {"select", "judge"}, NEW type \in BreachTypes
          PROVE  [scans[s] EXCEPT !.copies = copies, !.stage = stage, !.type = type] \in Scanning
      BY <2>1 DEF Scanning
    <2>6. next \in Scanning
      BY <2>4, <2>5 DEF BreachTypes
    <2>7. scans' = [scans EXCEPT ![s] = next]
      BY <1>3 DEF Select
    <2> HIDE DEF next
    <2> QED
      BY <1>1, <2>6, <2>7
  <1>4. CASE Skip(s)
    BY <1>4, TurnType, ScanIsUnderWay DEF Skip, Judging
  <1>5. CASE ReadLevel(s)
    <2>1. scans[s] \in Scanning /\ scans[s] # ScanIdle
      BY <1>5, ScanIsUnderWay DEF ReadLevel
    <2>2. [scans[s] EXCEPT !.stage = "commit", !.level = tracking.level] \in Scanning
      BY <2>1 DEF SlaTypeOK, TypeOK, Tracking, Scanning
    <2> QED
      BY <1>1, <1>5, <2>1, <2>2, TurnType DEF ReadLevel
  <1> QED
    BY <1>2, <1>3, <1>4, <1>5

(* The scan's verdicts: a date that was copied is compared with a due date.*)
LEMMA JudgingType ==
  ASSUME SlaTypeOK, NEW s \in Scans, MarkMet(s) \/ Breach(s)
  PROVE  /\ sla' \in Sla
         /\ breachLogs' \in Seq(BreachTypes)
         /\ scans' \in [Scans -> Scanning \cup {ScanIdle}]
  <1> DEFINE t == scans[s].type
  <1>1. scans[s] # ScanIdle /\ t \in BreachTypes /\ CopyOf(s) \in Copy \cup {None}
    BY ScanIsUnderWay DEF MarkMet, Breach, Judging
  <1>2. sla \in Sla /\ breachLogs \in Seq(BreachTypes)
    BY DEF SlaTypeOK
  <1>3. CASE MarkMet(s)
    <2> DEFINE inTime == CopyOf(s).settledAt <= CopyOf(s).due
    <2>1. inTime \in Verdict
      BY DEF Verdict
    <2>2. [sla EXCEPT !.met[t] = inTime] \in Sla
      <3>1. sla.met \in [BreachTypes -> Verdict]
        BY <1>2 DEF Sla
      <3>2. [sla.met EXCEPT ![t] = inTime] \in [BreachTypes -> Verdict]
        BY <2>1, <3>1
      <3>3. ASSUME NEW met \in [BreachTypes -> Verdict]
            PROVE  [sla EXCEPT !.met = met] \in Sla
        BY <1>2 DEF Sla
      <3> HIDE DEF inTime
      <3> QED
        BY <3>2, <3>3
    <2> QED
      BY <1>1, <1>2, <1>3, <2>2, TurnType DEF MarkMet
  <1>4. CASE Breach(s)
    <2>1. [sla EXCEPT !.breached[t] = TRUE] \in Sla
      BY <1>1, <1>2 DEF Sla
    <2>2. Append(breachLogs, t) \in Seq(BreachTypes)
      BY <1>1, <1>2
    <2> QED
      BY <1>1, <1>4, <2>1, <2>2, ScanGoType DEF Breach
  <1> QED
    BY <1>3, <1>4

(* The automatic escalation writes the ticket, the events and the tracking *)
(* row of TicketLifecycle.                                                 *)
LEMMA AutoEscalateType ==
  ASSUME SlaTypeOK, NEW s \in Scans, AutoEscalate(s)
  PROVE  SlaTypeOK'
  <1> DEFINE level == scans[s].level
             event == [previousLevel |-> level, newLevel |-> level + 1, by |-> "scan"]
  <1>1. scans[s] # ScanIdle /\ level \in Nat /\ level + 1 \in Nat
    BY ScanIsUnderWay DEF AutoEscalate
  <1>2. scans' \in [Scans -> Scanning \cup {ScanIdle}]
    BY <1>1, TurnType DEF AutoEscalate
  <1>3. ticket' \in Ticket
    <2>1. ticket \in Ticket
      BY DEF SlaTypeOK, TypeOK
    <2>2. ASSUME NEW l \in Nat
          PROVE  [ticket EXCEPT !.isEscalated = TRUE, !.level = l] \in Ticket
      BY <2>1 DEF Ticket
    <2> QED
      BY <1>1, <2>2 DEF AutoEscalate
  <1>4. escalations' \in Seq(EscalationRow)
    <2>1. event \in EscalationRow /\ escalations \in Seq(EscalationRow)
      BY <1>1 DEF EscalationRow, SlaTypeOK, TypeOK
    <2>2. escalations' = Append(escalations, event)
      BY DEF AutoEscalate
    <2> HIDE DEF event
    <2> QED
      BY <2>1, <2>2
  <1>5. tracking' \in Tracking
    <2>1. tracking \in Tracking
      BY DEF SlaTypeOK, TypeOK
    <2>2. ASSUME NEW l \in Nat
          PROVE  [tracking EXCEPT !.level = l] \in Tracking
      BY <2>1 DEF Tracking
    <2> QED
      BY <1>1, <2>2 DEF AutoEscalate
  <1> QED
    BY <1>2, <1>3, <1>4, <1>5 DEF AutoEscalate, SlaTypeOK, TypeOK

(* The override gives one due date, both or none.                          *)
LEMMA OverrideSlaType ==
  ASSUME SlaTypeOK, OverrideSla
  PROVE  sla' \in Sla
  <1>1. PICK T \in SUBSET BreachTypes : \E due \in [T -> OverrideDues] :
          sla' = [sla EXCEPT !.due = [t \in BreachTypes |-> IF t \in T THEN due[t] ELSE @[t]]]
    BY DEF OverrideSla
  <1>2. PICK due \in [T -> OverrideDues] :
          sla' = [sla EXCEPT !.due = [t \in BreachTypes |-> IF t \in T THEN due[t] ELSE sla.due[t]]]
    BY <1>1
  <1>3. sla \in Sla
    BY DEF SlaTypeOK
  <1>4. [t \in BreachTypes |-> IF t \in T THEN due[t] ELSE sla.due[t]] \in [BreachTypes -> Nat]
    BY <1>3, SlaAssumption DEF Sla
  <1>5. ASSUME NEW d \in [BreachTypes -> Nat]
        PROVE  [sla EXCEPT !.due = d] \in Sla
    BY <1>3 DEF Sla
  <1> QED
    BY <1>2, <1>4, <1>5

(* The types, for every step of the composition.                           *)
LEMMA SlaNextTypeOK == SlaTypeOK /\ [SlaNext]_slaVars => SlaTypeOK'
  <1> SUFFICES ASSUME SlaTypeOK, [SlaNext]_slaVars PROVE SlaTypeOK'
    OBVIOUS
  <1>1. UNCHANGED vars => TypeOK'
    BY NextTypeOK DEF SlaTypeOK
  <1>2. CASE UNCHANGED slaVars
    BY <1>1, <1>2 DEF slaVars, SlaTypeOK
  <1>3. CASE Next /\ UNCHANGED <<sla, breachLogs, scans>>
    BY <1>3, NextTypeOK DEF SlaTypeOK
  <1>4. ASSUME NEW s \in Scans, StartScan(s) \/ Select(s) \/ Skip(s) \/ ReadLevel(s)
        PROVE  SlaTypeOK'
    <2>1. UNCHANGED slaRows
      BY <1>4 DEF StartScan, Select, Skip, ReadLevel, slaRows
    <2> QED
      BY <1>1, <1>4, <2>1, ScanIsStutter, ReadingType DEF SlaTypeOK, slaRows
  <1>5. ASSUME NEW s \in Scans, MarkMet(s) \/ Breach(s)
        PROVE  SlaTypeOK'
    BY <1>1, <1>5, ScanIsStutter, JudgingType DEF SlaTypeOK
  <1>6. ASSUME NEW s \in Scans, AutoEscalate(s)
        PROVE  SlaTypeOK'
    BY <1>6, AutoEscalateType
  <1>7. ASSUME NEW s \in Scans, FailScan(s)
        PROVE  SlaTypeOK'
    BY <1>7 DEF FailScan, rows, SlaTypeOK, TypeOK
  <1>8. CASE OverrideSla
    <2>1. UNCHANGED <<breachLogs, scans>>
      BY <1>8 DEF OverrideSla
    <2> QED
      BY <1>1, <1>8, <2>1, ScanIsStutter, OverrideSlaType DEF SlaTypeOK
  <1> QED
    BY <1>2, <1>3, <1>4, <1>5, <1>6, <1>7, <1>8 DEF SlaNext, Scan

(* Every reachable state of the composition is well typed: a verdict is a  *)
(* verdict, a log names a breach type, and a scan knows where it is.       *)
THEOREM SlaTypeCorrect == SlaSpec => []SlaTypeOK
  <1> QED
    BY InitSlaTypeOK, SlaNextTypeOK, PTL DEF SlaSpec

(***************************************************************************)
(* What the ticket service keeps, it keeps beside the scans too.           *)
(***************************************************************************)

(* Where the scans touch the ticket, they touch neither its status nor its *)
(* history; an automatic escalation writes event, level and flag together. *)
LEMMA ScansAndTheTicket ==
  ASSUME SlaTypeOK, [SlaNext]_slaVars
  PROVE  \/ [Next]_vars
         \/ /\ UNCHANGED <<history, ticket.status, ticket.reopenCount>>
            /\ UNCHANGED <<ticket.resolvedAt, ticket.closedAt>>
            /\ \/ UNCHANGED <<escalations, ticket.level, ticket.isEscalated>>
               \/ \E e \in EscalationRow :
                    /\ e.by = "scan"
                    /\ escalations' = Append(escalations, e)
                    /\ ticket'.level = e.newLevel /\ ticket'.isEscalated = TRUE
  <1>1. ASSUME NEW s \in Scans, AutoEscalate(s)
        PROVE  /\ UNCHANGED <<history, ticket.status, ticket.reopenCount>>
               /\ UNCHANGED <<ticket.resolvedAt, ticket.closedAt>>
               /\ \E e \in EscalationRow :
                    /\ e.by = "scan"
                    /\ escalations' = Append(escalations, e)
                    /\ ticket'.level = e.newLevel /\ ticket'.isEscalated = TRUE
    <2> DEFINE event == [previousLevel |-> scans[s].level,
                         newLevel |-> scans[s].level + 1, by |-> "scan"]
    <2>1. event \in EscalationRow
      BY <1>1, ScanIsUnderWay DEF AutoEscalate, EscalationRow
    <2>2. ticket' = [ticket EXCEPT !.isEscalated = TRUE, !.level = scans[s].level + 1]
      BY <1>1 DEF AutoEscalate
    <2>3. ticket \in Ticket
      BY DEF SlaTypeOK, TypeOK
    <2>4. escalations' = Append(escalations, event) /\ UNCHANGED history
      BY <1>1 DEF AutoEscalate
    <2>5. /\ ticket'.level = event.newLevel /\ ticket'.isEscalated = TRUE
          /\ UNCHANGED <<ticket.status, ticket.reopenCount, ticket.resolvedAt, ticket.closedAt>>
      BY <2>2, <2>3 DEF Ticket
    <2>6. event.by = "scan"
      OBVIOUS
    <2> HIDE DEF event
    <2> QED
      BY <2>1, <2>4, <2>5, <2>6
  <1>2. ASSUME NEW s \in Scans, FailScan(s)
        PROVE  UNCHANGED <<history, escalations, ticket>>
    BY <1>2 DEF FailScan, rows
  <1>3. CASE UNCHANGED vars
    BY <1>3
  <1> QED
    BY <1>1, <1>2, <1>3, ScanIsStutter DEF SlaNext, Scan, slaVars

(* The status is the last history row's, whatever the scans do: automatic  *)
(* escalation leaves both alone.                                           *)
THEOREM StatusFollowsHistoryBesideScans == SlaSpec => []StatusIsLatestHistory
  <1>1. SlaInit => StatusIsLatestHistory
    BY DEF SlaInit, Init, StatusIsLatestHistory, NewTicket, CreatedByApi, CreatedByEmail
  <1>2. SlaTypeOK /\ StatusIsLatestHistory /\ [SlaNext]_slaVars => StatusIsLatestHistory'
    BY ScansAndTheTicket, StatusStep DEF StatusIsLatestHistory, SlaTypeOK
  <1> QED
    BY <1>1, <1>2, SlaTypeCorrect, PTL DEF SlaSpec

(* The ticket's level is its last escalation event's, of requests and      *)
(* scans taken together, however stale the level any of them started from. *)
THEOREM LevelFollowsEscalationsBesideScans == SlaSpec => []LevelIsLatestEscalation
  <1>1. SlaInit => LevelIsLatestEscalation
    BY DEF SlaInit, Init, LevelIsLatestEscalation, NewTicket
  <1>2. SlaTypeOK /\ LevelIsLatestEscalation /\ [SlaNext]_slaVars => LevelIsLatestEscalation'
    <2> SUFFICES ASSUME SlaTypeOK, LevelIsLatestEscalation, [SlaNext]_slaVars
                 PROVE  LevelIsLatestEscalation'
      OBVIOUS
    <2>1. CASE [Next]_vars
      BY <2>1, LevelStep DEF SlaTypeOK
    <2>2. CASE UNCHANGED <<escalations, ticket.level, ticket.isEscalated>>
      BY <2>2 DEF LevelIsLatestEscalation
    <2>3. ASSUME NEW e \in EscalationRow, escalations' = Append(escalations, e),
                 ticket'.level = e.newLevel
          PROVE  LevelIsLatestEscalation'
      <3>1. escalations \in Seq(EscalationRow)
        BY DEF SlaTypeOK, TypeOK
      <3>2. escalations' # <<>> /\ escalations'[Len(escalations')] = e
        BY <2>3, <3>1
      <3> QED
        BY <2>3, <3>2 DEF LevelIsLatestEscalation
    <2> QED
      BY <2>1, <2>2, <2>3, ScansAndTheTicket
  <1> QED
    BY <1>1, <1>2, SlaTypeCorrect, PTL DEF SlaSpec

(* A requested escalation is an ESCALATED row and the flag tells of any    *)
(* escalation, also where the scans add events of theirs.                  *)
THEOREM EscalationsMatchHistoryBesideScans == SlaSpec => []EscalationsAreLedgered
  <1>1. SlaInit => EscalationsAreLedgered
    <2> SUFFICES ASSUME SlaInit PROVE EscalationsAreLedgered
      OBVIOUS
    <2>1. EscalatedRows(history) = {} /\ RequestedRows(escalations) = {}
      BY DEF SlaInit, Init, CreatedByApi, CreatedByEmail, EscalatedRows, RequestedRows
    <2> QED
      BY <2>1, FS_EmptySet DEF SlaInit, Init, NewTicket, EscalationsAreLedgered
  <1>2. SlaTypeOK /\ EscalationsAreLedgered /\ [SlaNext]_slaVars => EscalationsAreLedgered'
    <2> SUFFICES ASSUME SlaTypeOK, EscalationsAreLedgered, [SlaNext]_slaVars
                 PROVE  EscalationsAreLedgered'
      OBVIOUS
    <2>1. CASE [Next]_vars
      BY <2>1, LedgerStep DEF SlaTypeOK
    <2>2. CASE UNCHANGED history /\ UNCHANGED <<escalations, ticket.level, ticket.isEscalated>>
      BY <2>2 DEF EscalationsAreLedgered
    <2>3. ASSUME NEW e \in EscalationRow, e.by = "scan", UNCHANGED history,
                 escalations' = Append(escalations, e), ticket'.isEscalated = TRUE
          PROVE  EscalationsAreLedgered'
      <3>1. escalations \in Seq(EscalationRow)
        BY DEF SlaTypeOK, TypeOK
      <3>2. escalations' # <<>>
        BY <2>3, <3>1
      <3> QED
        BY <2>3, <3>1, <3>2, RequestedRowsAppend DEF EscalationsAreLedgered
    <2> QED
      BY <2>1, <2>2, <2>3, ScansAndTheTicket
  <1> QED
    BY <1>1, <1>2, SlaTypeCorrect, PTL DEF SlaSpec

(* The five together: beside any number of overlapping and dying scans the *)
(* rows that hang on a ticket explain it at every moment. Reopenings and   *)
(* stamps are out of the scans' reach.                                     *)
THEOREM TrailExplainsTheTicketBesideScans == SlaSpec => []TrailExplainsTicket
  <1>1. SlaInit => ReopenCountIsHistory /\ SettledIsStamped
    BY InitReopenings DEF SlaInit, Init, SettledIsStamped, NewTicket
  <1>2. SlaTypeOK /\ ReopenCountIsHistory /\ [SlaNext]_slaVars => ReopenCountIsHistory'
    BY ScansAndTheTicket, ReopenStep DEF ReopenCountIsHistory, SlaTypeOK
  <1>3. SlaTypeOK /\ SettledIsStamped /\ [SlaNext]_slaVars => SettledIsStamped'
    BY ScansAndTheTicket, SettledStep DEF SettledIsStamped, SlaTypeOK
  <1>4. StatusIsLatestHistory /\ ReopenCountIsHistory /\ LevelIsLatestEscalation /\
      EscalationsAreLedgered /\ SettledIsStamped => TrailExplainsTicket
    BY DEF TrailExplainsTicket
  <1> QED
    BY <1>1, <1>2, <1>3, <1>4, SlaTypeCorrect, StatusFollowsHistoryBesideScans,
       LevelFollowsEscalationsBesideScans, EscalationsMatchHistoryBesideScans, PTL
       DEF SlaSpec

(***************************************************************************)
(* The breach log.                                                         *)
(***************************************************************************)

(* One log row more is one row more of its type.                           *)
LEMMA LogRowsAppend ==
  ASSUME SlaTypeOK, NEW t \in BreachTypes, breachLogs' = Append(breachLogs, t)
  PROVE  /\ LogRows(t)' = LogRows(t) \cup {Len(breachLogs) + 1}
         /\ \A u \in BreachTypes : u # t => LogRows(u)' = LogRows(u)
         /\ \A u \in BreachTypes : LogRows(u) \in SUBSET (1..Len(breachLogs))
         /\ Len(breachLogs) \in Nat /\ Len(breachLogs') = Len(breachLogs) + 1
  <1> breachLogs \in Seq(BreachTypes)
    BY DEF SlaTypeOK
  <1> QED
    BY DEF LogRows

(* Only Breach writes the log or a breached flag.                          *)
LEMMA OnlyBreachLogs ==
  ASSUME SlaTypeOK, [SlaNext]_slaVars
  PROVE  \/ UNCHANGED <<breachLogs, sla.breached>>
         \/ \E s \in Scans : Breach(s)
  <1> sla \in Sla
    BY DEF SlaTypeOK
  <1>1. ASSUME NEW s \in Scans, MarkMet(s)
        PROVE  UNCHANGED <<breachLogs, sla.breached>>
    BY <1>1 DEF MarkMet, Sla
  <1>2. CASE OverrideSla
    BY <1>2 DEF OverrideSla, Sla
  <1>3. ASSUME NEW s \in Scans,
               \/ StartScan(s) \/ Select(s) \/ Skip(s) \/ ReadLevel(s)
               \/ AutoEscalate(s) \/ FailScan(s)
        PROVE  UNCHANGED slaRows
    BY <1>3 DEF StartScan, Select, Skip, ReadLevel, AutoEscalate, FailScan, slaRows
  <1> QED
    BY <1>1, <1>2, <1>3 DEF SlaNext, Scan, slaVars, slaRows

(* A type is flagged as breached exactly when the log has a row for it,    *)
(* however many scans overlap and die.                                     *)
THEOREM BreachFlagsAreLogged == SlaSpec => []BreachesAreLogged
  <1>1. SlaInit => BreachesAreLogged
    BY DEF SlaInit, BreachesAreLogged, LogRows
  <1>2. SlaTypeOK /\ BreachesAreLogged /\ [SlaNext]_slaVars => BreachesAreLogged'
    <2> SUFFICES ASSUME SlaTypeOK, BreachesAreLogged, [SlaNext]_slaVars
                 PROVE  BreachesAreLogged'
      OBVIOUS
    <2>1. CASE UNCHANGED <<breachLogs, sla.breached>>
      BY <2>1 DEF BreachesAreLogged, LogRows
    <2>2. ASSUME NEW s \in Scans, Breach(s)
          PROVE  BreachesAreLogged'
      <3>1. PICK t \in BreachTypes : t = scans[s].type
        BY <2>2, ScanIsUnderWay DEF Breach, Judging
      <3>2. breachLogs' = Append(breachLogs, t) /\ sla' = [sla EXCEPT !.breached[t] = TRUE]
        BY <2>2, <3>1 DEF Breach
      <3>3. sla'.breached = [sla.breached EXCEPT ![t] = TRUE] /\ sla.breached \in [BreachTypes -> BOOLEAN]
        BY <3>2 DEF SlaTypeOK, Sla
      <3>4. LogRows(t)' # {} /\ \A u \in BreachTypes : u # t => LogRows(u)' = LogRows(u)
        BY <3>1, <3>2, LogRowsAppend
      <3> QED
        BY <3>1, <3>3, <3>4 DEF BreachesAreLogged
    <2> QED
      BY <2>1, <2>2, OnlyBreachLogs
  <1> QED
    BY <1>1, <1>2, SlaTypeCorrect, PTL DEF SlaSpec

(***************************************************************************)
(* Escalations owed to breaches.                                           *)
(***************************************************************************)

(* How many events of scans there are once there is one event more.        *)
LEMMA ScanRowsAppend ==
  ASSUME NEW es \in Seq(EscalationRow), NEW e \in EscalationRow
  PROVE  /\ Cardinality(ScanRows(es)) \in Nat
         /\ Cardinality(ScanRows(Append(es, e))) =
              IF e.by = "scan" THEN Cardinality(ScanRows(es)) + 1
                               ELSE Cardinality(ScanRows(es))
  <1>1. ScanRows(es) \in SUBSET (1..Len(es)) /\ Len(es) \in Nat
    BY DEF ScanRows
  <1>2. ScanRows(Append(es, e)) = IF e.by = "scan" THEN ScanRows(es) \cup {Len(es) + 1}
                                                   ELSE ScanRows(es)
    BY DEF ScanRows
  <1> QED
    BY <1>1, <1>2, OneRowMore

(* The requests' own escalations add none.                                 *)
LEMMA RequestsAddNoScanRow ==
  ASSUME SlaTypeOK, [Next]_vars
  PROVE  Cardinality(ScanRows(escalations')) = Cardinality(ScanRows(escalations))
  <1>1. escalations \in Seq(EscalationRow) /\ TypeOK
    BY DEF SlaTypeOK, TypeOK
  <1>2. \/ escalations' = escalations
        \/ \E e \in EscalationRow : e.by = "request" /\ escalations' = Append(escalations, e)
    BY <1>1, EveryStepKeepsOrMoves DEF Kept, Moved, Escalated, NotEscalated
  <1> QED
    BY <1>1, <1>2, ScanRowsAppend

Owed == IsFiniteSet(Escalating) /\ EscalationsAreOwed

(* A step after which fewer scans are busy escalating, or as many, and     *)
(* which adds neither a log row nor an event of a scan.                    *)
LEMMA NothingMoreOwed ==
  ASSUME SlaTypeOK, Owed, Escalating' \subseteq Escalating, UNCHANGED breachLogs,
         Cardinality(ScanRows(escalations')) = Cardinality(ScanRows(escalations))
  PROVE  Owed'
  <1>1. /\ IsFiniteSet(Escalating')
        /\ Cardinality(Escalating') <= Cardinality(Escalating)
        /\ Cardinality(Escalating') \in Nat /\ Cardinality(Escalating) \in Nat
    BY FS_Subset, FS_CardinalityType DEF Owed
  <1>2. Cardinality(ScanRows(escalations)) \in Nat /\ Len(breachLogs) \in Nat
    <2>1. escalations \in Seq(EscalationRow) /\ breachLogs \in Seq(BreachTypes)
      BY DEF SlaTypeOK, TypeOK
    <2>2. ScanRows(escalations) \in SUBSET (1..Len(escalations)) /\ Len(escalations) \in Nat
      BY <2>1 DEF ScanRows
    <2>3. Cardinality(ScanRows(escalations)) \in Nat
      BY <2>2, OneRowMore
    <2> QED
      BY <2>1, <2>3
  <1>3. Cardinality(ScanRows(escalations)) + Cardinality(Escalating) <= Len(breachLogs)
    BY DEF Owed, EscalationsAreOwed
  <1> QED
    BY <1>1, <1>2, <1>3 DEF Owed, EscalationsAreOwed

(* Recording a breach makes room for the escalation that follows.          *)
LEMMA BreachOwes ==
  ASSUME SlaTypeOK, Owed, NEW s \in Scans, Breach(s)
  PROVE  Owed'
  <1>1. scans[s].type \in BreachTypes /\ scans[s] # ScanIdle /\ s \notin Escalating
    BY ScanIsUnderWay DEF Breach, Judging, Escalating
  <1>2. Escalating' = Escalating \cup {s}
    BY <1>1, ScanGoType DEF Breach, Escalating
  <1>3. /\ IsFiniteSet(Escalating') /\ Cardinality(Escalating') = Cardinality(Escalating) + 1
        /\ Cardinality(Escalating) \in Nat
    BY <1>1, <1>2, FS_AddElement, FS_CardinalityType DEF Owed
  <1>4. Len(breachLogs') = Len(breachLogs) + 1 /\ Len(breachLogs) \in Nat
    BY <1>1 DEF Breach, SlaTypeOK
  <1>5. UNCHANGED escalations
    BY DEF Breach, vars, rows
  <1>6. Cardinality(ScanRows(escalations)) \in Nat
    <2>1. ScanRows(escalations) \in SUBSET (1..Len(escalations)) /\ Len(escalations) \in Nat
      BY DEF ScanRows, SlaTypeOK, TypeOK
    <2> QED
      BY <2>1, OneRowMore
  <1> QED
    BY <1>3, <1>4, <1>5, <1>6 DEF Owed, EscalationsAreOwed

(* An automatic escalation is one event more and one scan less.            *)
LEMMA AutoEscalatePays ==
  ASSUME SlaTypeOK, Owed, NEW s \in Scans, AutoEscalate(s)
  PROVE  Owed'
  <1>1. s \in Escalating /\ scans[s] # ScanIdle /\ scans[s].level \in Nat
    BY ScanIsUnderWay DEF AutoEscalate, Escalating
  <1>2. Escalating' = Escalating \ {s}
    BY <1>1, TurnType DEF AutoEscalate, Escalating
  <1>3. /\ IsFiniteSet(Escalating') /\ Cardinality(Escalating') = Cardinality(Escalating) - 1
        /\ Cardinality(Escalating) \in Nat
    BY <1>1, <1>2, FS_RemoveElement, FS_CardinalityType DEF Owed
  <1> DEFINE event == [previousLevel |-> scans[s].level,
                       newLevel |-> scans[s].level + 1, by |-> "scan"]
  <1>4. event \in EscalationRow /\ event.by = "scan"
    BY <1>1 DEF EscalationRow
  <1>5. escalations' = Append(escalations, event) /\ UNCHANGED breachLogs
    BY DEF AutoEscalate
  <1>6. escalations \in Seq(EscalationRow) /\ Len(breachLogs) \in Nat
    BY DEF SlaTypeOK, TypeOK
  <1> HIDE DEF event
  <1>7. /\ Cardinality(ScanRows(escalations')) = Cardinality(ScanRows(escalations)) + 1
        /\ Cardinality(ScanRows(escalations)) \in Nat
    BY <1>4, <1>5, <1>6, ScanRowsAppend
  <1> QED
    BY <1>3, <1>5, <1>6, <1>7 DEF Owed, EscalationsAreOwed

(* No ticket is escalated automatically more often than it was breached:   *)
(* the events of scans and the escalations scans are busy with are never   *)
(* more than the rows of the breach log, overlapping and dying scans       *)
(* included.                                                               *)
THEOREM EscalationsAreOwedToBreaches == SlaSpec => []EscalationsAreOwed
  <1>1. SlaInit => Owed
    <2> SUFFICES ASSUME SlaInit PROVE Owed
      OBVIOUS
    <2>1. Escalating = {} /\ ScanRows(escalations) = {} /\ Len(breachLogs) = 0
      BY DEF SlaInit, Init, Escalating, ScanIdle, ScanRows
    <2> QED
      BY <2>1, FS_EmptySet DEF Owed, EscalationsAreOwed
  <1>2. SlaTypeOK /\ Owed /\ [SlaNext]_slaVars => Owed'
    <2> SUFFICES ASSUME SlaTypeOK, Owed, [SlaNext]_slaVars PROVE Owed'
      OBVIOUS
    <2>1. CASE UNCHANGED <<breachLogs, scans>> /\ [Next]_vars
      <3>1. Escalating' = Escalating
        BY <2>1 DEF Escalating
      <3> QED
        BY <2>1, <3>1, RequestsAddNoScanRow, NothingMoreOwed
    <2>2. ASSUME NEW s \in Scans,
                 \/ StartScan(s) \/ Select(s) \/ Skip(s) \/ MarkMet(s)
                 \/ ReadLevel(s) \/ FailScan(s)
          PROVE  Owed'
      <3>1. UNCHANGED <<breachLogs, escalations>>
        BY <2>2 DEF StartScan, Select, Skip, MarkMet, ReadLevel, FailScan, vars, rows
      <3>2. scans \in [Scans -> Scanning \cup {ScanIdle}]
        BY DEF SlaTypeOK
      <3>3. Escalating' \subseteq Escalating
        <4>1. CASE StartScan(s) \/ FailScan(s)
          BY <3>2, <4>1 DEF StartScan, FailScan, Escalating, ScanIdle
        <4>2. CASE Select(s)
          <5>1. scans[s] \in Scanning
            BY <4>2, ScanIsUnderWay DEF Select
          <5>2. /\ scans'[s].stage \in {"select", "judge"}
                /\ \A u \in Scans : u # s => scans'[u] = scans[u]
            BY <3>2, <4>2, <5>1 DEF Select, Scanning
          <5> QED
            BY <5>2 DEF Escalating
        <4>3. CASE Skip(s) \/ MarkMet(s)
          BY <4>3, TurnType, ScanIsUnderWay DEF Skip, MarkMet, Judging, Escalating
        <4>4. CASE ReadLevel(s)
          <5>1. scans[s] # ScanIdle /\ s \in Escalating
            BY <4>4, ScanIsUnderWay DEF ReadLevel, Escalating
          <5>2. \A u \in Scans : u # s => scans'[u] = scans[u]
            BY <3>2, <4>4, <5>1, TurnType DEF ReadLevel
          <5> QED
            BY <5>1, <5>2 DEF Escalating
        <4> QED
          BY <2>2, <4>1, <4>2, <4>3, <4>4
      <3> QED
        BY <3>1, <3>3, NothingMoreOwed
    <2>3. CASE OverrideSla
      BY <2>1, <2>3 DEF OverrideSla
    <2> QED
      BY <2>1, <2>2, <2>3, BreachOwes, AutoEscalatePays DEF SlaNext, Scan, slaVars
  <1>3. Owed => EscalationsAreOwed
    BY DEF Owed
  <1> QED
    BY <1>1, <1>2, <1>3, SlaTypeCorrect, PTL DEF SlaSpec

(***************************************************************************)
(* One scan at a time.                                                     *)
(***************************************************************************)

(* The types a scan has yet to judge, ...                                  *)
Unjudged(s) ==
  {t \in BreachTypes :
     \/ scans[s].stage = "select"
     \/ scans[s].stage = "judge" /\ (scans[s].type = "RESPONSE" \/ t = "RESOLUTION")
     \/ /\ scans[s].stage \in {"escalate", "commit"}
        /\ scans[s].type = "RESPONSE" /\ t = "RESOLUTION"}

(* ... and what it copied of those has no verdict still: with nobody else  *)
(* judging, what the queries left out stays out.                           *)
CopiesAreFresh ==
  \A s \in Scans : \A t \in Unjudged(s) :
    scans[s].copies[t] # None => ~sla.breached[t] /\ sla.met[t] = None

JudgedOnce == CopiesAreFresh /\ OneLogPerBreach /\ MetOrBreached

(* The scan's own steps keep its type and copies in order: what is judged  *)
(* next was unjudged, and what was judged is not judged again.             *)
LEMMA TurnJudges ==
  ASSUME SlaTypeOK, NEW s \in Scans, scans[s] # ScanIdle, Turn(s)
  PROVE  \A t \in Unjudged(s)' :
           /\ t \in BreachTypes /\ t # scans[s].type
           /\ scans[s].type = "RESPONSE" /\ t = "RESOLUTION"
           /\ scans'[s].copies = scans[s].copies
  <1>1. scans \in [Scans -> Scanning \cup {ScanIdle}] /\ scans[s] \in Scanning
    BY DEF SlaTypeOK
  <1>2. CASE scans[s].type = "RESPONSE"
    <2>1. scans'[s] = [scans[s] EXCEPT !.stage = "judge", !.type = "RESOLUTION"]
      BY <1>1, <1>2 DEF Turn
    <2>2. /\ scans'[s].stage = "judge" /\ scans'[s].type = "RESOLUTION"
          /\ scans'[s].copies = scans[s].copies
      BY <1>1, <2>1 DEF Scanning
    <2> QED
      BY <1>2, <2>2 DEF Unjudged
  <1>3. CASE scans[s].type # "RESPONSE"
    <2>1. scans'[s] = ScanIdle
      BY <1>1, <1>3 DEF Turn
    <2> QED
      BY <2>1 DEF Unjudged, ScanIdle
  <1> QED
    BY <1>2, <1>3

(* Without a verdict or a log row, only a query has something to show.     *)
LEMMA NothingJudged ==
  ASSUME SlaTypeOK, JudgedOnce, UNCHANGED <<breachLogs, sla.breached, sla.met>>,
         \A s \in Scans : \A t \in Unjudged(s)' :
           \/ t \in Unjudged(s) /\ scans'[s].copies[t] = scans[s].copies[t]
           \/ scans'[s].copies[t] # None => ~sla.breached[t] /\ sla.met[t] = None
  PROVE  JudgedOnce'
  <1>1. OneLogPerBreach' /\ MetOrBreached'
    BY DEF JudgedOnce, OneLogPerBreach, MetOrBreached, LogRows
  <1>2. CopiesAreFresh'
    BY DEF JudgedOnce, CopiesAreFresh
  <1> QED
    BY <1>1, <1>2 DEF JudgedOnce

(* Both queries copy what has no verdict.                                  *)
LEMMA SelectIsFresh ==
  ASSUME SlaTypeOK, JudgedOnce, NEW s \in Scans, Select(s)
  PROVE  \A t \in Unjudged(s)' :
           \/ t \in Unjudged(s) /\ scans'[s].copies[t] = scans[s].copies[t]
           \/ scans'[s].copies[t] # None => ~sla.breached[t] /\ sla.met[t] = None
  <1> DEFINE u    == scans[s].type
             copy == IF Overdue(u, scans[s].at)
                       THEN [settledAt |-> SettledAt(u), due |-> sla.due[u],
                             closed |-> ticket.status \in ClosedStatuses]
                       ELSE None
  <1>1. scans \in [Scans -> Scanning \cup {ScanIdle}] /\ scans[s] \in Scanning
    BY ScanIsUnderWay DEF Select, SlaTypeOK
  <1>2. copy # None => ~sla.breached[u] /\ sla.met[u] = None
    BY DEF Overdue
  <1>3. scans' = [scans EXCEPT
          ![s].copies[u] = copy,
          ![s].stage     = IF u = "RESPONSE" THEN "select" ELSE "judge",
          ![s].type      = IF u = "RESPONSE" THEN "RESOLUTION" ELSE "RESPONSE"]
    BY DEF Select
  <1>4. scans'[s].copies = [scans[s].copies EXCEPT ![u] = copy]
    BY <1>1, <1>3 DEF Scanning
  <1>5. scans[s].copies \in [BreachTypes -> Copy \cup {None}]
    BY <1>1 DEF Scanning
  <1>6. \A t \in Unjudged(s)' : t \in BreachTypes /\ t \in Unjudged(s)
    BY DEF Unjudged, Select
  <1> HIDE DEF copy
  <1> QED
    BY <1>2, <1>4, <1>5, <1>6

(* A verdict is given to a type that has none and is not breached.         *)
LEMMA MarkMetOnce ==
  ASSUME SlaTypeOK, JudgedOnce, \A s, u \in Scans : s = u,
         NEW s \in Scans, MarkMet(s)
  PROVE  JudgedOnce'
  <1>1. PICK t \in BreachTypes : t = scans[s].type
    BY ScanIsUnderWay DEF MarkMet, Judging
  <1>2. scans[s] # ScanIdle /\ t \in Unjudged(s) /\ scans[s].copies[t] # None
    BY <1>1, ScanIsUnderWay DEF MarkMet, Judging, Unjudged, CopyOf, BreachTypes
  <1>3. ~sla.breached[t]
    BY <1>2 DEF JudgedOnce, CopiesAreFresh
  <1>4. PICK v : sla' = [sla EXCEPT !.met[t] = v]
    BY <1>1 DEF MarkMet
  <1>5. sla \in Sla /\ breachLogs' = breachLogs
    BY DEF MarkMet, SlaTypeOK
  <1>6. sla'.breached = sla.breached /\ \A u \in BreachTypes : u # t => sla'.met[u] = sla.met[u]
    BY <1>4, <1>5 DEF Sla
  <1>7. \A u \in Unjudged(s)' : /\ u \in Unjudged(s) /\ u # t /\ u \in BreachTypes
                                /\ scans'[s].copies = scans[s].copies
    BY <1>1, <1>2, TurnJudges DEF MarkMet, Judging, Unjudged
  <1>8. CopiesAreFresh'
    BY <1>6, <1>7 DEF JudgedOnce, CopiesAreFresh
  <1>9. MetOrBreached' /\ OneLogPerBreach'
    BY <1>3, <1>5, <1>6 DEF JudgedOnce, MetOrBreached, OneLogPerBreach, LogRows
  <1> QED
    BY <1>8, <1>9 DEF JudgedOnce

(* A breach is logged of a type whose flag says that the log has none yet. *)
LEMMA BreachOnce ==
  ASSUME SlaTypeOK, JudgedOnce, BreachesAreLogged, \A s, u \in Scans : s = u,
         NEW s \in Scans, Breach(s)
  PROVE  JudgedOnce'
  <1>1. PICK t \in BreachTypes : t = scans[s].type
    BY ScanIsUnderWay DEF Breach, Judging
  <1>2. scans[s] # ScanIdle /\ t \in Unjudged(s) /\ scans[s].copies[t] # None
    BY <1>1, ScanIsUnderWay DEF Breach, Judging, Unjudged, CopyOf, BreachTypes
  <1>3. ~sla.breached[t] /\ sla.met[t] = None
    BY <1>2 DEF JudgedOnce, CopiesAreFresh
  <1>4. breachLogs' = Append(breachLogs, t) /\ sla' = [sla EXCEPT !.breached[t] = TRUE]
    BY <1>1 DEF Breach
  <1>5. /\ sla'.met = sla.met
        /\ \A u \in BreachTypes : u # t => sla'.breached[u] = sla.breached[u]
    BY <1>4 DEF SlaTypeOK, Sla
  <1>6. /\ LogRows(t) = {} /\ LogRows(t)' = LogRows(t) \cup {Len(breachLogs) + 1}
        /\ \A u \in BreachTypes : u # t => LogRows(u)' = LogRows(u)
    BY <1>3, <1>4, LogRowsAppend DEF BreachesAreLogged
  <1>7. Cardinality(LogRows(t)') = 1
    <2> DEFINE n == Len(breachLogs) + 1
    <2>1. LogRows(t)' = {n}
      BY <1>6
    <2>2. Cardinality({n}) = 1
      BY FS_Singleton
    <2> QED
      BY <2>1, <2>2
  <1>8. OneLogPerBreach'
    <2> SUFFICES ASSUME NEW u \in BreachTypes PROVE Cardinality(LogRows(u)') <= 1
      BY DEF OneLogPerBreach
    <2>1. CASE u = t
      BY <1>7, <2>1
    <2>2. CASE u # t
      <3>1. LogRows(u)' = LogRows(u)
        BY <1>6, <2>2
      <3>2. Cardinality(LogRows(u)) <= 1
        BY DEF JudgedOnce, OneLogPerBreach
      <3> QED
        BY <3>1, <3>2
    <2> QED
      BY <2>1, <2>2
  <1>9. MetOrBreached'
    BY <1>3, <1>5 DEF JudgedOnce, MetOrBreached
  <1>10. scans'[s] = [scans[s] EXCEPT !.stage = "escalate"] /\ scans[s] \in Scanning
    BY <1>2, ScanGoType DEF Breach, SlaTypeOK
  <1>11. scans'[s].stage = "escalate" /\ scans'[s].type = t /\ scans'[s].copies = scans[s].copies
    BY <1>1, <1>10 DEF Scanning
  <1>12. \A u \in Unjudged(s)' : u \in BreachTypes /\ u # t /\ u \in Unjudged(s)
    BY <1>1, <1>11 DEF Unjudged, Breach, Judging
  <1>13. CopiesAreFresh'
    BY <1>5, <1>11, <1>12 DEF JudgedOnce, CopiesAreFresh
  <1> QED
    BY <1>8, <1>9, <1>13 DEF JudgedOnce

(* No step of a lone scan judges a type twice.                             *)
LEMMA JudgedOnceStep ==
  ASSUME \A s, u \in Scans : s = u
  PROVE  SlaTypeOK /\ BreachesAreLogged /\ JudgedOnce /\ [SlaNext]_slaVars => JudgedOnce'
  <1> SUFFICES ASSUME SlaTypeOK, BreachesAreLogged, JudgedOnce, [SlaNext]_slaVars
               PROVE  JudgedOnce'
    OBVIOUS
  <1>1. scans \in [Scans -> Scanning \cup {ScanIdle}] /\ sla \in Sla
    BY DEF SlaTypeOK
  <1>2. CASE UNCHANGED <<breachLogs, sla.breached, sla.met, scans>>
    BY <1>2, NothingJudged DEF Unjudged
  <1>3. ASSUME NEW s \in Scans, StartScan(s) \/ FailScan(s)
        PROVE  JudgedOnce'
    <2>1. UNCHANGED slaRows
      BY <1>3 DEF StartScan, FailScan, slaRows
    <2>2. \A t \in Unjudged(s)' : scans'[s].copies[t] = None
      BY <1>1, <1>3 DEF StartScan, FailScan, Unjudged, ScanIdle
    <2> QED
      BY <2>1, <2>2, NothingJudged DEF slaRows
  <1>4. ASSUME NEW s \in Scans, Select(s)
        PROVE  JudgedOnce'
    <2>1. UNCHANGED slaRows
      BY <1>4 DEF Select, slaRows
    <2> QED
      BY <1>4, <2>1, SelectIsFresh, NothingJudged DEF slaRows
  <1>5. ASSUME NEW s \in Scans, Skip(s) \/ ReadLevel(s) \/ AutoEscalate(s)
        PROVE  JudgedOnce'
    <2>1. UNCHANGED slaRows
      BY <1>5 DEF Skip, ReadLevel, AutoEscalate, slaRows
    <2>2. scans[s].stage \in {"judge", "escalate", "commit"} /\ scans[s] # ScanIdle
      BY <1>5, ScanIsUnderWay DEF Skip, Judging, ReadLevel, AutoEscalate
    <2>3. CASE Turn(s)
      <3>1. \A t \in Unjudged(s)' : t \in Unjudged(s) /\ scans'[s].copies[t] = scans[s].copies[t]
        BY <2>2, <2>3, TurnJudges DEF Unjudged
      <3> QED
        BY <2>1, <3>1, NothingJudged DEF slaRows
    <2>4. CASE ReadLevel(s) /\ ~Turn(s)
      <3>1. /\ scans[s].stage = "escalate"
            /\ scans'[s] = [scans[s] EXCEPT !.stage = "commit", !.level = tracking.level]
            /\ scans[s] \in Scanning
        BY <1>1, <2>2, <2>4 DEF ReadLevel
      <3>2. /\ scans'[s].stage = "commit" /\ scans'[s].type = scans[s].type
            /\ scans'[s].copies = scans[s].copies
        BY <3>1 DEF Scanning
      <3>3. \A t \in Unjudged(s)' : t \in Unjudged(s) /\ scans'[s].copies[t] = scans[s].copies[t]
        BY <3>1, <3>2 DEF Unjudged
      <3> QED
        BY <2>1, <3>3, NothingJudged DEF slaRows
    <2> QED
      BY <1>5, <2>3, <2>4 DEF Skip, ReadLevel, AutoEscalate
  <1>6. ASSUME NEW s \in Scans, MarkMet(s) \/ Breach(s)
        PROVE  JudgedOnce'
    BY <1>6, MarkMetOnce, BreachOnce
  <1>7. OverrideSla => UNCHANGED <<breachLogs, sla.breached, sla.met, scans>>
    BY <1>1 DEF OverrideSla, Sla
  <1> QED
    BY <1>2, <1>3, <1>4, <1>5, <1>6, <1>7 DEF SlaNext, Scan, slaVars

(* The copies of a lone scan are fresh, from the start.                    *)
LEMMA InitJudgedOnce == SlaInit => JudgedOnce
  <1> SUFFICES ASSUME SlaInit PROVE JudgedOnce
    OBVIOUS
  <1>1. \A t \in BreachTypes : LogRows(t) = {} /\ ~sla.breached[t]
    BY DEF SlaInit, LogRows
  <1>2. \A s \in Scans : Unjudged(s) = {}
    BY DEF SlaInit, Unjudged, ScanIdle
  <1> QED
    BY <1>1, <1>2, FS_EmptySet DEF JudgedOnce, CopiesAreFresh, OneLogPerBreach, MetOrBreached

(* As long as no two scans overlap, a ticket breaches its response time    *)
(* once and its resolution time once, whatever requests, overrides and     *)
(* deaths come between the scan's copy and its verdict.                    *)
THEOREM OneScanLogsABreachOnce ==
  ASSUME \A s, u \in Scans : s = u
  PROVE  SlaSpec => []OneLogPerBreach
  <1>1. JudgedOnce => OneLogPerBreach
    BY DEF JudgedOnce
  <1> QED
    BY <1>1, InitJudgedOnce, JudgedOnceStep, SlaTypeCorrect, BreachFlagsAreLogged, PTL
       DEF SlaSpec

(* ... and never is a type both breached and judged met or not met.        *)
THEOREM OneScanJudgesOnce ==
  ASSUME \A s, u \in Scans : s = u
  PROVE  SlaSpec => []MetOrBreached
  <1>1. JudgedOnce => MetOrBreached
    BY DEF JudgedOnce
  <1> QED
    BY <1>1, InitJudgedOnce, JudgedOnceStep, SlaTypeCorrect, BreachFlagsAreLogged, PTL
       DEF SlaSpec

(***************************************************************************)
(* The reports.                                                            *)
(***************************************************************************)

(***************************************************************************)
(* Escalations.                                                            *)
(***************************************************************************)

(* No operation waits for the citizen or rejects a ticket.                 *)
NobodyWaits == ticket.status \notin {"PENDING_CITIZEN", "REJECTED"}

(* ... whichever step is taken.                                            *)
LEMMA NobodyWaitsStep ==
  TypeOK /\ NobodyWaits /\ [Next]_vars => NobodyWaits'
  <1> SUFFICES ASSUME TypeOK, NobodyWaits, [Next]_vars PROVE NobodyWaits'
    OBVIOUS
  <1> USE DEF TypeOK, Ticket, NobodyWaits
  <1>1. ASSUME NEW r \in Requests, TransitionStatus(r)
        PROVE  ticket'.status \in {"RESOLVED", "CLOSED", "REOPENED"}
    BY <1>1 DEF TransitionStatus, At, Transitioned
  <1>2. ASSUME NEW r \in Requests, AssignAndTransition(r) \/ EscalateTicket(r)
        PROVE  ticket'.status \in {"ASSIGNED", "ESCALATED"}
    BY <1>2 DEF AssignAndTransition, EscalateTicket
  <1>3. ASSUME NEW r \in Requests,
               \/ AssignOnly(r) \/ StampFirstResponse(r) \/ UpdateTicket(r)
               \/ ReassignTicket(r)
        PROVE  ticket'.status = ticket.status
    BY <1>3 DEF AssignOnly, StampFirstResponse, UpdateTicket, ReassignTicket
  <1>4. ASSUME NEW r \in Requests,
               \/ Read(r) \/ Fail(r) \/ AddMessage(r) \/ SyncTracking(r)
               \/ RecordReassignment(r)
        PROVE  ticket' = ticket
    BY <1>4 DEF Read, Fail, AddMessage, SyncTracking, RecordReassignment, rows
  <1>5. CASE AttachSla \/ Tick \/ UNCHANGED vars
    BY <1>5 DEF AttachSla, Tick, rows, vars
  <1> QED
    BY <1>1, <1>2, <1>3, <1>4, <1>5 DEF Next, Handle

(* A ticket that stands ESCALATED is flagged: its last history row is an   *)
(* ESCALATED one, and each of those is an escalation on record.            *)
LEMMA EscalatedIsFlagged ==
  ASSUME TypeOK, StatusIsLatestHistory, EscalationsAreLedgered,
         ticket.status = "ESCALATED"
  PROVE  ticket.isEscalated
  <1>1. Len(history) \in EscalatedRows(history) /\ history \in Seq(HistoryRow)
    BY DEF StatusIsLatestHistory, EscalatedRows, TypeOK
  <1>2. IsFiniteSet(EscalatedRows(history))
    <2>1. Len(history) \in Nat /\ EscalatedRows(history) \in SUBSET (1..Len(history))
      BY <1>1 DEF EscalatedRows
    <2>2. IsFiniteSet(1..Len(history))
      BY <2>1, FS_Interval
    <2> QED
      BY <2>1, <2>2, FS_Subset
  <1>3. Cardinality(EscalatedRows(history)) # 0
    BY <1>1, <1>2, FS_EmptySet
  <1>4. RequestedRows(escalations) # {}
    BY <1>3, FS_EmptySet DEF EscalationsAreLedgered
  <1>5. escalations # <<>>
    BY <1>4 DEF RequestedRows
  <1> QED
    BY <1>5 DEF EscalationsAreLedgered

(* Every ticket is in a tile of the overview, and the two dashboards tell  *)
(* of the same escalations.                                                *)
LEMMA EscalationPagesAgree ==
  ASSUME TypeOK, NobodyWaits, StatusIsLatestHistory, EscalationsAreLedgered
  PROVE  NoTicketVanishes /\ EscalationReportsAgree
  <1>1. ticket.status \in Statuses \ {"PENDING_CITIZEN", "REJECTED"}
    BY DEF TypeOK, Ticket, NobodyWaits
  <1>2. NoTicketVanishes
    <2>1. CASE ticket.status = "ESCALATED"
      BY <2>1, EscalatedIsFlagged DEF NoTicketVanishes, OverviewTiles
    <2>2. CASE ticket.status \in {"OPEN", "ASSIGNED", "IN_PROGRESS", "REOPENED"}
      BY <2>2 DEF NoTicketVanishes, OverviewTiles
    <2>3. CASE ticket.status \in {"RESOLVED", "CLOSED"}
      BY <2>3 DEF NoTicketVanishes, OverviewTiles
    <2> QED
      BY <1>1, <2>1, <2>2, <2>3 DEF Statuses
  <1>3. EscalationReportsAgree
    <2>1. OpenInReporting <=> ticket.status \notin {"RESOLVED", "CLOSED"}
      BY <1>1 DEF OpenInReporting, Statuses, ClosedStatuses
    <2> SUFFICES ASSUME NEW n \in 0..ListLimit
                 PROVE  /\ PendingEscalations(n) # {} => ActiveIncident
                        /\ ActiveIncident => n = 0 \/ PendingEscalations(n) # {}
      BY DEF EscalationReportsAgree
    <2>2. escalations \in Seq(EscalationRow) /\ n \in Nat
      BY ReportsAssumption DEF TypeOK
    <2>3. PendingEscalations(n) # {} => ActiveIncident
      <3> SUFFICES ASSUME NEW i \in DOMAIN escalations,
                          ticket.status \notin {"RESOLVED", "CLOSED"}
                   PROVE  ActiveIncident
        BY DEF PendingEscalations, ListedEscalations
      <3>1. escalations # <<>>
        BY <2>2
      <3> QED
        BY <2>1, <3>1 DEF ActiveIncident, EscalationsAreLedgered
    <2>4. ASSUME ActiveIncident, n # 0
          PROVE  PendingEscalations(n) # {}
      <3>1. escalations # <<>> /\ ticket.status \notin {"RESOLVED", "CLOSED"}
        BY <2>1, <2>4 DEF ActiveIncident, EscalationsAreLedgered
      <3>2. Len(escalations) \in DOMAIN escalations /\ Len(escalations) \in Nat
        BY <2>2, <3>1
      <3>3. Len(escalations) > Len(escalations) - n
        BY <2>2, <2>4, <3>2
      <3>4. Len(escalations) \in PendingEscalations(n)
        BY <3>1, <3>2, <3>3 DEF PendingEscalations, ListedEscalations
      <3> QED
        BY <3>4
    <2> QED
      BY <2>3, <2>4
  <1> QED
    BY <1>2, <1>3

(***************************************************************************)
(* Breaches.                                                               *)
(***************************************************************************)

(* The positions of n rows.                                                *)
LEMMA Positions ==
  ASSUME NEW n \in Nat
  PROVE  IsFiniteSet(1..n) /\ Cardinality(1..n) = n
  BY FS_Interval

(* Two rows are two.                                                       *)
LEMMA TwoRows ==
  ASSUME NEW i, NEW j, i # j
  PROVE  Cardinality({i, j}) = 2
  <1>1. IsFiniteSet({i}) /\ Cardinality({i}) = 1
    BY FS_Singleton
  <1>2. j \notin {i}
    OBVIOUS
  <1>3. Cardinality({i} \cup {j}) = Cardinality({i}) + 1
    BY <1>1, <1>2, FS_AddElement
  <1>4. {i} \cup {j} = {i, j}
    OBVIOUS
  <1> QED
    BY <1>1, <1>3, <1>4

(* Where each type is logged once at most, no two rows are of one type.    *)
LEMMA RowsDiffer ==
  ASSUME SlaTypeOK, OneLogPerBreach, NEW i \in DOMAIN breachLogs, NEW j \in DOMAIN breachLogs,
         breachLogs[i] = breachLogs[j]
  PROVE  i = j
  <1> SUFFICES ASSUME i # j PROVE FALSE
    OBVIOUS
  <1>1. breachLogs \in Seq(BreachTypes)
    BY DEF SlaTypeOK
  <1>2. PICK t \in BreachTypes : t = breachLogs[i]
    BY <1>1
  <1>3. {i, j} \in SUBSET LogRows(t) /\ LogRows(t) \in SUBSET (1..Len(breachLogs))
    BY <1>1, <1>2 DEF LogRows
  <1>4. IsFiniteSet(LogRows(t))
    <2>1. Len(breachLogs) \in Nat
      BY <1>1
    <2>2. IsFiniteSet(1..Len(breachLogs))
      BY <2>1, FS_Interval
    <2> QED
      BY <1>3, <2>2, FS_Subset
  <1>5. Cardinality({i, j}) = 2
    BY TwoRows
  <1>6. Cardinality({i, j}) <= Cardinality(LogRows(t)) /\ Cardinality(LogRows(t)) <= 1
    BY <1>2, <1>3, <1>4, FS_Subset DEF OneLogPerBreach
  <1>7. Cardinality(LogRows(t)) \in Nat
    BY <1>4, FS_CardinalityType
  <1> QED
    BY <1>5, <1>6, <1>7

(* The steps of a scan leave the other scans where they are.               *)
LEMMA OneScanMoves ==
  ASSUME SlaTypeOK, NEW u \in Scans, Scan(u) \/ FailScan(u), NEW s \in Scans, s # u
  PROVE  scans'[s] = scans[s]
  BY DEF SlaTypeOK, Scan, StartScan, Select, Skip, MarkMet, Breach, ReadLevel, AutoEscalate,
         FailScan, Turn, Go

(* Only a tracking row can be breached, or copied by a scan, and it says   *)
(* when it was created.                                                    *)
CopiedARow(s) == \A t \in BreachTypes :
  scans[s].stage # "idle" /\ scans[s].copies[t] # None => tracking.attached

BreachIsOfARow ==
  /\ tracking.attached => tracking.createdAt \in Time
  /\ \A t \in BreachTypes : sla.breached[t] => tracking.attached
  /\ \A s \in Scans : CopiedARow(s)

(* A tracking row is created once, for good.                               *)
LEMMA RowStays ==
  ASSUME SlaTypeOK, [SlaNext]_slaVars
  PROVE  /\ tracking.attached => tracking'.attached /\ tracking'.createdAt = tracking.createdAt
         /\ tracking'.attached => tracking.attached \/ tracking'.createdAt \in Time
  <1>1. tracking \in Tracking
    BY DEF SlaTypeOK, TypeOK
  <1>2. CASE UNCHANGED tracking
    BY <1>2
  <1>3. CASE AttachSla
    BY <1>1, <1>3 DEF AttachSla, SlaTypeOK, TypeOK
  <1>4. ASSUME NEW r \in Requests, SyncTracking(r)
        PROVE  tracking'.attached = tracking.attached /\ tracking'.createdAt = tracking.createdAt
    BY <1>1, <1>4 DEF SyncTracking, Tracking
  <1>5. ASSUME NEW s \in Scans, AutoEscalate(s)
        PROVE  tracking'.attached = tracking.attached /\ tracking'.createdAt = tracking.createdAt
    BY <1>1, <1>5 DEF AutoEscalate, Tracking
  <1>6. ASSUME NEW r \in Requests, Read(r) \/ Handle(r) \/ Fail(r), ~SyncTracking(r)
        PROVE  UNCHANGED tracking
    BY <1>6 DEF Read, Handle, Fail, TransitionStatus, AssignAndTransition, AssignOnly,
       EscalateTicket, AddMessage, StampFirstResponse, UpdateTicket, ReassignTicket,
       RecordReassignment, rows
  <1>7. ASSUME NEW s \in Scans, Scan(s) \/ FailScan(s), ~AutoEscalate(s)
        PROVE  UNCHANGED tracking
    BY <1>7 DEF Scan, FailScan, StartScan, Select, Skip, MarkMet, Breach, ReadLevel, vars, rows
  <1>8. CASE Tick \/ OverrideSla \/ UNCHANGED slaVars
    BY <1>2, <1>8 DEF Tick, OverrideSla, slaVars, vars, rows
  <1> QED
    BY <1>2, <1>3, <1>4, <1>5, <1>6, <1>7, <1>8 DEF SlaNext, Next, Handle

(* A scan copies what is in the table.                                     *)
LEMMA CopyIsOfARow ==
  ASSUME SlaTypeOK, NEW s \in Scans, CopiedARow(s), Scan(s) \/ FailScan(s),
         NEW t \in BreachTypes, scans'[s].stage # "idle", scans'[s].copies[t] # None
  PROVE  tracking.attached
  <1>1. scans \in [Scans -> Scanning \cup {ScanIdle}]
    BY DEF SlaTypeOK
  <1>2. CASE StartScan(s)
    BY <1>1, <1>2 DEF StartScan
  <1>3. CASE Select(s)
    <2>1. scans[s] \in Scanning /\ scans[s].stage # "idle"
      BY <1>3, ScanIsUnderWay DEF Select
    <2>2. PICK copy : /\ copy # None => Overdue(scans[s].type, scans[s].at)
                      /\ scans' = [scans EXCEPT
                           ![s].copies[scans[s].type] = copy,
                           ![s].stage = IF scans[s].type = "RESPONSE" THEN "select" ELSE "judge",
                           ![s].type = IF scans[s].type = "RESPONSE" THEN "RESOLUTION"
                                                                     ELSE "RESPONSE"]
      BY <1>3 DEF Select
    <2>3. scans'[s].copies = [scans[s].copies EXCEPT ![scans[s].type] = copy]
      BY <1>1, <2>1, <2>2 DEF Scanning
    <2>4. scans[s].copies \in [BreachTypes -> Copy \cup {None}]
      BY <2>1 DEF Scanning
    <2>5. CASE t = scans[s].type
      BY <2>2, <2>3, <2>4, <2>5 DEF Overdue
    <2>6. CASE t # scans[s].type
      BY <2>1, <2>3, <2>4, <2>6 DEF CopiedARow
    <2> QED
      BY <2>5, <2>6
  <1>4. ASSUME scans[s].stage # "idle", scans'[s].copies = scans[s].copies
        PROVE  tracking.attached
    BY <1>4 DEF CopiedARow
  <1>5. ASSUME scans[s].stage # "idle", Turn(s)
        PROVE  tracking.attached
    <2>1. scans[s] \in Scanning
      BY <1>5, ScanIsUnderWay
    <2>2. scans'[s].copies = scans[s].copies
      BY <1>1, <1>5, <2>1 DEF Turn, Scanning, ScanIdle
    <2> QED
      BY <1>4, <1>5, <2>2
  <1>6. CASE Skip(s) \/ MarkMet(s) \/ AutoEscalate(s)
    BY <1>5, <1>6 DEF Skip, MarkMet, AutoEscalate, Judging
  <1>7. CASE Breach(s)
    <2>1. scans[s] \in Scanning /\ scans[s].stage # "idle" /\ Go(s, "escalate")
      BY <1>7, ScanIsUnderWay DEF Breach, Judging
    <2>2. scans'[s].copies = scans[s].copies
      BY <1>1, <2>1 DEF Go, Scanning
    <2> QED
      BY <1>4, <2>1, <2>2
  <1>8. CASE ReadLevel(s)
    <2>1. scans[s] \in Scanning /\ scans[s].stage # "idle"
      BY <1>8, ScanIsUnderWay DEF ReadLevel
    <2>2. Turn(s) \/ scans'[s].copies = scans[s].copies
      BY <1>1, <1>8, <2>1 DEF ReadLevel, Scanning
    <2> QED
      BY <1>4, <1>5, <2>1, <2>2
  <1>9. CASE FailScan(s)
    BY <1>1, <1>9 DEF FailScan, ScanIdle
  <1> QED
    BY <1>2, <1>3, <1>6, <1>7, <1>8, <1>9 DEF Scan

(* A scan flags what it has a copy of; nothing else sets a flag.           *)
LEMMA FlagIsOfARow ==
  ASSUME SlaTypeOK, BreachIsOfARow, [SlaNext]_slaVars,
         NEW t \in BreachTypes, sla'.breached[t]
  PROVE  tracking.attached
  <1>1. sla \in Sla
    BY DEF SlaTypeOK
  <1>2. CASE sla'.breached = sla.breached
    BY <1>2 DEF BreachIsOfARow
  <1>3. ASSUME NEW s \in Scans, Breach(s)
        PROVE  tracking.attached
    <2>1. scans[s] \in Scanning /\ scans[s].stage # "idle" /\ CopyOf(s) # None
      BY <1>3, ScanIsUnderWay DEF Breach, Judging
    <2> QED
      BY <2>1 DEF BreachIsOfARow, CopiedARow, CopyOf, Scanning
  <1>4. ASSUME NEW s \in Scans, MarkMet(s)
        PROVE  sla'.breached = sla.breached
    BY <1>1, <1>4 DEF MarkMet, Sla
  <1>5. ASSUME NEW s \in Scans,
               \/ StartScan(s) \/ Select(s) \/ Skip(s) \/ ReadLevel(s)
               \/ AutoEscalate(s) \/ FailScan(s)
        PROVE  sla' = sla
    BY <1>5 DEF StartScan, Select, Skip, ReadLevel, AutoEscalate, FailScan
  <1>6. OverrideSla => sla'.breached = sla.breached
    BY <1>1 DEF OverrideSla, Sla
  <1> QED
    BY <1>2, <1>3, <1>4, <1>5, <1>6 DEF SlaNext, Scan, slaVars

(* Whatever a step does, a breach stays one of a tracking row.             *)
LEMMA BreachIsOfARowStep ==
  SlaTypeOK /\ BreachIsOfARow /\ [SlaNext]_slaVars => BreachIsOfARow'
  <1> SUFFICES ASSUME SlaTypeOK, BreachIsOfARow, [SlaNext]_slaVars PROVE BreachIsOfARow'
    OBVIOUS
  <1>1. tracking'.attached => tracking'.createdAt \in Time
    BY RowStays DEF BreachIsOfARow
  <1>2. \A t \in BreachTypes : sla'.breached[t] => tracking'.attached
    BY FlagIsOfARow, RowStays
  <1>3. ASSUME NEW s \in Scans
        PROVE  CopiedARow(s)'
    <2>1. CASE scans'[s] = scans[s]
      BY <2>1, RowStays DEF BreachIsOfARow, CopiedARow
    <2>2. CASE Scan(s) \/ FailScan(s)
      <3>1. CopiedARow(s)
        BY DEF BreachIsOfARow
      <3> QED
        BY <2>2, <3>1, CopyIsOfARow, RowStays DEF CopiedARow
    <2>3. ASSUME NEW u \in Scans, Scan(u) \/ FailScan(u), u # s
          PROVE  scans'[s] = scans[s]
      BY <2>3, OneScanMoves
    <2>4. CASE UNCHANGED scans
      BY <2>1, <2>4
    <2> QED
      BY <2>1, <2>2, <2>3, <2>4 DEF SlaNext, OverrideSla, slaVars
  <1> QED
    BY <1>1, <1>2, <1>3 DEF BreachIsOfARow

(* The list of breaches is the summary's flags, row by row.                *)
LEMMA BreachPagesAgree ==
  ASSUME SlaTypeOK, BreachesAreLogged, OneLogPerBreach, BreachIsOfARow
  PROVE  BreachReportsAgree
  <1>1. breachLogs \in Seq(BreachTypes)
    BY DEF SlaTypeOK
  <1>2. {breachLogs[i] : i \in DOMAIN breachLogs} = BreachedInSummary
    BY <1>1 DEF BreachesAreLogged, LogRows, BreachedInSummary
  <1>3. breachLogs \in Bijection(1..Len(breachLogs), BreachedInSummary)
    <2>1. /\ DOMAIN breachLogs = 1..Len(breachLogs)
          /\ breachLogs \in [1..Len(breachLogs) -> BreachedInSummary]
      BY <1>1, <1>2
    <2>2. \A i, j \in 1..Len(breachLogs) : breachLogs[i] = breachLogs[j] => i = j
      BY <2>1, RowsDiffer
    <2>3. \A t \in BreachedInSummary : \E i \in 1..Len(breachLogs) : breachLogs[i] = t
      BY <1>2, <2>1
    <2> QED
      BY <2>1, <2>2, <2>3, Fun_IsBij
  <1>4. Cardinality(BreachedInSummary) = Len(breachLogs)
    <2>1. Len(breachLogs) \in Nat
      BY <1>1
    <2>2. /\ IsFiniteSet(1..Len(breachLogs))
          /\ Cardinality(1..Len(breachLogs)) = Len(breachLogs)
      BY <2>1, Positions
    <2> QED
      BY <1>3, <2>2, FS_Bijection DEF ExistsBijection
  <1>5. CountsInBreachRate => breachLogs # <<>>
    BY <1>1, <1>2 DEF CountsInBreachRate, BreachedInSummary
  <1>6. ASSUME breachLogs # <<>>
        PROVE  CountsInBreachRate \/ now - tracking.createdAt > RateWindow
    <2>1. 1 \in DOMAIN breachLogs
      BY <1>1, <1>6
    <2>2. BreachedInSummary # {}
      BY <1>2, <2>1
    <2>3. tracking.attached /\ tracking.createdAt \in Time
      BY <2>2 DEF BreachIsOfARow, BreachedInSummary
    <2>4. tracking.createdAt >= now - RateWindow \/ now - tracking.createdAt > RateWindow
      BY <2>3, LifecycleAssumption, ReportsAssumption DEF SlaTypeOK, TypeOK, Time
    <2> QED
      BY <2>2, <2>3, <2>4 DEF CountsInBreachRate, BreachedInSummary, InRateWindow
  <1> QED
    BY <1>2, <1>4, <1>5, <1>6 DEF BreachReportsAgree, BreachList

(* A met verdict never stands beside a breach, so it never makes up for    *)
(* one.                                                                    *)
LEMMA CompliancePagesAgree ==
  ASSUME SlaTypeOK, MetOrBreached
  PROVE  ComplianceFiguresAgree
  <1>1. \A t \in BreachTypes : sla.met[t] = TRUE => ~sla.breached[t]
    BY SlaAssumption DEF MetOrBreached
  <1> QED
    BY <1>1 DEF ComplianceFiguresAgree, CompliantInReporting, CompliantInSummary,
                BreachedInSummary

(* Whichever page one asks, a ticket is told of alike, as far as the list  *)
(* of escalations and the window of the breach rate go, whatever these are *)
(* and as long as no two scans overlap: for any number of requests, any    *)
(* overrides, any deaths.                                                  *)
THEOREM PagesAgree ==
  ASSUME \A s, u \in Scans : s = u
  PROVE  SlaSpec => []ReportsAgree
  <1>1. SlaInit => NobodyWaits
    BY DEF SlaInit, Init, NewTicket, NobodyWaits
  <1>2. SlaTypeOK /\ NobodyWaits /\ [SlaNext]_slaVars => NobodyWaits'
    BY ScansAndTheTicket, NobodyWaitsStep DEF SlaTypeOK, NobodyWaits
  <1>3. SlaTypeOK /\ NobodyWaits /\ StatusIsLatestHistory /\ EscalationsAreLedgered /\
      BreachesAreLogged /\ OneLogPerBreach /\ MetOrBreached /\ BreachIsOfARow => ReportsAgree
    BY EscalationPagesAgree, BreachPagesAgree, CompliancePagesAgree
       DEF ReportsAgree, SlaTypeOK
  <1>4. SlaSpec => []OneLogPerBreach
    BY OneScanLogsABreachOnce
  <1>5. SlaSpec => []MetOrBreached
    BY OneScanJudgesOnce
  <1>6. SlaInit => BreachIsOfARow
    BY DEF SlaInit, Init, BreachIsOfARow, CopiedARow, ScanIdle
  <1> QED
    BY <1>1, <1>2, <1>3, <1>4, <1>5, <1>6, BreachIsOfARowStep, SlaTypeCorrect,
       StatusFollowsHistoryBesideScans,
       EscalationsMatchHistoryBesideScans, BreachFlagsAreLogged, PTL DEF SlaSpec

(***************************************************************************)
(* The page of an unanswered ticket.                                       *)
(***************************************************************************)

(* What scan s copied of the ticket for its response.                      *)
ResponseCopy(s) == scans[s].copies["RESPONSE"]

(* Who says that the response was given says it of a ticket that has one:  *)
(* a verdict, and a copy that a verdict may be given on.                   *)
AnsweredIsSo ==
  /\ sla.met["RESPONSE"] # None => ticket.firstResponseAt # None
  /\ \A s \in Scans :
       scans[s].stage # "idle" /\ ResponseCopy(s) # None /\ ResponseCopy(s).settledAt # None
         => ticket.firstResponseAt # None

(* A response stays given beside the scans too.                            *)
LEMMA ResponseStaysBesideScans ==
  ASSUME SlaTypeOK, [SlaNext]_slaVars, ticket.firstResponseAt # None
  PROVE  ticket'.firstResponseAt # None
  <1>1. CASE [Next]_vars
    BY <1>1, ResponseStays DEF SlaTypeOK
  <1>2. ASSUME NEW s \in Scans, AutoEscalate(s)
        PROVE  ticket'.firstResponseAt # None
    BY <1>2 DEF AutoEscalate, SlaTypeOK, TypeOK, Ticket
  <1>3. ASSUME NEW s \in Scans, FailScan(s)
        PROVE  ticket' = ticket
    BY <1>3 DEF FailScan, rows
  <1> QED
    BY <1>1, <1>2, <1>3, ScanIsStutter DEF SlaNext, Scan, slaVars

(* A scan keeps its copy of the response, or copies the ticket as it is.   *)
LEMMA ResponseIsCopied ==
  ASSUME SlaTypeOK, NEW s \in Scans, Scan(s) \/ FailScan(s), scans'[s].stage # "idle"
  PROVE  \/ scans[s].stage # "idle" /\ ResponseCopy(s)' = ResponseCopy(s)
         \/ ResponseCopy(s)' = None
         \/ ResponseCopy(s)'.settledAt = ticket.firstResponseAt
  <1>1. scans \in [Scans -> Scanning \cup {ScanIdle}]
    BY DEF SlaTypeOK
  <1> USE DEF ResponseCopy
  <1>2. CASE StartScan(s)
    BY <1>1, <1>2 DEF StartScan, BreachTypes
  <1>3. CASE Select(s)
    <2> DEFINE t    == scans[s].type
               copy == IF Overdue(t, scans[s].at)
                         THEN [settledAt |-> SettledAt(t), due |-> sla.due[t],
                               closed |-> ticket.status \in ClosedStatuses]
                         ELSE None
    <2>1. scans[s] \in Scanning /\ scans[s].stage # "idle" /\ t \in BreachTypes
      BY <1>3, ScanIsUnderWay DEF Select
    <2>2. scans' = [scans EXCEPT
            ![s].copies[t] = copy,
            ![s].stage     = IF t = "RESPONSE" THEN "select" ELSE "judge",
            ![s].type      = IF t = "RESPONSE" THEN "RESOLUTION" ELSE "RESPONSE"]
      BY <1>3 DEF Select
    <2>3. scans'[s].copies = [scans[s].copies EXCEPT ![t] = copy]
      BY <1>1, <2>1, <2>2 DEF Scanning
    <2>4. scans[s].copies \in [BreachTypes -> Copy \cup {None}]
      BY <2>1 DEF Scanning
    <2>5. t = "RESPONSE" => copy = None \/ copy.settledAt = ticket.firstResponseAt
      BY DEF SettledAt
    <2> HIDE DEF copy
    <2> QED
      BY <2>1, <2>3, <2>4, <2>5 DEF BreachTypes
  <1>4. ASSUME scans[s].stage # "idle", Turn(s)
        PROVE  ResponseCopy(s)' = ResponseCopy(s)
    <2>1. scans[s] \in Scanning
      BY <1>4, ScanIsUnderWay
    <2> QED
      BY <1>1, <1>4, <2>1 DEF Turn, Scanning, ScanIdle
  <1>5. CASE Skip(s) \/ MarkMet(s) \/ AutoEscalate(s)
    BY <1>4, <1>5 DEF Skip, MarkMet, AutoEscalate, Judging
  <1>6. CASE Breach(s)
    <2>1. scans[s] # ScanIdle /\ scans[s] \in Scanning /\ Go(s, "escalate")
      BY <1>6, ScanIsUnderWay DEF Breach, Judging
    <2> QED
      BY <1>6, <2>1, ScanGoType DEF Breach, Judging, Scanning
  <1>7. CASE ReadLevel(s)
    <2>1. scans[s] # ScanIdle /\ scans[s] \in Scanning /\ scans[s].stage # "idle"
      BY <1>7, ScanIsUnderWay DEF ReadLevel
    <2> QED
      BY <1>1, <1>4, <1>7, <2>1 DEF ReadLevel, Scanning
  <1>8. CASE FailScan(s)
    BY <1>1, <1>8 DEF FailScan, ScanIdle
  <1> QED
    BY <1>2, <1>3, <1>5, <1>6, <1>7, <1>8 DEF Scan

(* A verdict on the response is given on a copy that has one.              *)
LEMMA VerdictNeedsCopy ==
  ASSUME SlaTypeOK, [SlaNext]_slaVars, sla'.met["RESPONSE"] # None
  PROVE  \/ sla.met["RESPONSE"] # None
         \/ \E s \in Scans : /\ scans[s].stage # "idle" /\ ResponseCopy(s) # None
                            /\ ResponseCopy(s).settledAt # None
  <1>1. sla \in Sla
    BY DEF SlaTypeOK
  <1>2. ASSUME NEW s \in Scans, MarkMet(s), sla.met["RESPONSE"] = None
        PROVE  /\ scans[s].stage # "idle" /\ ResponseCopy(s) # None
               /\ ResponseCopy(s).settledAt # None
    <2>1. PICK v : sla' = [sla EXCEPT !.met[scans[s].type] = v]
      BY <1>2 DEF MarkMet
    <2>2. scans[s].type = "RESPONSE"
      BY <1>1, <1>2, <2>1 DEF Sla
    <2> QED
      BY <1>2, <2>2 DEF MarkMet, Judging, CopyOf, ResponseCopy
  <1>3. ASSUME NEW s \in Scans,
               \/ StartScan(s) \/ Select(s) \/ Skip(s) \/ Breach(s) \/ ReadLevel(s)
               \/ AutoEscalate(s) \/ FailScan(s)
        PROVE  sla'.met = sla.met
    BY <1>1, <1>3 DEF StartScan, Select, Skip, Breach, ReadLevel, AutoEscalate, FailScan, Sla
  <1>4. OverrideSla => sla'.met = sla.met
    BY <1>1 DEF OverrideSla, Sla
  <1> QED
    BY <1>2, <1>3, <1>4 DEF SlaNext, Scan, slaVars

(* No step says of a ticket that it was answered when it was not.          *)
LEMMA AnsweredIsSoStep ==
  SlaTypeOK /\ AnsweredIsSo /\ [SlaNext]_slaVars => AnsweredIsSo'
  <1> SUFFICES ASSUME SlaTypeOK, AnsweredIsSo, [SlaNext]_slaVars PROVE AnsweredIsSo'
    OBVIOUS
  <1>1. sla'.met["RESPONSE"] # None => ticket'.firstResponseAt # None
    BY VerdictNeedsCopy, ResponseStaysBesideScans DEF AnsweredIsSo
  <1>2. ASSUME NEW s \in Scans, scans'[s].stage # "idle", ResponseCopy(s)' # None,
               ResponseCopy(s)'.settledAt # None
        PROVE  ticket'.firstResponseAt # None
    <2>1. CASE scans'[s] = scans[s]
      BY <1>2, <2>1, ResponseStaysBesideScans DEF AnsweredIsSo, ResponseCopy
    <2>2. CASE Scan(s) \/ FailScan(s)
      BY <1>2, <2>2, ResponseIsCopied, ResponseStaysBesideScans DEF AnsweredIsSo
    <2>3. ASSUME NEW u \in Scans, Scan(u) \/ FailScan(u), u # s
          PROVE  scans'[s] = scans[s]
      BY <2>3, OneScanMoves
    <2>4. CASE UNCHANGED scans
      BY <2>1, <2>4
    <2> QED
      BY <2>1, <2>2, <2>3, <2>4 DEF SlaNext, OverrideSla, slaVars
  <1> QED
    BY <1>1, <1>2 DEF AnsweredIsSo

(* A ticket that waits for its answer beyond the due date shows as overdue *)
(* or breached at every moment, however many scans overlap and die: a      *)
(* verdict that would hide it is never given on an unanswered ticket.      *)
THEOREM UnansweredStaysInView == SlaSpec => []UnansweredIsShown
  <1>1. SlaInit => AnsweredIsSo
    BY DEF SlaInit, AnsweredIsSo, ScanIdle, BreachTypes
  <1>2. SlaTypeOK /\ AnsweredIsSo => UnansweredIsShown
    <2> SUFFICES ASSUME SlaTypeOK, AnsweredIsSo, ticket.firstResponseAt = None,
                        "RESPONSE" \notin BreachedInSummary
                 PROVE  sla.met["RESPONSE"] # TRUE /\ ~sla.breached["RESPONSE"]
      BY DEF UnansweredIsShown, OverdueNow
    <2> QED
      BY SlaAssumption DEF AnsweredIsSo, BreachedInSummary, BreachTypes
  <1> QED
    BY <1>1, <1>2, AnsweredIsSoStep, SlaTypeCorrect, PTL DEF SlaSpec
=============================================================================
