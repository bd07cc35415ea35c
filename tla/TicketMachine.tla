---------------------------- MODULE TicketMachine ---------------------------
(***************************************************************************)
(* What the ticket service promises about one ticket: a state machine      *)
(* whose every operation validates and moves the ticket in one indivisible *)
(* step. TicketLifecycle, the service as it is written, is shown to        *)
(* implement this machine when the requests on a ticket do not overlap,    *)
(* and is shown not to when they do.                                       *)
(***************************************************************************)
EXTENDS Naturals, TicketStatus

CONSTANTS
  Agents,   (* users a ticket may be assigned to *)
  None      (* the database's NULL *)

VARIABLES
  status,   (* where the ticket stands                           *)
  assignee, (* who works on it                                   *)
  level,    (* how many times it has been escalated              *)
  reopens,  (* how many times it has been reopened               *)
  resolved, (* TRUE iff a resolution is on record                *)
  closed    (* TRUE iff a closure is on record                   *)

machine == <<status, assignee, level, reopens, resolved, closed>>

Init ==
  /\ status = "OPEN" /\ assignee = None
  /\ level = 0 /\ reopens = 0
  /\ resolved = FALSE /\ closed = FALSE

Move(to) == ValidTransition(status, to) /\ status' = to

Assign(a) ==
  /\ IF status \in StatusesThatTransitionToAssigned
       THEN Move("ASSIGNED")
       ELSE UNCHANGED status
  /\ assignee' = a
  /\ UNCHANGED <<level, reopens, resolved, closed>>

(* An administrator may move the ticket to another desk, or to nobody. *)
Reassign(a) ==
  /\ assignee' = a
  /\ UNCHANGED <<status, level, reopens, resolved, closed>>

Escalate ==
  /\ Move("ESCALATED")
  /\ level' = level + 1
  /\ UNCHANGED <<assignee, reopens, resolved, closed>>

Resolve ==
  /\ Move("RESOLVED")
  /\ resolved' = TRUE
  /\ UNCHANGED <<assignee, level, reopens, closed>>

Close ==
  /\ Move("CLOSED")
  /\ closed' = TRUE
  /\ UNCHANGED <<assignee, level, reopens, resolved>>

Reopen ==
  /\ Move("REOPENED")
  /\ reopens' = reopens + 1
  /\ resolved' = FALSE /\ closed' = FALSE
  /\ UNCHANGED <<assignee, level>>

Next ==
  \/ \E a \in Agents : Assign(a)
  \/ \E a \in Agents \cup {None} : Reassign(a)
  \/ Escalate \/ Resolve \/ Close \/ Reopen

Spec == Init /\ [][Next]_machine
=============================================================================
