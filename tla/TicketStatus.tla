---------------------------- MODULE TicketStatus ----------------------------
(***************************************************************************)
(* The vocabulary of ticket statuses and the transition table that the     *)
(* ticket service validates against (STATUS_TRANSITIONS), with the seeded  *)
(* isClosedStatus flag that the SLA scan reads.                            *)
(***************************************************************************)

Statuses == {"OPEN", "ASSIGNED", "IN_PROGRESS", "ESCALATED", "PENDING_CITIZEN",
             "RESOLVED", "CLOSED", "REOPENED", "REJECTED"}

(* The edges of the state machine, as pairs <<from, to>>. REJECTED has none. *)
StatusTransitions ==
    ({"OPEN"} \X {"ASSIGNED", "ESCALATED", "REJECTED", "CLOSED"})
  \cup ({"ASSIGNED"} \X {"IN_PROGRESS", "RESOLVED", "ESCALATED",
                         "PENDING_CITIZEN", "REJECTED", "CLOSED"})
  \cup ({"IN_PROGRESS"} \X {"RESOLVED", "ESCALATED", "PENDING_CITIZEN", "ASSIGNED"})
  \cup ({"ESCALATED"} \X {"ASSIGNED", "IN_PROGRESS", "RESOLVED", "CLOSED"})
  \cup ({"PENDING_CITIZEN"} \X {"IN_PROGRESS", "RESOLVED", "ESCALATED", "CLOSED"})
  \cup ({"RESOLVED"} \X {"CLOSED", "REOPENED"})
  \cup ({"CLOSED"} \X {"REOPENED"})
  \cup ({"REOPENED"} \X {"ASSIGNED", "IN_PROGRESS", "ESCALATED"})

(* validateTransition: does the table list the move? *)
ValidTransition(from, to) == <<from, to>> \in StatusTransitions

(* The statuses an assignment turns into ASSIGNED; any other is kept. *)
StatusesThatTransitionToAssigned == {"OPEN", "REOPENED", "ESCALATED"}

(* isClosedStatus of the seeded ticket_statuses rows: RESOLVED is not closed. *)
ClosedStatuses == {"CLOSED", "REJECTED"}
=============================================================================
