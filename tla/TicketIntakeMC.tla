---------------------------- MODULE TicketIntakeMC --------------------------
(***************************************************************************)
(* TicketIntake for model checking: the emails of one partition, one of    *)
(* them a reply to the first ticket of the day, one without a Message-Id.  *)
(* Numbers are padded to two binary digits, so that the fourth is the one  *)
(* that no longer fits.                                                    *)
(***************************************************************************)
EXTENDS TicketIntake

CONSTANTS e1, e2, e3, p1

Sender  == [e \in Emails |-> p1]
Subject == [e \in Emails |-> IF e = e2 THEN 1 ELSE None]
=============================================================================
