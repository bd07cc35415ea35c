-------------------------- MODULE TicketLifecycleMC -------------------------
(***************************************************************************)
(* TicketLifecycle for model checking. Requests are interchangeable, and   *)
(* so are the agents a ticket is assigned to: the runs that check          *)
(* invariants only identify states up to permuting them.                   *)
(***************************************************************************)
EXTENDS TicketLifecycle, TLC

Symmetry == Permutations(Requests) \cup Permutations(Agents)
=============================================================================
