--------------------------- MODULE ConversationsMC ---------------------------
(***************************************************************************)
(* Conversations for model checking. Running every part at once would      *)
(* multiply states that do not meet; the scenes hold those that do: rooms  *)
(* made and written to while the ticket changes hands; rooms written to    *)
(* while sockets come, subscribe and go; and uploads.                      *)
(***************************************************************************)
EXTENDS Conversations, TLC

CONSTANTS u1, u2, a1, a2

Scenery ==
  {{"rooms", "people", "assignment", "messages", "receipts"},
   {"rooms", "messages", "sockets"},
   {"media"}}

(* One agency has a coordinator.                                           *)
Coordinators == [a \in Agencies |-> IF a = a1 THEN u2 ELSE NoUser]

(* A citizen, a user of each agency and an admin of none.                  *)
Tokens ==
  {[user |-> u1, agency |-> NoAgency, admin |-> FALSE],
   [user |-> u1, agency |-> a1, admin |-> FALSE],
   [user |-> u2, agency |-> a2, admin |-> FALSE],
   [user |-> u2, agency |-> NoAgency, admin |-> TRUE]}

(* Two chat rooms, both agencies, and leaving one's own user room.         *)
Asked == ({"chat"} \X (1..2)) \cup ({"agency"} \X Agencies) \cup {<<"user", u1>>}

Symmetry == Permutations(Requests) \cup Permutations(Uploaders)
=============================================================================
