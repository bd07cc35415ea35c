--------------------------- MODULE KnowledgeBaseMC --------------------------
(***************************************************************************)
(* KnowledgeBase for model checking: two titles, the slug of the second    *)
(* being that of a second article of the first ("Tax" and "Tax 1", the     *)
(* word being written 0). The requests are interchangeable.                *)
(***************************************************************************)
EXTENDS KnowledgeBase, TLC

CONSTANTS t1, t2

TitleSlugs == [t \in Titles |-> IF t = t1 THEN <<0>> ELSE <<0, 1>>]

Symmetry == Permutations(Requests)
=============================================================================
