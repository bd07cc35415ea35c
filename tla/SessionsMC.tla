------------------------------ MODULE SessionsMC ----------------------------
(***************************************************************************)
(* Sessions for model checking: the requests are interchangeable.          *)
(***************************************************************************)
EXTENDS Sessions, TLC

Symmetry == Permutations(Requests)
=============================================================================
