---------------------------- MODULE AutomationMC ----------------------------
(***************************************************************************)
(* Automation for model checking: an agency with one category, texts of    *)
(* little confidence, of 0.7 (a boundary), of much confidence for a ticket *)
(* that is negative but not urgent, and of the highest; rules that are     *)
(* met, not met and cannot be evaluated.                                   *)
(***************************************************************************)
EXTENDS Automation, TLC

CONSTANTS c1

SomeTexts ==
  {[signals |-> <<0, 0, 1, 0>>, categories |-> <<0>>],
   [signals |-> <<0, 0, 0, 0>>, categories |-> <<2>>],
   [signals |-> <<2, 2, 5, 0>>, categories |-> <<0>>],
   [signals |-> <<4, 0, 0, 0>>, categories |-> <<3>>]}

(* What is predicted is a category of the list (1), which the agency has,  *)
(* or none (0), for which it has none either.                              *)
OneCategory == (0 :> NoCategory) @@ (1 :> c1)

SomeRules ==
  {<<[condition |-> "broken", actions |-> <<"ESCALATE">>],
     [condition |-> "met", actions |-> <<"invalid", "CHANGE_PRIORITY", "ASSIGN_TO_USER">>],
     [condition |-> "unmet", actions |-> <<"ADD_TAG">>]>>,
   <<[condition |-> "met", actions |-> <<"ESCALATE", "CHANGE_STATUS", "ADD_TAG">>]>>}

QueueingRule == <<[condition |-> "met", actions |-> <<"SEND_NOTIFICATION", "ADD_TAG">>]>>

AllRules == SomeRules \cup {QueueingRule}

(* Calls to the classifier; events; events beside calls to the classifier; *)
(* and beside notifications that are sent to somebody.                     *)
SomeScenes ==
  {[calls |-> {"classify", "override", "feedback"}, rules |-> {}, most |-> 3],
   [calls |-> {"evaluate"}, rules |-> SomeRules, most |-> 2],
   [calls |-> {"evaluate", "classify"}, rules |-> {QueueingRule}, most |-> 2],
   [calls |-> {"evaluate", "send"}, rules |-> {QueueingRule}, most |-> 1]}

ToSomebody == {Recipients}

Symmetry == Permutations(Requests) \cup Permutations(Crons)
=============================================================================
