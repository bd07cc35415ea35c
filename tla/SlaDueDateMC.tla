----------------------------- MODULE SlaDueDateMC ---------------------------
(***************************************************************************)
(* SlaDueDate for model checking. Minutes of four units, days of four      *)
(* minutes, weeks of two days.                                             *)
(***************************************************************************)
EXTENDS SlaDueDate, TLC

CONSTANTS p1, p2, c1

H(a, b) == [from |-> a, to |-> b]

(* Tickets with one rule: none, one, a broken and two days of a week that  *)
(* have hours, some not in whole minutes; a holiday or a special day; all  *)
(* moments of creation in a week.                                          *)
Calendars == {<<>>, 0 :> H(4, 12), 1 :> H(8, 4), (0 :> H(4, 12)) @@ (1 :> H(0, 4)),
              (0 :> H(0, 16)) @@ (1 :> H(3, 9))}

ExceptionSets == {<<>>, 0 :> Closed, 2 :> Closed, 1 :> H(4, 8), (2 :> Closed) @@ (3 :> H(2, 14))}

CalendarCases ==
  {[rules |-> <<[priority |-> Null, category |-> Null, response |-> a, resolution |-> b]>>,
    priority |-> p1, category |-> c1, applies |-> f, base |-> [day |-> d, time |-> t],
    exceptions |-> e, hours |-> h]
   : a \in {1, 2}, b \in {3, 5}, f \in {TRUE}, d \in {0, 1}, t \in 0..(Day - 1), e \in ExceptionSets, h \in Calendars}

(* A walk that counts its response in the last turn, rounded past         *)
(* midnight, and gives up on its resolution.                               *)
LastTurnCases ==
  {[rules |-> <<[priority |-> Null, category |-> Null, response |-> a, resolution |-> 5]>>,
    priority |-> p1, category |-> c1, applies |-> TRUE, base |-> [day |-> 0, time |-> t],
    exceptions |-> <<>>, hours |-> 0 :> H(14, 16)]
   : a \in {3, 4}, t \in {0, 15}}

(* Tickets with up to two rules, by calendar time.                         *)
Rules == {[priority |-> p, category |-> c, response |-> a, resolution |-> 3]
          : p \in {p1, p2, Null}, c \in {c1, Null}, a \in {1, 2}}

MatchingCases ==
  {[rules |-> rs, priority |-> p, category |-> c, applies |-> FALSE, base |-> [day |-> 0, time |-> 1],
    exceptions |-> <<>>, hours |-> <<>>]
   : rs \in UNION {[1..n -> Rules] : n \in 0..2}, p \in {p1, Null}, c \in {c1, Null}}

AllCases == CalendarCases \cup LastTurnCases \cup MatchingCases
=============================================================================
