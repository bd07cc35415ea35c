----------------------------- MODULE SlaDueDate -----------------------------
(***************************************************************************)
(* What a new ticket's answers are due by (sla.service.ts                  *)
(* attachSlaToTicket, findBestMatchingRule, calculateDueDate): the rule of *)
(* the agency's policy that fits the ticket, then two times a walk over    *)
(* the agency's calendar, day by day, that counts only its working hours.  *)
(*                                                                         *)
(* A moment is a day and a time in that day, in units of which a minute    *)
(* has several, since the clock counts milliseconds but the walk whole     *)
(* minutes. A time may run past the end of its day.                        *)
(*                                                                         *)
(* Days begin at local midnight; the calendar's exceptions are looked up   *)
(* by the date in UTC, which is the day before during the first Offset     *)
(* units of a day. Nothing in the repository sets a time zone, and in UTC  *)
(* Offset is 0.                                                            *)
(***************************************************************************)
EXTENDS Integers, Sequences, FiniteSets

CONSTANTS
  Null,           (* of a ticket or rule without a priority or category     *)
  Cases,          (* tickets, their agency's rules and calendar             *)
  Minute, Day,    (* units in a minute and in a day                         *)
  Week,           (* days in a week: 7                                      *)
  Offset,         (* by how much local time is ahead of UTC                 *)
  Lookahead,      (* days for which exceptions are read: 90                 *)
  MaxIterations,  (* days that are walked over: 365                         *)
  NewHours,       (* working hours an agency may change to                  *)
  MaxEdits        (* bound: changes of the hours while a ticket is attached *)

ASSUME SlaDueDateAssumption ==
  /\ {Minute, Day, Week, MaxIterations} \subseteq Nat \ {0}
  /\ Day % Minute = 0
  /\ Offset \in 0..Day
  /\ Lookahead \in Nat /\ MaxEdits \in Nat

Moment == [day : Int, time : Nat]
Instant(m) == m.day * Day + m.time

(* A day's working hours; they may end before they start. A day that is no *)
(* working day has none.                                                   *)
Hours == [from : 0..Day, to : 0..Day]
Closed == [from |-> 0, to |-> 0]

(* Hours of some of these days.                                            *)
IsCalendar(hs, days) == DOMAIN hs \subseteq days /\ hs \in [DOMAIN hs -> Hours]

(* A rule asks for at least a minute (sla.dto.ts:75), and a ticket comes   *)
(* before the day it comes on is over.                                     *)
ASSUME CasesAssumption ==
  /\ \A c \in Cases :
       /\ DOMAIN c = {"rules", "priority", "category", "applies", "base", "exceptions", "hours"}
       /\ c.rules \in Seq({c.rules[i] : i \in DOMAIN c.rules})
       /\ \A i \in DOMAIN c.rules : {c.rules[i].response, c.rules[i].resolution} \subseteq Nat \ {0}
       /\ c.base \in [day : Int, time : 0..(Day - 1)]
       /\ IsCalendar(c.exceptions, Int) /\ IsCalendar(c.hours, 0..(Week - 1))
  /\ \A hs \in NewHours : IsCalendar(hs, 0..(Week - 1))

VARIABLES
  case,        (* [rules, priority, category, applies, base, exceptions]    *)
  hours,       (* the agency's: weekday -> hours, where it has any          *)
  stage,       (* where the handler is                                      *)
  minutes,     (* those of the rule: for a response and for a resolution    *)
  due,         (* what has been computed so far                             *)
  read,        (* the hours and exceptions that the walk has read           *)
  used,        (* history: the hours at the start of each computation       *)
  cursor, remaining, iterations,  (* the walk                               *)
  edits        (* changes of the hours so far                               *)

walk == <<read, cursor, remaining, iterations>>
vars == <<case, hours, stage, minutes, due, walk, used, edits>>

Stages == {"rule", "hours", "exceptions", "walk", "attached", "none"}

NothingRead == [hours |-> <<>>, exceptions |-> <<>>]

Init ==
  \E c \in Cases :
    /\ case = [f \in DOMAIN c \ {"hours"} |-> c[f]]
    /\ hours = c.hours
    /\ stage = "rule"
    /\ minutes = <<>> /\ due = <<>> /\ used = <<>>
    /\ read = NothingRead
    /\ cursor = c.base /\ remaining = 0 /\ iterations = 0
    /\ edits = 0

(* A definition named <Name>_<Change> is <Name> with a plausible mistake   *)
(* in it, to be put in its place to see that the properties notice.        *)

(***************************************************************************)
(* The rule.                                                               *)
(***************************************************************************)

(* The first rule with this priority and category, if there is one.        *)
First(rules, p, c) ==
  LET fits == {i \in DOMAIN rules : rules[i].priority = p /\ rules[i].category = c}
  IN  IF fits = {} THEN {} ELSE {rules[CHOOSE i \in fits : \A j \in fits : i <= j]}

(* Both match, or the priority only, or the category only, or the rule for *)
(* everything; else the first there is.                                    *)
BestMatchingRule(rules, p, c) ==
  LET tries == <<First(rules, p, c), First(rules, p, Null), First(rules, Null, c), First(rules, Null, Null),
                 {rules[1]}>>
      k == CHOOSE i \in 1..5 : tries[i] # {} /\ \A j \in 1..(i - 1) : tries[j] = {}
  IN  CHOOSE r \in tries[k] : TRUE

AttachSlaToTicket ==
  /\ stage = "rule"
  /\ IF case.rules = <<>>
       THEN stage' = "none" /\ UNCHANGED minutes
       ELSE LET r == BestMatchingRule(case.rules, case.priority, case.category) IN
            stage' = "hours" /\ minutes' = <<r.response, r.resolution>>
  /\ UNCHANGED <<case, hours, due, walk, used, edits>>

(***************************************************************************)
(* The walk: for the response, then again for the resolution.              *)
(***************************************************************************)
Wanted == minutes[Len(due) + 1]

(* calculateDueDate returns m.                                             *)
Return(m) ==
  /\ due' = Append(due, m)
  /\ stage' = IF Len(due) = 1 THEN "attached" ELSE "hours"

(* Calendar time, if the policy says so or the agency has no hours.        *)
ReadHours ==
  /\ stage = "hours"
  /\ IF ~case.applies \/ DOMAIN hours = {}
       THEN Return([case.base EXCEPT !.time = @ + Wanted * Minute]) /\ UNCHANGED read
       ELSE /\ stage' = "exceptions" /\ UNCHANGED due
            /\ read' = [NothingRead EXCEPT !.hours = hours]
  /\ used' = Append(used, hours)
  /\ UNCHANGED <<case, hours, minutes, cursor, remaining, iterations, edits>>

UtcDate(m) == IF m.time >= Offset THEN m.day ELSE m.day - 1

(* The exceptions whose dates lie in the days ahead, the first included:   *)
(* dates are compared as dates.                                            *)
ReadExceptions ==
  LET first == UtcDate(case.base)
      dates == {d \in DOMAIN case.exceptions : first <= d /\ d <= first + Lookahead}
  IN
  /\ stage = "exceptions"
  /\ stage' = "walk"
  /\ read' = [read EXCEPT !.exceptions = [d \in dates |-> case.exceptions[d]]]
  /\ cursor' = case.base /\ remaining' = Wanted /\ iterations' = 0
  /\ UNCHANGED <<case, hours, minutes, due, used, edits>>

(* The hours of the day the walk is at. An exception that is no working    *)
(* day, or has no hours, is Closed.                                        *)
HoursAt_WeekdaysOnly(m) ==
  IF m.day % Week \in DOMAIN read.hours THEN read.hours[m.day % Week] ELSE Closed

HoursAt(m) ==
  IF UtcDate(m) \in DOMAIN read.exceptions THEN read.exceptions[UtcDate(m)]
  ELSE IF m.day % Week \in DOMAIN read.hours THEN read.hours[m.day % Week] ELSE Closed

StartOfNextDay(m) == [day |-> m.day + 1, time |-> 0]

(* Math.round of a number of units as minutes.                             *)
Rounded(units) == (2 * units + Minute) \div (2 * Minute)

Later_Never(s, t) == s

Later(s, t) == IF s < t THEN t ELSE s

Enough(available) == remaining <= available

(* One turn of the loop.                                                   *)
WalkOneDay ==
  LET h == HoursAt(cursor)
      start == Later(cursor.time, h.from)
      available == Rounded(h.to - start)
  IN
  /\ stage = "walk" /\ remaining > 0 /\ iterations < MaxIterations
  /\ iterations' = iterations + 1
  /\ \/ /\ start >= h.to
        /\ cursor' = StartOfNextDay(cursor)
        /\ UNCHANGED remaining
     \/ /\ start < h.to
        /\ IF Enough(available)
             THEN /\ cursor' = [cursor EXCEPT !.time = start + remaining * Minute]
                  /\ remaining' = 0
             ELSE /\ cursor' = StartOfNextDay(cursor)
                  /\ remaining' = remaining - available
  /\ UNCHANGED <<case, hours, stage, minutes, due, read, used, edits>>

EndWalk_WhenCounted ==
  /\ stage = "walk" /\ remaining = 0
  /\ Return(cursor)
  /\ UNCHANGED <<case, hours, minutes, walk, used, edits>>

EndWalk ==
  /\ stage = "walk" /\ (remaining = 0 \/ iterations = MaxIterations)
  /\ Return(cursor)
  /\ UNCHANGED <<case, hours, minutes, walk, used, edits>>

(* Another request sets the agency's hours (agencies.service.ts).          *)
SetBusinessHours ==
  /\ edits < MaxEdits /\ edits' = edits + 1
  /\ stage \notin {"attached", "none"}
  /\ hours' \in NewHours
  /\ UNCHANGED <<case, stage, minutes, due, walk, used>>

Handle == AttachSlaToTicket \/ ReadHours \/ ReadExceptions \/ WalkOneDay \/ EndWalk

Next == Handle \/ SetBusinessHours

Spec == Init /\ [][Next]_vars /\ WF_vars(Handle)

(***************************************************************************)
(* Properties.                                                             *)
(***************************************************************************)

TypeOK ==
  /\ stage \in Stages
  /\ minutes \in Seq(Nat) /\ Len(minutes) \in {0, 2}
  /\ due \in Seq(Moment) /\ Len(due) <= Len(used) /\ Len(used) <= 2
  /\ cursor \in Moment
  /\ remaining \in Nat
  /\ iterations \in 0..MaxIterations
  /\ edits \in 0..MaxEdits

(* A rule fits a ticket when it asks for nothing else than the ticket has. *)
Fits(r) == r.priority \in {Null, case.priority} /\ r.category \in {Null, case.category}

(* A rule that fits is preferred to one that does not; of those that fit,  *)
(* one for the ticket's priority, then one for its category. (Where none   *)
(* fits, the ticket gets the first, made for other tickets.)               *)
Rank(r) == IF ~Fits(r) THEN 0
           ELSE 1 + (IF r.priority # Null THEN 2 ELSE 0) + (IF r.category # Null THEN 1 ELSE 0)

RuleFitsBest ==
  minutes # <<>> =>
    \E i \in DOMAIN case.rules :
      /\ minutes = <<case.rules[i].response, case.rules[i].resolution>>
      /\ \A j \in DOMAIN case.rules : Rank(case.rules[j]) <= Rank(case.rules[i])

(* What the walk should count: the agency is open at an instant if that    *)
(* day's exception, or else that weekday's hours, say so.                  *)
OpenAt(hs, exceptions, t) ==
  LET d == t \div Day
      h == IF d \in DOMAIN exceptions THEN exceptions[d]
           ELSE IF d % Week \in DOMAIN hs THEN hs[d % Week] ELSE Closed
  IN  h.from <= t % Day /\ t % Day < h.to

OpenTime(hs, exceptions, from, to) == Cardinality({t \in from..(to - 1) : OpenAt(hs, exceptions, t)})

(* Twice the difference between the open time that was wanted and the open *)
(* time there is: from the ticket's creation to the cursor.                *)
Distance(a, b) == IF a < b THEN b - a ELSE a - b

(* While it walks, what has been counted and what remains are the minutes  *)
(* wanted, to within half a minute for each day that was walked over.      *)
CountedIsOpenTime ==
  stage = "walk" =>
    2 * Distance(OpenTime(read.hours, read.exceptions, Instant(case.base), Instant(cursor))
                   + Minute * remaining,
                 Minute * Wanted)
      <= Minute * iterations

InWholeMinutes(hs) == \A d \in DOMAIN hs : hs[d].from % Minute = 0 /\ hs[d].to % Minute = 0

(* Answer i is due after a walk that reached its end inside the days whose *)
(* exceptions it read.                                                     *)
Walked(i) ==
  /\ case.applies /\ DOMAIN used[i] # {}
  /\ due[i].day < case.base.day + Lookahead
  /\ due[i].day < case.base.day + MaxIterations

(* Where all hours are whole minutes, an answer is due after the open time *)
(* the rule gives, to within half a minute, across nights, closed days,    *)
(* holidays and special working days: of the hours the agency had when the *)
(* computation began, whatever is made of them meanwhile.                  *)
DueAfterOpenTime ==
  \A i \in DOMAIN due :
    Walked(i) /\ InWholeMinutes(used[i]) /\ InWholeMinutes(case.exceptions) =>
      2 * Distance(OpenTime(used[i], case.exceptions, Instant(case.base), Instant(due[i])),
                   Minute * minutes[i])
        <= Minute

(* No answer is due while the agency is closed, by those hours, up to half *)
(* a minute after closing time.                                            *)
DueWhileOpen ==
  \A i \in DOMAIN due :
    Walked(i) =>
      \E t \in (Instant(due[i]) - 1 - Minute \div 2)..(Instant(due[i]) - 1) :
        OpenAt(used[i], case.exceptions, t)

(* A response is due after the resolution only if the hours were not the   *)
(* same when the two computations began, provided that the rule asks for   *)
(* it sooner; no other change of them, before, between and after, does it. *)
(* Half a minute after it at most where the second walk runs out of turns, *)
(* which then ends at midnight, when the first may have rounded past it.   *)
ResponseDueFirst ==
  stage = "attached" /\ used[1] = used[2] /\ minutes[1] <= minutes[2] =>
    Instant(due[1]) <=
      Instant(due[2]) + (IF due[2].day < case.base.day + MaxIterations THEN 0 ELSE Minute \div 2)

(* The walk goes on by one day a turn, or stops: it covers as many days as *)
(* it has turns, however little they count.                                *)
OneDayPerTurn ==
  stage = "walk" =>
    cursor.day = case.base.day + iterations - (IF remaining = 0 /\ iterations > 0 THEN 1 ELSE 0)

(* Whatever the hours: it fails, an agency that opens on more days between *)
(* the two computations has its response due after the resolution.         *)
ResponseAlwaysDueFirst ==
  stage = "attached" /\ minutes[1] <= minutes[2] =>
    Instant(due[1]) <= Instant(due[2]) + Minute \div 2

(* A ticket is attached to its policy, or there is none, in the end.       *)
AttachmentEnds == <>(stage \in {"attached", "none"})

(* The dates that a ticket is given, whenever the hours are edited: of the *)
(* rule that fits it best, after the open time it asks for, within working *)
(* hours, the response first unless the two went by different hours.       *)
DueDatesAreRight ==
  TypeOK /\ RuleFitsBest /\ DueAfterOpenTime /\ DueWhileOpen /\ ResponseDueFirst /\ OneDayPerTurn
=============================================================================
