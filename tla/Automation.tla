----------------------------- MODULE Automation -----------------------------
(***************************************************************************)
(* What is done to tickets by machine: the classifier (ai.service.ts),     *)
(* which predicts a ticket's category and priority, applies them if it is  *)
(* asked to and is confident, and may be overridden by people; and the     *)
(* engine of automation rules (workflow.service.ts), which evaluates the   *)
(* rules for an event and executes their actions one after the other, some *)
(* of which queue a notification, beside those that are sent.              *)
(*                                                                         *)
(* Every statement is committed by itself: other requests, failures and    *)
(* crashes come between. A text is abstracted to how many of the keywords  *)
(* of each list occur in it; no keyword is in two lists.                   *)
(***************************************************************************)
EXTENDS NotificationDelivery

CONSTANTS
  Requests,     (* requests that may be handled at once                     *)
  Tickets,
  Texts,        (* tickets' texts: [signals, categories], counts of matches *)
  Categories,   (* those that the agency has                                *)
  CategoryFor,  (* findBestCategory: the agency's for a predicted one       *)
  NoCategory,
  Corrections,  (* priorities that people and rules set, "same" being none   *)
  RuleLists,    (* the rules that an event may find, in order               *)
  Scenes        (* what clients do: [calls, which they make, rules, lists   *)
                (* that their events find, most, bound: calls made]         *)

AnyCategory == Categories \cup {NoCategory}
Priorities == {"CRITICAL", "HIGH", "MEDIUM", "LOW"}

(* The automation actions, of the types that the engine knows; "invalid"   *)
(* is one that lacks what its type requires.                               *)
Actions == {"ASSIGN_TO_USER", "CHANGE_STATUS", "CHANGE_PRIORITY", "ADD_TAG", "ESCALATE",
            "SEND_NOTIFICATION", "invalid"}

Rule == [condition : {"met", "unmet", "broken"}, actions : Seq(Actions)]

ASSUME AutomationAssumption ==
  /\ NoCategory \notin Categories
  /\ \A text \in Texts :
       /\ text.signals \in [1..4 -> Nat] /\ text.categories \in Seq(Nat)
       /\ \A i \in 0..Len(text.categories) : CategoryFor[i] \in AnyCategory
  /\ Corrections \subseteq Priorities \cup {"same"}
  /\ RuleLists \subseteq Seq(Rule)
  /\ Scenes \subseteq [calls : SUBSET {"classify", "override", "feedback", "evaluate", "send"},
                       rules : SUBSET RuleLists, most : Nat]

VARIABLES
  tickets,         (* what the machines change of a ticket                  *)
  log,             (* the classifications, AiClassificationLog              *)
  recommendations, (* stored for classifications                            *)
  feedback,        (* for each answer, whether it was accurate              *)
  evaluations,     (* per event: the rules it found, for which of them a    *)
                   (* trigger was recorded, the rows of                     *)
                   (* AutomationExecutionLog, and whether it returned       *)
  rows,            (* per ticket, how many rows each type of action added   *)
  requests,        (* per request: where its handler is and what it read    *)
  calls,           (* requests made                                         *)
  scene            (* what clients do                                       *)

aiVars == <<log, recommendations, feedback>>
machineVars == <<tickets, aiVars, evaluations, rows, requests, calls, scene>>
allVars == <<machineVars, vars>>

(***************************************************************************)
(* The classifier. Scores are in hundredths.                               *)
(***************************************************************************)
Signals == <<"CRITICAL", "HIGH", "MEDIUM", "LOW">>
Weights == <<4, 3, 2, 1>>

(* How many keywords were found, of all lists.                             *)
Total(counts) == Cardinality(UNION {{i} \X (1..counts[i]) : i \in DOMAIN counts})

(* The first of the largest, or 0 if all are 0.                            *)
FirstLargest(counts) ==
  LET best == {i \in DOMAIN counts : counts[i] > 0 /\ \A j \in DOMAIN counts : counts[j] <= counts[i]}
  IN  IF best = {} THEN 0 ELSE CHOOSE i \in best : \A j \in best : i <= j

PredictedPriority(text) ==
  LET i == FirstLargest([k \in 1..4 |-> Weights[k] * text.signals[k]])
  IN  IF i = 0 THEN "MEDIUM" ELSE Signals[i]

(* From how many keywords matched, with a bonus for a strong category; at  *)
(* most 95.                                                                *)
Confidence(text) ==
  LET matched == Total(text.signals) + Total(text.categories)
      base == IF matched = 0 THEN 20 ELSE IF matched = 1 THEN 40 ELSE IF matched <= 3 THEN 60
              ELSE IF matched <= 5 THEN 75 ELSE 75 + 2 * matched
      bonus == IF \E i \in DOMAIN text.categories : text.categories[i] >= 2 THEN 10 ELSE 0
      least == IF base > 95 THEN 95 ELSE base
  IN  IF least + bonus > 95 THEN 95 ELSE least + bonus

(* The mean sentiment of the matches, rounded to hundredths with halves    *)
(* going up, is below -0.5: the mean itself is below -0.505.               *)
Negative(text) ==
  LET s == text.signals
  IN  2 * (20 * s[4] - 90 * s[1] - 70 * s[2] - 30 * s[3]) < -101 * (s[1] + s[2] + s[3] + s[4])

Prediction(text) ==
  [category |-> CategoryFor[FirstLargest(text.categories)], priority |-> PredictedPriority(text),
   confidence |-> Confidence(text)]

Recommended(text) ==
  <<"CATEGORY_ASSIGNMENT", "PRIORITY_ASSIGNMENT">>
    \o (IF Negative(text) /\ PredictedPriority(text) \in {"CRITICAL", "HIGH"} THEN <<"ESCALATION">> ELSE <<>>)
    \o (IF Confidence(text) >= 50 THEN <<"RESPONSE_TEMPLATE">> ELSE <<>>)

(***************************************************************************)
(* The state.                                                              *)
(***************************************************************************)
Ticket == [category : AnyCategory, priority : Priorities, status : Nat, level : Nat, auto : BOOLEAN,
           tagged : BOOLEAN]

(* of is the entry that a person's entry overrides.                        *)
Entry == [ticket : Tickets, category : AnyCategory, priority : Priorities, confidence : Nat,
          auto : BOOLEAN, manual : BOOLEAN, of : Nat]

(* place is the action's place in its rule, 0 for the rule's condition.    *)
Execution == [rule : Nat, place : Nat, action : Actions \cup {"CONDITION_EVALUATION"}, ok : BOOLEAN]
Evaluation == [ticket : Tickets, rules : RuleLists, fired : SUBSET Nat, log : Seq(Execution), done : BOOLEAN]

Appending == {"ASSIGN_TO_USER", "CHANGE_STATUS", "ESCALATE"}

Free == [stage |-> "free"]
Classifying == [stage : {"log", "apply", "recommend"}, ticket : Tickets, old : Ticket, text : Texts,
                asked : BOOLEAN, entry : Nat, stored : Nat]
Overriding == [stage : {"mark", "correct", "record"}, entry : Nat, ticket : Tickets,
               category : AnyCategory, priority : Corrections]
Evaluating == [stage : {"rule", "action", "second", "third", "executed"}, run : Nat, rule : Nat,
               place : Nat, seen : Nat, ok : BOOLEAN]

AutomationTypeOK ==
  /\ tickets \in [Tickets -> Ticket]
  /\ log \in Seq(Entry)
  /\ \A i \in DOMAIN log : log[i].of < i /\ log[i].confidence <= (IF log[i].of = 0 THEN 95 ELSE 100)
  /\ recommendations \in SUBSET ((DOMAIN log) \X
       {"CATEGORY_ASSIGNMENT", "PRIORITY_ASSIGNMENT", "ESCALATION", "RESPONSE_TEMPLATE"})
  /\ feedback \in Seq(BOOLEAN)
  /\ evaluations \in Seq(Evaluation)
  /\ rows \in [Tickets -> [Appending -> Nat]]
  /\ requests \in [Requests -> {Free} \cup Classifying \cup Overriding \cup Evaluating]
  /\ calls \in Nat /\ scene \in Scenes

NewTicket == [category |-> NoCategory, priority |-> "MEDIUM", status |-> 0, level |-> 0, auto |-> FALSE,
              tagged |-> FALSE]

AutomationInit ==
  /\ Init
  /\ tickets = [t \in Tickets |-> NewTicket]
  /\ log = <<>> /\ recommendations = {} /\ feedback = <<>>
  /\ evaluations = <<>>
  /\ rows = [t \in Tickets |-> [a \in Appending |-> 0]]
  /\ requests = [r \in Requests |-> Free]
  /\ calls = 0 /\ scene \in Scenes

At(r, stage) == requests[r].stage = stage
Answer(r) == requests' = [requests EXCEPT ![r] = Free]
Goto(r, stage) == requests' = [requests EXCEPT ![r].stage = stage]

(***************************************************************************)
(* classifyTicket: read the ticket and predict, log, apply, recommend.     *)
(***************************************************************************)
ClassifyTicket(r) ==
  /\ "classify" \in scene.calls
  /\ \E t \in Tickets, text \in Texts, asked \in BOOLEAN :
       requests' = [requests EXCEPT ![r] =
         [stage |-> "log", ticket |-> t, old |-> tickets[t], text |-> text, asked |-> asked,
          entry |-> 0, stored |-> 0]]
  /\ UNCHANGED <<feedback, evaluations>>

AutoApply(q) == q.asked /\ Confidence(q.text) >= 75

LogClassification(r) ==
  LET q == requests[r]
      p == Prediction(q.text)
  IN
  /\ At(r, "log")
  /\ log' = Append(log, [ticket |-> q.ticket, category |-> p.category, priority |-> p.priority,
                         confidence |-> p.confidence, auto |-> AutoApply(q), manual |-> FALSE, of |-> 0])
  /\ requests' = [requests EXCEPT ![r].stage = "apply", ![r].entry = Len(log) + 1]
  /\ UNCHANGED <<tickets, recommendations, evaluations, rows, notes>>

(* Without a category to predict, the ticket gets the one it had when it   *)
(* was read.                                                               *)
ApplyClassification(r) ==
  LET q == requests[r]
      p == Prediction(q.text)
  IN
  /\ At(r, "apply")
  /\ tickets' = IF ~AutoApply(q) THEN tickets
                ELSE [tickets EXCEPT
                       ![q.ticket].category = IF p.category # NoCategory THEN p.category ELSE q.old.category,
                       ![q.ticket].priority = p.priority,
                       ![q.ticket].auto = TRUE]
  /\ Goto(r, "recommend")
  /\ UNCHANGED <<log, recommendations, evaluations, rows, notes>>

(* The recommendations are stored one by one.                              *)
StoreRecommendation(r) ==
  LET q == requests[r]
      wanted == Recommended(q.text)
  IN
  /\ At(r, "recommend")
  /\ recommendations' = recommendations \cup {<<q.entry, wanted[q.stored + 1]>>}
  /\ IF q.stored + 1 = Len(wanted) THEN Answer(r)
     ELSE requests' = [requests EXCEPT ![r].stored = @ + 1]
  /\ UNCHANGED <<tickets, log, evaluations, rows, notes>>

(***************************************************************************)
(* createOverride: mark the entry, correct the ticket that the request     *)
(* names, record an entry of a person's. submitFeedback.                   *)
(***************************************************************************)
CreateOverride(r) ==
  /\ "override" \in scene.calls
  /\ \E i \in DOMAIN log, t \in Tickets, c \in AnyCategory, p \in Corrections :
       requests' = [requests EXCEPT ![r] =
         [stage |-> "mark", entry |-> i, ticket |-> t, category |-> c, priority |-> p]]
  /\ UNCHANGED <<feedback, evaluations>>

Marked_Unmarked(i) == log

Marked(i) == [log EXCEPT ![i].manual = TRUE]

MarkOverridden(r) ==
  /\ At(r, "mark")
  /\ log' = Marked(requests[r].entry)
  /\ Goto(r, "correct")
  /\ UNCHANGED <<tickets, recommendations, evaluations, rows, notes>>

(* What the request does not correct stays.                                *)
Corrected(q, old) ==
  [old EXCEPT !.category = IF q.category # NoCategory THEN q.category ELSE @,
              !.priority = IF q.priority # "same" THEN q.priority ELSE @]

CorrectTicket(r) ==
  LET q == requests[r] IN
  /\ At(r, "correct")
  /\ tickets' = [tickets EXCEPT ![q.ticket] = Corrected(q, @)]
  /\ Goto(r, "record")
  /\ UNCHANGED <<log, recommendations, evaluations, rows, notes>>

RecordOverride(r) ==
  LET q == requests[r] IN
  /\ At(r, "record")
  /\ log' = Append(log, [Corrected(q, log[q.entry]) EXCEPT
                          !.ticket = q.ticket, !.confidence = 100, !.auto = TRUE, !.manual = TRUE,
                          !.of = q.entry])
  /\ Answer(r)
  /\ UNCHANGED <<tickets, recommendations, evaluations, rows, notes>>

SubmitFeedback(r) ==
  /\ "feedback" \in scene.calls
  /\ log # <<>>
  /\ \E accurate \in BOOLEAN : feedback' = Append(feedback, accurate)
  /\ UNCHANGED <<requests, evaluations>>

(***************************************************************************)
(* evaluateAndExecute. The rules are read once; a rule is [condition,      *)
(* actions], its condition met, not met or one that cannot be evaluated.   *)
(***************************************************************************)
EvaluateAndExecute(r) ==
  /\ "evaluate" \in scene.calls
  /\ \E t \in Tickets, rules \in scene.rules :
       evaluations' = Append(evaluations,
         [ticket |-> t, rules |-> rules, fired |-> {}, log |-> <<>>, done |-> FALSE])
  /\ requests' = [requests EXCEPT ![r] =
       [stage |-> "rule", run |-> Len(evaluations) + 1, rule |-> 1, place |-> 0, seen |-> 0, ok |-> TRUE]]
  /\ UNCHANGED feedback

RulesOf(q) == evaluations[q.run].rules

(* logExecution                                                            *)
Executed(q, action) ==
  evaluations' = [evaluations EXCEPT ![q.run].log =
    Append(@, [rule |-> q.rule, place |-> q.place, action |-> action, ok |-> q.ok])]

(* The next rule. A condition that cannot be evaluated is logged; of one   *)
(* that is met it is recorded that it triggered.                           *)
EvaluateRule(r) ==
  LET q == requests[r]
      rule == RulesOf(q)[q.rule]
  IN
  /\ At(r, "rule") /\ q.rule <= Len(RulesOf(q))
  /\ \/ /\ rule.condition = "met"
        /\ evaluations' = [evaluations EXCEPT ![q.run].fired = @ \cup {q.rule}]
        /\ requests' = [requests EXCEPT ![r].stage = "action", ![r].place = 1]
     \/ /\ rule.condition = "broken"
        /\ Executed([q EXCEPT !.ok = FALSE], "CONDITION_EVALUATION")
        /\ requests' = [requests EXCEPT ![r].rule = @ + 1]
     \/ /\ rule.condition = "unmet"
        /\ requests' = [requests EXCEPT ![r].rule = @ + 1]
        /\ UNCHANGED evaluations
  /\ UNCHANGED <<tickets, log, recommendations, rows, notes>>

AfterRules(r) ==
  LET q == requests[r] IN
  /\ At(r, "rule") /\ q.rule > Len(RulesOf(q))
  /\ evaluations' = [evaluations EXCEPT ![q.run].done = TRUE]
  /\ Answer(r)
  /\ UNCHANGED <<tickets, log, recommendations, rows, notes>>

ActionsOf(q) == RulesOf(q)[q.rule].actions
TicketOf(q) == evaluations[q.run].ticket

AfterActions(r) ==
  LET q == requests[r] IN
  /\ At(r, "action") /\ q.place > Len(ActionsOf(q))
  /\ requests' = [requests EXCEPT ![r].stage = "rule", ![r].rule = @ + 1, ![r].place = 0]
  /\ UNCHANGED <<tickets, log, recommendations, evaluations, rows, notes>>

(* The request is before the first, second or third statement of an action *)
(* that is of one of these types.                                          *)
Takes(r, stage, types) ==
  LET q == requests[r] IN
  At(r, stage) /\ q.place <= Len(ActionsOf(q)) /\ ActionsOf(q)[q.place] \in types

(* Two types of action read the ticket first.                              *)
ReadTicket(r) ==
  LET t == tickets[TicketOf(requests[r])] IN
  /\ Takes(r, "action", {"CHANGE_STATUS", "ESCALATE"})
  /\ requests' = [requests EXCEPT ![r].stage = "second",
       ![r].seen = IF Takes(r, "action", {"ESCALATE"}) THEN t.level ELSE t.status]
  /\ UNCHANGED <<tickets, log, recommendations, evaluations, rows, notes>>

ThirdNeeded_Never == {}

(* The actions that add their row in a statement after the change.         *)
ThirdNeeded == {"CHANGE_STATUS", "ESCALATE"}

(* The ticket is changed: to a status that is new each time, or to the     *)
(* level after the one that was read.                                      *)
ChangeTicket(r) ==
  LET q == requests[r]
      t == TicketOf(q)
  IN
  /\ \/ /\ Takes(r, "second", {"ESCALATE"})
        /\ tickets' = [tickets EXCEPT ![t].level = q.seen + 1]
     \/ /\ Takes(r, "second", {"CHANGE_STATUS"})
        /\ tickets' = [tickets EXCEPT ![t].status = q.run]
  /\ Goto(r, IF Takes(r, "second", ThirdNeeded) THEN "third" ELSE "executed")
  /\ UNCHANGED <<log, recommendations, evaluations, rows, notes>>

(* A ticket is assigned, then the assignment recorded.                     *)
AssignTicket(r) ==
  /\ Takes(r, "action", {"ASSIGN_TO_USER"})
  /\ Goto(r, "third")
  /\ UNCHANGED <<tickets, log, recommendations, evaluations, rows, notes>>

(* ... a row that says so.                                                 *)
AddRow(r) ==
  LET q == requests[r] IN
  /\ Takes(r, "third", Appending)
  /\ rows' = [rows EXCEPT ![TicketOf(q)][ActionsOf(q)[q.place]] = @ + 1]
  /\ Goto(r, "executed")
  /\ UNCHANGED <<tickets, log, recommendations, evaluations, notes>>

(* The actions of one statement: the tag is an upsert.                     *)
ChangeOnce(r) ==
  LET t == TicketOf(requests[r]) IN
  /\ \/ /\ Takes(r, "action", {"CHANGE_PRIORITY"})
        /\ \E p \in Corrections \ {"same"} : tickets' = [tickets EXCEPT ![t].priority = p]
     \/ /\ Takes(r, "action", {"ADD_TAG"})
        /\ tickets' = [tickets EXCEPT ![t].tagged = TRUE]
  /\ Goto(r, "executed")
  /\ UNCHANGED <<log, recommendations, evaluations, rows, notes>>

(* SEND_NOTIFICATION creates a notification, and no recipients of it.      *)
Queued(channel) ==
  [channel |-> channel, status |-> "PENDING", retries |-> 0, limit |-> 3, dated |-> FALSE,
   to |-> {}, delivery |-> [p \in Recipients |-> "PENDING"]]

QueueNotification(r) ==
  /\ Takes(r, "action", {"SEND_NOTIFICATION"})
  /\ \E channel \in Channels : notes' = Append(notes, Queued(channel))
  /\ Goto(r, "executed")
  /\ UNCHANGED <<tickets, log, recommendations, evaluations, rows>>

(* An action throws: it is invalid or a statement of it fails. Or it does  *)
(* not, but the row that says so cannot be written: that is caught too.    *)
Throw(r) ==
  LET q == requests[r] IN
  /\ \/ At(r, "action") /\ q.place <= Len(ActionsOf(q))
     \/ At(r, "second") \/ At(r, "third")
     \/ At(r, "executed") /\ q.ok
  /\ requests' = [requests EXCEPT ![r].stage = "executed", ![r].ok = FALSE]
  /\ UNCHANGED <<tickets, log, recommendations, evaluations, rows, notes>>

(* What follows an action, whether it succeeded or threw.                  *)
NextAction_StopWhenFailed(q) ==
  IF q.ok THEN [q EXCEPT !.stage = "action", !.place = @ + 1, !.ok = TRUE]
  ELSE [q EXCEPT !.stage = "rule", !.rule = @ + 1, !.place = 0, !.ok = TRUE]

NextAction(q) == [q EXCEPT !.stage = "action", !.place = @ + 1, !.ok = TRUE]

LogExecution(r) ==
  LET q == requests[r] IN
  /\ At(r, "executed")
  /\ Executed(q, ActionsOf(q)[q.place])
  /\ requests' = [requests EXCEPT ![r] = NextAction(q)]
  /\ UNCHANGED <<tickets, log, recommendations, rows, notes>>

(***************************************************************************)
(* The specification.                                                      *)
(***************************************************************************)

(* A request dies between two statements.                                  *)
Die(r) ==
  /\ ~At(r, "free")
  /\ Answer(r)
  /\ UNCHANGED <<tickets, aiVars, evaluations, rows, calls, notes>>

Call(r) ==
  /\ At(r, "free") /\ calls < scene.most /\ calls' = calls + 1
  /\ ClassifyTicket(r) \/ CreateOverride(r) \/ SubmitFeedback(r) \/ EvaluateAndExecute(r)
  /\ UNCHANGED <<tickets, log, recommendations, rows, notes>>

Step(r) ==
  /\ \/ LogClassification(r) \/ ApplyClassification(r) \/ StoreRecommendation(r)
     \/ MarkOverridden(r) \/ CorrectTicket(r) \/ RecordOverride(r)
     \/ EvaluateRule(r) \/ AfterRules(r) \/ AfterActions(r)
     \/ ReadTicket(r) \/ ChangeTicket(r) \/ AssignTicket(r) \/ AddRow(r) \/ ChangeOnce(r)
     \/ QueueNotification(r) \/ Throw(r) \/ LogExecution(r)
  /\ UNCHANGED <<feedback, calls>>

Machine == /\ \E r \in Requests : Call(r) \/ Step(r) \/ Die(r)
           /\ UNCHANGED <<workers, failures, scene>>

Delivery == "send" \in scene.calls /\ Next /\ UNCHANGED machineVars

AutomationNext == Machine \/ Delivery

AutomationSpec == AutomationInit /\ [][AutomationNext]_allVars

(***************************************************************************)
(* Properties.                                                             *)
(***************************************************************************)

(* What the classifier changes of a ticket was logged first, as applied    *)
(* automatically and with the confidence that this takes: whatever dies or *)
(* overlaps, no ticket is marked as classified without an entry for it.    *)
MarkedIsLogged ==
  \A t \in Tickets : tickets[t].auto =>
    \E i \in DOMAIN log : log[i].ticket = t /\ log[i].auto /\ log[i].of = 0 /\ log[i].confidence >= 75

(* An entry of a person's stands for an earlier one that is marked as      *)
(* overridden, so that the share of overrides never counts it alone.       *)
OverridesMarkTheirEntry ==
  \A i \in DOMAIN log : log[i].of # 0 => log[log[i].of].manual

(* An escalation is only recommended for what was predicted to be urgent,  *)
(* and a response template only with some confidence.                      *)
RecommendationsFit ==
  \A x \in recommendations :
    /\ x[2] = "ESCALATION" => log[x[1]].priority \in {"CRITICAL", "HIGH"}
    /\ x[2] = "RESPONSE_TEMPLATE" => log[x[1]].confidence >= 50

(* The executions that an evaluation has to make, in order: each action of *)
(* each rule that is met, and the conditions that cannot be evaluated.     *)
PlacesOf(rule) ==
  IF rule.condition = "met" THEN DOMAIN rule.actions ELSE IF rule.condition = "broken" THEN {0} ELSE {}

Places(rules) == UNION {{i} \X PlacesOf(rules[i]) : i \in DOMAIN rules}

Before(p, o) == p[1] < o[1] \/ (p[1] = o[1] /\ p[2] < o[2])
Place(x) == <<x.rule, x.place>>

(* One that an evaluation of these rules, of which some fired, may log.    *)
Rightly(x, rules, fired) ==
  /\ Place(x) \in Places(rules)
  /\ IF x.place = 0 THEN x.action = "CONDITION_EVALUATION" /\ ~x.ok
     ELSE /\ x.rule \in fired
          /\ x.action = rules[x.rule].actions[x.place]
          /\ x.action = "invalid" => ~x.ok

Logged(p, e) == \E i \in DOMAIN e.log : Place(e.log[i]) = p

(* An evaluation logs what it tried in the order of its rules and actions, *)
(* each once and without a gap, those after one that failed too, and all   *)
(* of it unless it dies; and it tries no action of a rule that has not     *)
(* been recorded to have triggered.                                        *)
InOrder(e) ==
  /\ \A i \in DOMAIN e.log : Rightly(e.log[i], e.rules, e.fired)
  /\ \A i, j \in DOMAIN e.log : i < j => Before(Place(e.log[i]), Place(e.log[j]))
  /\ \A p \in Places(e.rules) :
       e.done \/ (\E i \in DOMAIN e.log : Before(p, Place(e.log[i]))) => Logged(p, e)

(* Every evaluation does, whatever dies or overlaps.                       *)
ActionsTriedInOrder == \A run \in DOMAIN evaluations : InOrder(evaluations[run])

(* Those that were logged as a success: <<evaluation, index>>.             *)
Succeeded(T, a) ==
  {x \in UNION {{run} \X (DOMAIN evaluations[run].log) : run \in DOMAIN evaluations} :
     /\ evaluations[x[1]].ticket \in T
     /\ evaluations[x[1]].log[x[2]].action = a /\ evaluations[x[1]].log[x[2]].ok}

(* An action that is logged as a success left its row: an assignment, a    *)
(* line of history, an escalation event, a tag or a notification, though   *)
(* the evaluation dies next or others run at once.                         *)
SuccessLeavesItsRow ==
  /\ \A t \in Tickets :
       /\ \A a \in Appending : Cardinality(Succeeded({t}, a)) <= rows[t][a]
       /\ Succeeded({t}, "ADD_TAG") # {} => tickets[t].tagged
  /\ Cardinality(Succeeded(Tickets, "SEND_NOTIFICATION")) <= Cardinality({n \in DOMAIN notes : notes[n].to = {}})

(* "This creates a notification record. The notifications module handles   *)
(* dispatch." It fails: what a rule queues is PENDING and for nobody, and  *)
(* neither a request that sends nor the cron looks for such a one.         *)
QueuedIsDispatched ==
  \A n \in 1..MaxNotes :
    (n \in DOMAIN notes /\ notes[n].to = {}) ~> (n \in DOMAIN notes /\ notes[n].status # "PENDING")

(* getMetrics counts entries in five ranges of confidence.                 *)
Buckets(c) == <<c < 30, 30 <= c /\ c < 50, 50 <= c /\ c < 70, 70 <= c /\ c < 90, 90 <= c>>

Metrics ==
  [total |-> Len(log),
   autoApplied |-> Cardinality({i \in DOMAIN log : log[i].auto /\ ~log[i].manual}),
   overrides |-> Cardinality({i \in DOMAIN log : log[i].manual}),
   distribution |-> [b \in 1..5 |-> Cardinality({i \in DOMAIN log : Buckets(log[i].confidence)[b]})]]

(* The metrics add up: the ranges cover every entry once, and what was     *)
(* applied and what was overridden are different entries.                  *)
MetricsAddUp ==
  /\ LET d == Metrics.distribution IN d[1] + d[2] + d[3] + d[4] + d[5] = Metrics.total
  /\ Metrics.autoApplied + Metrics.overrides <= Metrics.total

(* A person's correction is of the ticket that was classified. It fails:   *)
(* nothing compares the ticket that a request names with that of the entry.*)
OverridesStayOnTheirTicket ==
  \A i \in DOMAIN log : log[i].of # 0 => log[i].ticket = log[log[i].of].ticket

(* The log of classifications can be relied on: by those who ask what the  *)
(* classifier changed, what people corrected and how often.                *)
LogIsSound ==
  AutomationTypeOK /\ MarkedIsLogged /\ OverridesMarkTheirEntry /\ RecommendationsFit /\ MetricsAddUp
=============================================================================
