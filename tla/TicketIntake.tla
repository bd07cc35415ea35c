----------------------------- MODULE TicketIntake ---------------------------
(***************************************************************************)
(* How tickets come to be: the API (createTicket of tickets.service.ts)    *)
(* and inbound email, whose webhook (email-ingest.controller.ts) only      *)
(* publishes to a Kafka topic that a consumer (kafka.consumer.base.ts,     *)
(* email-ingest.service.ts) works off. Both number their tickets by        *)
(* looking up the highest number of the day and adding one, then create    *)
(* the ticket; only the unique index keeps two from taking the same.       *)
(*                                                                         *)
(* The model is of one day: the numbers of different days share nothing.   *)
(***************************************************************************)
EXTENDS Integers, Sequences, FiniteSets

CONSTANTS
  Clients,       (* requests that may be creating tickets at once           *)
  Partitions,    (* partitions of the topic, each read by one consumer      *)
  Emails,        (* emails citizens send                                    *)
  PartitionOf,   (* the partition of an email's sender                      *)
  RepliesTo,     (* the ticket number in an email's subject, or None        *)
  WithMessageId, (* emails that carry a Message-Id                          *)
  None,          (* no value                                                *)
  Base, Width,   (* numbers are padded to 5 digits of base 10               *)
  MaxTickets,    (* bound: no creation by the API is started past it        *)
  MaxDeliveries, (* bound: webhook calls, repeated ones included            *)
  MaxFailures,   (* bound: statements and publications that fail            *)
  MaxCrashes     (* bound: consumers that die                               *)

(* Any emails and any partitions; numbers have a digit at least.           *)
ASSUME IntakeAssumption ==
  /\ Clients \cap Partitions = {}
  /\ PartitionOf \in [Emails -> Partitions]
  /\ RepliesTo \in [Emails -> Nat \cup {None}]
  /\ WithMessageId \subseteq Emails
  /\ None \notin Emails \cup Nat
  /\ Base \in Nat \ {0, 1} /\ Width \in Nat \ {0}
  /\ {MaxTickets, MaxDeliveries, MaxFailures, MaxCrashes} \subseteq Nat

VARIABLES
  tickets,   (* the tickets of the day: number, and the email it quotes     *)
  messages,  (* the emails appended to tickets, in order                    *)
  topic,     (* per partition: the emails published                         *)
  position,  (* per partition: how many the consumer is done with           *)
  committed, (* ... how many when it last committed or started              *)
  stored,    (* partitions of which the broker has been told an offset      *)
  workers,   (* per client and per consumer: where its handler is           *)
  delivered, (* webhook calls received                                      *)
  refused,   (* creations that the unique index has refused                 *)
  failures,  (* statements and publications that failed                     *)
  crashes    (* consumers that died                                         *)

tables == <<tickets, messages>>
kafka  == <<topic, position, committed, stored>>
counts == <<delivered, refused, failures, crashes>>
vars   == <<tables, kafka, workers, counts>>

Workers == Clients \cup Partitions

Idle     == [stage |-> "idle"]
Down     == [stage |-> "down"]
Resting  == {Idle, Down}
Creating == [stage : {"number", "create"}, number : Nat]
Handling == [stage : {"dedupe", "reply"}, number : {0}]

IntakeTypeOK ==
  /\ tickets \subseteq [number : Nat, email : Emails \cup {None}]
  /\ messages \in Seq(Emails)
  /\ topic \in [Partitions -> Seq(Emails)]
  /\ position \in [Partitions -> Nat]
  /\ committed \in [Partitions -> Nat]
  /\ stored \subseteq Partitions
  /\ workers \in [Workers -> Resting \cup Creating \cup Handling]
  /\ delivered \in Nat /\ refused \in Nat
  /\ failures \in Nat /\ crashes \in Nat
  /\ \A p \in Partitions : committed[p] <= position[p] /\ position[p] <= Len(topic[p])

Init ==
  /\ tickets = {} /\ messages = <<>>
  /\ topic = [p \in Partitions |-> <<>>]
  /\ position = [p \in Partitions |-> 0]
  /\ committed = [p \in Partitions |-> 0]
  /\ stored = {}
  /\ workers = [w \in Workers |-> Idle]
  /\ delivered = 0 /\ refused = 0 /\ failures = 0 /\ crashes = 0

(* A definition named <Name>_<Change> is <Name> with a plausible mistake   *)
(* in it, to be put in its place to see that the properties notice.        *)

(***************************************************************************)
(* Numbering (generateTicketNumber, the same in both services).            *)
(***************************************************************************)
Numbers == {t.number : t \in tickets}

(* "orderBy: ticketNumber desc" compares strings: a number with a digit    *)
(* more than the padding sorts by its leading digits, before the numbers   *)
(* that start with greater ones. Sorting is monotonic in that order.       *)
Sorting(n) == IF n < Base^Width THEN 2 * Base * n - 1 ELSE 2 * n

NextNumber_Reserved ==
  LET taken == Numbers \cup {workers[w].number : w \in {v \in Workers : workers[v].stage = "create"}}
  IN  IF taken = {} THEN 1
      ELSE 1 + CHOOSE n \in taken : \A m \in taken : Sorting(m) <= Sorting(n)

NextNumber ==
  IF Numbers = {} THEN 1
  ELSE 1 + CHOOSE n \in Numbers : \A m \in Numbers : Sorting(m) <= Sorting(n)

Go(w, stage) == workers' = [workers EXCEPT ![w] = [stage |-> stage, number |-> 0]]

GenerateNumber(w) ==
  /\ workers[w].stage = "number"
  /\ workers' = [workers EXCEPT ![w] = [stage |-> "create", number |-> NextNumber]]
  /\ UNCHANGED <<tables, kafka, counts>>

(***************************************************************************)
(* The API.                                                                *)
(***************************************************************************)
CreateTicket(c) ==
  /\ workers[c] = Idle
  /\ Cardinality(tickets) < MaxTickets
  /\ Go(c, "number")
  /\ UNCHANGED <<tables, kafka, counts>>

(* The transaction. Refused by the index, it is an error for the client.   *)
InsertTicket(c) ==
  LET n == workers[c].number IN
  /\ workers[c].stage = "create"
  /\ IF n \in Numbers
       THEN refused' = refused + 1 /\ UNCHANGED tickets
       ELSE tickets' = tickets \cup {[number |-> n, email |-> None]} /\ UNCHANGED refused
  /\ workers' = [workers EXCEPT ![c] = Idle]
  /\ UNCHANGED <<messages, kafka, delivered, failures, crashes>>

(* A request dies, or its transaction fails and is rolled back.            *)
FailRequest(c) ==
  /\ workers[c] # Idle
  /\ failures < MaxFailures
  /\ failures' = failures + 1
  /\ workers' = [workers EXCEPT ![c] = Idle]
  /\ UNCHANGED <<tables, kafka, delivered, refused, crashes>>

(***************************************************************************)
(* Email.                                                                  *)
(***************************************************************************)

(* The webhook publishes, and answers "queued" even if publish has skipped *)
(* the event. The mail provider may call again with the same email.        *)
ReceiveEmail(e) ==
  LET p == PartitionOf[e] IN
  /\ delivered < MaxDeliveries
  /\ delivered' = delivered + 1
  /\ \/ /\ topic' = [topic EXCEPT ![p] = Append(@, e)]
        /\ UNCHANGED failures
     \/ /\ failures < MaxFailures /\ failures' = failures + 1
        /\ UNCHANGED topic
  /\ UNCHANGED <<tables, position, committed, stored, workers, refused, crashes>>

EmailAt(p) == topic[p][position[p] + 1]

(* eachMessage: one email of the partition at a time, in order.            *)
TakeEmail(p) ==
  /\ workers[p] = Idle
  /\ position[p] < Len(topic[p])
  /\ Go(p, "dedupe")
  /\ UNCHANGED <<tables, kafka, counts>>

Finish(p) ==
  /\ workers' = [workers EXCEPT ![p] = Idle]
  /\ position' = [position EXCEPT ![p] = @ + 1]

(* Is there a ticket that quotes the Message-Id? None quotes one appended. *)
IsDuplicate_OfMessages(e) ==
  e \in WithMessageId /\ \E i \in DOMAIN messages : messages[i] = e

IsDuplicate(e) == e \in WithMessageId /\ \E t \in tickets : t.email = e

Deduplicate(p) ==
  /\ workers[p].stage = "dedupe"
  /\ IF IsDuplicate(EmailAt(p))
       THEN Finish(p)
       ELSE Go(p, "reply") /\ UNCHANGED position
  /\ UNCHANGED <<tables, topic, committed, stored, counts>>

IsReply(e) == RepliesTo[e] \in Numbers

(* A reply to a ticket that exists is a message on it, anything else goes  *)
(* on to be a ticket. (Tickets are never deleted, so looking the ticket up *)
(* and writing the message can be one step.)                               *)
AppendReply(p) ==
  LET e == EmailAt(p) IN
  /\ workers[p].stage = "reply"
  /\ IF IsReply(e)
       THEN Finish(p) /\ messages' = Append(messages, e)
       ELSE Go(p, "number") /\ UNCHANGED <<position, messages>>
  /\ UNCHANGED <<tickets, topic, committed, stored, counts>>

(* ticket.create. Refused by the index, the email is dropped: the error is *)
(* logged and the message counts as handled.                               *)
InsertEmailTicket(p) ==
  LET n == workers[p].number IN
  /\ workers[p].stage = "create"
  /\ IF n \in Numbers
       THEN refused' = refused + 1 /\ UNCHANGED tickets
       ELSE tickets' = tickets \cup {[number |-> n, email |-> EmailAt(p)]} /\ UNCHANGED refused
  /\ Finish(p)
  /\ UNCHANGED <<messages, topic, committed, stored, delivered, failures, crashes>>

(* Any statement that fails ends the handler; the base consumer logs the   *)
(* error and turns to the next message.                                    *)
DropEmail(p) ==
  /\ workers[p] \notin Resting
  /\ failures < MaxFailures
  /\ failures' = failures + 1
  /\ Finish(p)
  /\ UNCHANGED <<tables, topic, committed, stored, delivered, refused, crashes>>

(* autoCommit, every five seconds.                                         *)
CommitOffset(p) ==
  /\ workers[p] # Down /\ committed[p] # position[p]
  /\ committed' = [committed EXCEPT ![p] = position[p]]
  /\ stored' = stored \cup {p}
  /\ UNCHANGED <<tables, topic, position, workers, counts>>

(* The consumer's process dies and is started again: with the offset the   *)
(* broker has, or, where none was ever committed, at the end of the topic  *)
(* (fromBeginning: false). A start that fails is logged, not repeated: the *)
(* process then runs without the consumer, until it dies in turn.          *)
Restart(p, start) ==
  /\ crashes < MaxCrashes
  /\ crashes' = crashes + 1
  /\ \/ workers' = [workers EXCEPT ![p] = Idle] /\ UNCHANGED failures
     \/ /\ failures < MaxFailures /\ failures' = failures + 1
        /\ workers' = [workers EXCEPT ![p] = Down]
  /\ position' = [position EXCEPT ![p] = start]
  /\ committed' = [committed EXCEPT ![p] = start]
  /\ UNCHANGED <<tables, topic, stored, delivered, refused>>

Crash_FromLatest(p) == Restart(p, Len(topic[p]))

Crash(p) == Restart(p, IF p \in stored THEN committed[p] ELSE Len(topic[p]))

Consume(p) ==
  TakeEmail(p) \/ Deduplicate(p) \/ AppendReply(p) \/ GenerateNumber(p) \/ InsertEmailTicket(p)

Next ==
  \/ \E c \in Clients : CreateTicket(c) \/ GenerateNumber(c) \/ InsertTicket(c) \/ FailRequest(c)
  \/ \E e \in Emails : ReceiveEmail(e)
  \/ \E p \in Partitions : Consume(p) \/ DropEmail(p) \/ CommitOffset(p) \/ Crash(p)

Spec == Init /\ [][Next]_vars

(* A consumer that has messages works them off.                            *)
Fairness == \A p \in Partitions : WF_vars(Consume(p))

FairSpec == Spec /\ Fairness

(***************************************************************************)
(* Properties.                                                             *)
(***************************************************************************)

(* The tickets of a day are numbered from 1 without a gap, in whatever way *)
(* creations overlap, collide and fail.                                    *)
NumbersAreSequential == Numbers = 1..Cardinality(tickets)

(* An email that carries a Message-Id makes one ticket at most, however    *)
(* often the provider repeats it, and wherever the consumer dies and is    *)
(* given it again.                                                         *)
OneTicketPerEmail ==
  \A t, u \in tickets : t.email = u.email /\ t.email \in WithMessageId => t = u

(* An email is on record: as a ticket of its own or as a message.          *)
Kept(e) == (\E t \in tickets : t.email = e) \/ (\E i \in DOMAIN messages : messages[i] = e)

(* A copy of the email is beyond what the consumer has committed.          *)
Uncommitted(e) ==
  LET p == PartitionOf[e] IN \E i \in committed[p] + 1..Len(topic[p]) : topic[p][i] = e

(* A consumer that died before anything was committed has passed it over.  *)
PassedOver(e) == crashes > 0 /\ PartitionOf[e] \notin stored /\ ~Uncommitted(e)

(* An email the consumer has yet to commit gets on record, though          *)
(* consumers die, unless a statement or a start of the consumer failed, an *)
(* overlapping creation took the number, or the consumer died before       *)
(* anything of the partition had ever been committed.                      *)
EmailIsKept ==
  \A e \in Emails :
    Uncommitted(e) ~> Kept(e) \/ PassedOver(e) \/ refused > 0 \/ failures > 0

(* "The system shall guarantee message delivery for event-driven           *)
(* workflows": what the consumer is done with is on record. It fails: an   *)
(* email whose number is taken by an overlapping creation is dropped, and  *)
(* so is what a consumer's first start passes over.                        *)
ConsumedIsKept ==
  \A p \in Partitions : \A i \in 1..position[p] : Kept(topic[p][i])
=============================================================================
