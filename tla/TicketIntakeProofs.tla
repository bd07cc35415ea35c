-------------------------- MODULE TicketIntakeProofs ------------------------
(***************************************************************************)
(* Theorems of TicketIntake, for any clients, emails and partitions, any   *)
(* padding of the numbers and any bounds.                                  *)
(***************************************************************************)
EXTENDS TicketIntake, FiniteSetTheorems, WellFoundedInduction, TLAPS

(***************************************************************************)
(* The highest number.                                                     *)
(***************************************************************************)

(* The sort key of a number is an integer, whatever Base^Width is.         *)
LEMMA SortingType ==
  ASSUME NEW n \in Nat
  PROVE  Sorting(n) \in Int
  <1>1. 2 * Base * n - 1 \in Int /\ 2 * n \in Int
    BY IntakeAssumption
  <1> QED
    BY <1>1 DEF Sorting

(* The least-number principle, for a set of numbers.                       *)
LEMMA LeastNumber ==
  ASSUME NEW S \in SUBSET Nat, S # {}
  PROVE  \E k \in S : \A j \in S : k <= j
  <1>1. \E k \in S : \A j \in S : <<j, k>> \notin OpToRel(<, Nat)
    BY NatLessThanWellFounded, WFMin
  <1>2. PICK k \in S : \A j \in S : <<j, k>> \notin OpToRel(<, Nat)
    BY <1>1
  <1>3. ASSUME NEW j \in S PROVE k <= j
    <2>1. ~(j < k)
      BY <1>2 DEF OpToRel
    <2> QED
      BY <2>1
  <1> QED
    BY <1>3

Highest(n, k) == \A m \in 1..k : Sorting(m) <= Sorting(n)

(* A day that has tickets has a number that sorts last: the first k that   *)
(* had none would owe it to k - 1, whose last number or k itself is last.  *)
LEMMA SomeNumberSortsLast ==
  ASSUME NEW k \in Nat \ {0}
  PROVE  \E n \in 1..k : Highest(n, k)
  <1> DEFINE Without == {j \in Nat \ {0} : ~ \E n \in 1..j : Highest(n, j)}
  <1> SUFFICES ASSUME Without # {} PROVE FALSE
    OBVIOUS
  <1>1. PICK j \in Without : \A i \in Without : j <= i
    BY LeastNumber
  <1>2. CASE j = 1
    <2>1. Highest(1, 1)
      BY SortingType DEF Highest
    <2> QED
      BY <1>2, <2>1
  <1>3. CASE j # 1
    <2>1. j - 1 \in Nat \ {0} /\ j - 1 \notin Without
      BY <1>1, <1>3
    <2>2. PICK n \in 1..(j - 1) : Highest(n, j - 1)
      BY <2>1
    <2>3. \A m \in 1..j : m = j \/ m \in 1..(j - 1)
      OBVIOUS
    <2>4. Sorting(n) \in Int /\ Sorting(j) \in Int /\ n \in 1..j /\ j \in 1..j
      BY SortingType
    <2>5. CASE Sorting(j) <= Sorting(n)
      <3>1. Highest(n, j)
        BY <2>2, <2>3, <2>5 DEF Highest
      <3> QED
        BY <2>4, <3>1
    <2>6. CASE Sorting(n) <= Sorting(j)
      <3>1. ASSUME NEW m \in 1..j PROVE Sorting(m) <= Sorting(j)
        <4>1. Sorting(m) \in Int
          BY SortingType
        <4> QED
          <5>1. CASE m = j
            BY <2>4, <5>1
          <5>2. CASE m \in 1..(j - 1)
            <6>1. Sorting(m) <= Sorting(n)
              BY <2>2, <5>2 DEF Highest
            <6> HIDE DEF Without
            <6> QED
              BY <2>4, <2>6, <4>1, <6>1
          <5> QED
            BY <2>3, <5>1, <5>2
      <3>2. Highest(j, j)
        BY <3>1 DEF Highest
      <3> QED
        BY <2>4, <3>2
    <2> QED
      BY <2>4, <2>5, <2>6
  <1> QED
    BY <1>2, <1>3

(* The number a creation computes is one that is taken, plus one.          *)
LEMMA NextNumberFollows ==
  ASSUME NEW k \in Nat, Numbers = 1..k
  PROVE  NextNumber \in 1..(k + 1)
  <1>1. CASE k = 0
    <2>1. Numbers = {}
      BY <1>1
    <2> QED
      BY <1>1, <2>1 DEF NextNumber
  <1>2. CASE k # 0
    <2> DEFINE last == CHOOSE n \in Numbers : \A m \in Numbers : Sorting(m) <= Sorting(n)
    <2>1. \E n \in Numbers : \A m \in Numbers : Sorting(m) <= Sorting(n)
      BY <1>2, SomeNumberSortsLast DEF Highest
    <2>2. last \in Numbers
      BY <2>1
    <2>3. NextNumber = 1 + last
      BY <2>2 DEF NextNumber
    <2> QED
      BY <2>2, <2>3
  <1> QED
    BY <1>1, <1>2

(***************************************************************************)
(* The inductive invariant.                                                *)
(***************************************************************************)

(* A consumer is only busy with an email that its partition holds.         *)
BusyWithAnEmail ==
  \A p \in Partitions : workers[p] \notin Resting => position[p] < Len(topic[p])

(* The number a creation has computed is taken, or it is the next one.     *)
NumbersInFlight ==
  \A w \in Workers : workers[w].stage = "create"
    => workers[w].number \in 1..(Cardinality(tickets) + 1)

Numbering ==
  /\ IsFiniteSet(tickets)
  /\ NumbersAreSequential
  /\ NumbersInFlight

Typing == IntakeTypeOK /\ BusyWithAnEmail

(* Every worker's state is idle, or has a stage and a number.              *)
LEMMA WorkerStates ==
  ASSUME IntakeTypeOK, NEW w \in Workers
  PROVE  /\ workers[w] \in Resting \cup Creating \cup Handling
         /\ workers[w].stage \in {"number", "create"} => workers[w] \in Creating
         /\ workers[w].stage \in {"dedupe", "reply"} => workers[w] \in Handling
         /\ workers[w].stage \notin {"idle", "down"} => workers[w] \notin Resting
  BY DEF IntakeTypeOK, Idle, Down, Resting, Creating, Handling

(* A worker sent to a stage is well typed, and the others are untouched.   *)
LEMMA GoType ==
  ASSUME IntakeTypeOK, NEW w \in Workers,
         NEW stage \in {"number", "create", "dedupe", "reply"}, Go(w, stage)
  PROVE  /\ workers' \in [Workers -> Resting \cup Creating \cup Handling]
         /\ \A v \in Workers : v # w => workers'[v] = workers[v]
         /\ workers'[w] = [stage |-> stage, number |-> 0]
  <1>1. [stage |-> stage, number |-> 0] \in Creating \cup Handling
    BY DEF Creating, Handling
  <1> QED
    BY <1>1 DEF IntakeTypeOK, Go

(* A worker sent home is idle, and the others are untouched.               *)
LEMMA HomeType ==
  ASSUME IntakeTypeOK, NEW w \in Workers, workers' = [workers EXCEPT ![w] = Idle]
  PROVE  /\ workers' \in [Workers -> Resting \cup Creating \cup Handling]
         /\ \A v \in Workers : v # w => workers'[v] = workers[v]
         /\ workers'[w] = Idle
  BY DEF IntakeTypeOK, Resting

(* What the topic is asked for at a busy consumer's position is an email.  *)
LEMMA EmailAtType ==
  ASSUME Typing, NEW p \in Partitions, workers[p] \notin Resting
  PROVE  /\ position[p] + 1 \in 1..Len(topic[p])
         /\ EmailAt(p) \in Emails
  <1>1. position[p] \in Nat /\ topic[p] \in Seq(Emails)
    BY DEF Typing, IntakeTypeOK
  <1>2. position[p] < Len(topic[p])
    BY DEF Typing, BusyWithAnEmail
  <1>3. position[p] + 1 \in 1..Len(topic[p])
    BY <1>1, <1>2
  <1> QED
    BY <1>1, <1>3 DEF EmailAt

(* Moving on to the next email keeps positions within the topic.           *)
LEMMA FinishType ==
  ASSUME Typing, NEW p \in Partitions, workers[p] \notin Resting, Finish(p),
         UNCHANGED <<topic, committed>>
  PROVE  /\ workers' \in [Workers -> Resting \cup Creating \cup Handling]
         /\ position' \in [Partitions -> Nat]
         /\ \A q \in Partitions : committed'[q] <= position'[q] /\ position'[q] <= Len(topic'[q])
         /\ BusyWithAnEmail'
  <1> p \in Workers /\ Partitions \subseteq Workers
    BY DEF Workers
  <1>1. /\ workers' \in [Workers -> Resting \cup Creating \cup Handling]
        /\ \A v \in Workers : v # p => workers'[v] = workers[v]
        /\ workers'[p] = Idle
    BY HomeType DEF Typing, Finish
  <1>2. /\ position \in [Partitions -> Nat] /\ committed \in [Partitions -> Nat]
        /\ \A q \in Partitions : committed[q] <= position[q] /\ position[q] <= Len(topic[q])
    BY DEF Typing, IntakeTypeOK
  <1>3. position[p] + 1 \in Nat /\ position[p] + 1 <= Len(topic[p])
    BY <1>2, EmailAtType
  <1>4. position' = [position EXCEPT ![p] = position[p] + 1]
    BY DEF Finish
  <1>5. position' \in [Partitions -> Nat]
    BY <1>2, <1>3, <1>4
  <1>6. ASSUME NEW q \in Partitions
        PROVE  committed'[q] <= position'[q] /\ position'[q] <= Len(topic'[q])
    <2>1. CASE q = p
      <3>1. position'[q] = position[p] + 1
        BY <1>2, <1>4, <2>1
      <3>2. position[p] \in Nat /\ committed[p] \in Nat /\ committed[p] <= position[p]
        BY <1>2
      <3> QED
        BY <1>3, <2>1, <3>1, <3>2
    <2>2. CASE q # p
      BY <1>2, <1>4, <2>2
    <2> QED
      BY <2>1, <2>2
  <1>7. BusyWithAnEmail'
    <2> SUFFICES ASSUME NEW q \in Partitions, workers'[q] \notin Resting
                 PROVE  position'[q] < Len(topic'[q])
      BY DEF BusyWithAnEmail
    <2>1. q # p /\ workers[q] \notin Resting
      BY <1>1 DEF Resting
    <2> QED
      BY <1>2, <1>4, <2>1 DEF Typing, BusyWithAnEmail
  <1> QED
    BY <1>1, <1>5, <1>6, <1>7

(***************************************************************************)
(* Types.                                                                  *)
(***************************************************************************)

(* The day starts well typed, with every worker idle.                      *)
LEMMA InitTyping == Init => Typing
  <1> SUFFICES ASSUME Init PROVE Typing
    OBVIOUS
  <1> USE DEF Init
  <1>1. tickets \subseteq [number : Nat, email : Emails \cup {None}] /\ messages \in Seq(Emails)
    OBVIOUS
  <1>2. /\ topic \in [Partitions -> Seq(Emails)]
        /\ position \in [Partitions -> Nat] /\ committed \in [Partitions -> Nat]
        /\ \A p \in Partitions : committed[p] <= position[p] /\ position[p] <= Len(topic[p])
    OBVIOUS
  <1>3. workers \in [Workers -> Resting \cup Creating \cup Handling]
    BY DEF Resting
  <1>4. BusyWithAnEmail
    BY DEF BusyWithAnEmail, Workers, Resting
  <1> QED
    BY <1>1, <1>2, <1>3, <1>4 DEF Typing, IntakeTypeOK

(* A step that leaves the topic and the positions alone, and wakes no      *)
(* consumer, leaves every busy consumer an email.                          *)
LEMMA StillBusy ==
  ASSUME Typing, UNCHANGED <<topic, position>>,
         \A p \in Partitions : workers'[p] \notin Resting => workers[p] \notin Resting
  PROVE  BusyWithAnEmail'
  BY DEF Typing, BusyWithAnEmail

(* The steps of requests: no consumer, topic or position is concerned.     *)
LEMMA RequestTyping ==
  ASSUME Typing, NEW c \in Clients, CreateTicket(c) \/ InsertTicket(c) \/ FailRequest(c)
  PROVE  Typing'
  <1> c \in Workers /\ c \notin Partitions /\ Partitions \subseteq Workers
    BY IntakeAssumption DEF Workers
  <1>1. UNCHANGED kafka
    BY DEF CreateTicket, InsertTicket, FailRequest, kafka
  <1>2. /\ workers' \in [Workers -> Resting \cup Creating \cup Handling]
        /\ \A v \in Workers : v # c => workers'[v] = workers[v]
    BY GoType, HomeType DEF Typing, CreateTicket, InsertTicket, FailRequest
  <1>3. BusyWithAnEmail'
    BY <1>1, <1>2, StillBusy DEF kafka
  <1>4. tickets' \subseteq [number : Nat, email : Emails \cup {None}]
    <2>1. CASE InsertTicket(c)
      <3>1. workers[c].number \in Nat
        BY <2>1, WorkerStates DEF Typing, InsertTicket, Creating
      <3> QED
        BY <2>1, <3>1 DEF Typing, IntakeTypeOK, InsertTicket
    <2>2. CASE CreateTicket(c) \/ FailRequest(c)
      BY <2>2 DEF Typing, IntakeTypeOK, CreateTicket, FailRequest, tables
    <2> QED
      BY <2>1, <2>2
  <1>5. messages' = messages
    BY DEF CreateTicket, InsertTicket, FailRequest, tables
  <1>6. delivered' \in Nat /\ refused' \in Nat /\ failures' \in Nat /\ crashes' \in Nat
    <2>1. CASE CreateTicket(c)
      BY <2>1 DEF Typing, IntakeTypeOK, CreateTicket, counts
    <2>2. CASE InsertTicket(c)
      BY <2>2 DEF Typing, IntakeTypeOK, InsertTicket
    <2>3. CASE FailRequest(c)
      BY <2>3 DEF Typing, IntakeTypeOK, FailRequest
    <2> QED
      BY <2>1, <2>2, <2>3
  <1> QED
    BY <1>1, <1>2, <1>3, <1>4, <1>5, <1>6 DEF Typing, IntakeTypeOK, kafka

(* Numbering touches the worker alone.                                     *)
LEMMA GenerateNumberTyping ==
  ASSUME Typing, Numbering, NEW w \in Workers, GenerateNumber(w)
  PROVE  /\ Typing'
         /\ workers'[w] = [stage |-> "create", number |-> NextNumber]
         /\ \A v \in Workers : v # w => workers'[v] = workers[v]
         /\ NextNumber \in 1..(Cardinality(tickets) + 1)
  <1>1. Cardinality(tickets) \in Nat
    BY FS_CardinalityType DEF Numbering
  <1>2. NextNumber \in 1..(Cardinality(tickets) + 1)
    BY <1>1, NextNumberFollows DEF Numbering, NumbersAreSequential
  <1>3. [stage |-> "create", number |-> NextNumber] \in Creating
    BY <1>1, <1>2 DEF Creating
  <1>4. workers' = [workers EXCEPT ![w] = [stage |-> "create", number |-> NextNumber]]
    BY DEF GenerateNumber
  <1>5. /\ workers' \in [Workers -> Resting \cup Creating \cup Handling]
        /\ \A v \in Workers : v # w => workers'[v] = workers[v]
        /\ workers'[w] = [stage |-> "create", number |-> NextNumber]
    BY <1>3, <1>4 DEF Typing, IntakeTypeOK
  <1>6. workers[w] \notin Resting
    BY WorkerStates DEF Typing, GenerateNumber
  <1>7. UNCHANGED <<tables, kafka, counts>>
    BY DEF GenerateNumber
  <1>8. BusyWithAnEmail'
    BY <1>5, <1>6, <1>7, StillBusy DEF kafka, Workers
  <1> QED
    BY <1>2, <1>5, <1>7, <1>8 DEF Typing, IntakeTypeOK, tables, kafka, counts

(* An email appended to emails.                                            *)
LEMMA AppendType ==
  ASSUME NEW S \in Seq(Emails), NEW e \in Emails
  PROVE  Append(S, e) \in Seq(Emails)
  OBVIOUS

(* The webhook makes one partition longer at most.                         *)
LEMMA ReceiveEmailTyping ==
  ASSUME Typing, NEW e \in Emails, ReceiveEmail(e)
  PROVE  /\ Typing'
         /\ \A p \in Partitions : \A i \in 1..Len(topic[p]) :
              i \in 1..Len(topic'[p]) /\ topic'[p][i] = topic[p][i]
         /\ \A p \in Partitions : \A i \in 1..Len(topic'[p]) :
              i \in 1..Len(topic[p]) \/ (p = PartitionOf[e] /\ topic'[p][i] = e)
  <1> DEFINE q == PartitionOf[e]
  <1>1. q \in Partitions
    BY IntakeAssumption
  <1>2. topic \in [Partitions -> Seq(Emails)]
    BY DEF Typing, IntakeTypeOK
  <1>3. topic' = topic \/ topic' = [topic EXCEPT ![q] = Append(topic[q], e)]
    BY DEF ReceiveEmail
  <1>4. topic' \in [Partitions -> Seq(Emails)]
    <2>1. Append(topic[q], e) \in Seq(Emails)
      BY <1>1, <1>2, AppendType
    <2> QED
      BY <1>2, <1>3, <2>1
  <1>5. ASSUME NEW p \in Partitions
        PROVE  /\ topic'[p] = topic[p] \/ (p = q /\ topic'[p] = Append(topic[p], e))
               /\ Len(topic[p]) <= Len(topic'[p])
               /\ Len(topic[p]) \in Nat /\ Len(topic'[p]) \in Nat
    <2>1. topic'[p] = topic[p] \/ (p = q /\ topic'[p] = Append(topic[p], e))
      BY <1>1, <1>2, <1>3
    <2>2. topic[p] \in Seq(Emails)
      BY <1>2
    <2> QED
      BY <2>1, <2>2
  <1>6. /\ \A p \in Partitions : \A i \in 1..Len(topic[p]) :
             i \in 1..Len(topic'[p]) /\ topic'[p][i] = topic[p][i]
        /\ \A p \in Partitions : \A i \in 1..Len(topic'[p]) :
             i \in 1..Len(topic[p]) \/ (p = q /\ topic'[p][i] = e)
    BY <1>2, <1>5
  <1>7. UNCHANGED <<tables, position, committed, stored, workers, refused, crashes>>
    BY DEF ReceiveEmail
  <1>8. delivered' \in Nat /\ failures' \in Nat
    BY DEF ReceiveEmail, Typing, IntakeTypeOK
  <1>9. /\ \A p \in Partitions : committed'[p] <= position'[p] /\ position'[p] <= Len(topic'[p])
        /\ BusyWithAnEmail'
    <2>1. ASSUME NEW p \in Partitions
          PROVE  /\ committed'[p] <= position'[p] /\ position'[p] <= Len(topic'[p])
                 /\ workers'[p] \notin Resting => position'[p] < Len(topic'[p])
      <3>1. /\ committed[p] <= position[p] /\ position[p] <= Len(topic[p]) /\ position[p] \in Nat
            /\ workers[p] \notin Resting => position[p] < Len(topic[p])
        BY DEF Typing, IntakeTypeOK, BusyWithAnEmail
      <3> QED
        BY <1>5, <1>7, <3>1
    <2> QED
      BY <2>1 DEF BusyWithAnEmail
  <1> QED
    BY <1>4, <1>6, <1>7, <1>8, <1>9 DEF Typing, IntakeTypeOK, tables

(* The steps of a consumer that finishes neither its email nor anything    *)
(* else, and those of the broker.                                          *)
LEMMA ConsumerTyping ==
  ASSUME Typing, NEW p \in Partitions,
         \/ TakeEmail(p) \/ Deduplicate(p) \/ AppendReply(p) \/ InsertEmailTicket(p)
         \/ DropEmail(p) \/ CommitOffset(p) \/ Crash(p)
  PROVE  Typing'
  <1> p \in Workers /\ Partitions \subseteq Workers
    BY DEF Workers
  <1>1. UNCHANGED topic
    BY DEF TakeEmail, Deduplicate, AppendReply, InsertEmailTicket, DropEmail,
           CommitOffset, Crash, Restart, kafka
  <1>2. delivered' \in Nat /\ refused' \in Nat /\ failures' \in Nat /\ crashes' \in Nat
    <2>0. delivered \in Nat /\ refused \in Nat /\ failures \in Nat /\ crashes \in Nat
      BY DEF Typing, IntakeTypeOK
    <2>1. CASE TakeEmail(p) \/ Deduplicate(p) \/ AppendReply(p) \/ CommitOffset(p)
      <3>1. UNCHANGED counts
        BY <2>1 DEF TakeEmail, Deduplicate, AppendReply, CommitOffset
      <3> QED
        BY <2>0, <3>1 DEF counts
    <2>2. CASE InsertEmailTicket(p)
      BY <2>0, <2>2 DEF InsertEmailTicket
    <2>3. CASE DropEmail(p) \/ Crash(p)
      BY <2>0, <2>3 DEF DropEmail, Crash, Restart
    <2> QED
      BY <2>1, <2>2, <2>3
  <1>3. tickets' \subseteq [number : Nat, email : Emails \cup {None}] /\ messages' \in Seq(Emails)
    <2>1. CASE TakeEmail(p) \/ Deduplicate(p) \/ DropEmail(p) \/ CommitOffset(p) \/ Crash(p)
      BY <2>1 DEF TakeEmail, Deduplicate, DropEmail, CommitOffset, Crash,
                 Restart, Typing, IntakeTypeOK, tables
    <2>2. CASE AppendReply(p)
      <3>1. EmailAt(p) \in Emails
        BY <2>2, EmailAtType, WorkerStates DEF AppendReply, Typing
      <3>2. messages' = messages \/ messages' = Append(messages, EmailAt(p))
        BY <2>2 DEF AppendReply
      <3>3. messages \in Seq(Emails)
        BY DEF Typing, IntakeTypeOK
      <3>4. messages' \in Seq(Emails)
        BY <3>1, <3>2, <3>3, AppendType
      <3> QED
        BY <2>2, <3>4 DEF AppendReply, Typing, IntakeTypeOK
    <2>3. CASE InsertEmailTicket(p)
      <3>1. EmailAt(p) \in Emails /\ workers[p].number \in Nat
        BY <2>3, EmailAtType, WorkerStates DEF InsertEmailTicket, Typing, Creating
      <3> QED
        BY <2>3, <3>1 DEF InsertEmailTicket, Typing, IntakeTypeOK
    <2> QED
      BY <2>1, <2>2, <2>3
  <1> DEFINE Placed == /\ workers' \in [Workers -> Resting \cup Creating \cup Handling]
                       /\ position' \in [Partitions -> Nat]
                       /\ committed' \in [Partitions -> Nat]
                       /\ \A q \in Partitions : committed'[q] <= position'[q]
                                                /\ position'[q] <= Len(topic'[q])
                       /\ BusyWithAnEmail'
  <1>4. /\ position \in [Partitions -> Nat] /\ committed \in [Partitions -> Nat]
        /\ workers \in [Workers -> Resting \cup Creating \cup Handling]
        /\ \A q \in Partitions : committed[q] <= position[q] /\ position[q] <= Len(topic[q])
    BY DEF Typing, IntakeTypeOK
  <1>5. ASSUME NEW stage \in {"number", "reply"}, workers[p] \notin Resting, Go(p, stage),
               UNCHANGED <<position, committed>>
        PROVE  Placed
    <2>1. /\ workers' \in [Workers -> Resting \cup Creating \cup Handling]
          /\ \A v \in Workers : v # p => workers'[v] = workers[v]
      BY <1>5, GoType DEF Typing
    <2>2. BusyWithAnEmail'
      BY <1>1, <1>5, <2>1, StillBusy
    <2> QED
      BY <1>1, <1>4, <1>5, <2>1, <2>2
  <1>6. ASSUME workers[p] \notin Resting, Finish(p), UNCHANGED committed
        PROVE  Placed
    BY <1>1, <1>4, <1>6, FinishType
  <1>7. stored' \subseteq Partitions
    BY DEF TakeEmail, Deduplicate, AppendReply, InsertEmailTicket, DropEmail, CommitOffset,
           Crash, Restart, kafka, Typing, IntakeTypeOK
  <1>8. CASE TakeEmail(p)
    <2>1. /\ workers' \in [Workers -> Resting \cup Creating \cup Handling]
          /\ \A v \in Workers : v # p => workers'[v] = workers[v]
      BY <1>8, GoType DEF Typing, TakeEmail
    <2>2. UNCHANGED <<position, committed>> /\ position[p] < Len(topic[p])
      BY <1>8 DEF TakeEmail, kafka
    <2>3. BusyWithAnEmail'
      BY <1>1, <2>1, <2>2 DEF Typing, BusyWithAnEmail
    <2> QED
      BY <1>1, <1>2, <1>3, <1>4, <1>7, <2>1, <2>2, <2>3 DEF Typing, IntakeTypeOK
  <1>9. CASE Deduplicate(p) \/ AppendReply(p)
    <2>1. workers[p] \notin Resting /\ UNCHANGED committed
      BY <1>9, WorkerStates DEF Deduplicate, AppendReply, Typing
    <2>2. \/ Finish(p)
          \/ \E stage \in {"number", "reply"} : Go(p, stage) /\ UNCHANGED position
      BY <1>9 DEF Deduplicate, AppendReply
    <2>3. Placed
      BY <1>5, <1>6, <2>1, <2>2
    <2> QED
      BY <1>1, <1>2, <1>3, <1>7, <2>3 DEF Typing, IntakeTypeOK
  <1>10. CASE InsertEmailTicket(p) \/ DropEmail(p)
    <2>1. workers[p] \notin Resting /\ UNCHANGED committed /\ Finish(p)
      BY <1>10, WorkerStates DEF InsertEmailTicket, DropEmail, Typing
    <2>2. Placed
      BY <1>6, <2>1
    <2> QED
      BY <1>1, <1>2, <1>3, <1>7, <2>2 DEF Typing, IntakeTypeOK
  <1>11. CASE CommitOffset(p)
    <2>1. /\ committed' = [committed EXCEPT ![p] = position[p]]
          /\ UNCHANGED <<position, workers>>
      BY <1>11 DEF CommitOffset
    <2>2. BusyWithAnEmail'
      BY <1>1, <2>1, StillBusy
    <2>3. Placed
      BY <1>1, <1>4, <2>1, <2>2
    <2> QED
      BY <1>1, <1>2, <1>3, <1>7, <2>3 DEF Typing, IntakeTypeOK
  <1>12. CASE Crash(p)
    <2>1. \A q \in Partitions : /\ committed[q] \in Nat /\ position[q] \in Nat
                               /\ Len(topic[q]) \in Nat
                               /\ committed[q] <= position[q] /\ position[q] <= Len(topic[q])
      BY DEF Typing, IntakeTypeOK
    <2>2. PICK start \in Nat :
            /\ start <= Len(topic[p])
            /\ Restart(p, start)
      BY <1>12, <2>1 DEF Crash
    <2>3. /\ workers' = [workers EXCEPT ![p] = Idle] \/ workers' = [workers EXCEPT ![p] = Down]
          /\ position' = [position EXCEPT ![p] = start]
          /\ committed' = [committed EXCEPT ![p] = start]
      BY <2>2 DEF Restart
    <2>4. /\ workers' \in [Workers -> Resting \cup Creating \cup Handling]
          /\ \A v \in Workers : v # p => workers'[v] = workers[v]
          /\ workers'[p] \in Resting
      BY <1>4, <2>3 DEF Resting
    <2>5. /\ position' \in [Partitions -> Nat] /\ committed' \in [Partitions -> Nat]
          /\ position'[p] = start /\ committed'[p] = start
          /\ \A q \in Partitions : q # p => /\ position'[q] = position[q]
                                           /\ committed'[q] = committed[q]
      <3>1. position' \in [Partitions -> Nat] /\ committed' \in [Partitions -> Nat]
        BY <1>4, <2>3
      <3>2. position'[p] = start /\ committed'[p] = start
        BY <1>4, <2>3
      <3>3. \A q \in Partitions : q # p => position'[q] = position[q] /\ committed'[q] = committed[q]
        BY <1>4, <2>3
      <3> QED
        BY <3>1, <3>2, <3>3
    <2>6. BusyWithAnEmail'
      BY <1>1, <2>4, <2>5 DEF Typing, BusyWithAnEmail
    <2>7. ASSUME NEW q \in Partitions
          PROVE  committed'[q] <= position'[q] /\ position'[q] <= Len(topic'[q])
      <3>1. CASE q = p
        BY <1>1, <2>2, <2>5, <3>1
      <3>2. CASE q # p
        BY <1>1, <2>1, <2>5, <3>2
      <3> QED
        BY <3>1, <3>2
    <2> QED
      BY <1>1, <1>2, <1>3, <1>7, <2>4, <2>5, <2>6, <2>7 DEF Typing, IntakeTypeOK
  <1> QED
    BY <1>8, <1>9, <1>10, <1>11, <1>12

(* The types, for every step.                                              *)
LEMMA NextTyping ==
  ASSUME Typing, Numbering, [Next]_vars
  PROVE  Typing'
  <1>1. CASE UNCHANGED vars
    BY <1>1 DEF Typing, IntakeTypeOK, BusyWithAnEmail, vars, tables, kafka, counts
  <1>2. ASSUME NEW c \in Clients,
               CreateTicket(c) \/ GenerateNumber(c) \/ InsertTicket(c) \/ FailRequest(c)
        PROVE  Typing'
    BY <1>2, RequestTyping, GenerateNumberTyping DEF Workers
  <1>3. ASSUME NEW e \in Emails, ReceiveEmail(e)
        PROVE  Typing'
    BY <1>3, ReceiveEmailTyping
  <1>4. ASSUME NEW p \in Partitions,
               Consume(p) \/ DropEmail(p) \/ CommitOffset(p) \/ Crash(p)
        PROVE  Typing'
    BY <1>4, ConsumerTyping, GenerateNumberTyping DEF Workers, Consume
  <1> QED
    BY <1>1, <1>2, <1>3, <1>4 DEF Next

(***************************************************************************)
(* Numbers.                                                                *)
(***************************************************************************)

(* A day that starts without tickets is numbered.                          *)
LEMMA InitNumbering == Init => Numbering
  <1> SUFFICES ASSUME Init PROVE Numbering
    OBVIOUS
  <1>1. IsFiniteSet(tickets) /\ Cardinality(tickets) = 0
    BY FS_EmptySet DEF Init
  <1>2. Numbers = {}
    BY DEF Init, Numbers
  <1>3. \A w \in Workers : workers[w].stage = "idle"
    BY DEF Init, Idle, Down, Resting
  <1> QED
    BY <1>1, <1>2, <1>3 DEF Numbering, NumbersAreSequential, NumbersInFlight

(* Without a new ticket or a new number, nothing changes.                  *)
LEMMA KeptNumbering ==
  ASSUME Numbering, UNCHANGED tickets,
         \A w \in Workers : workers'[w].stage = "create" => workers'[w] = workers[w]
  PROVE  Numbering'
  BY DEF Numbering, NumbersAreSequential, NumbersInFlight, Numbers

(* Creating a ticket, by the API or from an email: the index lets the      *)
(* number pass that is the next one, and no other.                         *)
LEMMA InsertNumbering ==
  ASSUME Typing, Numbering, NEW w \in Workers, workers[w].stage = "create",
         NEW t, t.number = workers[w].number,
         IF t.number \in Numbers THEN UNCHANGED tickets ELSE tickets' = tickets \cup {t},
         \A v \in Workers : workers'[v].stage = "create" => workers'[v] = workers[v]
  PROVE  Numbering'
  <1>1. CASE t.number \in Numbers
    BY <1>1, KeptNumbering
  <1>2. CASE t.number \notin Numbers
    <2> DEFINE k == Cardinality(tickets)
    <2>1. k \in Nat /\ Numbers = 1..k
      BY FS_CardinalityType DEF Numbering, NumbersAreSequential
    <2>2. t.number \in 1..(k + 1)
      BY DEF Numbering, NumbersInFlight
    <2>3. t.number = k + 1
      BY <1>2, <2>1, <2>2
    <2>4. t \notin tickets
      BY <1>2 DEF Numbers
    <2>5. tickets' = tickets \cup {t}
      BY <1>2
    <2>6. IsFiniteSet(tickets') /\ Cardinality(tickets') = k + 1
      BY <2>4, <2>5, FS_AddElement DEF Numbering
    <2>7. Numbers' = Numbers \cup {t.number}
      BY <2>5 DEF Numbers
    <2>8. Numbers' = 1..(k + 1)
      BY <2>1, <2>3, <2>7
    <2>9. NumbersInFlight'
      <3> SUFFICES ASSUME NEW v \in Workers, workers'[v].stage = "create"
                   PROVE  workers'[v].number \in 1..(k + 2)
        BY <2>1, <2>6 DEF NumbersInFlight
      <3>1. workers'[v].number \in 1..(k + 1)
        BY DEF Numbering, NumbersInFlight
      <3> QED
        BY <2>1, <3>1
    <2> QED
      BY <2>6, <2>8, <2>9 DEF Numbering, NumbersAreSequential
  <1> QED
    BY <1>1, <1>2

(* A worker leaves a stage for home or for one that has no number yet.     *)
LEMMA OnlyGenerateNumbers ==
  ASSUME IntakeTypeOK, NEW w \in Workers,
         \/ \E rest \in Resting : workers' = [workers EXCEPT ![w] = rest]
         \/ Go(w, "number") \/ Go(w, "dedupe") \/ Go(w, "reply")
  PROVE  \A v \in Workers : workers'[v].stage = "create" => workers'[v] = workers[v]
  <1>1. CASE \E rest \in Resting : workers' = [workers EXCEPT ![w] = rest]
    BY <1>1 DEF IntakeTypeOK, Idle, Down, Resting
  <1>2. ASSUME NEW stage \in {"number", "dedupe", "reply"}, Go(w, stage)
        PROVE  \A v \in Workers : workers'[v].stage = "create" => workers'[v] = workers[v]
    BY <1>2, GoType
  <1> QED
    BY <1>1, <1>2

(* The numbering, for every step.                                          *)
LEMMA NextNumbering ==
  ASSUME Typing, Numbering, [Next]_vars
  PROVE  Numbering'
  <1> IntakeTypeOK
    BY DEF Typing
  <1>1. CASE UNCHANGED vars
    BY <1>1, KeptNumbering DEF vars, tables
  <1>2. ASSUME NEW w \in Workers, GenerateNumber(w)
        PROVE  Numbering'
    <2>1. UNCHANGED tickets
      BY <1>2 DEF GenerateNumber, tables
    <2>2. /\ workers'[w] = [stage |-> "create", number |-> NextNumber]
          /\ \A v \in Workers : v # w => workers'[v] = workers[v]
          /\ NextNumber \in 1..(Cardinality(tickets) + 1)
      BY <1>2, GenerateNumberTyping
    <2> QED
      BY <2>1, <2>2 DEF Numbering, NumbersAreSequential, NumbersInFlight, Numbers
  <1>3. ASSUME NEW c \in Clients, CreateTicket(c) \/ FailRequest(c)
        PROVE  Numbering'
    <2>1. UNCHANGED tickets
      BY <1>3 DEF CreateTicket, FailRequest, tables
    <2>2. Go(c, "number") \/ workers' = [workers EXCEPT ![c] = Idle]
      BY <1>3 DEF CreateTicket, FailRequest
    <2>3. c \in Workers
      BY DEF Workers
    <2> QED
      BY <2>1, <2>2, <2>3, OnlyGenerateNumbers, KeptNumbering DEF Resting
  <1>4. ASSUME NEW c \in Clients, InsertTicket(c)
        PROVE  Numbering'
    <2> DEFINE t == [number |-> workers[c].number, email |-> None]
    <2>1. /\ c \in Workers /\ workers[c].stage = "create"
          /\ IF t.number \in Numbers THEN UNCHANGED tickets ELSE tickets' = tickets \cup {t}
          /\ workers' = [workers EXCEPT ![c] = Idle]
      BY <1>4 DEF InsertTicket, Workers
    <2>2. t.number = workers[c].number
      OBVIOUS
    <2> HIDE DEF t
    <2> QED
      BY <2>1, <2>2, OnlyGenerateNumbers, InsertNumbering DEF Resting
  <1>5. ASSUME NEW e \in Emails, ReceiveEmail(e)
        PROVE  Numbering'
    BY <1>5, KeptNumbering DEF ReceiveEmail, tables
  <1>6. ASSUME NEW p \in Partitions,
               TakeEmail(p) \/ Deduplicate(p) \/ AppendReply(p) \/ DropEmail(p) \/ Crash(p)
        PROVE  Numbering'
    <2>1. UNCHANGED tickets
      BY <1>6 DEF TakeEmail, Deduplicate, AppendReply, DropEmail, Crash, Restart, tables
    <2>2. \/ \E rest \in Resting : workers' = [workers EXCEPT ![p] = rest]
          \/ Go(p, "number") \/ Go(p, "dedupe") \/ Go(p, "reply")
      BY <1>6 DEF TakeEmail, Deduplicate, AppendReply, DropEmail, Crash, Restart, Finish,
                    Resting
    <2>3. p \in Workers
      BY DEF Workers
    <2> QED
      BY <2>1, <2>2, <2>3, OnlyGenerateNumbers, KeptNumbering DEF Resting
  <1>7. ASSUME NEW p \in Partitions, InsertEmailTicket(p)
        PROVE  Numbering'
    <2> DEFINE t == [number |-> workers[p].number, email |-> EmailAt(p)]
    <2>1. /\ p \in Workers /\ workers[p].stage = "create"
          /\ IF t.number \in Numbers THEN UNCHANGED tickets ELSE tickets' = tickets \cup {t}
          /\ workers' = [workers EXCEPT ![p] = Idle]
      BY <1>7 DEF InsertEmailTicket, Finish, Workers
    <2>2. t.number = workers[p].number
      OBVIOUS
    <2> HIDE DEF t
    <2> QED
      BY <2>1, <2>2, OnlyGenerateNumbers, InsertNumbering DEF Resting
  <1>8. ASSUME NEW p \in Partitions, CommitOffset(p)
        PROVE  Numbering'
    BY <1>8, KeptNumbering DEF CommitOffset, tables
  <1> QED
    BY <1>1, <1>2, <1>3, <1>4, <1>5, <1>6, <1>7, <1>8 DEF Next, Consume, Workers

(***************************************************************************)
(* Emails.                                                                 *)
(***************************************************************************)

(* An email is only ever in the partition of its sender, and of that there *)
(* is one consumer: two copies of it are never handled side by side.       *)
InTheirPartition ==
  \A p \in Partitions : \A i \in 1..Len(topic[p]) : PartitionOf[topic[p][i]] = p

(* Past the check for duplicates, an email with a Message-Id has no ticket *)
(* yet, and will not get one from anybody else.                            *)
NoTicketYet ==
  \A p \in Partitions :
    workers[p].stage \in {"reply", "number", "create"} /\ EmailAt(p) \in WithMessageId
      => \A t \in tickets : t.email # EmailAt(p)

Emailing == InTheirPartition /\ NoTicketYet /\ OneTicketPerEmail

(* A day starts without emails.                                            *)
LEMMA InitEmailing == Init => Emailing
  BY DEF Init, Emailing, InTheirPartition, NoTicketYet, OneTicketPerEmail, Idle, Down, Resting, Workers

(* Where no ticket is added, only the consumer that has just checked its   *)
(* email for duplicates has something to show.                             *)
LEMMA KeptEmailing ==
  ASSUME Emailing, UNCHANGED <<tickets, topic>>,
         \A p \in Partitions : workers'[p].stage \in {"reply", "number", "create"}
           => /\ workers[p].stage \in {"reply", "number", "create"} \/ ~IsDuplicate(EmailAt(p))
              /\ position'[p] = position[p]
  PROVE  Emailing'
  <1>1. InTheirPartition' /\ OneTicketPerEmail'
    BY DEF Emailing, InTheirPartition, OneTicketPerEmail
  <1>2. ASSUME NEW p \in Partitions,
               workers'[p].stage \in {"reply", "number", "create"},
               EmailAt(p)' \in WithMessageId,
               NEW t \in tickets'
        PROVE  t.email # EmailAt(p)'
    <2>1. EmailAt(p)' = EmailAt(p) /\ t \in tickets
      BY <1>2 DEF EmailAt
    <2> QED
      BY <1>2, <2>1 DEF Emailing, NoTicketYet, IsDuplicate
  <1> QED
    BY <1>1, <1>2 DEF Emailing, NoTicketYet

(* The steps of the API bear on no consumer, and its tickets quote none.   *)
LEMMA ClientEmailing ==
  ASSUME Typing, Emailing, NEW c \in Clients,
         CreateTicket(c) \/ GenerateNumber(c) \/ InsertTicket(c) \/ FailRequest(c)
  PROVE  Emailing'
  <1> c \in Workers /\ c \notin Partitions /\ Partitions \subseteq Workers
    BY IntakeAssumption DEF Workers
  <1>1. \A p \in Partitions : workers'[p] = workers[p]
    BY DEF CreateTicket, GenerateNumber, InsertTicket, FailRequest, Go, Typing, IntakeTypeOK
  <1>2. UNCHANGED <<topic, position>>
    BY DEF CreateTicket, GenerateNumber, InsertTicket, FailRequest, kafka
  <1>3. CASE UNCHANGED tickets
    BY <1>1, <1>2, <1>3, KeptEmailing
  <1>4. CASE tickets' = tickets \cup {[number |-> workers[c].number, email |-> None]}
    <2>1. /\ \A e \in Emails : e # None
          /\ WithMessageId \subseteq Emails
      BY IntakeAssumption
    <2>2. OneTicketPerEmail'
      BY <1>4, <2>1 DEF Emailing, OneTicketPerEmail
    <2>3. NoTicketYet'
      BY <1>1, <1>2, <1>4, <2>1 DEF Emailing, NoTicketYet, EmailAt
    <2> QED
      BY <1>2, <2>2, <2>3 DEF Emailing, InTheirPartition
  <1> QED
    BY <1>3, <1>4 DEF CreateTicket, GenerateNumber, InsertTicket, FailRequest, tables

(* A ticket made from an email is the first one that quotes it, and no     *)
(* other consumer has the same email in hand.                              *)
LEMMA InsertEmailing ==
  ASSUME Typing, Emailing, NEW p \in Partitions, InsertEmailTicket(p)
  PROVE  Emailing'
  <1> p \in Workers /\ Partitions \subseteq Workers
    BY DEF Workers
  <1>1. /\ workers[p].stage = "create" /\ UNCHANGED topic
        /\ workers' = [workers EXCEPT ![p] = Idle]
        /\ position' = [position EXCEPT ![p] = @ + 1]
    BY DEF InsertEmailTicket, Finish
  <1>2. ASSUME NEW q \in Partitions, workers'[q].stage \in {"reply", "number", "create"}
        PROVE  q # p /\ workers[q] = workers'[q] /\ position'[q] = position[q]
    BY <1>1, <1>2 DEF Typing, IntakeTypeOK, Idle, Down, Resting
  <1>3. CASE UNCHANGED tickets
    BY <1>1, <1>2, <1>3, KeptEmailing
  <1>4. CASE tickets' = tickets \cup {[number |-> workers[p].number, email |-> EmailAt(p)]}
    <2>1. EmailAt(p) \in WithMessageId => \A t \in tickets : t.email # EmailAt(p)
      BY <1>1 DEF Emailing, NoTicketYet
    <2>2. OneTicketPerEmail'
      BY <1>4, <2>1 DEF Emailing, OneTicketPerEmail
    <2>3. ASSUME NEW q \in Partitions, workers[q].stage \notin {"idle", "down"}
          PROVE  PartitionOf[EmailAt(q)] = q
      <3>1. position[q] + 1 \in 1..Len(topic[q])
        BY <2>3, EmailAtType DEF Idle, Down, Resting
      <3> QED
        BY <3>1 DEF Emailing, InTheirPartition, EmailAt
    <2>4. ASSUME NEW q \in Partitions,
                 workers'[q].stage \in {"reply", "number", "create"},
                 EmailAt(q)' \in WithMessageId,
                 NEW t \in tickets'
          PROVE  t.email # EmailAt(q)'
      <3>1. q # p /\ workers[q] = workers'[q] /\ EmailAt(q)' = EmailAt(q)
        BY <1>1, <1>2, <2>4 DEF EmailAt
      <3>2. EmailAt(q) # EmailAt(p)
        BY <1>1, <2>3, <2>4, <3>1
      <3> QED
        BY <1>4, <2>4, <3>1, <3>2 DEF Emailing, NoTicketYet
    <2> QED
      BY <1>1, <2>2, <2>4 DEF Emailing, InTheirPartition, NoTicketYet
  <1> QED
    BY <1>3, <1>4 DEF InsertEmailTicket

(* The emails, for every step.                                             *)
LEMMA NextEmailing ==
  ASSUME Typing, Emailing, [Next]_vars
  PROVE  Emailing'
  <1> Partitions \subseteq Workers
    BY DEF Workers
  <1>1. CASE UNCHANGED vars
    BY <1>1, KeptEmailing DEF vars, tables, kafka
  <1>2. ASSUME NEW c \in Clients,
               CreateTicket(c) \/ GenerateNumber(c) \/ InsertTicket(c) \/ FailRequest(c)
        PROVE  Emailing'
    BY <1>2, ClientEmailing
  <1>3. ASSUME NEW e \in Emails, ReceiveEmail(e)
        PROVE  Emailing'
    <2>1. /\ \A p \in Partitions : \A i \in 1..Len(topic[p]) : topic'[p][i] = topic[p][i]
          /\ \A p \in Partitions : \A i \in 1..Len(topic'[p]) :
               i \in 1..Len(topic[p]) \/ (p = PartitionOf[e] /\ topic'[p][i] = e)
      BY <1>3, ReceiveEmailTyping
    <2>2. UNCHANGED <<tickets, workers, position>>
      BY <1>3 DEF ReceiveEmail, tables
    <2>3. InTheirPartition'
      BY <2>1 DEF Emailing, InTheirPartition
    <2>4. ASSUME NEW p \in Partitions, workers[p].stage \notin {"idle", "down"}
          PROVE  EmailAt(p)' = EmailAt(p)
      <3>1. position[p] + 1 \in 1..Len(topic[p])
        BY <2>4, EmailAtType DEF Idle, Down, Resting
      <3> QED
        BY <2>1, <2>2, <3>1 DEF EmailAt
    <2>5. NoTicketYet'
      BY <2>2, <2>4 DEF Emailing, NoTicketYet
    <2> QED
      BY <2>2, <2>3, <2>5 DEF Emailing, OneTicketPerEmail
  <1>4. ASSUME NEW p \in Partitions, TakeEmail(p) \/ Deduplicate(p) \/ AppendReply(p)
        PROVE  Emailing'
    <2>1. UNCHANGED <<tickets, topic>>
      BY <1>4 DEF TakeEmail, Deduplicate, AppendReply, tables, kafka
    <2>2. \A q \in Partitions : q # p => workers'[q] = workers[q] /\ position'[q] = position[q]
      BY <1>4 DEF TakeEmail, Deduplicate, AppendReply, Go, Finish, kafka, Typing, IntakeTypeOK
    <2>3. workers'[p].stage \in {"reply", "number", "create"}
            => /\ workers[p].stage \in {"reply", "number", "create"} \/ ~IsDuplicate(EmailAt(p))
               /\ position'[p] = position[p]
      BY <1>4 DEF TakeEmail, Deduplicate, AppendReply, Go, Finish, Idle, Down, Resting, Typing, IntakeTypeOK
    <2> QED
      BY <2>1, <2>2, <2>3, KeptEmailing
  <1>5. ASSUME NEW p \in Partitions, GenerateNumber(p)
        PROVE  Emailing'
    <2>1. /\ UNCHANGED <<tickets, topic, position>>
          /\ \A q \in Partitions : q # p => workers'[q] = workers[q]
          /\ workers[p].stage = "number"
      BY <1>5 DEF GenerateNumber, tables, kafka, Typing, IntakeTypeOK
    <2> QED
      BY <2>1, KeptEmailing
  <1>6. ASSUME NEW p \in Partitions, InsertEmailTicket(p)
        PROVE  Emailing'
    BY <1>6, InsertEmailing
  <1>7. ASSUME NEW p \in Partitions, DropEmail(p) \/ CommitOffset(p) \/ Crash(p)
        PROVE  Emailing'
    <2>1. UNCHANGED <<tickets, topic>>
      BY <1>7 DEF DropEmail, CommitOffset, Crash, Restart, tables
    <2>2. \A q \in Partitions : \/ workers'[q] \in Resting
                                \/ workers'[q] = workers[q] /\ position'[q] = position[q]
      BY <1>7 DEF DropEmail, CommitOffset, Crash, Restart, Finish, Resting, Typing, IntakeTypeOK
    <2> QED
      BY <2>1, <2>2, KeptEmailing DEF Idle, Down, Resting
  <1> QED
    BY <1>1, <1>2, <1>3, <1>4, <1>5, <1>6, <1>7 DEF Next, Consume

(***************************************************************************)
(* The theorems.                                                           *)
(***************************************************************************)
IntakeInv == Typing /\ Numbering /\ Emailing

(* The three parts together are inductive: the numbers a day already has   *)
(* are what makes the next one a number at all.                            *)
THEOREM IntakeInvariant == Spec => []IntakeInv
  <1>1. Init => IntakeInv
    BY InitTyping, InitNumbering, InitEmailing DEF IntakeInv
  <1>2. IntakeInv /\ [Next]_vars => IntakeInv'
    BY NextTyping, NextNumbering, NextEmailing DEF IntakeInv
  <1> QED
    BY <1>1, <1>2, PTL DEF Spec

(* Positions and commits stay within the topic, a ticket or message never  *)
(* quotes anything but an email, and a number is always a number.          *)
THEOREM IntakeTypeCorrect == Spec => []IntakeTypeOK
  <1>1. IntakeInv => IntakeTypeOK
    BY DEF IntakeInv, Typing
  <1> QED
    BY <1>1, IntakeInvariant, PTL

(* Any number of clients and consumers numbering at once, refused and      *)
(* failing, leave the day's tickets numbered from 1 without a gap, also    *)
(* where the padding has run out and what sorts last is not the highest.   *)
THEOREM NumberingIsSequential == Spec => []NumbersAreSequential
  <1>1. IntakeInv => NumbersAreSequential
    BY DEF IntakeInv, Numbering
  <1> QED
    BY <1>1, IntakeInvariant, PTL

(* However often an email with a Message-Id is repeated by its provider or *)
(* handed out again after a crash, it makes one ticket at most.            *)
THEOREM EmailsMakeOneTicket == Spec => []OneTicketPerEmail
  <1>1. IntakeInv => OneTicketPerEmail
    BY DEF IntakeInv, Emailing
  <1> QED
    BY <1>1, IntakeInvariant, PTL
=============================================================================
