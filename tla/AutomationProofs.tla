-------------------------- MODULE AutomationProofs --------------------------
(***************************************************************************)
(* Theorems of NotificationDelivery and of Automation, which adds to it    *)
(* the notifications that rules queue.                                     *)
(*                                                                         *)
(* Those on delivery hold for any number of requests that send at once and *)
(* dying workers, as long as no two runs of the retry cron overlap and     *)
(* everything that is sent has a recipient: the two things the code leaves *)
(* to its callers. Those on the classifier and on rules hold without them, *)
(* for any tickets, texts, rules and requests that overlap and die, and so *)
(* does the last, on what overlapping runs of the cron can do at most.     *)
(***************************************************************************)
EXTENDS Automation, WellFoundedInduction, FiniteSetTheorems, TLAPS

OneCron == \A c, d \in Crons : c = d

EverySendHasRecipients == {} \notin RecipientSets

(***************************************************************************)
(* The work list of a worker.                                              *)
(***************************************************************************)

(* Any numbers have a least.                                               *)
LEMMA LeastNote ==
  ASSUME NEW T \in SUBSET Nat, T # {}
  PROVE  \E m \in T : \A k \in T : m <= k
  <1>1. \E m \in T : \A k \in T : <<k, m>> \notin OpToRel(<, Nat)
    BY NatLessThanWellFounded, WFMin
  <1>2. PICK m \in T : \A k \in T : <<k, m>> \notin OpToRel(<, Nat)
    BY <1>1
  <1>3. ASSUME NEW k \in T PROVE m <= k
    <2>1. ~(k < m)
      BY <1>2 DEF OpToRel
    <2> QED
      BY <2>1
  <1> QED
    BY <1>3

(* The notification a worker is at, of a work list.                        *)
First(batch) == CHOOSE item \in batch : \A other \in batch : item.note <= other.note

(* A list has one item per notification.                                   *)
OncePerNote(batch) ==
  /\ batch # {}
  /\ \A i \in batch : i.note \in Nat
  /\ \A i, j \in batch : i.note = j.note => i = j

(* It is on the list.                                                      *)
LEMMA FirstIsOnList ==
  ASSUME NEW batch, OncePerNote(batch)
  PROVE  /\ First(batch) \in batch
         /\ \A other \in batch : First(batch).note <= other.note
  <1> DEFINE T == {i.note : i \in batch}
  <1>0. T \in SUBSET Nat /\ T # {}
    BY DEF OncePerNote
  <1> HIDE DEF T
  <1>1. PICK m \in T : \A k \in T : m <= k
    BY <1>0, LeastNote
  <1> USE DEF T
  <1>2. PICK i \in batch : i.note = m
    BY <1>1
  <1>3. \A other \in batch : i.note <= other.note
    BY <1>1, <1>2
  <1> QED
    BY <1>3 DEF First

(* Working on the first item, the list's first item remains the one of     *)
(* that notification.                                                      *)
LEMMA FirstStaysFirst ==
  ASSUME NEW batch, OncePerNote(batch), NEW item, item.note = First(batch).note
  PROVE  LET rest == (batch \ {First(batch)}) \cup {item}
         IN  OncePerNote(rest) /\ First(rest) = item
  <1> DEFINE f == First(batch)
             rest == (batch \ {f}) \cup {item}
  <1>1. f \in batch /\ \A other \in batch : f.note <= other.note
    BY FirstIsOnList
  <1>2. OncePerNote(rest)
    BY <1>1 DEF OncePerNote
  <1>3. item \in rest /\ \A other \in rest : item.note <= other.note
    BY <1>1 DEF OncePerNote
  <1>4. First(rest) \in rest /\ \A other \in rest : First(rest).note <= other.note
    BY <1>2, FirstIsOnList
  <1>5. First(rest).note = item.note
    BY <1>2, <1>3, <1>4 DEF OncePerNote
  <1> QED
    BY <1>2, <1>3, <1>4, <1>5 DEF OncePerNote

(***************************************************************************)
(* One notification.                                                       *)
(***************************************************************************)
UndeliveredOf(x) == {r \in x.to : x.delivery[r] # "DELIVERED"}

(* What RecordsAreTrue says of one, and that one for nobody, which a rule  *)
(* has queued, is never taken up.                                          *)
NoteIsTrue(x) ==
  /\ x \in Note
  /\ x.to = {} => x.status = "PENDING" /\ x.retries = 0
  /\ x.status = "SENT" <=> x.dated
  /\ x.status = "SENT" /\ x.channel # "PUSH" => UndeliveredOf(x) # x.to
  /\ x.status = "FAILED" => UndeliveredOf(x) # {}
  /\ x.retries <= x.limit

Failing(x) == x.status \in {"FAILED", "RETRYING"}

(* A provider's answer leaves the notification true, whose status is still *)
(* open, and takes from the undelivered those it accepted.                 *)
LEMMA RecordedIsTrue ==
  ASSUME NEW x, NoteIsTrue(x), x.status \in {"PENDING", "RETRYING"},
         NEW R, R \subseteq UndeliveredOf(x), NEW a \in Answers,
         NEW y, y \in Note, y.channel = x.channel, y.status = x.status, y.to = x.to,
         y.retries = x.retries, y.limit = x.limit, y.dated = x.dated,
         y.delivery = [r \in Recipients |-> IF r \in R THEN StatusAfter(x.channel, a, x.delivery[r])
                                                      ELSE x.delivery[r]]
  PROVE  /\ NoteIsTrue(y)
         /\ a \in {"accepted", "stored"} => UndeliveredOf(y) = UndeliveredOf(x) \ R
         /\ a \notin {"accepted", "stored"} => UndeliveredOf(y) = UndeliveredOf(x)
  <1>1. x.to \subseteq Recipients
    BY DEF NoteIsTrue, Note
  <1>2. NoteIsTrue(y)
    BY DEF NoteIsTrue
  <1>3. \A r \in x.to : y.delivery[r] = IF r \in R THEN StatusAfter(x.channel, a, x.delivery[r])
                                                  ELSE x.delivery[r]
    BY <1>1
  <1>4. ASSUME a \in {"accepted", "stored"} PROVE UndeliveredOf(y) = UndeliveredOf(x) \ R
    <2>1. \A r \in R : StatusAfter(x.channel, a, x.delivery[r]) = "DELIVERED"
      BY <1>4 DEF StatusAfter
    <2> QED
      BY <1>3, <2>1 DEF UndeliveredOf
  <1>5. ASSUME a \notin {"accepted", "stored"} PROVE UndeliveredOf(y) = UndeliveredOf(x)
    <2>1. \A r \in R : StatusAfter(x.channel, a, x.delivery[r]) # "DELIVERED"
      BY <1>5 DEF StatusAfter, UndeliveredOf
    <2> QED
      BY <1>3, <2>1 DEF UndeliveredOf
  <1> QED
    BY <1>2, <1>4, <1>5

(* A table with one notification replaced.                                 *)
LEMMA OneReplaced ==
  ASSUME NEW table \in Seq(Note), NEW n \in DOMAIN table, NEW y \in Note,
         NEW later, later = [table EXCEPT ![n] = y]
  PROVE  /\ later \in Seq(Note) /\ DOMAIN later = DOMAIN table /\ later[n] = y
         /\ \A k \in DOMAIN table : k # n => later[k] = table[k]
  OBVIOUS

(***************************************************************************)
(* What a worker knows of the notifications on its list. (list stands for  *)
(* the table, so that this can be said of a state and of the next.)        *)
(***************************************************************************)

(* A request that sends has its own notification, which nobody else has    *)
(* taken up; before the first answer everybody is left, and once somebody  *)
(* was reached the table says so.                                          *)
SenderFits(q, item, x) ==
  /\ q.stage # "mark" /\ q.batch = {item}
  /\ x.status = "PENDING" /\ x.to # {}
  /\ q.any /\ x.channel # "PUSH" => UndeliveredOf(x) # x.to
  /\ q.all /\ ~q.any => item.left = x.to

(* What the cron has not come to yet is as it was when it was selected.    *)
Waits(i, x) ==
  Failing(x) /\ x.retries < x.limit /\ i.left = UndeliveredOf(x)

(* The one the cron is at is on record as being retried, and as long as    *)
(* all went well those it has left are the only ones without the message.  *)
CronFits(q, item, list) ==
  /\ \A i \in q.batch : i # item \/ q.stage = "mark" => Waits(i, list[i.note])
  /\ q.stage # "mark" =>
       /\ list[item.note].status = "RETRYING"
       /\ q.all /\ list[item.note].channel # "PUSH" =>
            UndeliveredOf(list[item.note]) \subseteq item.left

(* Both: those left have not got the message, and a failed attempt left    *)
(* somebody without it.                                                    *)
AttemptFits(w, q, item, x) ==
  /\ q.stage = "record" =>
       q.trying # {} /\ q.trying \subseteq item.left /\ q.answer \in AnswersOf(w, x.channel)
  /\ q.stage # "mark" /\ ~q.all => UndeliveredOf(x) \ item.left # {}

ListFits(q, list) ==
  /\ OncePerNote(q.batch)
  /\ \A i \in q.batch : i.note \in DOMAIN list /\ i.left \subseteq UndeliveredOf(list[i.note])

Fits(w, q, list) ==
  q # Idle =>
    LET item == First(q.batch) IN
    /\ q \in Busy
    /\ ListFits(q, list)
    /\ AttemptFits(w, q, item, list[item.note])
    /\ IF w \in Senders THEN SenderFits(q, item, list[item.note]) ELSE CronFits(q, item, list)

(* Two requests do not send the same notification.                         *)
SendersApart ==
  \A s, u \in Senders :
    s # u /\ workers[s] # Idle /\ workers[u] # Idle
      => First(workers[s].batch).note # First(workers[u].batch).note

DeliveryInv ==
  /\ notes \in Seq(Note) /\ failures \in Nat
  /\ \A n \in DOMAIN notes : NoteIsTrue(notes[n])
  /\ workers \in [Workers -> Busy \cup {Idle}]
  /\ \A w \in Workers : Fits(w, workers[w], notes)
  /\ SendersApart

(* The invariant says what the run checks.                                 *)
LEMMA InvIsTrue == DeliveryInv => RecordsAreTrue
  BY DEF DeliveryInv, NoteIsTrue, RecordsAreTrue, TypeOK, StatusIsTrue, RetriesWithinLimit,
         Undelivered, UndeliveredOf

(* Nothing is under way at the start.                                      *)
LEMMA InitDelivery == Init => DeliveryInv
  <1> SUFFICES ASSUME Init PROVE DeliveryInv
    OBVIOUS
  <1>1. \A w \in Workers : workers[w] = Idle
    BY DEF Init
  <1>2. SendersApart
    BY <1>1 DEF SendersApart, Workers
  <1>3. notes \in Seq(Note) /\ DOMAIN notes = {}
    BY DEF Init
  <1> QED
    BY <1>1, <1>2, <1>3 DEF Init, DeliveryInv, Fits

(***************************************************************************)
(* One worker's step disturbs nobody else.                                 *)
(***************************************************************************)

(* What a worker knows is about the notifications on its list only.        *)
LEMMA FitsElsewhere ==
  ASSUME NEW w, NEW q, NEW list, NEW list2, Fits(w, q, list),
         q # Idle => \A i \in q.batch : i.note \in DOMAIN list2 /\ list2[i.note] = list[i.note]
  PROVE  Fits(w, q, list2)
  <1> SUFFICES ASSUME q # Idle PROVE Fits(w, q, list2)
    BY DEF Fits
  <1>1. OncePerNote(q.batch)
    BY DEF Fits, ListFits
  <1>2. First(q.batch) \in q.batch
    BY <1>1, FirstIsOnList
  <1>3. list2[First(q.batch).note] = list[First(q.batch).note]
    BY <1>2
  <1>4. ListFits(q, list2)
    BY DEF Fits, ListFits
  <1>5. CronFits(q, First(q.batch), list) => CronFits(q, First(q.batch), list2)
    BY <1>3 DEF CronFits
  <1> QED
    BY <1>3, <1>4, <1>5 DEF Fits

(* No other worker has on its list the notification that a worker is at:   *)
(* a request sends what nobody selects, and there is one cron.             *)
LEMMA NobodyElseHasIt ==
  ASSUME DeliveryInv, OneCron, NEW w \in Workers, NEW v \in Workers, v # w,
         workers[w] # Idle, workers[v] # Idle, NEW i \in workers[v].batch
  PROVE  i.note # First(workers[w].batch).note
  <1>1. Fits(w, workers[w], notes) /\ Fits(v, workers[v], notes)
    BY DEF DeliveryInv
  <1> DEFINE f == First(workers[w].batch)
             g == First(workers[v].batch)
  <1>2. f \in workers[w].batch /\ g \in workers[v].batch
    BY <1>1, FirstIsOnList DEF Fits, ListFits
  <1>3. w \in Senders => notes[f.note].status = "PENDING"
    BY <1>1 DEF Fits, SenderFits
  <1>4. w \notin Senders => Failing(notes[f.note])
    BY <1>1, <1>2 DEF Fits, CronFits, Waits, Failing
  <1>5. v \in Senders => i = g /\ notes[i.note].status = "PENDING"
    BY <1>1 DEF Fits, SenderFits
  <1>6. v \notin Senders => Failing(notes[i.note])
    BY <1>1, <1>2 DEF Fits, CronFits, Waits, Failing
  <1>7. w \in Senders \/ v \in Senders
    BY DEF OneCron, Workers
  <1>8. w \in Senders /\ v \in Senders => f.note # g.note
    BY DEF DeliveryInv, SendersApart
  <1> QED
    BY <1>3, <1>4, <1>5, <1>6, <1>7, <1>8 DEF Failing

(* A step of one worker, which writes at most the notification it is at or *)
(* a new one, keeps the invariant if it leaves that true and itself fit.   *)
LEMMA StepOfOne ==
  ASSUME DeliveryInv, OneCron, NEW w \in Workers,
         workers' \in [Workers -> Busy \cup {Idle}],
         \A v \in Workers \ {w} : workers'[v] = workers[v],
         notes' \in Seq(Note), failures' \in Nat,
         DOMAIN notes \subseteq DOMAIN notes',
         \A n \in DOMAIN notes :
           notes'[n] = notes[n] \/ (workers[w] # Idle /\ n = First(workers[w].batch).note),
         \A n \in DOMAIN notes' : NoteIsTrue(notes'[n]),
         Fits(w, workers'[w], notes'),
         w \in Senders /\ workers'[w] # Idle =>
           \/ /\ workers[w] # Idle
              /\ First(workers'[w].batch).note = First(workers[w].batch).note
           \/ First(workers'[w].batch).note \notin DOMAIN notes
  PROVE  DeliveryInv'
  <1>1. ASSUME NEW v \in Workers, v # w PROVE Fits(v, workers'[v], notes')
    <2>1. Fits(v, workers[v], notes)
      BY DEF DeliveryInv
    <2>2. ASSUME workers[v] # Idle, NEW i \in workers[v].batch
          PROVE  i.note \in DOMAIN notes' /\ notes'[i.note] = notes[i.note]
      <3>1. i.note \in DOMAIN notes
        BY <2>1, <2>2 DEF Fits, ListFits
      <3>2. workers[w] # Idle => i.note # First(workers[w].batch).note
        BY <1>1, <2>2, NobodyElseHasIt
      <3> QED
        BY <3>1, <3>2
    <2>3. Fits(v, workers[v], notes')
      BY <2>1, <2>2, FitsElsewhere
    <2> QED
      BY <1>1, <2>3
  <1>2. ASSUME NEW u \in Senders, u # w, w \in Senders, workers'[w] # Idle, workers'[u] # Idle
        PROVE  First(workers'[u].batch).note # First(workers'[w].batch).note
    <2>1. u \in Workers /\ workers'[u] = workers[u]
      BY <1>2 DEF Workers
    <2>2. Fits(u, workers[u], notes)
      BY <2>1 DEF DeliveryInv
    <2>3. First(workers[u].batch).note \in DOMAIN notes
      BY <1>2, <2>1, <2>2, FirstIsOnList DEF Fits, ListFits
    <2>4. workers[w] # Idle => First(workers[u].batch).note # First(workers[w].batch).note
      BY <1>2, <2>1 DEF DeliveryInv, SendersApart
    <2> QED
      BY <1>2, <2>1, <2>3, <2>4
  <1>3. SendersApart'
    <2> SUFFICES ASSUME NEW s \in Senders, NEW u \in Senders, s # u,
                        workers'[s] # Idle, workers'[u] # Idle
                 PROVE  First(workers'[s].batch).note # First(workers'[u].batch).note
      BY DEF SendersApart
    <2>1. CASE s = w
      BY <1>2, <2>1
    <2>2. CASE u = w
      BY <1>2, <2>2
    <2>3. CASE s # w /\ u # w
      <3>1. workers'[s] = workers[s] /\ workers'[u] = workers[u]
        BY <2>3 DEF Workers
      <3> QED
        BY <3>1 DEF DeliveryInv, SendersApart
    <2> QED
      BY <2>1, <2>2, <2>3
  <1> QED
    BY <1>1, <1>3 DEF DeliveryInv

(***************************************************************************)
(* Every step keeps the invariant.                                         *)
(***************************************************************************)

(* What a worker that has something to do can rely on.                     *)
LEMMA AtWork ==
  ASSUME DeliveryInv, NEW w \in Workers, workers[w] # Idle
  PROVE  /\ workers[w] \in Busy
         /\ ListFits(workers[w], notes)
         /\ Current(w) = First(workers[w].batch)
         /\ Current(w) \in workers[w].batch
         /\ Current(w) \in [note : Nat, left : SUBSET Recipients]
         /\ Current(w).note \in DOMAIN notes
         /\ NoteIsTrue(notes[Current(w).note])
         /\ Current(w).left \subseteq UndeliveredOf(notes[Current(w).note])
         /\ AttemptFits(w, workers[w], Current(w), notes[Current(w).note])
         /\ IF w \in Senders THEN SenderFits(workers[w], Current(w), notes[Current(w).note])
                             ELSE CronFits(workers[w], Current(w), notes)
  <1>1. Current(w) = First(workers[w].batch)
    BY DEF Current, First
  <1>2. Fits(w, workers[w], notes)
    BY DEF DeliveryInv
  <1>3. workers[w] \in Busy /\ ListFits(workers[w], notes)
    BY <1>2 DEF Fits
  <1>4. Current(w) \in workers[w].batch
    BY <1>1, <1>3, FirstIsOnList DEF ListFits
  <1>5. Current(w) \in [note : Nat, left : SUBSET Recipients]
    BY <1>3, <1>4 DEF Busy
  <1>6. /\ Current(w).note \in DOMAIN notes
        /\ Current(w).left \subseteq UndeliveredOf(notes[Current(w).note])
    BY <1>3, <1>4 DEF ListFits
  <1>7. NoteIsTrue(notes[Current(w).note])
    BY <1>6 DEF DeliveryInv
  <1> QED
    BY <1>1, <1>2, <1>3, <1>4, <1>5, <1>6, <1>7 DEF Fits

(* A list of one item.                                                     *)
LEMMA OneItem ==
  ASSUME NEW i, i.note \in Nat
  PROVE  OncePerNote({i}) /\ First({i}) = i
  <1>1. OncePerNote({i})
    BY DEF OncePerNote
  <1> QED
    BY <1>1, FirstIsOnList

(* A list that is begun.                                                   *)
LEMMA WorkingIsBusy ==
  ASSUME NEW stage \in {"mark", "send"}, NEW batch \in SUBSET [note : Nat, left : SUBSET Recipients]
  PROVE  /\ Working(stage, batch) \in Busy /\ Working(stage, batch) # Idle
         /\ Working(stage, batch).stage = stage /\ Working(stage, batch).batch = batch
         /\ Working(stage, batch).all = TRUE /\ Working(stage, batch).any = FALSE
  BY DEF Working, Busy, Answers, Idle

LEMMA SendNotificationStep ==
  ASSUME DeliveryInv, OneCron, EverySendHasRecipients, NEW s \in Senders, SendNotification(s)
  PROVE  DeliveryInv'
  <1>1. PICK channel \in Channels, to \in RecipientSets, limit \in RetryLimits :
          notes' = Append(notes,
            [channel |-> channel, status |-> "PENDING", retries |-> 0, limit |-> limit,
             dated |-> FALSE, to |-> to, delivery |-> [r \in Recipients |-> "PENDING"]])
    BY DEF SendNotification
  <1> DEFINE x == [channel |-> channel, status |-> "PENDING", retries |-> 0, limit |-> limit,
                   dated |-> FALSE, to |-> to, delivery |-> [r \in Recipients |-> "PENDING"]]
             n == Len(notes) + 1
             item == [note |-> n, left |-> to]
  <1>2. /\ channel \in AllChannels /\ limit \in Nat
        /\ to \in SUBSET Recipients /\ to # {}
    BY DeliveryAssumption DEF EverySendHasRecipients
  <1>3. x \in Note /\ x.to = to /\ x.status = "PENDING" /\ UndeliveredOf(x) = to
    <2>1. x \in Note
      BY <1>2 DEF Note, Status, DeliveryStatus
    <2>2. \A r \in to : x.delivery[r] = "PENDING"
      BY <1>2
    <2> QED
      BY <2>1, <2>2 DEF UndeliveredOf
  <1>4. NoteIsTrue(x)
    BY <1>2, <1>3 DEF NoteIsTrue
  <1>5. x.channel = channel
    OBVIOUS
  <1> HIDE DEF x
  <1>6. /\ notes' \in Seq(Note) /\ notes \in Seq(Note) /\ Len(notes) \in Nat /\ n \in Nat
        /\ Len(notes') = n /\ notes'[n] = x
        /\ \A k \in DOMAIN notes : notes'[k] = notes[k]
        /\ DOMAIN notes' = DOMAIN notes \cup {n} /\ n \notin DOMAIN notes
    BY <1>1, <1>3 DEF DeliveryInv, x
  <1>7. \A k \in DOMAIN notes' : NoteIsTrue(notes'[k])
    BY <1>4, <1>6 DEF DeliveryInv
  <1>8. item \in [note : Nat, left : SUBSET Recipients] /\ item.note = n /\ item.left = to
    BY <1>2, <1>6
  <1>9. /\ s \in Workers /\ failures' = failures
        /\ workers' = [workers EXCEPT ![s] = Working("send", {item})]
    BY <1>3, <1>6 DEF SendNotification, Workers
  <1> HIDE DEF item, n
  <1> DEFINE q == Working("send", {item})
  <1>10. /\ q \in Busy /\ q # Idle /\ q.stage = "send" /\ q.batch = {item}
         /\ q.all = TRUE /\ q.any = FALSE
    <2>1. {item} \in SUBSET [note : Nat, left : SUBSET Recipients]
      BY <1>8
    <2> HIDE <1>8
    <2> QED
      BY <2>1, WorkingIsBusy
  <1>11. /\ workers' \in [Workers -> Busy \cup {Idle}] /\ workers'[s] = q
         /\ \A v \in Workers \ {s} : workers'[v] = workers[v]
    BY <1>9, <1>10 DEF DeliveryInv
  <1> HIDE DEF q
  <1>12. OncePerNote({item}) /\ First(q.batch) = item
    BY <1>6, <1>8, <1>10, OneItem
  <1>13. Fits(s, q, notes')
    <2>1. ListFits(q, notes')
      BY <1>3, <1>6, <1>8, <1>10, <1>12 DEF ListFits
    <2>2. AttemptFits(s, q, item, notes'[item.note])
      BY <1>10 DEF AttemptFits
    <2>3. SenderFits(q, item, notes'[item.note])
      BY <1>2, <1>3, <1>6, <1>8, <1>10 DEF SenderFits
    <2> QED
      BY <1>10, <1>12, <2>1, <2>2, <2>3 DEF Fits
  <1>14. First(workers'[s].batch).note \notin DOMAIN notes
    BY <1>6, <1>8, <1>11, <1>12
  <1>15. failures' \in Nat
    BY <1>9 DEF DeliveryInv
  <1> QED
    BY <1>6, <1>7, <1>9, <1>11, <1>13, <1>14, <1>15, StepOfOne

LEMMA ProcessRetriesStep ==
  ASSUME DeliveryInv, OneCron, NEW c \in Crons, ProcessRetries(c)
  PROVE  DeliveryInv'
  <1> DEFINE batch == {[note |-> n, left |-> Undelivered(n)] : n \in {m \in Oldest : Retryable(m)}}
             q == Working("mark", batch)
  <1>1. /\ c \in Workers /\ batch # {} /\ notes' = notes /\ failures' = failures
        /\ workers' = [workers EXCEPT ![c] = q]
    BY DEF ProcessRetries, Workers
  <1>2. c \notin Senders
    BY DeliveryAssumption
  <1>3. ASSUME NEW i \in batch
        PROVE  /\ i \in [note : Nat, left : SUBSET Recipients] /\ i.note \in DOMAIN notes
               /\ Waits(i, notes[i.note])
    <2>1. PICK n \in Oldest : Retryable(n) /\ i = [note |-> n, left |-> Undelivered(n)]
      OBVIOUS
    <2>2. n \in DOMAIN notes /\ Failing(notes[n])
      BY DEF Oldest, Failed, Failing
    <2>3. n \in Nat /\ NoteIsTrue(notes[n])
      BY <2>2 DEF DeliveryInv
    <2>4. Undelivered(n) \subseteq Recipients
      BY <2>3 DEF Undelivered, NoteIsTrue, Note
    <2> QED
      BY <2>1, <2>2, <2>3, <2>4 DEF Waits, Retryable, Undelivered, UndeliveredOf
  <1>4. OncePerNote(batch)
    <2>1. \A i, j \in batch : i.note = j.note => i = j
      OBVIOUS
    <2>2. \A i \in batch : i.note \in Nat
      BY <1>3
    <2> HIDE DEF batch
    <2> QED
      BY <1>1, <2>1, <2>2 DEF OncePerNote
  <1> HIDE DEF batch
  <1>5. /\ q \in Busy /\ q # Idle /\ q.stage = "mark" /\ q.batch = batch
    BY <1>3, WorkingIsBusy
  <1>6. /\ workers' \in [Workers -> Busy \cup {Idle}] /\ workers'[c] = q
        /\ \A v \in Workers \ {c} : workers'[v] = workers[v]
    BY <1>1, <1>5 DEF DeliveryInv
  <1> HIDE DEF q
  <1>7. Fits(c, q, notes)
    <2>1. ListFits(q, notes)
      BY <1>3, <1>4, <1>5 DEF ListFits, Waits
    <2>2. AttemptFits(c, q, First(batch), notes[First(batch).note])
      BY <1>5 DEF AttemptFits
    <2>3. CronFits(q, First(batch), notes)
      BY <1>3, <1>5 DEF CronFits
    <2> QED
      BY <1>2, <1>5, <2>1, <2>2, <2>3 DEF Fits
  <1> QED
    BY <1>1, <1>2, <1>6, <1>7, StepOfOne DEF DeliveryInv

LEMMA MarkRetryingStep ==
  ASSUME DeliveryInv, OneCron, NEW c \in Crons, MarkRetrying(c)
  PROVE  DeliveryInv'
  <1> DEFINE item == Current(c)
             n == item.note
             x == notes[n]
             y == notes'[n]
             q == workers'[c]
             batch == workers[c].batch
  <1>1. c \in Workers /\ c \notin Senders /\ workers[c].stage = "mark" /\ workers[c] # Idle
    BY DeliveryAssumption DEF Workers, MarkRetrying, In, Idle
  <1>2. /\ workers[c] \in Busy /\ ListFits(workers[c], notes)
        /\ item = First(batch) /\ item \in batch
        /\ n \in DOMAIN notes /\ NoteIsTrue(x)
        /\ CronFits(workers[c], item, notes)
    BY <1>1, AtWork
  <1>3. \A i \in batch : Waits(i, notes[i.note])
    BY <1>1, <1>2 DEF CronFits
  <1>4. /\ notes' = [notes EXCEPT ![n].status = "RETRYING", ![n].retries = @ + 1]
        /\ workers' = [workers EXCEPT ![c] = Working("send", batch)]
        /\ failures' = failures
    BY <1>1 DEF MarkRetrying, DeliveryInv
  <1>5. x \in Note /\ x.retries < x.limit /\ x.retries \in Nat /\ x.limit \in Nat
    BY <1>2, <1>3 DEF Waits, NoteIsTrue, Note
  <1>6. y = [x EXCEPT !.status = "RETRYING", !.retries = x.retries + 1]
    BY <1>2, <1>4 DEF DeliveryInv
  <1>7. /\ y \in Note /\ y.status = "RETRYING" /\ y.retries = x.retries + 1 /\ y.limit = x.limit
        /\ y.channel = x.channel /\ y.to = x.to /\ y.dated = x.dated /\ y.delivery = x.delivery
    <2>1. x.retries + 1 \in Nat
      BY <1>5
    <2> HIDE DEF x, y
    <2> QED
      BY <1>5, <1>6, <2>1 DEF Note, Status
  <1>8. /\ notes' \in Seq(Note) /\ DOMAIN notes' = DOMAIN notes
        /\ \A k \in DOMAIN notes : k # n => notes'[k] = notes[k]
    <2>1. notes \in Seq(Note)
      BY DEF DeliveryInv
    <2>2. notes' = [notes EXCEPT ![n] = y]
      BY <1>2, <1>4, <1>6, <2>1
    <2> HIDE DEF y, n
    <2> QED
      BY <1>2, <1>7, <2>1, <2>2, OneReplaced
  <1> HIDE DEF y, x, n, item, batch
  <1>9. NoteIsTrue(y) /\ UndeliveredOf(y) = UndeliveredOf(x)
    <2>1. ~x.dated /\ x.to # {}
      BY <1>2, <1>3 DEF Waits, Failing, NoteIsTrue, x, n
    <2> QED
      BY <1>2, <1>5, <1>7, <2>1 DEF NoteIsTrue, UndeliveredOf
  <1>10. \A k \in DOMAIN notes' : NoteIsTrue(notes'[k])
    BY <1>8, <1>9 DEF DeliveryInv, y
  <1>11. /\ q \in Busy /\ q # Idle /\ q.stage = "send" /\ q.batch = batch /\ q.all = TRUE
         /\ workers' \in [Workers -> Busy \cup {Idle}]
         /\ \A v \in Workers \ {c} : workers'[v] = workers[v]
    <2>1. batch \in SUBSET [note : Nat, left : SUBSET Recipients]
      BY <1>2 DEF Busy, batch
    <2> DEFINE b == Working("send", batch)
    <2>2. b \in Busy /\ b # Idle /\ b.stage = "send" /\ b.batch = batch /\ b.all = TRUE
      BY <2>1, WorkingIsBusy
    <2>3. workers' = [workers EXCEPT ![c] = b]
      BY <1>4
    <2> HIDE DEF b
    <2> QED
      BY <1>1, <2>2, <2>3 DEF DeliveryInv
  <1>12. Fits(c, q, notes')
    <2>1. \A i \in batch : i # item => i.note # n
      BY <1>2 DEF ListFits, OncePerNote, n, batch
    <2>2. \A i \in batch : i.note \in DOMAIN notes
      BY <1>2 DEF ListFits, batch
    <2>3. ASSUME NEW i \in batch PROVE i.left \subseteq UndeliveredOf(notes'[i.note])
      <3>1. CASE i.note = n
        BY <1>3, <1>9, <3>1 DEF Waits, x, y
      <3>2. CASE i.note # n
        BY <1>3, <1>8, <2>2, <3>2 DEF Waits
      <3> QED
        BY <3>1, <3>2
    <2>4. ListFits(q, notes')
      BY <1>2, <1>8, <1>11, <2>2, <2>3 DEF ListFits, batch
    <2>5. AttemptFits(c, q, item, notes'[item.note])
      BY <1>11 DEF AttemptFits
    <2>6. \A i \in batch : i # item => Waits(i, notes'[i.note])
      BY <1>3, <1>8, <2>1, <2>2
    <2>7. notes'[item.note].status = "RETRYING" /\ UndeliveredOf(notes'[item.note]) = item.left
      BY <1>2, <1>3, <1>7, <1>9 DEF Waits, x, y, n
    <2>8. CronFits(q, item, notes')
      BY <1>11, <2>6, <2>7 DEF CronFits
    <2> QED
      BY <1>1, <1>2, <1>11, <2>4, <2>5, <2>8 DEF Fits
  <1> QED
    BY <1>1, <1>2, <1>4, <1>8, <1>10, <1>11, <1>12, StepOfOne DEF DeliveryInv, n, batch

LEMMA DispatchStep ==
  ASSUME DeliveryInv, OneCron, NEW w \in Workers, Dispatch(w)
  PROVE  /\ DeliveryInv'
         /\ workers'[w].trying \subseteq UndeliveredOf(notes[Current(w).note])
         /\ \A v \in Workers \ {w} : workers'[v] = workers[v]
  <1> DEFINE item == Current(w)
             x == notes[item.note]
             p == workers[w]
             q == workers'[w]
  <1>1. p.stage = "send" /\ p # Idle /\ item.left # {} /\ notes' = notes /\ failures' = failures
    BY DEF Dispatch, In, Idle
  <1>2. /\ p \in Busy /\ ListFits(p, notes)
        /\ item = First(p.batch) /\ item \in p.batch
        /\ item \in [note : Nat, left : SUBSET Recipients]
        /\ item.left \subseteq UndeliveredOf(x)
        /\ AttemptFits(w, p, item, x)
        /\ IF w \in Senders THEN SenderFits(p, item, x) ELSE CronFits(p, item, notes)
        /\ NoteIsTrue(x)
    BY <1>1, AtWork
  <1>3. PICK R \in (IF x.channel = "WEBHOOK" THEN {item.left} ELSE {{r} : r \in item.left}),
             a \in AnswersOf(w, x.channel) :
          workers' = [workers EXCEPT ![w].stage = "record", ![w].trying = R, ![w].answer = a]
    BY DEF Dispatch
  <1>4. R # {} /\ R \subseteq item.left /\ R \subseteq Recipients
    BY <1>1, <1>2, <1>3
  <1>5. a \in Answers
    BY <1>2, <1>3 DEF AnswersOf, Answers, NoteIsTrue, Note, AllChannels
  <1>6. q = [p EXCEPT !.stage = "record", !.trying = R, !.answer = a]
    BY <1>3 DEF DeliveryInv
  <1>7. /\ q \in Busy /\ q # Idle /\ q.stage = "record" /\ q.trying = R /\ q.answer = a
        /\ q.batch = p.batch /\ q.all = p.all /\ q.any = p.any
    <2> HIDE DEF p, q
    <2>1. p \in Busy
      BY <1>2
    <2> QED
      BY <1>4, <1>5, <1>6, <2>1 DEF Busy, Idle
  <1>8. /\ workers' \in [Workers -> Busy \cup {Idle}]
        /\ \A v \in Workers \ {w} : workers'[v] = workers[v]
    BY <1>3, <1>6, <1>7 DEF DeliveryInv
  <1> HIDE DEF q, x, item
  <1>9. Fits(w, q, notes)
    <2>1. ListFits(q, notes)
      BY <1>2, <1>7 DEF ListFits
    <2>2. AttemptFits(w, q, item, x)
      BY <1>1, <1>2, <1>3, <1>4, <1>7 DEF AttemptFits
    <2>3. IF w \in Senders THEN SenderFits(q, item, x) ELSE CronFits(q, item, notes)
      <3>1. CASE w \in Senders
        BY <1>2, <1>7, <3>1 DEF SenderFits
      <3>2. CASE w \notin Senders
        BY <1>1, <1>2, <1>7, <3>2 DEF CronFits
      <3> QED
        BY <3>1, <3>2
    <2> QED
      BY <1>2, <1>7, <2>1, <2>2, <2>3 DEF Fits, x
  <1>10. DeliveryInv'
    BY <1>1, <1>2, <1>7, <1>8, <1>9, StepOfOne DEF DeliveryInv, q
  <1> QED
    BY <1>2, <1>4, <1>7, <1>8, <1>10 DEF q, x, item

LEMMA RecordDeliveryStep ==
  ASSUME DeliveryInv, OneCron, NEW w \in Workers, RecordDelivery(w)
  PROVE  DeliveryInv'
  <1> DEFINE item  == Current(w)
             n     == item.note
             x     == notes[n]
             y     == notes'[n]
             p     == workers[w]
             q     == workers'[w]
             R     == p.trying
             a     == p.answer
             item2 == [item EXCEPT !.left = @ \ R]
  <1>1. p.stage = "record" /\ p # Idle
    BY DEF RecordDelivery, In, Idle
  <1>2. /\ p \in Busy /\ ListFits(p, notes)
        /\ item = First(p.batch) /\ item \in p.batch
        /\ item \in [note : Nat, left : SUBSET Recipients]
        /\ n \in DOMAIN notes /\ NoteIsTrue(x)
        /\ item.left \subseteq UndeliveredOf(x)
        /\ AttemptFits(w, p, item, x)
        /\ IF w \in Senders THEN SenderFits(p, item, x) ELSE CronFits(p, item, notes)
    BY <1>1, AtWork
  <1>3. R # {} /\ R \subseteq item.left /\ a \in AnswersOf(w, x.channel) /\ a \in Answers
    BY <1>1, <1>2 DEF AttemptFits, Busy
  <1>4. x.status \in {"PENDING", "RETRYING"}
    <2>1. CASE w \in Senders
      BY <1>2, <2>1 DEF SenderFits
    <2>2. CASE w \notin Senders
      BY <1>1, <1>2, <2>2 DEF CronFits
    <2> QED
      BY <2>1, <2>2
  <1>5. /\ notes' = [notes EXCEPT ![n].delivery =
             [r \in Recipients |-> IF r \in R THEN StatusAfter(x.channel, a, @[r]) ELSE @[r]]]
        /\ workers' = [workers EXCEPT ![w].stage = "send",
             ![w].batch = (@ \ {item}) \cup {item2},
             ![w].all = @ /\ Success(a), ![w].any = @ \/ Success(a)]
        /\ failures' = failures
    BY DEF RecordDelivery
  <1>6. x \in Note
    BY <1>2 DEF NoteIsTrue
  <1> DEFINE d == [r \in Recipients |-> IF r \in R THEN StatusAfter(x.channel, a, x.delivery[r])
                                              ELSE x.delivery[r]]
  <1>7. y = [x EXCEPT !.delivery = d]
    BY <1>2, <1>5 DEF DeliveryInv
  <1>8. d \in [Recipients -> DeliveryStatus]
    BY <1>6 DEF StatusAfter, DeliveryStatus, Note
  <1> HIDE DEF d
  <1>9. /\ y \in Note /\ y.delivery = d
        /\ y.channel = x.channel /\ y.status = x.status /\ y.to = x.to
        /\ y.retries = x.retries /\ y.limit = x.limit /\ y.dated = x.dated
    <2> HIDE DEF x, y
    <2> QED
      BY <1>6, <1>7, <1>8 DEF Note
  <1>10. /\ NoteIsTrue(y)
         /\ a \in {"accepted", "stored"} => UndeliveredOf(y) = UndeliveredOf(x) \ R
         /\ a \notin {"accepted", "stored"} => UndeliveredOf(y) = UndeliveredOf(x)
    <2> HIDE DEF x, y, R, a
    <2>1. R \subseteq UndeliveredOf(x)
      BY <1>2, <1>3
    <2> QED
      BY <1>2, <1>3, <1>4, <1>9, <2>1, RecordedIsTrue DEF d
  <1>11. /\ notes' \in Seq(Note) /\ DOMAIN notes' = DOMAIN notes
         /\ \A k \in DOMAIN notes : k # n => notes'[k] = notes[k]
    <2>1. notes \in Seq(Note)
      BY DEF DeliveryInv
    <2>2. notes' = [notes EXCEPT ![n] = y]
      BY <1>2, <1>5, <1>7, <2>1
    <2> HIDE DEF y, n
    <2> QED
      BY <1>2, <1>9, <2>1, <2>2, OneReplaced
  <1>12. item2 \in [note : Nat, left : SUBSET Recipients] /\ item2.note = n /\ item2.left = item.left \ R
    <2> HIDE DEF item, R
    <2> QED
      BY <1>2 DEF n
  <1> DEFINE rest == (p.batch \ {item}) \cup {item2}
  <1>13. OncePerNote(rest) /\ First(rest) = item2
    <2> HIDE DEF item2, item
    <2> QED
      BY <1>2, <1>12, FirstStaysFirst DEF ListFits, n
  <1>14. rest \in SUBSET [note : Nat, left : SUBSET Recipients]
    BY <1>2, <1>12 DEF Busy
  <1> HIDE DEF item2
  <1>15. q = [p EXCEPT !.stage = "send", !.batch = rest,
                       !.all = @ /\ Success(a), !.any = @ \/ Success(a)]
    BY <1>5 DEF DeliveryInv
  <1> HIDE DEF rest, item
  <1>16. /\ q \in Busy /\ q # Idle /\ q.stage = "send" /\ q.batch = rest
         /\ q.all = (p.all /\ Success(a)) /\ q.any = (p.any \/ Success(a))
    <2>1. Success(a) \in BOOLEAN
      BY DEF Success
    <2> HIDE DEF q, p, a
    <2> QED
      BY <1>2, <1>14, <1>15, <2>1 DEF Busy, Idle
  <1>17. /\ workers' \in [Workers -> Busy \cup {Idle}]
         /\ \A v \in Workers \ {w} : workers'[v] = workers[v]
    <2>1. workers \in [Workers -> Busy \cup {Idle}]
      BY DEF DeliveryInv
    <2>2. q = workers'[w] /\ workers' = [workers EXCEPT ![w] = q]
      BY <1>5, <2>1
    <2> HIDE DEF q
    <2> QED
      BY <1>16, <2>1, <2>2
  <1> HIDE DEF p, q, R, a, x, y, n
  <1>18. Success(a) /\ x.channel # "PUSH" => a \in {"accepted", "stored"}
    BY <1>3, <1>6 DEF Success, AnswersOf, Note, AllChannels
  <1>19. ~Success(a) => a \notin {"accepted", "stored"}
    BY DEF Success
  <1>20. /\ UndeliveredOf(y) \subseteq UndeliveredOf(x)
         /\ UndeliveredOf(x) \ R \subseteq UndeliveredOf(y)
         /\ UndeliveredOf(x) \subseteq x.to
    BY <1>10 DEF UndeliveredOf
  <1>21. ListFits(q, notes')
    <2>1. \A i \in rest : i = item2 \/ (i \in p.batch /\ i.note # n)
      BY <1>2 DEF ListFits, OncePerNote, rest, n
    <2>2. item2.left \subseteq UndeliveredOf(notes'[item2.note])
      BY <1>2, <1>12, <1>20 DEF y
    <2> QED
      BY <1>2, <1>11, <1>12, <1>13, <1>16, <2>1, <2>2 DEF ListFits
  <1>22. AttemptFits(w, q, item2, y)
    <2>1. ASSUME ~p.all PROVE UndeliveredOf(y) \ item2.left # {}
      <3>1. UndeliveredOf(x) \ item.left # {}
        BY <1>1, <1>2, <2>1 DEF AttemptFits
      <3> QED
        BY <1>3, <1>12, <1>20, <3>1
    <2>2. ASSUME ~Success(a) PROVE UndeliveredOf(y) \ item2.left # {}
      BY <1>2, <1>3, <1>10, <1>12, <1>19, <2>2
    <2>3. ~q.all => ~p.all \/ ~Success(a)
      BY <1>16
    <2>4. ~q.all => UndeliveredOf(y) \ item2.left # {}
      BY <2>1, <2>2, <2>3
    <2> QED
      BY <1>16, <2>4 DEF AttemptFits
  <1>23. ASSUME w \in Senders PROVE SenderFits(q, item2, y)
    <2>1. SenderFits(p, item, x)
      BY <1>2, <1>23
    <2>2. p.any /\ x.channel # "PUSH" => UndeliveredOf(y) # y.to
      BY <1>9, <1>20, <2>1 DEF SenderFits
    <2>3. Success(a) /\ x.channel # "PUSH" => UndeliveredOf(y) # y.to
      BY <1>2, <1>3, <1>9, <1>10, <1>18, <1>20
    <2>4. q.any => p.any \/ Success(a)
      BY <1>16
    <2>5. q.all => q.any
      BY <1>16
    <2>6. q.batch = {item2}
      BY <1>16, <2>1 DEF SenderFits, rest
    <2> QED
      BY <1>9, <1>16, <2>1, <2>2, <2>3, <2>4, <2>5, <2>6 DEF SenderFits
  <1>24. ASSUME w \notin Senders PROVE CronFits(q, item2, notes')
    <2>1. CronFits(p, item, notes)
      BY <1>2, <1>24
    <2>2. ASSUME NEW i \in q.batch, i # item2 PROVE Waits(i, notes'[i.note])
      <3>1. i \in p.batch /\ i # item /\ i.note # n /\ i.note \in DOMAIN notes
        BY <1>2, <1>16, <2>2 DEF ListFits, OncePerNote, rest, n
      <3> QED
        BY <1>11, <2>1, <3>1 DEF CronFits
    <2>3. y.status = "RETRYING"
      BY <1>1, <1>9, <2>1 DEF CronFits, x, n
    <2>4. q.all => p.all /\ Success(a)
      BY <1>16
    <2>5. p.all /\ x.channel # "PUSH" => UndeliveredOf(x) \subseteq item.left
      BY <1>1, <2>1 DEF CronFits, x, n
    <2>6. q.all /\ y.channel # "PUSH" => UndeliveredOf(y) \subseteq item2.left
      BY <1>9, <1>10, <1>12, <1>18, <2>4, <2>5
    <2>7. notes'[item2.note] = y
      BY <1>12 DEF y
    <2> QED
      BY <1>16, <2>2, <2>3, <2>6, <2>7 DEF CronFits
  <1>25. Fits(w, q, notes')
    BY <1>12, <1>13, <1>16, <1>21, <1>22, <1>23, <1>24 DEF Fits, y
  <1>26. \A k \in DOMAIN notes' : NoteIsTrue(notes'[k])
    BY <1>10, <1>11 DEF DeliveryInv, y
  <1>27. First(q.batch).note = First(workers[w].batch).note /\ workers[w] # Idle
    BY <1>1, <1>2, <1>12, <1>13, <1>16 DEF n, p
  <1> QED
    BY <1>2, <1>5, <1>11, <1>17, <1>25, <1>26, <1>27, StepOfOne DEF DeliveryInv, q, n, p

LEMMA SettleSendStep ==
  ASSUME DeliveryInv, OneCron, NEW s \in Senders, SettleSend(s)
  PROVE  DeliveryInv'
  <1> DEFINE item == Current(s)
             n == item.note
             x == notes[n]
             y == notes'[n]
             p == workers[s]
  <1>1. /\ s \in Workers /\ p.stage = "send" /\ p # Idle /\ item.left = {}
        /\ failures' = failures /\ workers' = [workers EXCEPT ![s] = Idle]
    BY DEF SettleSend, Done, In, Idle, Workers
  <1>2. /\ p \in Busy /\ item = First(p.batch)
        /\ n \in DOMAIN notes /\ NoteIsTrue(x)
        /\ AttemptFits(s, p, item, x)
        /\ SenderFits(p, item, x)
    BY <1>1, AtWork
  <1>3. x \in Note /\ p.all \in BOOLEAN /\ p.any \in BOOLEAN
    BY <1>2 DEF NoteIsTrue, Busy
  <1>4. x.to # {} /\ (p.all => p.any)
    BY <1>1, <1>2 DEF SenderFits, NoteIsTrue
  <1>5. notes' = [notes EXCEPT ![n].status = IF p.all \/ p.any THEN "SENT" ELSE "FAILED",
                               ![n].dated  = p.any]
    BY DEF SettleSend
  <1>6. y = [x EXCEPT !.status = IF p.all \/ p.any THEN "SENT" ELSE "FAILED", !.dated = p.any]
    BY <1>2, <1>5 DEF DeliveryInv
  <1> HIDE DEF y, x, p
  <1>7. /\ y \in Note /\ y.dated = p.any /\ y.to = x.to /\ y.channel = x.channel
        /\ y.delivery = x.delivery /\ y.retries = x.retries /\ y.limit = x.limit
    BY <1>3, <1>6 DEF Note, Status
  <1>8. y.status = IF p.all \/ p.any THEN "SENT" ELSE "FAILED"
    BY <1>3, <1>6 DEF Note
  <1>9. UndeliveredOf(y) = UndeliveredOf(x)
    BY <1>7 DEF UndeliveredOf
  <1>10. ASSUME p.any PROVE NoteIsTrue(y)
    <2>1. y.status = "SENT" /\ y.dated = TRUE
      BY <1>3, <1>7, <1>8, <1>10
    <2>2. y.channel # "PUSH" => UndeliveredOf(y) # y.to
      BY <1>2, <1>7, <1>9, <1>10 DEF SenderFits
    <2> QED
      BY <1>2, <1>4, <1>7, <2>1, <2>2 DEF NoteIsTrue
  <1>11. ASSUME ~p.any PROVE NoteIsTrue(y)
    <2>1. y.status = "FAILED" /\ y.dated = FALSE
      BY <1>3, <1>4, <1>7, <1>8, <1>11
    <2>2. UndeliveredOf(y) # {}
      BY <1>1, <1>2, <1>4, <1>9, <1>11 DEF AttemptFits
    <2> QED
      BY <1>2, <1>4, <1>7, <2>1, <2>2 DEF NoteIsTrue
  <1>12. /\ NoteIsTrue(y)
         /\ notes' \in Seq(Note) /\ DOMAIN notes' = DOMAIN notes
         /\ \A k \in DOMAIN notes : k # n => notes'[k] = notes[k]
    <2>1. notes' = [notes EXCEPT ![n] = y]
      BY <1>2, <1>5, <1>6 DEF DeliveryInv, x
    <2> HIDE DEF n
    <2> QED
      BY <1>2, <1>7, <1>10, <1>11, <2>1 DEF DeliveryInv
  <1>13. \A k \in DOMAIN notes' : NoteIsTrue(notes'[k])
    BY <1>12 DEF DeliveryInv, y
  <1>14. /\ workers' \in [Workers -> Busy \cup {Idle}] /\ workers'[s] = Idle
         /\ \A v \in Workers \ {s} : workers'[v] = workers[v]
    BY <1>1 DEF DeliveryInv
  <1>15. Fits(s, workers'[s], notes')
    BY <1>14 DEF Fits
  <1> QED
    BY <1>1, <1>2, <1>12, <1>13, <1>14, <1>15, StepOfOne DEF DeliveryInv, p

LEMMA SettleRetryStep ==
  ASSUME DeliveryInv, OneCron, NEW c \in Crons, SettleRetry(c)
  PROVE  DeliveryInv'
  <1> DEFINE item == Current(c)
             n == item.note
             x == notes[n]
             y == notes'[n]
             p == workers[c]
             rest == p.batch \ {item}
  <1>1. /\ c \in Workers /\ c \notin Senders
        /\ p.stage = "send" /\ p # Idle /\ item.left = {}
        /\ failures' = failures
        /\ workers' = [workers EXCEPT ![c] = IF rest = {} THEN Idle ELSE Working("mark", rest)]
    BY DeliveryAssumption DEF SettleRetry, Done, In, Idle, Workers
  <1>2. /\ p \in Busy /\ ListFits(p, notes) /\ item = First(p.batch) /\ item \in p.batch
        /\ n \in DOMAIN notes /\ NoteIsTrue(x)
        /\ AttemptFits(c, p, item, x)
        /\ CronFits(p, item, notes)
    BY <1>1, AtWork
  <1>3. x \in Note /\ p.all \in BOOLEAN /\ x.dated \in BOOLEAN
    BY <1>2 DEF NoteIsTrue, Busy, Note
  <1>4. x.status = "RETRYING" /\ ~x.dated /\ x.to # {}
    BY <1>1, <1>2 DEF CronFits, NoteIsTrue
  <1>5. notes' = [notes EXCEPT ![n].status = IF p.all THEN "SENT" ELSE "FAILED",
                               ![n].dated  = @ \/ p.all]
    BY DEF SettleRetry
  <1>6. y = [x EXCEPT !.status = IF p.all THEN "SENT" ELSE "FAILED", !.dated = x.dated \/ p.all]
    BY <1>2, <1>5 DEF DeliveryInv
  <1>7. rest \subseteq p.batch /\ \A i \in rest : i # item /\ i.note # n
    BY <1>2 DEF ListFits, OncePerNote
  <1> HIDE DEF y, x, p
  <1>8. /\ y \in Note /\ y.dated = (x.dated \/ p.all) /\ y.to = x.to /\ y.channel = x.channel
        /\ y.delivery = x.delivery /\ y.retries = x.retries /\ y.limit = x.limit
    BY <1>3, <1>6 DEF Note, Status
  <1>9. y.status = IF p.all THEN "SENT" ELSE "FAILED"
    BY <1>3, <1>6 DEF Note
  <1>10. UndeliveredOf(y) = UndeliveredOf(x)
    BY <1>8 DEF UndeliveredOf
  <1>11. ASSUME p.all PROVE NoteIsTrue(y)
    <2>1. y.status = "SENT" /\ y.dated = TRUE
      BY <1>8, <1>9, <1>11
    <2>2. y.channel # "PUSH" => UndeliveredOf(y) = {}
      BY <1>1, <1>2, <1>8, <1>10, <1>11 DEF CronFits, x
    <2> QED
      BY <1>2, <1>4, <1>8, <2>1, <2>2 DEF NoteIsTrue
  <1>12. ASSUME ~p.all PROVE NoteIsTrue(y)
    <2>1. y.status = "FAILED" /\ y.dated = FALSE
      BY <1>3, <1>4, <1>8, <1>9, <1>12
    <2>2. UndeliveredOf(y) # {}
      BY <1>1, <1>2, <1>10, <1>12 DEF AttemptFits
    <2> QED
      BY <1>2, <1>4, <1>8, <2>1, <2>2 DEF NoteIsTrue
  <1>13. /\ NoteIsTrue(y)
         /\ notes' \in Seq(Note) /\ DOMAIN notes' = DOMAIN notes
         /\ \A k \in DOMAIN notes : k # n => notes'[k] = notes[k]
    <2>1. notes' = [notes EXCEPT ![n] = y]
      BY <1>2, <1>5, <1>6 DEF DeliveryInv, x
    <2> HIDE DEF n
    <2> QED
      BY <1>2, <1>8, <1>11, <1>12, <2>1 DEF DeliveryInv
  <1>14. \A k \in DOMAIN notes' : NoteIsTrue(notes'[k])
    BY <1>13 DEF DeliveryInv, y
  <1> DEFINE q == IF rest = {} THEN Idle ELSE Working("mark", rest)
  <1>15. rest \in SUBSET [note : Nat, left : SUBSET Recipients]
    BY <1>2, <1>7 DEF Busy
  <1> HIDE DEF rest
  <1>16. /\ q \in Busy \cup {Idle}
         /\ q # Idle => rest # {} /\ q \in Busy /\ q.stage = "mark" /\ q.batch = rest
    BY <1>15, WorkingIsBusy
  <1>17. workers' = [workers EXCEPT ![c] = q]
    BY <1>1
  <1> HIDE DEF q
  <1>18. /\ workers' \in [Workers -> Busy \cup {Idle}] /\ workers'[c] = q
         /\ \A v \in Workers \ {c} : workers'[v] = workers[v]
    BY <1>1, <1>16, <1>17 DEF DeliveryInv
  <1>19. ASSUME q # Idle PROVE Fits(c, q, notes')
    <2>1. OncePerNote(rest)
      BY <1>2, <1>7, <1>16, <1>19 DEF ListFits, OncePerNote
    <2>2. ASSUME NEW i \in rest PROVE i.note \in DOMAIN notes /\ notes'[i.note] = notes[i.note]
      BY <1>2, <1>7, <1>13 DEF ListFits
    <2>3. \A i \in rest : Waits(i, notes'[i.note])
      BY <1>2, <1>7, <2>2 DEF CronFits
    <2>4. ListFits(q, notes')
      BY <1>13, <1>16, <1>19, <2>1, <2>2, <2>3 DEF ListFits, Waits
    <2>5. AttemptFits(c, q, First(rest), notes'[First(rest).note])
      BY <1>16, <1>19 DEF AttemptFits
    <2>6. CronFits(q, First(rest), notes')
      BY <1>16, <1>19, <2>3 DEF CronFits
    <2> QED
      BY <1>1, <1>16, <1>19, <2>4, <2>5, <2>6 DEF Fits
  <1>20. Fits(c, q, notes')
    BY <1>19 DEF Fits
  <1> QED
    BY <1>1, <1>2, <1>13, <1>14, <1>18, <1>20, StepOfOne DEF DeliveryInv, p

(* A worker that dies leaves the notification as true as it was.           *)
LEMMA FailStep ==
  ASSUME DeliveryInv, OneCron, NEW w \in Workers, Fail(w)
  PROVE  DeliveryInv'
  <1>1. /\ workers' \in [Workers -> Busy \cup {Idle}] /\ workers'[w] = Idle
        /\ \A v \in Workers \ {w} : workers'[v] = workers[v]
        /\ notes' = notes /\ failures' \in Nat
    BY DEF Fail, DeliveryInv
  <1>2. Fits(w, workers'[w], notes')
    BY <1>1 DEF Fits
  <1> QED
    BY <1>1, <1>2, StepOfOne DEF DeliveryInv

(* So every step of a worker does.                                         *)
LEMMA DeliveryStep ==
  ASSUME DeliveryInv, OneCron, EverySendHasRecipients, [Next]_vars
  PROVE  DeliveryInv'
  <1>1. CASE UNCHANGED vars
    BY <1>1 DEF vars, DeliveryInv, SendersApart
  <1>2. ASSUME NEW s \in Senders, SendNotification(s) \/ Send(s) \/ Fail(s) PROVE DeliveryInv'
    <2>1. s \in Workers
      BY DEF Workers
    <2> QED
      BY <1>2, <2>1, SendNotificationStep, DispatchStep, RecordDeliveryStep, SettleSendStep, FailStep
         DEF Send
  <1>3. ASSUME NEW c \in Crons, Retry(c) \/ Fail(c) PROVE DeliveryInv'
    <2>1. c \in Workers
      BY DEF Workers
    <2> QED
      BY <1>3, <2>1, ProcessRetriesStep, MarkRetryingStep, DispatchStep, RecordDeliveryStep,
         SettleRetryStep, FailStep
         DEF Retry
  <1> QED
    BY <1>1, <1>2, <1>3 DEF Next

(* ... and so it always holds.                                             *)
LEMMA DeliveryIsKept ==
  ASSUME OneCron, EverySendHasRecipients
  PROVE  Spec => []DeliveryInv
  BY InitDelivery, DeliveryStep, PTL DEF Spec

(***************************************************************************)
(* The theorems.                                                           *)
(***************************************************************************)

(* For any number of requests that send at once, over any channels, with   *)
(* workers that die where they like: the status tells the truth about the  *)
(* recipients, and nothing is retried more often than it may be. It takes  *)
(* that no two runs of the cron overlap and that nobody sends to nobody.   *)
THEOREM RecordsStayTrue ==
  ASSUME OneCron, EverySendHasRecipients
  PROVE  Spec => []RecordsAreTrue
  BY DeliveryIsKept, InvIsTrue, PTL

(* A worker that another step moves is not busy with an attempt.           *)
LEMMA NoOtherBegins ==
  ASSUME DeliveryInv, NEW v \in Workers, NEW q, q.stage # "record",
         workers' = [workers EXCEPT ![v] = q], NEW w \in Workers, In(w, "send")
  PROVE  workers'[w].stage # "record"
  <1>1. CASE w = v
    BY <1>1 DEF DeliveryInv
  <1>2. CASE w # v
    BY <1>2 DEF DeliveryInv, In
  <1> QED
    BY <1>1, <1>2

(* Only Dispatch begins an attempt.                                        *)
LEMMA OnlyDispatchBegins ==
  ASSUME DeliveryInv, [Next]_vars, NEW w \in Workers, In(w, "send"), workers'[w].stage = "record"
  PROVE  Dispatch(w)
  <1>1. Idle.stage # "record"
    BY DEF Idle
  <1>2. \A batch : Working("send", batch).stage # "record" /\ Working("mark", batch).stage # "record"
    BY DEF Working
  <1>3. ~UNCHANGED vars
    BY DEF vars, In
  <1>4. ASSUME NEW v \in Workers, Dispatch(v) PROVE v = w
    BY <1>4 DEF Dispatch, DeliveryInv, In
  <1>5. ~ \E v \in Workers : Fail(v)
    BY <1>1, NoOtherBegins DEF Fail
  <1>6. ~ \E v \in Workers : RecordDelivery(v)
    <2> SUFFICES ASSUME NEW v \in Workers, RecordDelivery(v) PROVE FALSE
      OBVIOUS
    <2>1. workers[v] \in Busy
      BY AtWork DEF RecordDelivery, In, Idle
    <2> DEFINE a == workers[v].answer
               b == (workers[v].batch \ {Current(v)})
                      \cup {[Current(v) EXCEPT !.left = @ \ workers[v].trying]}
               l == workers[v].all /\ Success(a)
               n == workers[v].any \/ Success(a)
    <2>2. workers' = [workers EXCEPT ![v].stage = "send", ![v].batch = b, ![v].all = l, ![v].any = n]
      BY DEF RecordDelivery
    <2> HIDE DEF b, l, n
    <2>3. workers'[v].stage = "send" /\ \A u \in Workers \ {v} : workers'[u] = workers[u]
      <3>1. workers \in [Workers -> Busy \cup {Idle}]
        BY DEF DeliveryInv
      <3>2. workers'[v] = [workers[v] EXCEPT !.stage = "send", !.batch = b, !.all = l, !.any = n]
        BY <2>2, <3>1
      <3> QED
        BY <2>1, <2>2, <3>1, <3>2 DEF Busy
    <2> QED
      BY <2>3 DEF In
  <1>7. ~ \E s \in Senders : SendNotification(s) \/ SettleSend(s)
    <2> SUFFICES ASSUME NEW s \in Senders, SendNotification(s) \/ SettleSend(s) PROVE FALSE
      OBVIOUS
    <2>1. s \in Workers
      BY DEF Workers
    <2>2. \E q : q.stage # "record" /\ workers' = [workers EXCEPT ![s] = q]
      BY <1>1, <1>2 DEF SendNotification, SettleSend
    <2> QED
      BY <2>1, <2>2, NoOtherBegins
  <1>8. ~ \E c \in Crons : ProcessRetries(c) \/ MarkRetrying(c) \/ SettleRetry(c)
    <2> SUFFICES ASSUME NEW c \in Crons, ProcessRetries(c) \/ MarkRetrying(c) \/ SettleRetry(c)
                 PROVE  FALSE
      OBVIOUS
    <2>1. c \in Workers
      BY DEF Workers
    <2>2. \E q : q.stage # "record" /\ workers' = [workers EXCEPT ![c] = q]
      <3>1. CASE ProcessRetries(c)
        BY <1>2, <3>1 DEF ProcessRetries
      <3>2. CASE MarkRetrying(c)
        BY <1>2, <2>1, <3>2 DEF MarkRetrying, DeliveryInv
      <3>3. CASE SettleRetry(c)
        <4> DEFINE rest == workers[c].batch \ {Current(c)}
        <4>1. workers' = [workers EXCEPT ![c] = IF rest = {} THEN Idle ELSE Working("mark", rest)]
          BY <3>3 DEF SettleRetry
        <4> QED
          BY <1>1, <1>2, <4>1
      <3> QED
        BY <3>1, <3>2, <3>3
    <2> QED
      BY <2>1, <2>2, NoOtherBegins
  <1>9. Senders \subseteq Workers /\ Crons \subseteq Workers
    BY DEF Workers
  <1> QED
    BY <1>3, <1>4, <1>5, <1>6, <1>7, <1>8, <1>9 DEF Next, Send, Retry

(* Who is tried did not have the message.                                  *)
LEMMA AttemptsAreOwed ==
  ASSUME DeliveryInv, OneCron, [Next]_vars, NEW w \in Workers,
         In(w, "send"), workers'[w].stage = "record"
  PROVE  \A r \in workers'[w].trying : notes[Current(w).note].delivery[r] # "DELIVERED"
  BY OnlyDispatchBegins, DispatchStep DEF UndeliveredOf

(* Under the same conditions nobody is tried again once it is on record    *)
(* that they have the message.                                             *)
THEOREM NobodyIsTriedTwice ==
  ASSUME OneCron, EverySendHasRecipients
  PROVE  Spec => NotTriedOnceDelivered
  <1>1. DeliveryInv /\ [Next]_vars =>
          [\A w \in Workers :
             In(w, "send") /\ workers'[w].stage = "record"
               => \A r \in workers'[w].trying :
                    notes[Current(w).note].delivery[r] # "DELIVERED"]_vars
    BY AttemptsAreOwed
  <1> QED
    BY <1>1, DeliveryIsKept, PTL DEF Spec, NotTriedOnceDelivered

(***************************************************************************)
(* What the classifier computes of a text.                                 *)
(***************************************************************************)

(* The first of the largest is a place of the list, or 0.                  *)
LEMMA FirstLargestFits ==
  ASSUME NEW n \in Nat, NEW counts \in [1..n -> Nat]
  PROVE  FirstLargest(counts) \in 0..n
  <1> DEFINE best == {i \in DOMAIN counts : counts[i] > 0 /\ \A j \in DOMAIN counts : counts[j] <= counts[i]}
             first == CHOOSE i \in best : \A j \in best : i <= j
  <1>0. FirstLargest(counts) = IF best = {} THEN 0 ELSE first
    BY DEF FirstLargest
  <1>1. CASE best = {}
    BY <1>0, <1>1
  <1>2. CASE best # {}
    <2>1. best \in SUBSET (1..n) /\ best \in SUBSET Nat
      OBVIOUS
    <2> HIDE DEF best
    <2>2. PICK m \in best : \A k \in best : m <= k
      BY <1>2, <2>1, LeastNote
    <2>3. first \in best
      BY <2>2
    <2> HIDE DEF first
    <2>4. first \in 0..n
      BY <2>1, <2>3
    <2> QED
      BY <1>0, <1>2, <2>4
  <1> QED
    BY <1>1, <1>2

(* Finitely many lists of finitely many have finitely many places.         *)
LEMMA PlacesAreFinite ==
  ASSUME NEW n \in Nat, NEW counts \in [1..n -> Nat]
  PROVE  IsFiniteSet(UNION {{i} \X (1..counts[i]) : i \in 1..n})
  <1> DEFINE parts == {{i} \X (1..counts[i]) : i \in 1..n}
             part  == [i \in 1..n |-> {i} \X (1..counts[i])]
  <1>1. IsFiniteSet(parts)
    <2>1. IsFiniteSet(1..n)
      BY FS_Interval
    <2>2. part \in Surjection(1..n, parts)
      BY DEF Surjection
    <2> HIDE DEF part, parts
    <2> QED
      BY <2>1, <2>2, FS_Surjection
  <1>2. \A x \in parts : IsFiniteSet(x)
    <2> SUFFICES ASSUME NEW i \in 1..n PROVE IsFiniteSet({i} \X (1..counts[i]))
      OBVIOUS
    <2>1. IsFiniteSet({i})
      BY FS_Singleton
    <2>2. 1 \in Int /\ counts[i] \in Int
      OBVIOUS
    <2>3. IsFiniteSet(1..counts[i])
      BY <2>2, FS_Interval
    <2> QED
      BY <2>1, <2>3, FS_Product
  <1> HIDE DEF parts
  <1>3. IsFiniteSet(UNION parts)
    BY <1>1, <1>2, FS_UNION
  <1> QED
    BY <1>3 DEF parts

(* Keywords are finitely many.                                             *)
LEMMA TotalIsNat ==
  ASSUME NEW n \in Nat, NEW counts \in [1..n -> Nat]
  PROVE  Total(counts) \in Nat
  <1> DEFINE found == UNION {{i} \X (1..counts[i]) : i \in 1..n}
  <1>1. Total(counts) = Cardinality(found)
    BY DEF Total
  <1>2. IsFiniteSet(found)
    BY PlacesAreFinite
  <1> HIDE DEF found
  <1> QED
    BY <1>1, <1>2, FS_CardinalityType

(* For every text of the agency's tickets: a category that the agency has  *)
(* or none, a known priority, and a confidence of at most 95.              *)
LEMMA PredictionFits ==
  ASSUME NEW text \in Texts
  PROVE  /\ CategoryFor[FirstLargest(text.categories)] \in AnyCategory
         /\ PredictedPriority(text) \in Priorities
         /\ Confidence(text) \in Nat /\ Confidence(text) <= 95
  <1>1. /\ text.signals \in [1..4 -> Nat] /\ text.categories \in Seq(Nat)
        /\ \A i \in 0..Len(text.categories) : CategoryFor[i] \in AnyCategory
    BY AutomationAssumption
  <1>2. Len(text.categories) \in Nat /\ text.categories \in [1..Len(text.categories) -> Nat]
    BY <1>1
  <1>3. CategoryFor[FirstLargest(text.categories)] \in AnyCategory
    BY <1>1, <1>2, FirstLargestFits
  <1>4. PredictedPriority(text) \in Priorities
    <2> DEFINE c == [k \in 1..4 |-> Weights[k] * text.signals[k]]
    <2>1. c \in [1..4 -> Nat]
      <3> SUFFICES ASSUME NEW k \in 1..4 PROVE Weights[k] * text.signals[k] \in Nat
        OBVIOUS
      <3>1. text.signals[k] \in Nat /\ k \in {1, 2, 3, 4}
        BY <1>1
      <3>2. Weights[k] \in {1, 2, 3, 4}
        BY <3>1 DEF Weights
      <3> QED
        BY <3>1, <3>2
    <2>2. FirstLargest(c) \in 0..4
      <3> HIDE DEF c
      <3> QED
        BY <2>1, FirstLargestFits
    <2>3. \A i \in 1..4 : Signals[i] \in Priorities
      BY DEF Signals, Priorities
    <2>4. PredictedPriority(text) = IF FirstLargest(c) = 0 THEN "MEDIUM" ELSE Signals[FirstLargest(c)]
      BY DEF PredictedPriority
    <2> HIDE DEF c
    <2>5. CASE FirstLargest(c) = 0
      BY <2>4, <2>5 DEF Priorities
    <2>6. CASE FirstLargest(c) # 0
      <3>1. FirstLargest(c) \in 1..4
        BY <2>2, <2>6
      <3> QED
        BY <2>3, <2>4, <2>6, <3>1
    <2> QED
      BY <2>5, <2>6
  <1>5. Confidence(text) \in Nat /\ Confidence(text) <= 95
    <2>1. Total(text.signals) \in Nat /\ Total(text.categories) \in Nat
      BY <1>1, <1>2, TotalIsNat
    <2> DEFINE matched == Total(text.signals) + Total(text.categories)
               strong == \E i \in DOMAIN text.categories : text.categories[i] >= 2
    <2>2. matched \in Nat
      BY <2>1
    <2>3. Confidence(text) =
            LET base == IF matched = 0 THEN 20 ELSE IF matched = 1 THEN 40 ELSE IF matched <= 3 THEN 60
                        ELSE IF matched <= 5 THEN 75 ELSE 75 + 2 * matched
                bonus == IF strong THEN 10 ELSE 0
                least == IF base > 95 THEN 95 ELSE base
            IN  IF least + bonus > 95 THEN 95 ELSE least + bonus
      BY DEF Confidence
    <2> HIDE DEF matched, strong
    <2> QED
      BY <2>2, <2>3
  <1> QED
    BY <1>3, <1>4, <1>5

Kinds == {"CATEGORY_ASSIGNMENT", "PRIORITY_ASSIGNMENT", "ESCALATION", "RESPONSE_TEMPLATE"}

(* What is recommended for a text.                                         *)
LEMMA RecommendedFits ==
  ASSUME NEW text
  PROVE  /\ Len(Recommended(text)) \in Nat \ {0}
         /\ \A k \in 1..Len(Recommended(text)) :
              /\ Recommended(text)[k] \in Kinds
              /\ Recommended(text)[k] = "ESCALATION" => PredictedPriority(text) \in {"CRITICAL", "HIGH"}
              /\ Recommended(text)[k] = "RESPONSE_TEMPLATE" => Confidence(text) >= 50
  <1> DEFINE urgent == Negative(text) /\ PredictedPriority(text) \in {"CRITICAL", "HIGH"}
             sure == Confidence(text) >= 50
             A == <<"CATEGORY_ASSIGNMENT", "PRIORITY_ASSIGNMENT">>
             B == IF urgent THEN <<"ESCALATION">> ELSE <<>>
             C == IF sure THEN <<"RESPONSE_TEMPLATE">> ELSE <<>>
  <1>1. Recommended(text) = (A \o B) \o C
    BY DEF Recommended
  <1>2. A \in Seq(Kinds) /\ B \in Seq(Kinds) /\ C \in Seq(Kinds)
    <2>1. A \in Seq(Kinds)
      BY DEF Kinds
    <2>2. <<"ESCALATION">> \in Seq(Kinds) /\ <<"RESPONSE_TEMPLATE">> \in Seq(Kinds) /\ <<>> \in Seq(Kinds)
      BY DEF Kinds
    <2> QED
      BY <2>1, <2>2
  <1>3. /\ Len(A) = 2 /\ A[1] = "CATEGORY_ASSIGNMENT" /\ A[2] = "PRIORITY_ASSIGNMENT"
        /\ \A k \in 1..Len(B) : urgent /\ B[k] = "ESCALATION"
        /\ \A k \in 1..Len(C) : sure /\ C[k] = "RESPONSE_TEMPLATE"
    OBVIOUS
  <1> HIDE DEF A, B, C
  <1>4. /\ A \o B \in Seq(Kinds) /\ Len(A \o B) = 2 + Len(B)
        /\ \A k \in 1..Len(A \o B) : (A \o B)[k] = IF k <= 2 THEN A[k] ELSE B[k - 2]
    <2>1. \A k \in 1..(Len(A) + Len(B)) : (A \o B)[k] = IF k <= Len(A) THEN A[k] ELSE B[k - Len(A)]
      BY <1>2
    <2>2. A \o B \in Seq(Kinds) /\ Len(A \o B) = Len(A) + Len(B)
      BY <1>2
    <2> QED
      BY <1>3, <2>1, <2>2
  <1> DEFINE D == A \o B
  <1>5. /\ Len(D \o C) = 2 + Len(B) + Len(C)
        /\ \A k \in 1..Len(D \o C) : (D \o C)[k] = IF k <= Len(D) THEN D[k] ELSE C[k - Len(D)]
    <2> HIDE DEF D
    <2>1. D \in Seq(Kinds) /\ Len(D) = 2 + Len(B)
      BY <1>4 DEF D
    <2> QED
      BY <1>2, <2>1
  <1>6. Len(B) \in Nat /\ Len(C) \in Nat
    BY <1>2
  <1>7. ASSUME NEW k \in 1..Len(D \o C)
        PROVE  \/ (D \o C)[k] \in {"CATEGORY_ASSIGNMENT", "PRIORITY_ASSIGNMENT"}
               \/ urgent /\ (D \o C)[k] = "ESCALATION"
               \/ sure /\ (D \o C)[k] = "RESPONSE_TEMPLATE"
    <2>1. CASE k <= 2
      <3>1. k \in {1, 2} /\ (D \o C)[k] = A[k]
        BY <1>4, <1>5, <1>6, <2>1
      <3> QED
        BY <1>3, <3>1
    <2>2. CASE k > 2 /\ k <= Len(D)
      <3>1. (D \o C)[k] = B[k - 2] /\ k - 2 \in 1..Len(B)
        BY <1>4, <1>5, <1>6, <2>2
      <3> QED
        BY <1>3, <3>1
    <2>3. CASE k > Len(D)
      <3>1. (D \o C)[k] = C[k - Len(D)] /\ k - Len(D) \in 1..Len(C)
        BY <1>4, <1>5, <1>6, <2>3
      <3> QED
        BY <1>3, <3>1
    <2>4. k \in Nat /\ Len(D) \in Nat
      BY <1>4, <1>5, <1>6
    <2> QED
      BY <2>1, <2>2, <2>3, <2>4
  <1>8. Recommended(text) = D \o C
    BY <1>1
  <1> HIDE DEF D
  <1> QED
    BY <1>5, <1>6, <1>7, <1>8 DEF Kinds

(***************************************************************************)
(* The classifications' log. (L and M stand for it, so that things can be  *)
(* said of a state and of the next.)                                       *)
(***************************************************************************)
AnyRequest == {Free} \cup Classifying \cup Overriding \cup Evaluating

(* A handler's stage tells what it handles.                                *)
LEMMA StageTells ==
  ASSUME NEW q \in AnyRequest
  PROVE  /\ q.stage = "free" => q = Free
         /\ q.stage \in {"log", "apply", "recommend"} => q \in Classifying
         /\ q.stage \in {"mark", "correct", "record"} => q \in Overriding
         /\ q.stage \in {"rule", "action", "second", "third", "executed"} => q \in Evaluating
  BY DEF AnyRequest, Free, Classifying, Overriding, Evaluating

(* A request is of one kind.                                               *)
LEMMA KindsDiffer ==
  /\ \A q \in Classifying : q \notin Overriding /\ q \notin Evaluating /\ q # Free
  /\ \A q \in Overriding : q \notin Classifying /\ q \notin Evaluating /\ q # Free
  /\ \A q \in Evaluating : q \notin Classifying /\ q \notin Overriding /\ q # Free
  BY DEF Free, Classifying, Overriding, Evaluating

(* A classification that has been logged works on the entry it made.       *)
EntryFits(q, L) ==
  /\ q.entry \in DOMAIN L
  /\ L[q.entry].of = 0 /\ L[q.entry].ticket = q.ticket
  /\ L[q.entry].priority = PredictedPriority(q.text)
  /\ L[q.entry].confidence = Confidence(q.text)
  /\ L[q.entry].auto = AutoApply(q)

(* It has not stored all recommendations; an override that is past its     *)
(* first statement has marked its entry.                                   *)
RequestFits(q, L) ==
  /\ q \in Classifying =>
       /\ q.stored < Len(Recommended(q.text))
       /\ q.stage # "log" => EntryFits(q, L)
  /\ q \in Overriding =>
       /\ q.entry \in DOMAIN L
       /\ q.stage # "mark" => L[q.entry].manual

EntriesFit(L) ==
  /\ L \in Seq(Entry)
  /\ \A i \in DOMAIN L : L[i].of < i /\ L[i].confidence <= (IF L[i].of = 0 THEN 95 ELSE 100)

(* The entry that shows what the classifier changed of a ticket.           *)
Shows(x, t) == x.ticket = t /\ x.auto /\ x.of = 0 /\ x.confidence >= 75

RecommendationFits(x, L) ==
  /\ x \in (DOMAIN L) \X Kinds
  /\ x[2] = "ESCALATION" => L[x[1]].priority \in {"CRITICAL", "HIGH"}
  /\ x[2] = "RESPONSE_TEMPLATE" => L[x[1]].confidence >= 50

LogInv ==
  /\ EntriesFit(log)
  /\ \A i \in DOMAIN log : log[i].of # 0 => log[log[i].of].manual
  /\ tickets \in [Tickets -> Ticket]
  /\ \A t \in Tickets : tickets[t].auto => \E i \in DOMAIN log : Shows(log[i], t)
  /\ \A x \in recommendations : RecommendationFits(x, log)
  /\ feedback \in Seq(BOOLEAN)
  /\ requests \in [Requests -> AnyRequest]
  /\ \A r \in Requests : RequestFits(requests[r], log)
  /\ calls \in Nat /\ scene \in Scenes

(* Entries are added, and marked as overridden; nothing else of them       *)
(* changes.                                                                *)
Grows(L, M) ==
  /\ DOMAIN L \subseteq DOMAIN M
  /\ \A i \in DOMAIN L :
       /\ M[i].ticket = L[i].ticket /\ M[i].priority = L[i].priority
       /\ M[i].confidence = L[i].confidence /\ M[i].auto = L[i].auto /\ M[i].of = L[i].of
       /\ L[i].manual => M[i].manual

LEMMA GrowsKeepsRequest ==
  ASSUME NEW q, NEW L, NEW M, RequestFits(q, L), Grows(L, M)
  PROVE  RequestFits(q, M)
  BY DEF RequestFits, EntryFits, Grows

LEMMA GrowsKeepsRecommendation ==
  ASSUME NEW x, NEW L, NEW M, RecommendationFits(x, L), Grows(L, M)
  PROVE  RecommendationFits(x, M)
  BY DEF RecommendationFits, Grows

(* A step of one request, if it only adds to the log and what it leaves    *)
(* fits.                                                                   *)
LEMMA LogStepOfOne ==
  ASSUME LogInv, NEW r \in Requests,
         EntriesFit(log'), Grows(log, log'),
         \A i \in DOMAIN log' : log'[i].of # 0 => log'[log'[i].of].manual,
         tickets' \in [Tickets -> Ticket],
         \A t \in Tickets : tickets'[t].auto =>
           tickets[t].auto \/ \E i \in DOMAIN log' : Shows(log'[i], t),
         \A x \in recommendations' : x \in recommendations \/ RecommendationFits(x, log'),
         feedback' \in Seq(BOOLEAN),
         requests' \in [Requests -> AnyRequest],
         \A s \in Requests \ {r} : requests'[s] = requests[s],
         RequestFits(requests'[r], log'),
         calls' \in Nat, scene' = scene
  PROVE  LogInv'
  <1>1. ASSUME NEW t \in Tickets, tickets'[t].auto PROVE \E i \in DOMAIN log' : Shows(log'[i], t)
    <2>1. CASE tickets[t].auto
      <3>1. PICK i \in DOMAIN log : Shows(log[i], t)
        BY <2>1 DEF LogInv
      <3>2. i \in DOMAIN log' /\ Shows(log'[i], t)
        BY <3>1 DEF Grows, Shows
      <3> QED
        BY <3>2
    <2> QED
      BY <1>1, <2>1
  <1>2. \A x \in recommendations' : RecommendationFits(x, log')
    BY GrowsKeepsRecommendation DEF LogInv
  <1>3. ASSUME NEW s \in Requests PROVE RequestFits(requests'[s], log')
    <2>1. RequestFits(requests[s], log')
      BY GrowsKeepsRequest DEF LogInv
    <2> QED
      BY <2>1
  <1> QED
    BY <1>1, <1>2, <1>3 DEF LogInv

(* One that leaves the log alone and what it says of tickets.              *)
LEMMA LogUntouched ==
  ASSUME LogInv, NEW r \in Requests,
         log' = log, recommendations' = recommendations,
         tickets' \in [Tickets -> Ticket],
         \A t \in Tickets : tickets'[t].auto => tickets[t].auto,
         feedback' \in Seq(BOOLEAN),
         requests' \in [Requests -> AnyRequest],
         \A s \in Requests \ {r} : requests'[s] = requests[s],
         RequestFits(requests'[r], log),
         calls' \in Nat, scene' = scene
  PROVE  LogInv'
  <1>1. Grows(log, log')
    BY DEF Grows
  <1> QED
    BY <1>1, LogStepOfOne DEF LogInv

(***************************************************************************)
(* Each statement of the classifier's handlers.                            *)
(***************************************************************************)

LEMMA ClassifyTicketStep ==
  ASSUME LogInv, NEW r \in Requests, ClassifyTicket(r), calls' = calls + 1, scene' = scene,
         UNCHANGED <<tickets, log, recommendations>>
  PROVE  LogInv'
  <1>1. PICK t \in Tickets, text \in Texts, asked \in BOOLEAN :
          requests' = [requests EXCEPT ![r] =
            [stage |-> "log", ticket |-> t, old |-> tickets[t], text |-> text, asked |-> asked,
             entry |-> 0, stored |-> 0]]
    BY DEF ClassifyTicket
  <1> DEFINE q == [stage |-> "log", ticket |-> t, old |-> tickets[t], text |-> text, asked |-> asked,
                   entry |-> 0, stored |-> 0]
  <1>2. q \in Classifying /\ q.stage = "log" /\ q.stored = 0 /\ q.text = text
    BY DEF LogInv, Classifying
  <1>3. RequestFits(q, log)
    <2> HIDE DEF q
    <2>1. 0 < Len(Recommended(text))
      BY RecommendedFits
    <2> QED
      BY <1>2, <2>1, KindsDiffer DEF RequestFits
  <1> HIDE DEF q
  <1>4. requests' = [requests EXCEPT ![r] = q]
    BY <1>1 DEF q
  <1>5. /\ requests' \in [Requests -> AnyRequest] /\ requests'[r] = q
        /\ \A s \in Requests \ {r} : requests'[s] = requests[s]
    BY <1>2, <1>4 DEF LogInv, AnyRequest
  <1> QED
    BY <1>3, <1>5, LogUntouched DEF LogInv, ClassifyTicket

LEMMA LogClassificationStep ==
  ASSUME LogInv, NEW r \in Requests, LogClassification(r), UNCHANGED <<feedback, calls, scene>>
  PROVE  LogInv'
  <1> DEFINE q == requests[r]
             x == [ticket |-> q.ticket, category |-> Prediction(q.text).category,
                   priority |-> Prediction(q.text).priority, confidence |-> Prediction(q.text).confidence,
                   auto |-> AutoApply(q), manual |-> FALSE, of |-> 0]
             n == Len(log) + 1
             p == requests'[r]
  <1>1. /\ q \in AnyRequest /\ q.stage = "log"
        /\ log' = Append(log, x)
        /\ requests' = [requests EXCEPT ![r].stage = "apply", ![r].entry = n]
        /\ tickets' = tickets /\ recommendations' = recommendations
    BY DEF LogInv, LogClassification, At
  <1>2. q \in Classifying /\ RequestFits(q, log)
    BY <1>1, StageTells DEF LogInv
  <1>3. /\ q.ticket \in Tickets /\ q.text \in Texts /\ q.asked \in BOOLEAN /\ q.stored \in Nat
        /\ q.entry \in Nat
    BY <1>2 DEF Classifying
  <1>4. /\ x.ticket = q.ticket /\ x.priority = PredictedPriority(q.text)
        /\ x.confidence = Confidence(q.text) /\ x.auto = AutoApply(q) /\ x.of = 0 /\ x.manual = FALSE
    BY DEF Prediction
  <1>5. x \in Entry /\ x.confidence <= 95
    <2>1. AutoApply(q) \in BOOLEAN
      BY <1>3 DEF AutoApply
    <2> QED
      BY <1>3, <2>1, PredictionFits DEF Entry, Prediction
  <1> HIDE DEF x
  <1>6. /\ log \in Seq(Entry) /\ n \in Nat /\ n = Len(log')
        /\ log' \in Seq(Entry) /\ DOMAIN log' = DOMAIN log \cup {n} /\ n \notin DOMAIN log
        /\ log'[n] = x /\ \A i \in DOMAIN log : log'[i] = log[i]
    BY <1>1, <1>5 DEF LogInv, EntriesFit
  <1>7. EntriesFit(log')
    BY <1>4, <1>5, <1>6 DEF LogInv, EntriesFit
  <1>8. Grows(log, log')
    BY <1>6 DEF Grows
  <1>9. ASSUME NEW i \in DOMAIN log', log'[i].of # 0 PROVE log'[log'[i].of].manual
    <2>1. i \in DOMAIN log /\ log'[i] = log[i]
      BY <1>4, <1>6, <1>9
    <2>2. log[i].of \in DOMAIN log
      <3>1. log[i].of \in Nat /\ log[i].of < i /\ log[i].of # 0 /\ i \in 1..Len(log)
        <4>1. log[i] \in Entry /\ log[i].of < i /\ i \in 1..Len(log)
          BY <1>6, <2>1 DEF LogInv, EntriesFit
        <4> QED
          BY <1>9, <2>1, <4>1 DEF Entry
      <3> QED
        BY <1>6, <3>1
    <2> QED
      BY <1>6, <1>9, <2>1, <2>2 DEF LogInv
  <1>10. p = [q EXCEPT !.stage = "apply", !.entry = n]
    BY <1>1 DEF LogInv
  <1> HIDE DEF n, p, q
  <1>11. /\ p \in Classifying /\ p.stage = "apply" /\ p.entry = n /\ p.stored = q.stored
         /\ p.ticket = q.ticket /\ p.text = q.text /\ p.asked = q.asked
    BY <1>2, <1>6, <1>10 DEF Classifying
  <1>12. RequestFits(p, log')
    BY <1>2, <1>4, <1>6, <1>11, KindsDiffer DEF RequestFits, EntryFits, AutoApply
  <1>13. /\ requests' \in [Requests -> AnyRequest]
         /\ \A s \in Requests \ {r} : requests'[s] = requests[s]
    <2>1. requests \in [Requests -> AnyRequest] /\ p \in AnyRequest
      BY <1>11 DEF LogInv, AnyRequest
    <2>2. requests' = [requests EXCEPT ![r] = p]
      BY <1>1, <2>1 DEF p
    <2> QED
      BY <2>1, <2>2
  <1> QED
    BY <1>1, <1>7, <1>8, <1>9, <1>12, <1>13, LogStepOfOne DEF LogInv, p

LEMMA ApplyClassificationStep ==
  ASSUME LogInv, NEW r \in Requests, ApplyClassification(r), UNCHANGED <<feedback, calls, scene>>
  PROVE  LogInv'
  <1> DEFINE q == requests[r]
             p == requests'[r]
             c == Prediction(q.text).category
             x == [tickets[q.ticket] EXCEPT
                    !.category = IF c # NoCategory THEN c ELSE q.old.category,
                    !.priority = Prediction(q.text).priority, !.auto = TRUE]
  <1>1. /\ q \in AnyRequest /\ q.stage = "apply"
        /\ log' = log /\ recommendations' = recommendations
        /\ requests' = [requests EXCEPT ![r].stage = "recommend"]
        /\ tickets' = IF ~AutoApply(q) THEN tickets
                      ELSE [tickets EXCEPT
                             ![q.ticket].category = IF c # NoCategory THEN c ELSE q.old.category,
                             ![q.ticket].priority = Prediction(q.text).priority,
                             ![q.ticket].auto = TRUE]
    BY DEF LogInv, ApplyClassification, At, Goto
  <1>2. q \in Classifying /\ RequestFits(q, log)
    BY <1>1, StageTells DEF LogInv
  <1>3. /\ q.ticket \in Tickets /\ q.text \in Texts /\ q.old \in Ticket /\ q.stored \in Nat
        /\ q.entry \in Nat /\ tickets[q.ticket] \in Ticket /\ tickets \in [Tickets -> Ticket]
    BY <1>2 DEF Classifying, LogInv
  <1>4. EntryFits(q, log)
    BY <1>1, <1>2 DEF RequestFits
  <1>5. c \in AnyCategory /\ Prediction(q.text).priority \in Priorities
    BY <1>3, PredictionFits DEF Prediction
  <1>6. x \in Ticket
    <2>1. (IF c # NoCategory THEN c ELSE q.old.category) \in AnyCategory
      BY <1>3, <1>5 DEF Ticket
    <2> QED
      BY <1>3, <1>5, <2>1 DEF Ticket
  <1>7. tickets' = tickets \/ (AutoApply(q) /\ tickets' = [tickets EXCEPT ![q.ticket] = x])
    BY <1>1, <1>3
  <1> HIDE DEF x
  <1>8. tickets' \in [Tickets -> Ticket]
    BY <1>3, <1>6, <1>7
  <1>9. ASSUME NEW t \in Tickets, tickets'[t].auto
        PROVE  tickets[t].auto \/ \E i \in DOMAIN log' : Shows(log'[i], t)
    <2>1. CASE AutoApply(q) /\ t = q.ticket
      <3>1. q.entry \in DOMAIN log' /\ Shows(log'[q.entry], t)
        BY <1>1, <1>4, <2>1 DEF EntryFits, Shows, AutoApply
      <3> QED
        BY <3>1
    <2>2. CASE ~(AutoApply(q) /\ t = q.ticket)
      BY <1>3, <1>7, <1>9, <2>2
    <2> QED
      BY <2>1, <2>2
  <1>10. p = [q EXCEPT !.stage = "recommend"]
    BY <1>1 DEF LogInv
  <1> HIDE DEF p, q, c
  <1>11. /\ p \in Classifying /\ p.stage = "recommend" /\ p.entry = q.entry /\ p.stored = q.stored
         /\ p.ticket = q.ticket /\ p.text = q.text /\ p.asked = q.asked
    BY <1>2, <1>10 DEF Classifying
  <1>12. RequestFits(p, log')
    BY <1>1, <1>2, <1>4, <1>11, KindsDiffer DEF RequestFits, EntryFits, AutoApply
  <1>13. /\ requests' \in [Requests -> AnyRequest]
         /\ \A s \in Requests \ {r} : requests'[s] = requests[s]
    <2>1. requests \in [Requests -> AnyRequest] /\ p \in AnyRequest
      BY <1>11 DEF LogInv, AnyRequest
    <2>2. requests' = [requests EXCEPT ![r] = p]
      BY <1>1, <2>1 DEF p
    <2> QED
      BY <2>1, <2>2
  <1>14. EntriesFit(log') /\ Grows(log, log')
    BY <1>1 DEF LogInv, Grows
  <1>15. \A i \in DOMAIN log' : log'[i].of # 0 => log'[log'[i].of].manual
    BY <1>1 DEF LogInv
  <1>16. feedback' \in Seq(BOOLEAN) /\ calls' \in Nat
    BY DEF LogInv
  <1> QED
    BY <1>1, <1>8, <1>9, <1>12, <1>13, <1>14, <1>15, <1>16, LogStepOfOne DEF p

(* A request that is answered, or dies, knows nothing.                     *)
LEMMA FreeFits ==
  /\ Free \in AnyRequest
  /\ \A L : RequestFits(Free, L)
  BY KindsDiffer DEF AnyRequest, RequestFits

LEMMA StoreRecommendationStep ==
  ASSUME LogInv, NEW r \in Requests, StoreRecommendation(r), UNCHANGED <<feedback, calls, scene>>
  PROVE  LogInv'
  <1> DEFINE q == requests[r]
             x == <<q.entry, Recommended(q.text)[q.stored + 1]>>
             n == Len(Recommended(q.text))
             p == IF q.stored + 1 = n THEN Free ELSE [q EXCEPT !.stored = @ + 1]
  <1>1. /\ q \in AnyRequest /\ q.stage = "recommend"
        /\ log' = log /\ tickets' = tickets /\ recommendations' = recommendations \cup {x}
        /\ requests' = [requests EXCEPT ![r] = p]
    BY DEF LogInv, StoreRecommendation, At, Answer
  <1>2. q \in Classifying /\ RequestFits(q, log)
    BY <1>1, StageTells DEF LogInv
  <1>3. EntryFits(q, log) /\ q.stored < n /\ q.stored \in Nat /\ n \in Nat
    <2>1. n \in Nat
      BY RecommendedFits
    <2>2. q.stored \in Nat
      BY <1>2 DEF Classifying
    <2> QED
      BY <1>1, <1>2, <2>1, <2>2 DEF RequestFits
  <1>4. RecommendationFits(x, log')
    <2>1. q.stored + 1 \in 1..Len(Recommended(q.text))
      BY <1>3
    <2>2. /\ x[2] \in Kinds
          /\ x[2] = "ESCALATION" => PredictedPriority(q.text) \in {"CRITICAL", "HIGH"}
          /\ x[2] = "RESPONSE_TEMPLATE" => Confidence(q.text) >= 50
      BY <2>1, RecommendedFits
    <2> QED
      BY <1>1, <1>3, <2>2 DEF RecommendationFits, EntryFits
  <1>5. p \in AnyRequest /\ RequestFits(p, log)
    <2>1. CASE q.stored + 1 = n
      BY <2>1, FreeFits
    <2>2. CASE q.stored + 1 # n
      <3> DEFINE o == [q EXCEPT !.stored = q.stored + 1]
      <3>1. /\ o \in Classifying /\ o.stage = q.stage /\ o.entry = q.entry /\ o.stored = q.stored + 1
            /\ o.ticket = q.ticket /\ o.text = q.text /\ o.asked = q.asked
        <4>1. q.stored + 1 \in Nat
          BY <1>3
        <4> HIDE DEF q
        <4> QED
          BY <1>2, <4>1 DEF Classifying
      <3>2. p = o
        BY <2>2
      <3>3. q.stored + 1 < n
        BY <1>3, <2>2
      <3> HIDE DEF o, p
      <3>4. RequestFits(o, log)
        BY <1>3, <3>1, <3>3, KindsDiffer DEF RequestFits, EntryFits, AutoApply
      <3> QED
        BY <3>1, <3>2, <3>4 DEF AnyRequest
    <2> QED
      BY <2>1, <2>2
  <1> HIDE DEF p, q, x
  <1>6. /\ requests' \in [Requests -> AnyRequest] /\ requests'[r] = p
        /\ \A s \in Requests \ {r} : requests'[s] = requests[s]
    BY <1>1, <1>5 DEF LogInv
  <1>7. EntriesFit(log') /\ Grows(log, log')
    BY <1>1 DEF LogInv, Grows
  <1>8. \A y \in recommendations' : y \in recommendations \/ RecommendationFits(y, log')
    BY <1>1, <1>4
  <1> QED
    BY <1>1, <1>5, <1>6, <1>7, <1>8, LogStepOfOne DEF LogInv

LEMMA CreateOverrideStep ==
  ASSUME LogInv, NEW r \in Requests, CreateOverride(r), calls' = calls + 1, scene' = scene,
         UNCHANGED <<tickets, log, recommendations>>
  PROVE  LogInv'
  <1>1. PICK i \in DOMAIN log, t \in Tickets, c \in AnyCategory, p \in Corrections :
          requests' = [requests EXCEPT ![r] =
            [stage |-> "mark", entry |-> i, ticket |-> t, category |-> c, priority |-> p]]
    BY DEF CreateOverride
  <1> DEFINE q == [stage |-> "mark", entry |-> i, ticket |-> t, category |-> c, priority |-> p]
  <1>2. i \in Nat
    BY DEF LogInv, EntriesFit
  <1>3. q \in Overriding /\ q.stage = "mark" /\ q.entry = i
    BY <1>2 DEF Overriding
  <1> HIDE DEF q
  <1>4. RequestFits(q, log)
    BY <1>3, KindsDiffer DEF RequestFits
  <1>5. requests' = [requests EXCEPT ![r] = q]
    BY <1>1 DEF q
  <1>6. /\ requests' \in [Requests -> AnyRequest] /\ requests'[r] = q
        /\ \A s \in Requests \ {r} : requests'[s] = requests[s]
    BY <1>3, <1>5 DEF LogInv, AnyRequest
  <1> QED
    BY <1>4, <1>6, LogUntouched DEF LogInv, CreateOverride

LEMMA MarkOverriddenStep ==
  ASSUME LogInv, NEW r \in Requests, MarkOverridden(r), UNCHANGED <<feedback, calls, scene>>
  PROVE  LogInv'
  <1> DEFINE q == requests[r]
             p == requests'[r]
             n == q.entry
  <1>1. /\ q \in AnyRequest /\ q.stage = "mark"
        /\ log' = [log EXCEPT ![n].manual = TRUE]
        /\ requests' = [requests EXCEPT ![r].stage = "correct"]
        /\ tickets' = tickets /\ recommendations' = recommendations
    BY DEF LogInv, MarkOverridden, Marked, At, Goto
  <1>2. q \in Overriding /\ RequestFits(q, log)
    BY <1>1, StageTells DEF LogInv
  <1>3. n \in DOMAIN log /\ log \in Seq(Entry)
    BY <1>2 DEF RequestFits, LogInv, EntriesFit
  <1> DEFINE e == [log[n] EXCEPT !.manual = TRUE]
  <1>4. log[n] \in Entry
    BY <1>3
  <1>5. /\ e \in Entry /\ e.manual = TRUE /\ e.ticket = log[n].ticket /\ e.priority = log[n].priority
        /\ e.confidence = log[n].confidence /\ e.auto = log[n].auto /\ e.of = log[n].of
    <2> HIDE DEF n
    <2> QED
      BY <1>4 DEF Entry
  <1>6. log' = [log EXCEPT ![n] = e]
    BY <1>1, <1>3
  <1> HIDE DEF e
  <1>7. /\ log' \in Seq(Entry) /\ DOMAIN log' = DOMAIN log /\ log'[n] = e
        /\ \A i \in DOMAIN log : i # n => log'[i] = log[i]
    BY <1>3, <1>5, <1>6
  <1>8. Grows(log, log')
    BY <1>5, <1>7 DEF Grows
  <1>9. EntriesFit(log')
    <2>1. \A i \in DOMAIN log : log'[i].of = log[i].of /\ log'[i].confidence = log[i].confidence
      BY <1>8 DEF Grows
    <2>2. \A i \in DOMAIN log : log[i].of < i /\ log[i].confidence <= (IF log[i].of = 0 THEN 95 ELSE 100)
      BY DEF LogInv, EntriesFit
    <2> QED
      BY <1>7, <2>1, <2>2 DEF EntriesFit
  <1>10. ASSUME NEW i \in DOMAIN log', log'[i].of # 0 PROVE log'[log'[i].of].manual
    <2>1. i \in DOMAIN log /\ log'[i].of = log[i].of
      BY <1>7, <1>8 DEF Grows
    <2>2. log[i].of \in DOMAIN log
      <3>1. log[i] \in Entry /\ log[i].of < i /\ i \in 1..Len(log)
        BY <2>1 DEF LogInv, EntriesFit
      <3> QED
        BY <1>3, <1>10, <2>1, <3>1 DEF Entry
    <2>3. log[log[i].of].manual
      BY <1>10, <2>1 DEF LogInv
    <2> QED
      BY <1>8, <2>1, <2>2, <2>3 DEF Grows
  <1>11. p = [q EXCEPT !.stage = "correct"]
    BY <1>1 DEF LogInv
  <1> HIDE DEF p, q
  <1>12. p \in Overriding /\ p.stage = "correct" /\ p.entry = n
    BY <1>2, <1>11 DEF Overriding
  <1>13. RequestFits(p, log')
    BY <1>3, <1>5, <1>7, <1>12, KindsDiffer DEF RequestFits
  <1>14. /\ requests' \in [Requests -> AnyRequest]
         /\ \A s \in Requests \ {r} : requests'[s] = requests[s]
    <2>1. requests \in [Requests -> AnyRequest] /\ p \in AnyRequest
      BY <1>12 DEF LogInv, AnyRequest
    <2>2. requests' = [requests EXCEPT ![r] = p]
      BY <1>1, <2>1 DEF p
    <2> QED
      BY <2>1, <2>2
  <1> QED
    BY <1>1, <1>8, <1>9, <1>10, <1>13, <1>14, LogStepOfOne DEF LogInv, p

LEMMA CorrectTicketStep ==
  ASSUME LogInv, NEW r \in Requests, CorrectTicket(r), UNCHANGED <<feedback, calls, scene>>
  PROVE  LogInv'
  <1> DEFINE q == requests[r]
             p == requests'[r]
             t == q.ticket
             x == Corrected(q, tickets[t])
  <1>1. /\ q \in AnyRequest /\ q.stage = "correct"
        /\ log' = log
        /\ requests' = [requests EXCEPT ![r].stage = "record"]
        /\ tickets' = [tickets EXCEPT ![t] = Corrected(q, @)] /\ recommendations' = recommendations
    BY DEF LogInv, CorrectTicket, At, Goto
  <1>2. q \in Overriding /\ RequestFits(q, log)
    BY <1>1, StageTells DEF LogInv
  <1>3. /\ t \in Tickets /\ q.category \in AnyCategory /\ q.priority \in Corrections
        /\ tickets \in [Tickets -> Ticket] /\ tickets[t] \in Ticket
    BY <1>2 DEF Overriding, LogInv
  <1>4. x \in Ticket /\ x.auto = tickets[t].auto
    <2>1. q.priority # "same" => q.priority \in Priorities
      BY <1>3, AutomationAssumption
    <2> HIDE DEF q, t
    <2> QED
      BY <1>3, <2>1 DEF Corrected, Ticket
  <1>5. tickets' = [tickets EXCEPT ![t] = x]
    BY <1>1, <1>3
  <1> HIDE DEF x
  <1>6. /\ tickets' \in [Tickets -> Ticket]
        /\ \A u \in Tickets : tickets'[u].auto => tickets[u].auto
    BY <1>3, <1>4, <1>5
  <1>7. p = [q EXCEPT !.stage = "record"]
    BY <1>1 DEF LogInv
  <1> HIDE DEF p, q
  <1>8. p \in Overriding /\ p.stage = "record" /\ p.entry = q.entry
    BY <1>2, <1>7 DEF Overriding
  <1>9. RequestFits(p, log)
    <2>1. q.stage = "correct"
      BY <1>1
    <2> QED
      BY <1>2, <1>8, <2>1, KindsDiffer DEF RequestFits
  <1>10. /\ requests' \in [Requests -> AnyRequest]
         /\ \A s \in Requests \ {r} : requests'[s] = requests[s]
    <2>1. requests \in [Requests -> AnyRequest] /\ p \in AnyRequest
      BY <1>8 DEF LogInv, AnyRequest
    <2>2. requests' = [requests EXCEPT ![r] = p]
      BY <1>1, <2>1 DEF p
    <2> QED
      BY <2>1, <2>2
  <1> QED
    BY <1>1, <1>6, <1>9, <1>10, LogUntouched DEF LogInv, p

LEMMA RecordOverrideStep ==
  ASSUME LogInv, NEW r \in Requests, RecordOverride(r), UNCHANGED <<feedback, calls, scene>>
  PROVE  LogInv'
  <1> DEFINE q == requests[r]
             m == q.entry
             x == [Corrected(q, log[m]) EXCEPT !.ticket = q.ticket, !.confidence = 100, !.auto = TRUE,
                                               !.manual = TRUE, !.of = m]
             n == Len(log) + 1
  <1>1. /\ q \in AnyRequest /\ q.stage = "record"
        /\ log' = Append(log, x)
        /\ requests' = [requests EXCEPT ![r] = Free]
        /\ tickets' = tickets /\ recommendations' = recommendations
    BY DEF LogInv, RecordOverride, At, Answer
  <1>2. q \in Overriding /\ RequestFits(q, log)
    BY <1>1, StageTells DEF LogInv
  <1>3. /\ q.ticket \in Tickets /\ q.category \in AnyCategory /\ q.priority \in Corrections
        /\ m \in DOMAIN log /\ log[m].manual /\ log \in Seq(Entry)
    BY <1>1, <1>2 DEF Overriding, LogInv, RequestFits, EntriesFit
  <1>4. log[m] \in Entry /\ m \in Nat /\ m <= Len(log) /\ m # 0
    BY <1>3
  <1>5. x \in Entry /\ x.of = m /\ x.confidence = 100
    <2>1. q.priority # "same" => q.priority \in Priorities
      BY <1>3, AutomationAssumption
    <2> HIDE DEF q, m
    <2> DEFINE y == Corrected(q, log[m])
    <2>2. y \in Entry
      BY <1>3, <1>4, <2>1 DEF Corrected, Entry
    <2> HIDE DEF y
    <2>3. /\ [y EXCEPT !.ticket = q.ticket, !.confidence = 100, !.auto = TRUE, !.manual = TRUE, !.of = m] \in Entry
          /\ [y EXCEPT !.ticket = q.ticket, !.confidence = 100, !.auto = TRUE, !.manual = TRUE, !.of = m].of = m
          /\ [y EXCEPT !.ticket = q.ticket, !.confidence = 100, !.auto = TRUE, !.manual = TRUE, !.of = m].confidence = 100
      BY <1>3, <1>4, <2>2 DEF Entry
    <2> QED
      BY <2>3 DEF y
  <1> HIDE DEF x, m
  <1>6. /\ n \in Nat /\ m < n
        /\ log' \in Seq(Entry) /\ DOMAIN log' = DOMAIN log \cup {n} /\ n \notin DOMAIN log
        /\ log'[n] = x /\ \A i \in DOMAIN log : log'[i] = log[i]
    BY <1>1, <1>3, <1>4, <1>5
  <1>7. EntriesFit(log')
    BY <1>4, <1>5, <1>6 DEF LogInv, EntriesFit
  <1>8. Grows(log, log')
    BY <1>6 DEF Grows
  <1>9. ASSUME NEW i \in DOMAIN log', log'[i].of # 0 PROVE log'[log'[i].of].manual
    <2>1. CASE i = n
      BY <1>3, <1>5, <1>6, <2>1
    <2>2. CASE i # n
      <3>1. i \in DOMAIN log /\ log'[i] = log[i]
        BY <1>6, <2>2
      <3>2. log[i].of \in DOMAIN log
        <4>1. log[i] \in Entry /\ log[i].of < i /\ i \in 1..Len(log)
          BY <3>1 DEF LogInv, EntriesFit
        <4> QED
          BY <1>3, <1>9, <3>1, <4>1 DEF Entry
      <3> QED
        BY <1>6, <1>9, <3>1, <3>2 DEF LogInv
    <2> QED
      BY <2>1, <2>2
  <1>10. /\ requests' \in [Requests -> AnyRequest] /\ requests'[r] = Free
         /\ \A s \in Requests \ {r} : requests'[s] = requests[s]
    BY <1>1, FreeFits DEF LogInv
  <1>11. RequestFits(requests'[r], log')
    BY <1>10, FreeFits
  <1> QED
    BY <1>1, <1>7, <1>8, <1>9, <1>10, <1>11, LogStepOfOne DEF LogInv

LEMMA SubmitFeedbackStep ==
  ASSUME LogInv, NEW r \in Requests, SubmitFeedback(r), calls' = calls + 1, scene' = scene,
         UNCHANGED <<tickets, log, recommendations>>
  PROVE  LogInv'
  <1>1. feedback' \in Seq(BOOLEAN)
    BY DEF LogInv, SubmitFeedback
  <1> QED
    BY <1>1, LogUntouched DEF LogInv, SubmitFeedback

(***************************************************************************)
(* The evaluations of rules.                                               *)
(***************************************************************************)

(* What a place is.                                                        *)
LEMMA PlacesAre ==
  ASSUME NEW rules \in Seq(Rule), NEW p
  PROVE  p \in Places(rules) <=>
           \E i \in 1..Len(rules), k \in Nat : p = <<i, k>> /\ k \in PlacesOf(rules[i])
  <1>1. \A i \in 1..Len(rules) : PlacesOf(rules[i]) \subseteq Nat
    <2> SUFFICES ASSUME NEW i \in 1..Len(rules) PROVE PlacesOf(rules[i]) \subseteq Nat
      OBVIOUS
    <2>1. rules[i] \in Rule
      OBVIOUS
    <2>2. rules[i].actions \in Seq(Actions)
      BY <2>1 DEF Rule
    <2> QED
      BY <2>2 DEF PlacesOf
  <1>2. p \in Places(rules) <=> \E i \in 1..Len(rules) : p \in {i} \X PlacesOf(rules[i])
    BY DEF Places
  <1> QED
    BY <1>1, <1>2, SMTT(20)

(* Where a request is in the rules it evaluates.                           *)
Reached(q) == <<q.rule, q.place>>
ActionAt(q, e) == e.rules[q.rule].actions[q.place]

StageFits(q, e) ==
  /\ q.stage = "rule" => q.place = 0
  /\ q.stage # "rule" =>
       /\ q.rule \in e.fired /\ q.rule <= Len(e.rules) /\ e.rules[q.rule].condition = "met"
       /\ q.place \in 1..(Len(e.rules[q.rule].actions) + 1)
  /\ q.stage \in {"second", "third", "executed"} => q.place <= Len(e.rules[q.rule].actions)
  /\ q.stage = "second" => ActionAt(q, e) \in {"CHANGE_STATUS", "ESCALATE"}
  /\ q.stage = "third" => ActionAt(q, e) \in Appending
  /\ q.stage = "executed" /\ q.ok => ActionAt(q, e) # "invalid"
  /\ q.stage # "executed" => q.ok

(* It has logged everything that is before there, and nothing else.        *)
RunFits(q, e) ==
  /\ ~e.done
  /\ q.rule \in 1..(Len(e.rules) + 1)
  /\ StageFits(q, e)
  /\ \A p \in Places(e.rules) : Before(p, Reached(q)) => Logged(p, e)
  /\ \A i \in DOMAIN e.log : Before(Place(e.log[i]), Reached(q))

(* Every evaluation has one request at most.                               *)
RunInv ==
  /\ evaluations \in Seq(Evaluation)
  /\ rows \in [Tickets -> [Appending -> Nat]]
  /\ \A run \in DOMAIN evaluations : InOrder(evaluations[run])
  /\ \A r \in Requests : requests[r] \in Evaluating =>
       /\ requests[r].run \in DOMAIN evaluations
       /\ RunFits(requests[r], evaluations[requests[r].run])
  /\ \A r, s \in Requests :
       r # s /\ requests[r] \in Evaluating /\ requests[s] \in Evaluating
         => requests[r].run # requests[s].run

(* A step of the one that evaluates.                                       *)
LEMMA RunStepOfOne ==
  ASSUME RunInv, NEW r \in Requests, requests[r] \in Evaluating,
         \A s \in Requests \ {r} : requests'[s] = requests[s],
         NEW e \in Evaluation, InOrder(e),
         requests'[r] \in Evaluating => requests'[r].run = requests[r].run /\ RunFits(requests'[r], e),
         evaluations' = [evaluations EXCEPT ![requests[r].run] = e],
         rows' \in [Tickets -> [Appending -> Nat]]
  PROVE  RunInv'
  <1> DEFINE n == requests[r].run
  <1>1. n \in DOMAIN evaluations /\ evaluations \in Seq(Evaluation)
    BY DEF RunInv
  <1>2. /\ evaluations' \in Seq(Evaluation) /\ DOMAIN evaluations' = DOMAIN evaluations
        /\ evaluations'[n] = e /\ \A k \in DOMAIN evaluations : k # n => evaluations'[k] = evaluations[k]
    BY <1>1
  <1>3. \A run \in DOMAIN evaluations' : InOrder(evaluations'[run])
    BY <1>2 DEF RunInv
  <1>4. ASSUME NEW s \in Requests, requests'[s] \in Evaluating
        PROVE  /\ requests'[s].run \in DOMAIN evaluations'
               /\ RunFits(requests'[s], evaluations'[requests'[s].run])
    <2>1. CASE s = r
      BY <1>1, <1>2, <1>4, <2>1
    <2>2. CASE s # r
      <3>1. requests'[s] = requests[s] /\ requests[s].run # n
        BY <1>4, <2>2 DEF RunInv
      <3> QED
        BY <1>2, <1>4, <3>1 DEF RunInv
    <2> QED
      BY <2>1, <2>2
  <1>5. ASSUME NEW s \in Requests, NEW u \in Requests, s # u,
               requests'[s] \in Evaluating, requests'[u] \in Evaluating
        PROVE  requests'[s].run # requests'[u].run
    <2>1. CASE s # r /\ u # r
      BY <1>5, <2>1 DEF RunInv
    <2>2. CASE s = r
      BY <1>5, <2>2 DEF RunInv
    <2>3. CASE u = r
      BY <1>5, <2>3 DEF RunInv
    <2> QED
      BY <2>1, <2>2, <2>3
  <1> QED
    BY <1>2, <1>3, <1>4, <1>5 DEF RunInv

(* A step of another request.                                              *)
LEMMA RunUntouched ==
  ASSUME RunInv, NEW r \in Requests, requests'[r] \notin Evaluating,
         \A s \in Requests \ {r} : requests'[s] = requests[s],
         evaluations' = evaluations, rows' = rows
  PROVE  RunInv'
  <1>1. \A s \in Requests : requests'[s] \in Evaluating => requests'[s] = requests[s]
    OBVIOUS
  <1> QED
    BY <1>1 DEF RunInv

(* A request in an evaluation, and the evaluation.                         *)
LEMMA AtARun ==
  ASSUME LogInv, RunInv, NEW r \in Requests,
         requests[r].stage \in {"rule", "action", "second", "third", "executed"}
  PROVE  LET q == requests[r]
             e == evaluations[q.run]
         IN  /\ q \in Evaluating /\ q.run \in DOMAIN evaluations
             /\ e \in Evaluation /\ e.rules \in Seq(Rule) /\ e.ticket \in Tickets
             /\ InOrder(e) /\ RunFits(q, e)
             /\ RulesOf(q) = e.rules /\ TicketOf(q) = e.ticket
             /\ q.stage # "rule" => ActionsOf(q) = e.rules[q.rule].actions /\ ActionsOf(q) \in Seq(Actions)
  <1> DEFINE q == requests[r]
             e == evaluations[q.run]
  <1>1. q \in Evaluating
    BY StageTells DEF LogInv
  <1>2. q.run \in DOMAIN evaluations /\ RunFits(q, e) /\ InOrder(e)
    BY <1>1 DEF RunInv
  <1>3. e \in Evaluation
    BY <1>2 DEF RunInv
  <1>4. e.rules \in Seq(Rule) /\ e.ticket \in Tickets
    BY <1>3, AutomationAssumption DEF Evaluation
  <1>5. ASSUME q.stage # "rule" PROVE e.rules[q.rule].actions \in Seq(Actions)
    <2>1. q.rule \in 1..Len(e.rules)
      BY <1>2, <1>4, <1>5 DEF RunFits, StageFits
    <2>2. e.rules[q.rule] \in Rule
      BY <1>4, <2>1
    <2> QED
      BY <2>2 DEF Rule
  <1> QED
    BY <1>1, <1>2, <1>3, <1>4, <1>5 DEF RulesOf, TicketOf, ActionsOf

(* A statement of an action: the request goes on within it.                *)
LEMMA WithinAction ==
  ASSUME LogInv, RunInv, NEW r \in Requests, requests[r] \in Evaluating,
         NEW p \in Evaluating, requests' = [requests EXCEPT ![r] = p],
         Reached(p) = Reached(requests[r]), p.run = requests[r].run,
         StageFits(p, evaluations[requests[r].run]),
         tickets' \in [Tickets -> Ticket], \A t \in Tickets : tickets'[t].auto => tickets[t].auto,
         rows' \in [Tickets -> [Appending -> Nat]],
         UNCHANGED <<log, recommendations, evaluations, feedback, calls, scene>>
  PROVE  LogInv' /\ RunInv'
  <1> DEFINE q == requests[r]
             e == evaluations[q.run]
  <1>1. /\ requests' \in [Requests -> AnyRequest] /\ requests'[r] = p
        /\ \A s \in Requests \ {r} : requests'[s] = requests[s]
    BY DEF LogInv, AnyRequest
  <1>2. q.run \in DOMAIN evaluations /\ e \in Evaluation /\ InOrder(e) /\ RunFits(q, e)
    BY DEF RunInv
  <1>3. RunFits(p, e)
    <2>1. p.rule = q.rule
      BY DEF Reached
    <2> QED
      BY <1>2, <2>1 DEF RunFits
  <1>4. RunInv'
    <2>1. evaluations' = [evaluations EXCEPT ![q.run] = e]
      BY DEF RunInv
    <2> QED
      BY <1>1, <1>2, <1>3, <2>1, RunStepOfOne
  <1>5. RequestFits(p, log)
    BY KindsDiffer DEF RequestFits
  <1>6. LogInv'
    BY <1>1, <1>5, LogUntouched DEF LogInv
  <1> QED
    BY <1>4, <1>6

(***************************************************************************)
(* Each statement of an action.                                            *)
(***************************************************************************)

(* Before a statement of an action the request has come to that action,    *)
(* and after the statement it is still there.                              *)
LEMMA OnWithinAction ==
  ASSUME LogInv, RunInv, NEW r \in Requests,
         requests[r].stage \in {"action", "second", "third", "executed"},
         requests[r].place <= Len(ActionsOf(requests[r])),
         NEW s \in {"second", "third", "executed"}, NEW k \in Nat, NEW ok \in BOOLEAN,
         requests' = [requests EXCEPT ![r].stage = s, ![r].seen = k, ![r].ok = ok],
         LET a == ActionsOf(requests[r])[requests[r].place] IN
           \/ s = "second" /\ ok /\ a \in {"CHANGE_STATUS", "ESCALATE"}
           \/ s = "third" /\ ok /\ a \in Appending
           \/ s = "executed" /\ (ok => a # "invalid"),
         tickets' \in [Tickets -> Ticket], \A t \in Tickets : tickets'[t].auto => tickets[t].auto,
         rows' \in [Tickets -> [Appending -> Nat]],
         UNCHANGED <<log, recommendations, evaluations, feedback, calls, scene>>
  PROVE  /\ LogInv' /\ RunInv'
         /\ requests'[r].stage = s /\ requests'[r].ok = ok
         /\ requests'[r].run = requests[r].run /\ Reached(requests'[r]) = Reached(requests[r])
         /\ requests'[r] \in Evaluating
         /\ \A u \in Requests \ {r} : requests'[u] = requests[u]
  <1> DEFINE q == requests[r]
             e == evaluations[q.run]
             p == [q EXCEPT !.stage = s, !.seen = k, !.ok = ok]
  <1>1. /\ q \in Evaluating /\ RunFits(q, e) /\ ActionsOf(q) = e.rules[q.rule].actions
    BY AtARun
  <1>2. requests' = [requests EXCEPT ![r] = p] /\ requests'[r] = p
        /\ \A u \in Requests \ {r} : requests'[u] = requests[u]
    BY DEF LogInv
  <1>3. /\ p \in Evaluating /\ p.stage = s /\ p.run = q.run /\ p.rule = q.rule
        /\ p.place = q.place /\ p.ok = ok /\ Reached(p) = Reached(q)
    <2> HIDE DEF q
    <2> QED
      BY <1>1 DEF Evaluating, Reached
  <1> HIDE DEF p
  <1>4. StageFits(p, e)
    <2> DEFINE a == ActionAt(p, e)
    <2>1. a = ActionsOf(q)[q.place]
      BY <1>1, <1>3 DEF ActionAt
    <2>2. StageFits(q, e) /\ q.stage # "rule" /\ q.place <= Len(e.rules[q.rule].actions)
      BY <1>1 DEF RunFits
    <2> QED
      BY <1>3, <2>1, <2>2 DEF StageFits
  <1>5. LogInv' /\ RunInv'
    BY <1>1, <1>2, <1>3, <1>4, WithinAction
  <1> QED
    BY <1>2, <1>3, <1>5

(* What a request knows of the statement it is before.                     *)
LEMMA TakesFits ==
  ASSUME LogInv, RunInv, NEW r \in Requests, NEW stage \in {"action", "second", "third"}, NEW types,
         Takes(r, stage, types)
  PROVE  /\ requests[r].stage = stage /\ requests[r].ok = TRUE /\ requests[r].seen \in Nat
         /\ requests[r].place <= Len(ActionsOf(requests[r]))
         /\ ActionsOf(requests[r])[requests[r].place] \in types
         /\ TicketOf(requests[r]) \in Tickets
         /\ tickets[TicketOf(requests[r])] \in Ticket
         /\ requests[r].run \in Nat
         /\ stage = "second" => ActionsOf(requests[r])[requests[r].place] \in {"CHANGE_STATUS", "ESCALATE"}
         /\ stage = "third" => ActionsOf(requests[r])[requests[r].place] \in Appending
  <1> DEFINE q == requests[r]
             e == evaluations[q.run]
  <1>1. q.stage = stage /\ q.place <= Len(ActionsOf(q)) /\ ActionsOf(q)[q.place] \in types
    BY DEF Takes, At
  <1>2. /\ q \in Evaluating /\ RunFits(q, e) /\ TicketOf(q) \in Tickets
        /\ ActionsOf(q) = e.rules[q.rule].actions
    BY <1>1, AtARun
  <1>3. q.seen \in Nat /\ q.run \in Nat /\ q.ok \in BOOLEAN
    BY <1>2 DEF Evaluating
  <1>4. StageFits(q, e)
    BY <1>2 DEF RunFits
  <1>5. q.ok = TRUE
    BY <1>1, <1>3, <1>4 DEF StageFits
  <1>6. tickets[TicketOf(q)] \in Ticket
    BY <1>2 DEF LogInv
  <1> QED
    BY <1>1, <1>2, <1>3, <1>4, <1>5, <1>6 DEF StageFits, ActionAt

(* Assigning one field that it has to a record changes nothing.            *)
LEMMA SameFields ==
  ASSUME LogInv, NEW r \in Requests, requests[r] \in Evaluating, requests[r].ok = TRUE, NEW s,
         requests' = [requests EXCEPT ![r].stage = s]
  PROVE  requests' = [requests EXCEPT ![r].stage = s, ![r].seen = requests[r].seen, ![r].ok = TRUE]
  <1> DEFINE q == requests[r]
  <1>1. [q EXCEPT !.stage = s] = [q EXCEPT !.stage = s, !.seen = q.seen, !.ok = TRUE]
    <2>1. q \in Evaluating /\ q.ok = TRUE
      OBVIOUS
    <2> HIDE DEF q
    <2> QED
      BY <2>1 DEF Evaluating
  <1> QED
    BY <1>1 DEF LogInv

LEMMA ReadTicketStep ==
  ASSUME LogInv, RunInv, NEW r \in Requests, ReadTicket(r), UNCHANGED <<feedback, calls, scene>>
  PROVE  /\ LogInv' /\ RunInv'
         /\ requests'[r].stage # "executed"
         /\ \A u \in Requests \ {r} : requests'[u] = requests[u]
         /\ UNCHANGED <<tickets, evaluations, rows, notes>>
  <1> DEFINE q == requests[r]
             t == tickets[TicketOf(q)]
             k == IF Takes(r, "action", {"ESCALATE"}) THEN t.level ELSE t.status
  <1>1. /\ Takes(r, "action", {"CHANGE_STATUS", "ESCALATE"})
        /\ requests' = [requests EXCEPT ![r].stage = "second", ![r].seen = k]
        /\ UNCHANGED <<tickets, log, recommendations, evaluations, rows, notes>>
    BY DEF ReadTicket
  <1>2. /\ q.stage = "action" /\ q.ok = TRUE /\ q.place <= Len(ActionsOf(q))
        /\ ActionsOf(q)[q.place] \in {"CHANGE_STATUS", "ESCALATE"} /\ t \in Ticket
    BY <1>1, TakesFits
  <1>3. k \in Nat
    BY <1>2 DEF Ticket
  <1> HIDE DEF k
  <1>4. requests' = [requests EXCEPT ![r].stage = "second", ![r].seen = k, ![r].ok = TRUE]
    <2>1. q \in Evaluating
      BY <1>2, StageTells DEF LogInv
    <2>2. [q EXCEPT !.stage = "second", !.seen = k] = [q EXCEPT !.stage = "second", !.seen = k, !.ok = TRUE]
      <3> HIDE DEF q
      <3> QED
        BY <1>2, <2>1 DEF Evaluating
    <2> QED
      BY <1>1, <2>2 DEF LogInv
  <1>5. /\ tickets' \in [Tickets -> Ticket] /\ \A u \in Tickets : tickets'[u].auto => tickets[u].auto
        /\ rows' \in [Tickets -> [Appending -> Nat]]
    BY <1>1 DEF LogInv, RunInv
  <1>6. /\ LogInv' /\ RunInv' /\ requests'[r].stage = "second"
        /\ \A u \in Requests \ {r} : requests'[u] = requests[u]
    BY <1>1, <1>2, <1>3, <1>4, <1>5, OnWithinAction
  <1> QED
    BY <1>1, <1>6

LEMMA AssignTicketStep ==
  ASSUME LogInv, RunInv, NEW r \in Requests, AssignTicket(r), UNCHANGED <<feedback, calls, scene>>
  PROVE  /\ LogInv' /\ RunInv'
         /\ requests'[r].stage # "executed"
         /\ \A u \in Requests \ {r} : requests'[u] = requests[u]
         /\ UNCHANGED <<tickets, evaluations, rows, notes>>
  <1> DEFINE q == requests[r]
  <1>1. /\ Takes(r, "action", {"ASSIGN_TO_USER"})
        /\ requests' = [requests EXCEPT ![r].stage = "third"]
        /\ UNCHANGED <<tickets, log, recommendations, evaluations, rows, notes>>
    BY DEF AssignTicket, Goto
  <1>2. /\ q.stage = "action" /\ q.ok = TRUE /\ q.seen \in Nat /\ q.place <= Len(ActionsOf(q))
        /\ ActionsOf(q)[q.place] \in Appending
    BY <1>1, TakesFits DEF Appending
  <1>3. requests' = [requests EXCEPT ![r].stage = "third", ![r].seen = q.seen, ![r].ok = TRUE]
    BY <1>1, <1>2, StageTells, SameFields DEF LogInv
  <1>4. /\ tickets' \in [Tickets -> Ticket] /\ \A u \in Tickets : tickets'[u].auto => tickets[u].auto
        /\ rows' \in [Tickets -> [Appending -> Nat]]
    BY <1>1 DEF LogInv, RunInv
  <1>5. /\ LogInv' /\ RunInv' /\ requests'[r].stage = "third"
        /\ \A u \in Requests \ {r} : requests'[u] = requests[u]
    BY <1>1, <1>2, <1>3, <1>4, OnWithinAction
  <1> QED
    BY <1>1, <1>5

(* Both of the actions that change the ticket so have a row to add.        *)
LEMMA ChangeTicketStep ==
  ASSUME LogInv, RunInv, NEW r \in Requests, ChangeTicket(r), UNCHANGED <<feedback, calls, scene>>
  PROVE  /\ LogInv' /\ RunInv'
         /\ requests'[r].stage # "executed"
         /\ \A u \in Requests \ {r} : requests'[u] = requests[u]
         /\ \A t \in Tickets : tickets[t].tagged => tickets'[t].tagged
         /\ UNCHANGED <<evaluations, rows, notes>>
  <1> DEFINE q == requests[r]
             t == TicketOf(q)
  <1>1. /\ Takes(r, "second", {"ESCALATE"}) \/ Takes(r, "second", {"CHANGE_STATUS"})
        /\ \/ tickets' = [tickets EXCEPT ![t].level = q.seen + 1]
           \/ tickets' = [tickets EXCEPT ![t].status = q.run]
        /\ requests' = [requests EXCEPT ![r].stage = IF Takes(r, "second", ThirdNeeded) THEN "third" ELSE "executed"]
        /\ UNCHANGED <<log, recommendations, evaluations, rows, notes>>
    BY DEF ChangeTicket, Goto
  <1>2. Takes(r, "second", ThirdNeeded)
    BY <1>1 DEF Takes, ThirdNeeded
  <1>3. /\ q.stage = "second" /\ q.ok = TRUE /\ q.seen \in Nat /\ q.run \in Nat
        /\ q.place <= Len(ActionsOf(q)) /\ ActionsOf(q)[q.place] \in Appending
        /\ t \in Tickets /\ tickets[t] \in Ticket
    BY <1>2, TakesFits DEF Appending, ThirdNeeded
  <1>4. requests' = [requests EXCEPT ![r].stage = "third"]
    BY <1>1, <1>2
  <1>5. requests' = [requests EXCEPT ![r].stage = "third", ![r].seen = q.seen, ![r].ok = TRUE]
    BY <1>3, <1>4, StageTells, SameFields DEF LogInv
  <1>6. /\ tickets' \in [Tickets -> Ticket]
        /\ \A u \in Tickets : tickets'[u].auto = tickets[u].auto /\ tickets'[u].tagged = tickets[u].tagged
    <2> DEFINE x == tickets[t]
               y == [x EXCEPT !.level = q.seen + 1]
               z == [x EXCEPT !.status = q.run]
    <2>1. /\ y \in Ticket /\ y.auto = x.auto /\ y.tagged = x.tagged
          /\ z \in Ticket /\ z.auto = x.auto /\ z.tagged = x.tagged
      <3>1. q.seen + 1 \in Nat
        BY <1>3
      <3> HIDE DEF x, q
      <3> QED
        BY <1>3, <3>1 DEF Ticket, x
    <2>2. tickets \in [Tickets -> Ticket]
      BY DEF LogInv
    <2>3. tickets' = [tickets EXCEPT ![t] = y] \/ tickets' = [tickets EXCEPT ![t] = z]
      BY <1>1, <1>3, <2>2
    <2> HIDE DEF y, z, t
    <2> QED
      BY <1>3, <2>1, <2>2, <2>3 DEF x
  <1>7. rows' \in [Tickets -> [Appending -> Nat]]
    BY <1>1 DEF RunInv
  <1>8. /\ LogInv' /\ RunInv' /\ requests'[r].stage = "third"
        /\ \A u \in Requests \ {r} : requests'[u] = requests[u]
    BY <1>1, <1>3, <1>5, <1>6, <1>7, OnWithinAction
  <1> QED
    BY <1>1, <1>6, <1>8

LEMMA AddRowStep ==
  ASSUME LogInv, RunInv, NEW r \in Requests, AddRow(r), UNCHANGED <<feedback, calls, scene>>
  PROVE  LET t == TicketOf(requests[r])
             a == ActionsOf(requests[r])[requests[r].place]
         IN  /\ LogInv' /\ RunInv'
             /\ requests'[r].run = requests[r].run /\ Reached(requests'[r]) = Reached(requests[r])
             /\ \A u \in Requests \ {r} : requests'[u] = requests[u]
             /\ t \in Tickets /\ a \in Appending
             /\ rows' = [rows EXCEPT ![t][a] = @ + 1]
             /\ UNCHANGED <<tickets, evaluations, notes>>
  <1> DEFINE q == requests[r]
             t == TicketOf(q)
             a == ActionsOf(q)[q.place]
  <1>1. /\ Takes(r, "third", Appending)
        /\ rows' = [rows EXCEPT ![t][a] = @ + 1]
        /\ requests' = [requests EXCEPT ![r].stage = "executed"]
        /\ UNCHANGED <<tickets, log, recommendations, evaluations, notes>>
    BY DEF AddRow, Goto
  <1>2. /\ q.stage = "third" /\ q.ok = TRUE /\ q.seen \in Nat /\ q.place <= Len(ActionsOf(q))
        /\ a \in Appending /\ t \in Tickets
    BY <1>1, TakesFits
  <1>3. requests' = [requests EXCEPT ![r].stage = "executed", ![r].seen = q.seen, ![r].ok = TRUE]
    BY <1>1, <1>2, StageTells, SameFields DEF LogInv
  <1>4. /\ tickets' \in [Tickets -> Ticket] /\ \A u \in Tickets : tickets'[u].auto => tickets[u].auto
    BY <1>1 DEF LogInv
  <1>5. rows' \in [Tickets -> [Appending -> Nat]]
    <2>1. rows \in [Tickets -> [Appending -> Nat]]
      BY DEF RunInv
    <2> HIDE DEF t, a
    <2> QED
      BY <1>1, <1>2, <2>1
  <1>6. a # "invalid"
    BY <1>2 DEF Appending
  <1>7. /\ LogInv' /\ RunInv'
        /\ requests'[r].run = requests[r].run /\ Reached(requests'[r]) = Reached(requests[r])
        /\ \A u \in Requests \ {r} : requests'[u] = requests[u]
    BY <1>1, <1>2, <1>3, <1>4, <1>5, <1>6, OnWithinAction
  <1> QED
    BY <1>1, <1>2, <1>7

LEMMA ChangeOnceStep ==
  ASSUME LogInv, RunInv, NEW r \in Requests, ChangeOnce(r), UNCHANGED <<feedback, calls, scene>>
  PROVE  LET t == TicketOf(requests[r])
             a == ActionsOf(requests[r])[requests[r].place]
         IN  /\ LogInv' /\ RunInv'
             /\ requests'[r].run = requests[r].run /\ Reached(requests'[r]) = Reached(requests[r])
             /\ \A u \in Requests \ {r} : requests'[u] = requests[u]
             /\ \A u \in Tickets : tickets[u].tagged => tickets'[u].tagged
             /\ a = "CHANGE_PRIORITY" \/ (a = "ADD_TAG" /\ tickets'[t].tagged)
             /\ UNCHANGED <<rows, evaluations, notes>>
  <1> DEFINE q == requests[r]
             t == TicketOf(q)
             a == ActionsOf(q)[q.place]
             x == tickets[t]
  <1>1. /\ Takes(r, "action", {"CHANGE_PRIORITY"}) \/ Takes(r, "action", {"ADD_TAG"})
        /\ \/ /\ a = "CHANGE_PRIORITY"
              /\ \E p \in Corrections \ {"same"} : tickets' = [tickets EXCEPT ![t].priority = p]
           \/ a = "ADD_TAG" /\ tickets' = [tickets EXCEPT ![t].tagged = TRUE]
        /\ requests' = [requests EXCEPT ![r].stage = "executed"]
        /\ UNCHANGED <<log, recommendations, evaluations, rows, notes>>
    BY DEF ChangeOnce, Goto, Takes
  <1>2. /\ q.stage = "action" /\ q.ok = TRUE /\ q.seen \in Nat /\ q.place <= Len(ActionsOf(q))
        /\ a \in {"CHANGE_PRIORITY", "ADD_TAG"} /\ t \in Tickets /\ x \in Ticket
    <2>1. CASE Takes(r, "action", {"CHANGE_PRIORITY"})
      <3>1. a \in {"CHANGE_PRIORITY"}
        BY <2>1, TakesFits
      <3> QED
        BY <2>1, <3>1, TakesFits
    <2>2. CASE Takes(r, "action", {"ADD_TAG"})
      <3>1. a \in {"ADD_TAG"}
        BY <2>2, TakesFits
      <3> QED
        BY <2>2, <3>1, TakesFits
    <2> QED
      BY <1>1, <2>1, <2>2
  <1>3. requests' = [requests EXCEPT ![r].stage = "executed", ![r].seen = q.seen, ![r].ok = TRUE]
    BY <1>1, <1>2, StageTells, SameFields DEF LogInv
  <1>4. PICK y \in Ticket : /\ tickets' = [tickets EXCEPT ![t] = y]
                            /\ y.auto = x.auto /\ (x.tagged => y.tagged)
                            /\ a = "CHANGE_PRIORITY" \/ (a = "ADD_TAG" /\ y.tagged)
    <2>1. CASE a = "CHANGE_PRIORITY" /\ \E p \in Corrections \ {"same"} : tickets' = [tickets EXCEPT ![t].priority = p]
      <3>1. PICK p \in Corrections \ {"same"} : tickets' = [tickets EXCEPT ![t].priority = p]
        BY <2>1
      <3> DEFINE y == [x EXCEPT !.priority = p]
      <3>2. p \in Priorities
        BY AutomationAssumption
      <3>3. y \in Ticket /\ y.auto = x.auto /\ y.tagged = x.tagged
        <4> HIDE DEF x
        <4> QED
          BY <1>2, <3>2 DEF Ticket
      <3>4. tickets' = [tickets EXCEPT ![t] = y]
        BY <1>2, <3>1 DEF LogInv
      <3> HIDE DEF y
      <3> QED
        BY <2>1, <3>3, <3>4
    <2>2. CASE a = "ADD_TAG" /\ tickets' = [tickets EXCEPT ![t].tagged = TRUE]
      <3> DEFINE y == [x EXCEPT !.tagged = TRUE]
      <3>1. y \in Ticket /\ y.auto = x.auto /\ y.tagged = TRUE
        <4> HIDE DEF x
        <4> QED
          BY <1>2 DEF Ticket
      <3>2. tickets' = [tickets EXCEPT ![t] = y]
        BY <1>2, <2>2 DEF LogInv
      <3> HIDE DEF y
      <3> QED
        BY <2>2, <3>1, <3>2
    <2> QED
      BY <1>1, <2>1, <2>2
  <1>5. /\ tickets' \in [Tickets -> Ticket] /\ tickets'[t] = y
        /\ \A u \in Tickets : tickets'[u].auto => tickets[u].auto
        /\ \A u \in Tickets : tickets[u].tagged => tickets'[u].tagged
    <2>1. tickets \in [Tickets -> Ticket]
      BY DEF LogInv
    <2> HIDE DEF t, a
    <2> QED
      BY <1>2, <1>4, <2>1
  <1>6. rows' \in [Tickets -> [Appending -> Nat]]
    BY <1>1 DEF RunInv
  <1>7. /\ LogInv' /\ RunInv'
        /\ requests'[r].run = requests[r].run /\ Reached(requests'[r]) = Reached(requests[r])
        /\ \A u \in Requests \ {r} : requests'[u] = requests[u]
    BY <1>1, <1>2, <1>3, <1>5, <1>6, OnWithinAction
  <1> QED
    BY <1>1, <1>4, <1>5, <1>7

LEMMA QueueNotificationStep ==
  ASSUME LogInv, RunInv, NEW r \in Requests, QueueNotification(r), UNCHANGED <<feedback, calls, scene>>
  PROVE  /\ LogInv' /\ RunInv'
         /\ requests'[r].run = requests[r].run /\ Reached(requests'[r]) = Reached(requests[r])
         /\ \A u \in Requests \ {r} : requests'[u] = requests[u]
         /\ ActionsOf(requests[r])[requests[r].place] = "SEND_NOTIFICATION"
         /\ \E channel \in Channels : notes' = Append(notes, Queued(channel))
         /\ UNCHANGED <<tickets, rows, evaluations>>
  <1> DEFINE q == requests[r]
  <1>1. /\ Takes(r, "action", {"SEND_NOTIFICATION"})
        /\ \E channel \in Channels : notes' = Append(notes, Queued(channel))
        /\ requests' = [requests EXCEPT ![r].stage = "executed"]
        /\ UNCHANGED <<tickets, log, recommendations, evaluations, rows>>
    BY DEF QueueNotification, Goto
  <1>2. /\ q.stage = "action" /\ q.ok = TRUE /\ q.seen \in Nat /\ q.place <= Len(ActionsOf(q))
        /\ ActionsOf(q)[q.place] \in {"SEND_NOTIFICATION"}
    BY <1>1, TakesFits
  <1>3. requests' = [requests EXCEPT ![r].stage = "executed", ![r].seen = q.seen, ![r].ok = TRUE]
    BY <1>1, <1>2, StageTells, SameFields DEF LogInv
  <1>4. /\ tickets' \in [Tickets -> Ticket] /\ \A u \in Tickets : tickets'[u].auto => tickets[u].auto
        /\ rows' \in [Tickets -> [Appending -> Nat]]
    BY <1>1 DEF LogInv, RunInv
  <1>5. /\ LogInv' /\ RunInv'
        /\ requests'[r].run = requests[r].run /\ Reached(requests'[r]) = Reached(requests[r])
        /\ \A u \in Requests \ {r} : requests'[u] = requests[u]
    BY <1>1, <1>2, <1>3, <1>4, OnWithinAction
  <1> QED
    BY <1>1, <1>2, <1>5

LEMMA ThrowStep ==
  ASSUME LogInv, RunInv, NEW r \in Requests, Throw(r), UNCHANGED <<feedback, calls, scene>>
  PROVE  /\ LogInv' /\ RunInv'
         /\ ~requests'[r].ok
         /\ \A u \in Requests \ {r} : requests'[u] = requests[u]
         /\ UNCHANGED <<tickets, rows, evaluations, notes>>
  <1> DEFINE q == requests[r]
             e == evaluations[q.run]
  <1>1. /\ \/ q.stage = "action" /\ q.place <= Len(ActionsOf(q))
           \/ q.stage \in {"second", "third", "executed"}
        /\ requests' = [requests EXCEPT ![r].stage = "executed", ![r].ok = FALSE]
        /\ UNCHANGED <<tickets, log, recommendations, evaluations, rows, notes>>
    BY DEF Throw, At
  <1>2. q \in Evaluating /\ RunFits(q, e) /\ ActionsOf(q) = e.rules[q.rule].actions
    BY <1>1, AtARun
  <1>3. q.place <= Len(ActionsOf(q)) /\ q.seen \in Nat
    BY <1>1, <1>2 DEF RunFits, StageFits, Evaluating
  <1>4. requests' = [requests EXCEPT ![r].stage = "executed", ![r].seen = q.seen, ![r].ok = FALSE]
    <2>1. [q EXCEPT !.stage = "executed", !.ok = FALSE]
            = [q EXCEPT !.stage = "executed", !.seen = q.seen, !.ok = FALSE]
      <3> HIDE DEF q
      <3> QED
        BY <1>2 DEF Evaluating
    <2> QED
      BY <1>1, <2>1 DEF LogInv
  <1>5. /\ tickets' \in [Tickets -> Ticket] /\ \A u \in Tickets : tickets'[u].auto => tickets[u].auto
        /\ rows' \in [Tickets -> [Appending -> Nat]]
    BY <1>1 DEF LogInv, RunInv
  <1>6. /\ LogInv' /\ RunInv' /\ requests'[r].ok = FALSE
        /\ \A u \in Requests \ {r} : requests'[u] = requests[u]
    BY <1>1, <1>3, <1>4, <1>5, OnWithinAction
  <1> QED
    BY <1>1, <1>6

(***************************************************************************)
(* From rule to rule and from action to action.                            *)
(***************************************************************************)

(* An evaluation that logs what it is due to try next remains in order.    *)
LEMMA OneMoreLogged ==
  ASSUME NEW e \in Evaluation, InOrder(e), ~e.done,
         NEW x \in Execution, Rightly(x, e.rules, e.fired),
         \A i \in DOMAIN e.log : Before(Place(e.log[i]), Place(x)),
         \A p \in Places(e.rules) : Before(p, Place(x)) => Logged(p, e),
         NEW d, d = [e EXCEPT !.log = Append(e.log, x)]
  PROVE  /\ d \in Evaluation /\ d.rules = e.rules /\ d.fired = e.fired /\ d.ticket = e.ticket /\ ~d.done
         /\ InOrder(d)
         /\ \A p : Logged(p, e) => Logged(p, d)
         /\ Logged(Place(x), d)
         /\ \A i \in DOMAIN d.log : Place(d.log[i]) = Place(x) \/ Before(Place(d.log[i]), Place(x))
  <1> DEFINE n == Len(e.log) + 1
  <1>1. e.log \in Seq(Execution)
    BY DEF Evaluation
  <1>2. /\ d \in Evaluation /\ d.log = Append(e.log, x)
        /\ d.rules = e.rules /\ d.fired = e.fired /\ d.ticket = e.ticket /\ d.done = e.done
    <2> DEFINE l == Append(e.log, x)
    <2>1. l \in Seq(Execution)
      BY <1>1
    <2> HIDE DEF l
    <2> QED
      BY <2>1 DEF Evaluation, l
  <1>3. /\ n \in Nat /\ DOMAIN d.log = DOMAIN e.log \cup {n} /\ d.log[n] = x
        /\ \A i \in DOMAIN e.log : i \in Nat /\ i < n /\ d.log[i] = e.log[i]
    BY <1>1, <1>2
  <1> HIDE DEF n
  <1>4. \A i \in DOMAIN d.log : Rightly(d.log[i], d.rules, d.fired)
    <2>1. \A i \in DOMAIN e.log : Rightly(e.log[i], e.rules, e.fired)
      BY DEF InOrder
    <2> QED
      BY <1>2, <1>3, <2>1
  <1>5. ASSUME NEW i \in DOMAIN d.log, NEW j \in DOMAIN d.log, i < j
        PROVE  Before(Place(d.log[i]), Place(d.log[j]))
    <2>1. CASE j = n
      BY <1>3, <1>5, <2>1
    <2>2. CASE j # n
      <3>1. i \in DOMAIN e.log /\ j \in DOMAIN e.log
        BY <1>3, <1>5, <2>2
      <3> QED
        BY <1>3, <1>5, <3>1 DEF InOrder
    <2> QED
      BY <2>1, <2>2
  <1>6. /\ \A p : Logged(p, e) => Logged(p, d)
        /\ Logged(Place(x), d)
    BY <1>3 DEF Logged
  <1>7. ASSUME NEW p \in Places(d.rules), d.done \/ \E i \in DOMAIN d.log : Before(p, Place(d.log[i]))
        PROVE  Logged(p, d)
    <2>1. PICK i \in DOMAIN d.log : Before(p, Place(d.log[i]))
      BY <1>2, <1>7
    <2>2. CASE i = n
      BY <1>2, <1>3, <1>6, <2>1, <2>2
    <2>3. CASE i # n
      <3>1. Logged(p, e)
        BY <1>2, <1>3, <2>1, <2>3 DEF InOrder
      <3> QED
        BY <1>6, <3>1
    <2> QED
      BY <2>2, <2>3
  <1>8. InOrder(d)
    BY <1>4, <1>5, <1>7 DEF InOrder
  <1> QED
    BY <1>2, <1>3, <1>6, <1>8

(* After all of a rule comes the next rule.                                *)
LEMMA NextRule ==
  ASSUME NEW rules \in Seq(Rule), NEW i \in 1..Len(rules), NEW k \in Nat, NEW p \in Places(rules),
         \A j \in PlacesOf(rules[i]) : j < k, Before(p, <<i + 1, 0>>)
  PROVE  Before(p, <<i, k>>)
  <1>1. PICK h \in 1..Len(rules), j \in Nat : p = <<h, j>> /\ j \in PlacesOf(rules[h])
    BY PlacesAre
  <1> QED
    BY <1>1 DEF Before

(* What has been logged is a place.                                        *)
LEMMA LoggedPlace ==
  ASSUME NEW e \in Evaluation, NEW i \in DOMAIN e.log
  PROVE  /\ Place(e.log[i]) = <<e.log[i].rule, e.log[i].place>>
         /\ e.log[i].rule \in Nat /\ e.log[i].place \in Nat
  <1>1. e.log \in Seq(Execution)
    BY DEF Evaluation
  <1>2. e.log[i] \in Execution
    BY <1>1
  <1> QED
    BY <1>2 DEF Execution, Place

(* Being before a place is being before those that follow it.              *)
LEMMA FollowingPlaces ==
  ASSUME NEW a \in Nat, NEW b \in Nat, NEW i \in Nat, NEW k \in Nat, NEW p, p = <<a, b>>
  PROVE  /\ Before(p, <<i, k>>) \/ p = <<i, k>> => Before(p, <<i, k + 1>>) /\ Before(p, <<i + 1, 0>>)
         /\ Before(p, <<i, k + 1>>) => Before(p, <<i, k>>) \/ p = <<i, k>>
         /\ ~Before(p, <<1, 0>>) \/ a = 0
  BY DEF Before

(* A step of the one that evaluates, which leaves tickets and the log of   *)
(* classifications alone.                                                  *)
LEMMA RunGoesOn ==
  ASSUME LogInv, RunInv, NEW r \in Requests, requests[r] \in Evaluating,
         NEW e \in Evaluation, InOrder(e), NEW p \in Evaluating \cup {Free},
         p \in Evaluating => p.run = requests[r].run /\ RunFits(p, e),
         requests' = [requests EXCEPT ![r] = p],
         evaluations' = [evaluations EXCEPT ![requests[r].run] = e],
         UNCHANGED <<tickets, log, recommendations, rows, feedback, calls, scene>>
  PROVE  LogInv' /\ RunInv'
  <1>1. /\ requests' \in [Requests -> AnyRequest] /\ requests'[r] = p
        /\ \A s \in Requests \ {r} : requests'[s] = requests[s]
    BY DEF LogInv, AnyRequest
  <1>2. rows' \in [Tickets -> [Appending -> Nat]]
    BY DEF RunInv
  <1>3. RunInv'
    BY <1>1, <1>2, RunStepOfOne
  <1>4. RequestFits(p, log)
    BY KindsDiffer DEF RequestFits
  <1>5. LogInv'
    BY <1>1, <1>4, LogUntouched DEF LogInv
  <1> QED
    BY <1>3, <1>5

LEMMA AfterActionsStep ==
  ASSUME LogInv, RunInv, NEW r \in Requests, AfterActions(r), UNCHANGED <<feedback, calls, scene>>
  PROVE  /\ LogInv' /\ RunInv'
         /\ requests'[r].stage # "executed"
         /\ \A u \in Requests \ {r} : requests'[u] = requests[u]
         /\ UNCHANGED <<tickets, rows, evaluations, notes>>
  <1> DEFINE q == requests[r]
             e == evaluations[q.run]
             i == q.rule
             k == q.place
             p == [q EXCEPT !.stage = "rule", !.rule = i + 1, !.place = 0]
  <1>1. /\ q.stage = "action" /\ k > Len(ActionsOf(q))
        /\ requests' = [requests EXCEPT ![r] = p]
        /\ UNCHANGED <<tickets, log, recommendations, evaluations, rows, notes>>
    BY DEF AfterActions, At, LogInv
  <1>2. /\ q \in Evaluating /\ e \in Evaluation /\ e.rules \in Seq(Rule) /\ InOrder(e) /\ RunFits(q, e)
        /\ ActionsOf(q) = e.rules[i].actions /\ ActionsOf(q) \in Seq(Actions)
        /\ q.run \in DOMAIN evaluations
    BY <1>1, AtARun
  <1>3. i \in Nat /\ k \in Nat
    BY <1>2 DEF Evaluating
  <1>4. /\ p \in Evaluating /\ p.stage = "rule" /\ p.run = q.run /\ p.rule = i + 1 /\ p.place = 0
        /\ p.ok = q.ok
    <2>1. i + 1 \in Nat
      BY <1>3
    <2> HIDE DEF q, i
    <2> QED
      BY <1>2, <2>1 DEF Evaluating
  <1>5. i \in 1..Len(e.rules) /\ e.rules[i].condition = "met" /\ q.ok
    <2>1. StageFits(q, e) /\ i \in 1..(Len(e.rules) + 1)
      BY <1>2 DEF RunFits
    <2>2. i <= Len(e.rules) /\ e.rules[i].condition = "met" /\ q.ok
      BY <1>1, <2>1 DEF StageFits
    <2> DEFINE l == e.rules
    <2>3. l \in Seq(Rule) /\ i \in 1..(Len(l) + 1) /\ i <= Len(l)
      BY <1>2, <2>1, <2>2
    <2> HIDE DEF l, i
    <2>4. i \in 1..Len(l)
      BY <2>3
    <2> QED
      BY <2>2, <2>4 DEF l
  <1>6. \A j \in PlacesOf(e.rules[i]) : j < k
    <2> DEFINE l == ActionsOf(q)
    <2>1. PlacesOf(e.rules[i]) = DOMAIN l
      BY <1>2, <1>5 DEF PlacesOf
    <2>2. l \in Seq(Actions) /\ k > Len(l)
      BY <1>1, <1>2
    <2> HIDE DEF l, k
    <2>3. \A j \in DOMAIN l : j < k
      BY <1>3, <2>2
    <2> QED
      BY <2>1, <2>3
  <1>7. \A x \in Places(e.rules) : Before(x, Reached(p)) => Logged(x, e)
    <2> SUFFICES ASSUME NEW x \in Places(e.rules), Before(x, <<i + 1, 0>>) PROVE Logged(x, e)
      BY <1>4 DEF Reached
    <2>1. Before(x, <<i, k>>)
      BY <1>2, <1>3, <1>5, <1>6, NextRule
    <2> QED
      BY <1>2, <2>1 DEF RunFits, Reached
  <1>8. \A j \in DOMAIN e.log : Before(Place(e.log[j]), Reached(p))
    <2> SUFFICES ASSUME NEW j \in DOMAIN e.log PROVE Before(Place(e.log[j]), <<i + 1, 0>>)
      BY <1>4 DEF Reached
    <2>1. Before(Place(e.log[j]), <<i, k>>)
      BY <1>2 DEF RunFits, Reached
    <2>2. PICK a \in Nat, b \in Nat : Place(e.log[j]) = <<a, b>>
      BY <1>2, LoggedPlace
    <2>3. Before(<<a, b>>, <<i, k>>)
      BY <2>1, <2>2
    <2> QED
      BY <1>3, <2>2, <2>3 DEF Before
  <1> HIDE DEF p
  <1>9. RunFits(p, e)
    <2>1. StageFits(p, e)
      BY <1>4, <1>5 DEF StageFits
    <2>2. p.rule \in 1..(Len(e.rules) + 1)
      BY <1>4, <1>5, <1>2
    <2> QED
      BY <1>2, <1>7, <1>8, <2>1, <2>2 DEF RunFits
  <1>10. evaluations' = [evaluations EXCEPT ![q.run] = e]
    BY <1>1 DEF RunInv
  <1>11. LogInv' /\ RunInv'
    BY <1>1, <1>2, <1>4, <1>9, <1>10, RunGoesOn
  <1> QED
    BY <1>1, <1>4, <1>11 DEF LogInv

LEMMA AfterRulesStep ==
  ASSUME LogInv, RunInv, NEW r \in Requests, AfterRules(r), UNCHANGED <<feedback, calls, scene>>
  PROVE  /\ LogInv' /\ RunInv'
         /\ requests'[r].stage # "executed"
         /\ \A u \in Requests \ {r} : requests'[u] = requests[u]
         /\ evaluations' = [evaluations EXCEPT ![requests[r].run].done = TRUE]
         /\ requests[r].run \in DOMAIN evaluations
         /\ UNCHANGED <<tickets, rows, notes>>
  <1> DEFINE q == requests[r]
             e == evaluations[q.run]
             d == [e EXCEPT !.done = TRUE]
  <1>1. /\ q.stage = "rule" /\ q.rule > Len(RulesOf(q))
        /\ requests' = [requests EXCEPT ![r] = Free]
        /\ evaluations' = [evaluations EXCEPT ![q.run].done = TRUE]
        /\ UNCHANGED <<tickets, log, recommendations, rows, notes>>
    BY DEF AfterRules, At, Answer
  <1>2. /\ q \in Evaluating /\ e \in Evaluation /\ e.rules \in Seq(Rule) /\ InOrder(e) /\ RunFits(q, e)
        /\ RulesOf(q) = e.rules /\ q.run \in DOMAIN evaluations
    BY <1>1, AtARun
  <1>3. /\ d \in Evaluation /\ d.log = e.log /\ d.rules = e.rules /\ d.fired = e.fired
    BY <1>2 DEF Evaluation
  <1>4. \A p \in Places(e.rules) : Logged(p, e)
    <2> SUFFICES ASSUME NEW p \in Places(e.rules) PROVE Before(p, Reached(q))
      BY <1>2 DEF RunFits
    <2>1. PICK h \in 1..Len(e.rules), j \in Nat : p = <<h, j>>
      BY <1>2, PlacesAre
    <2>2. h < q.rule
      BY <1>1, <1>2, <2>1 DEF Evaluating
    <2> QED
      BY <2>1, <2>2 DEF Before, Reached
  <1> HIDE DEF d
  <1>5. InOrder(d)
    BY <1>2, <1>3, <1>4 DEF InOrder, Logged
  <1>6. evaluations' = [evaluations EXCEPT ![q.run] = d]
    BY <1>1, <1>2 DEF RunInv, d
  <1>7. LogInv' /\ RunInv'
    BY <1>1, <1>2, <1>3, <1>5, <1>6, KindsDiffer, RunGoesOn
  <1>8. requests'[r] = Free /\ \A u \in Requests \ {r} : requests'[u] = requests[u]
    BY <1>1 DEF LogInv
  <1> QED
    BY <1>1, <1>2, <1>7, <1>8 DEF Free

LEMMA EvaluateRuleStep ==
  ASSUME LogInv, RunInv, NEW r \in Requests, EvaluateRule(r), UNCHANGED <<feedback, calls, scene>>
  PROVE  /\ LogInv' /\ RunInv'
         /\ requests[r].stage # "executed" /\ requests'[r].stage # "executed"
         /\ \A u \in Requests \ {r} : requests'[u] = requests[u]
         /\ requests[r].run \in DOMAIN evaluations
         /\ \/ UNCHANGED evaluations
            \/ evaluations' = [evaluations EXCEPT ![requests[r].run].fired = @ \cup {requests[r].rule}]
            \/ evaluations' = [evaluations EXCEPT ![requests[r].run].log =
                 Append(@, [rule |-> requests[r].rule, place |-> requests[r].place,
                            action |-> "CONDITION_EVALUATION", ok |-> FALSE])]
         /\ UNCHANGED <<tickets, rows, notes>>
  <1> DEFINE q == requests[r]
             e == evaluations[q.run]
             i == q.rule
             rule == e.rules[i]
  <1>1. /\ q.stage = "rule" /\ i <= Len(RulesOf(q))
        /\ UNCHANGED <<tickets, log, recommendations, rows, notes>>
        /\ requests \in [Requests -> AnyRequest] /\ evaluations \in Seq(Evaluation)
    BY DEF EvaluateRule, At, LogInv, RunInv
  <1>2. /\ q \in Evaluating /\ e \in Evaluation /\ e.rules \in Seq(Rule) /\ InOrder(e) /\ RunFits(q, e)
        /\ RulesOf(q) = e.rules /\ q.run \in DOMAIN evaluations
    BY <1>1, AtARun
  <1>3. i \in 1..Len(e.rules) /\ q.place = 0 /\ q.ok = TRUE
    BY <1>1, <1>2 DEF RunFits, StageFits, Evaluating
  <1>4. rule \in Rule /\ rule.actions \in Seq(Actions) /\ i \in Nat
    <2>1. rule \in Rule /\ i \in Nat
      BY <1>2, <1>3
    <2>2. rule.actions \in Seq(Actions)
      BY <2>1 DEF Rule
    <2> QED
      BY <2>1, <2>2
  <1>5. /\ \A x \in Places(e.rules) : Before(x, <<i, 0>>) => Logged(x, e)
        /\ \A j \in DOMAIN e.log : Before(Place(e.log[j]), <<i, 0>>)
        /\ ~e.done
    BY <1>2, <1>3 DEF RunFits, Reached
  <1>6. ASSUME rule.condition = "met",
               evaluations' = [evaluations EXCEPT ![q.run].fired = @ \cup {i}],
               requests' = [requests EXCEPT ![r].stage = "action", ![r].place = 1]
        PROVE  LogInv' /\ RunInv' /\ requests'[r].stage = "action"
    <2> DEFINE d == [e EXCEPT !.fired = e.fired \cup {i}]
               p == [q EXCEPT !.stage = "action", !.place = 1]
    <2>1. /\ d \in Evaluation /\ d.log = e.log /\ d.rules = e.rules /\ d.done = e.done
          /\ d.fired = e.fired \cup {i}
      <3>1. e.fired \cup {i} \in SUBSET Nat
        BY <1>2, <1>4 DEF Evaluation
      <3> HIDE DEF e, i
      <3> QED
        BY <1>2, <3>1 DEF Evaluation
    <2>2. /\ p \in Evaluating /\ p.stage = "action" /\ p.run = q.run /\ p.rule = i /\ p.place = 1
          /\ p.ok = q.ok
      <3> HIDE DEF q
      <3> QED
        BY <1>2 DEF Evaluating
    <2>3. evaluations' = [evaluations EXCEPT ![q.run] = d] /\ requests' = [requests EXCEPT ![r] = p]
      BY <1>1, <1>2, <1>6
    <2> HIDE DEF d, p
    <2>4. InOrder(d)
      <3>1. \A x \in Execution : Rightly(x, e.rules, e.fired) => Rightly(x, d.rules, d.fired)
        BY <2>1 DEF Rightly
      <3>2. \A j \in DOMAIN e.log : e.log[j] \in Execution /\ Rightly(e.log[j], e.rules, e.fired)
        <4>1. e.log \in Seq(Execution)
          BY <1>2 DEF Evaluation
        <4> QED
          BY <1>2, <4>1 DEF InOrder
      <3>3. \A x \in Places(e.rules) : Logged(x, d) <=> Logged(x, e)
        BY <2>1 DEF Logged
      <3> QED
        BY <1>2, <2>1, <3>1, <3>2, <3>3 DEF InOrder
    <2>5. StageFits(p, d)
      <3>1. 1 \in 1..(Len(rule.actions) + 1)
        <4> DEFINE l == rule.actions
        <4>1. l \in Seq(Actions)
          BY <1>4
        <4> HIDE DEF l
        <4>2. 1 \in 1..(Len(l) + 1)
          BY <4>1
        <4> QED
          BY <4>2 DEF l
      <3> QED
        <4>1. p.stage = "action" /\ p.rule = i /\ p.place = 1 /\ p.ok
          BY <1>3, <2>2
        <4>2. i \in d.fired /\ i <= Len(d.rules)
          BY <1>1, <1>2, <2>1
        <4>3. d.rules[i].condition = "met" /\ d.rules[i].actions = rule.actions
          BY <1>6, <2>1
        <4> HIDE DEF i, rule
        <4> QED
          BY <3>1, <4>1, <4>2, <4>3 DEF StageFits
    <2>6. \A x \in Places(d.rules) : Before(x, Reached(p)) => Logged(x, d)
      <3> SUFFICES ASSUME NEW x \in Places(e.rules), Before(x, <<i, 1>>) PROVE Logged(x, e)
        BY <2>1, <2>2 DEF Reached, Logged
      <3>1. PICK h \in 1..Len(e.rules), j \in Nat : x = <<h, j>> /\ j \in PlacesOf(e.rules[h])
        BY <1>2, PlacesAre
      <3>2. ~(h = i /\ j = 0)
        <4> SUFFICES ASSUME h = i PROVE j # 0
          OBVIOUS
        <4> DEFINE l == rule.actions
        <4>1. l \in Seq(Actions) /\ j \in DOMAIN l
          BY <1>4, <1>6, <3>1 DEF PlacesOf
        <4> HIDE DEF l
        <4> QED
          BY <4>1
      <3>3. Before(x, <<i, 0>>)
        BY <1>4, <3>1, <3>2 DEF Before
      <3> QED
        BY <1>5, <3>3
    <2>7. \A j \in DOMAIN d.log : Before(Place(d.log[j]), Reached(p))
      <3> SUFFICES ASSUME NEW j \in DOMAIN e.log PROVE Before(Place(e.log[j]), <<i, 1>>)
        BY <2>1, <2>2 DEF Reached
      <3>1. PICK a \in Nat, b \in Nat : Place(e.log[j]) = <<a, b>>
        BY <1>2, LoggedPlace
      <3>2. Before(<<a, b>>, <<i, 0>>)
        BY <1>5, <3>1
      <3> QED
        BY <1>4, <3>1, <3>2 DEF Before
    <2>8. RunFits(p, d)
      <3>1. ~d.done /\ p.rule \in 1..(Len(d.rules) + 1)
        BY <1>3, <1>5, <2>1, <2>2
      <3> QED
        BY <2>5, <2>6, <2>7, <3>1 DEF RunFits
    <2>9. LogInv' /\ RunInv'
      BY <1>1, <1>2, <2>1, <2>2, <2>3, <2>4, <2>8, RunGoesOn
    <2> QED
      BY <1>1, <2>2, <2>3, <2>9
  <1>7. ASSUME NEW d \in Evaluation, d.rules = e.rules, ~d.done, InOrder(d),
               \A x : Logged(x, e) => Logged(x, d),
               \A j \in PlacesOf(rule) : Logged(<<i, j>>, d),
               \A j \in DOMAIN d.log : Place(d.log[j]) = <<i, 0>> \/ Before(Place(d.log[j]), <<i, 0>>),
               evaluations' = [evaluations EXCEPT ![q.run] = d],
               requests' = [requests EXCEPT ![r].rule = @ + 1]
        PROVE  LogInv' /\ RunInv' /\ requests'[r].stage = "rule"
    <2> DEFINE p == [q EXCEPT !.rule = i + 1]
    <2>1. /\ p \in Evaluating /\ p.stage = "rule" /\ p.run = q.run /\ p.rule = i + 1 /\ p.place = 0
          /\ p.ok = q.ok
      <3>1. i + 1 \in Nat /\ q.stage = "rule" /\ q.place = 0 /\ q \in Evaluating
        BY <1>1, <1>2, <1>3, <1>4
      <3> HIDE DEF q, i
      <3> QED
        BY <3>1 DEF Evaluating
    <2>2. requests' = [requests EXCEPT ![r] = p]
      BY <1>1, <1>7
    <2> HIDE DEF p
    <2>3. StageFits(p, d)
      BY <1>3, <2>1 DEF StageFits
    <2>4. \A x \in Places(d.rules) : Before(x, Reached(p)) => Logged(x, d)
      <3> SUFFICES ASSUME NEW x \in Places(e.rules), Before(x, <<i + 1, 0>>) PROVE Logged(x, d)
        BY <1>7, <2>1 DEF Reached
      <3>1. PICK h \in 1..Len(e.rules), j \in Nat : x = <<h, j>> /\ j \in PlacesOf(e.rules[h])
        BY <1>2, PlacesAre
      <3>2. CASE h = i
        BY <1>7, <3>1, <3>2
      <3>3. CASE h # i
        <4>1. Before(x, <<i, 0>>)
          BY <1>4, <3>1, <3>3 DEF Before
        <4> QED
          BY <1>5, <1>7, <4>1
      <3> QED
        BY <3>2, <3>3
    <2>5. \A j \in DOMAIN d.log : Before(Place(d.log[j]), Reached(p))
      <3> SUFFICES ASSUME NEW j \in DOMAIN d.log PROVE Before(Place(d.log[j]), <<i + 1, 0>>)
        BY <2>1 DEF Reached
      <3>1. PICK a \in Nat, b \in Nat : Place(d.log[j]) = <<a, b>>
        BY LoggedPlace
      <3>2. <<a, b>> = <<i, 0>> \/ Before(<<a, b>>, <<i, 0>>)
        BY <1>7, <3>1
      <3> QED
        BY <1>4, <3>1, <3>2 DEF Before
    <2>6. RunFits(p, d)
      <3>1. p.rule \in 1..(Len(d.rules) + 1)
        BY <1>2, <1>3, <1>7, <2>1
      <3> QED
        BY <1>7, <2>3, <2>4, <2>5, <3>1 DEF RunFits
    <2>7. LogInv' /\ RunInv'
      BY <1>1, <1>2, <1>7, <2>1, <2>2, <2>6, RunGoesOn
    <2> QED
      BY <1>1, <2>1, <2>2, <2>7
  <1>8. ASSUME rule.condition = "unmet", UNCHANGED evaluations, requests' = [requests EXCEPT ![r].rule = @ + 1]
        PROVE  LogInv' /\ RunInv' /\ requests'[r].stage = "rule"
    <2>1. PlacesOf(rule) = {}
      BY <1>8 DEF PlacesOf
    <2>2. evaluations' = [evaluations EXCEPT ![q.run] = e]
      BY <1>1, <1>8
    <2> QED
      BY <1>2, <1>5, <1>7, <1>8, <2>1, <2>2
  <1>9. ASSUME rule.condition = "broken", Executed([q EXCEPT !.ok = FALSE], "CONDITION_EVALUATION"),
               requests' = [requests EXCEPT ![r].rule = @ + 1]
        PROVE  /\ LogInv' /\ RunInv' /\ requests'[r].stage = "rule"
               /\ evaluations' = [evaluations EXCEPT ![q.run].log =
                    Append(@, [rule |-> i, place |-> q.place, action |-> "CONDITION_EVALUATION", ok |-> FALSE])]
    <2> DEFINE x == [rule |-> i, place |-> q.place, action |-> "CONDITION_EVALUATION", ok |-> FALSE]
               d == [e EXCEPT !.log = Append(e.log, x)]
               o == [q EXCEPT !.ok = FALSE]
    <2>1. o.run = q.run /\ o.rule = q.rule /\ o.place = q.place /\ o.ok = FALSE
      <3> HIDE DEF q
      <3> QED
        BY <1>2 DEF Evaluating
    <2>2. evaluations' = [evaluations EXCEPT ![q.run].log = Append(@, x)]
      <3> HIDE DEF o
      <3> QED
        BY <1>9, <2>1 DEF Executed, o
    <2>3. evaluations' = [evaluations EXCEPT ![q.run] = d]
      BY <1>1, <1>2, <2>2
    <2>4. x \in Execution /\ Place(x) = <<i, 0>>
      BY <1>3, <1>4 DEF Execution, Place
    <2>5. PlacesOf(rule) = {0}
      BY <1>9 DEF PlacesOf
    <2>6. Rightly(x, e.rules, e.fired)
      <3>1. <<i, 0>> \in Places(e.rules)
        BY <1>2, <1>3, <2>5, PlacesAre
      <3> QED
        BY <1>3, <2>4, <3>1 DEF Rightly
    <2> HIDE DEF x
    <2>7. /\ d \in Evaluation /\ d.rules = e.rules /\ ~d.done /\ InOrder(d)
          /\ \A p : Logged(p, e) => Logged(p, d)
          /\ Logged(<<i, 0>>, d)
          /\ \A j \in DOMAIN d.log : Place(d.log[j]) = <<i, 0>> \/ Before(Place(d.log[j]), <<i, 0>>)
      <3> HIDE DEF e, i
      <3> QED
        BY <1>2, <1>5, <2>4, <2>6, OneMoreLogged
    <2> HIDE DEF d
    <2> QED
      BY <1>7, <1>9, <2>2, <2>3, <2>5, <2>7 DEF x
  <1>10. \/ /\ rule.condition = "met"
            /\ evaluations' = [evaluations EXCEPT ![q.run].fired = @ \cup {i}]
            /\ requests' = [requests EXCEPT ![r].stage = "action", ![r].place = 1]
         \/ /\ rule.condition = "broken"
            /\ Executed([q EXCEPT !.ok = FALSE], "CONDITION_EVALUATION")
            /\ requests' = [requests EXCEPT ![r].rule = @ + 1]
         \/ /\ rule.condition = "unmet"
            /\ requests' = [requests EXCEPT ![r].rule = @ + 1]
            /\ UNCHANGED evaluations
    BY <1>2 DEF EvaluateRule
  <1>11. \A u \in Requests \ {r} : requests'[u] = requests[u]
    BY <1>1, <1>10
  <1> HIDE DEF q, e, i, rule
  <1> QED
    BY <1>1, <1>2, <1>6, <1>8, <1>9, <1>10, <1>11 DEF q, i

LEMMA LogExecutionStep ==
  ASSUME LogInv, RunInv, NEW r \in Requests, LogExecution(r), UNCHANGED <<feedback, calls, scene>>
  PROVE  /\ LogInv' /\ RunInv'
         /\ requests[r].stage = "executed" /\ requests'[r].stage # "executed"
         /\ \A u \in Requests \ {r} : requests'[u] = requests[u]
         /\ requests[r].run \in DOMAIN evaluations
         /\ evaluations' = [evaluations EXCEPT ![requests[r].run].log =
              Append(@, [rule |-> requests[r].rule, place |-> requests[r].place,
                         action |-> ActionsOf(requests[r])[requests[r].place], ok |-> requests[r].ok])]
         /\ UNCHANGED <<tickets, rows, notes>>
  <1> DEFINE q == requests[r]
             e == evaluations[q.run]
             i == q.rule
             k == q.place
             a == ActionsOf(q)[k]
             x == [rule |-> i, place |-> k, action |-> a, ok |-> q.ok]
             d == [e EXCEPT !.log = Append(e.log, x)]
             p == [q EXCEPT !.stage = "action", !.place = k + 1, !.ok = TRUE]
  <1>1. /\ q.stage = "executed"
        /\ evaluations' = [evaluations EXCEPT ![q.run].log = Append(@, x)]
        /\ requests' = [requests EXCEPT ![r] = p]
        /\ UNCHANGED <<tickets, log, recommendations, rows, notes>>
    BY DEF LogExecution, At, Executed, NextAction
  <1>2. /\ q \in Evaluating /\ e \in Evaluation /\ e.rules \in Seq(Rule) /\ InOrder(e) /\ RunFits(q, e)
        /\ ActionsOf(q) = e.rules[i].actions /\ ActionsOf(q) \in Seq(Actions)
        /\ q.run \in DOMAIN evaluations
    BY <1>1, AtARun
  <1>3. i \in Nat /\ k \in Nat /\ q.ok \in BOOLEAN
    BY <1>2 DEF Evaluating
  <1>4. /\ i \in e.fired /\ i \in 1..Len(e.rules) /\ e.rules[i].condition = "met"
        /\ k \in 1..Len(ActionsOf(q)) /\ (q.ok => a # "invalid")
    <2>1. StageFits(q, e) /\ i \in 1..(Len(e.rules) + 1)
      BY <1>2 DEF RunFits
    <2>2. /\ i \in e.fired /\ i <= Len(e.rules) /\ e.rules[i].condition = "met"
          /\ k \in 1..(Len(ActionsOf(q)) + 1) /\ k <= Len(ActionsOf(q)) /\ (q.ok => a # "invalid")
      BY <1>1, <1>2, <2>1 DEF StageFits, ActionAt
    <2>3. i \in 1..Len(e.rules)
      <3> DEFINE l == e.rules
      <3>1. l \in Seq(Rule) /\ i \in 1..(Len(l) + 1) /\ i <= Len(l)
        BY <1>2, <2>1, <2>2
      <3> HIDE DEF l, i
      <3>2. i \in 1..Len(l)
        BY <3>1
      <3> QED
        BY <3>2 DEF l
    <2>4. k \in 1..Len(ActionsOf(q))
      <3> DEFINE l == ActionsOf(q)
      <3>1. l \in Seq(Actions) /\ k \in 1..(Len(l) + 1) /\ k <= Len(l)
        BY <1>2, <2>2
      <3> HIDE DEF l, k
      <3>2. k \in 1..Len(l)
        BY <3>1
      <3> QED
        BY <3>2 DEF l
    <2> QED
      BY <2>2, <2>3, <2>4
  <1>5. a \in Actions
    <2> DEFINE l == ActionsOf(q)
    <2>1. l \in Seq(Actions) /\ k \in 1..Len(l)
      BY <1>2, <1>4
    <2> HIDE DEF l, k
    <2>2. l[k] \in Actions
      BY <2>1
    <2> QED
      BY <2>2 DEF l
  <1> HIDE DEF a
  <1>6. /\ x \in Execution /\ Place(x) = <<i, k>> /\ x.rule = i /\ x.place = k /\ x.action = a
        /\ x.ok = q.ok
    BY <1>3, <1>5 DEF Execution, Place
  <1>7. Rightly(x, e.rules, e.fired)
    <2>1. k \in PlacesOf(e.rules[i])
      BY <1>2, <1>4 DEF PlacesOf
    <2>2. <<i, k>> \in Places(e.rules)
      BY <1>2, <1>3, <1>4, <2>1, PlacesAre
    <2>3. x.action = e.rules[x.rule].actions[x.place]
      BY <1>2, <1>6 DEF a
    <2>4. k # 0
      BY <1>4
    <2> HIDE DEF x, e, i, k
    <2> QED
      BY <1>4, <1>6, <2>2, <2>3, <2>4 DEF Rightly
  <1>8. /\ \A y \in Places(e.rules) : Before(y, <<i, k>>) => Logged(y, e)
        /\ \A j \in DOMAIN e.log : Before(Place(e.log[j]), <<i, k>>)
        /\ ~e.done
    BY <1>2 DEF RunFits, Reached
  <1> HIDE DEF x
  <1>9. /\ d \in Evaluation /\ d.rules = e.rules /\ d.fired = e.fired /\ ~d.done /\ InOrder(d)
        /\ \A y : Logged(y, e) => Logged(y, d)
        /\ Logged(<<i, k>>, d)
        /\ \A j \in DOMAIN d.log : Place(d.log[j]) = <<i, k>> \/ Before(Place(d.log[j]), <<i, k>>)
    <2> HIDE DEF e, i, k
    <2>0. e \in Evaluation /\ InOrder(e) /\ ~e.done /\ x \in Execution /\ Rightly(x, e.rules, e.fired)
      BY <1>2, <1>6, <1>7, <1>8
    <2>1. /\ \A j \in DOMAIN e.log : Before(Place(e.log[j]), Place(x))
          /\ \A y \in Places(e.rules) : Before(y, Place(x)) => Logged(y, e)
      BY <1>6, <1>8
    <2>2. d = [e EXCEPT !.log = Append(e.log, x)]
      OBVIOUS
    <2> HIDE DEF d
    <2>3. /\ d \in Evaluation /\ d.rules = e.rules /\ d.fired = e.fired /\ ~d.done /\ InOrder(d)
          /\ \A y : Logged(y, e) => Logged(y, d)
          /\ Logged(Place(x), d)
          /\ \A j \in DOMAIN d.log : Place(d.log[j]) = Place(x) \/ Before(Place(d.log[j]), Place(x))
      BY <2>0, <2>1, <2>2, OneMoreLogged
    <2> QED
      BY <1>6, <2>3
  <1>10. evaluations' = [evaluations EXCEPT ![q.run] = d]
    <2>1. evaluations \in Seq(Evaluation)
      BY DEF RunInv
    <2> QED
      BY <1>1, <1>2, <2>1
  <1> HIDE DEF d
  <1>11. /\ p \in Evaluating /\ p.stage = "action" /\ p.run = q.run /\ p.rule = i /\ p.place = k + 1
         /\ p.ok = TRUE
    <2>1. k + 1 \in Nat
      BY <1>3
    <2> HIDE DEF q, i, k
    <2> QED
      BY <1>2, <2>1 DEF Evaluating, i
  <1> HIDE DEF p
  <1>12. StageFits(p, d)
    <2>1. k + 1 \in 1..(Len(ActionsOf(q)) + 1)
      <3> DEFINE l == ActionsOf(q)
      <3>1. l \in Seq(Actions) /\ k \in 1..Len(l)
        BY <1>2, <1>4
      <3> HIDE DEF l, k
      <3>2. k + 1 \in 1..(Len(l) + 1)
        BY <3>1
      <3> QED
        BY <3>2 DEF l
    <2>2. i <= Len(e.rules)
      BY <1>2, <1>4
    <2> QED
      BY <1>2, <1>4, <1>9, <1>11, <2>1, <2>2 DEF StageFits
  <1>13. \A y \in Places(d.rules) : Before(y, Reached(p)) => Logged(y, d)
    <2> SUFFICES ASSUME NEW y \in Places(e.rules), Before(y, <<i, k + 1>>) PROVE Logged(y, d)
      BY <1>9, <1>11 DEF Reached
    <2>1. PICK h \in Nat, j \in Nat : y = <<h, j>>
      BY <1>2, PlacesAre
    <2>2. Before(y, <<i, k>>) \/ y = <<i, k>>
      BY <1>3, <2>1 DEF Before
    <2> QED
      BY <1>8, <1>9, <2>2
  <1>14. \A j \in DOMAIN d.log : Before(Place(d.log[j]), Reached(p))
    <2> SUFFICES ASSUME NEW j \in DOMAIN d.log PROVE Before(Place(d.log[j]), <<i, k + 1>>)
      BY <1>11 DEF Reached
    <2>1. PICK b \in Nat, c \in Nat : Place(d.log[j]) = <<b, c>>
      BY <1>9, LoggedPlace
    <2>2. <<b, c>> = <<i, k>> \/ Before(<<b, c>>, <<i, k>>)
      BY <1>9, <2>1
    <2> QED
      BY <1>3, <2>1, <2>2 DEF Before
  <1>15. RunFits(p, d)
    <2>1. p.rule \in 1..(Len(d.rules) + 1)
      BY <1>2, <1>4, <1>9, <1>11
    <2> QED
      BY <1>9, <1>12, <1>13, <1>14, <2>1 DEF RunFits
  <1>16. LogInv' /\ RunInv'
    BY <1>1, <1>2, <1>9, <1>10, <1>11, <1>15, RunGoesOn
  <1>17. requests'[r] = p /\ \A u \in Requests \ {r} : requests'[u] = requests[u]
    BY <1>1 DEF LogInv
  <1> QED
    BY <1>1, <1>2, <1>11, <1>16, <1>17 DEF x, a

(* An event finds the rules there are then.                                *)
LEMMA EvaluateAndExecuteStep ==
  ASSUME LogInv, RunInv, NEW r \in Requests, At(r, "free"), EvaluateAndExecute(r),
         calls' = calls + 1, scene' = scene, UNCHANGED <<tickets, log, recommendations, rows>>
  PROVE  /\ LogInv' /\ RunInv'
         /\ requests'[r].stage # "executed"
         /\ \A u \in Requests \ {r} : requests'[u] = requests[u]
         /\ \E e \in Evaluation : e.log = <<>> /\ evaluations' = Append(evaluations, e)
  <1> DEFINE n == Len(evaluations) + 1
             p == [stage |-> "rule", run |-> n, rule |-> 1, place |-> 0, seen |-> 0, ok |-> TRUE]
  <1>1. PICK t \in Tickets, rules \in scene.rules :
          evaluations' = Append(evaluations,
            [ticket |-> t, rules |-> rules, fired |-> {}, log |-> <<>>, done |-> FALSE])
    BY DEF EvaluateAndExecute
  <1> DEFINE e == [ticket |-> t, rules |-> rules, fired |-> {}, log |-> <<>>, done |-> FALSE]
  <1>2. rules \in RuleLists /\ rules \in Seq(Rule)
    <2>1. scene \in Scenes
      BY DEF LogInv
    <2>2. scene.rules \in SUBSET RuleLists
      BY <2>1, AutomationAssumption
    <2> QED
      BY <2>2, AutomationAssumption
  <1>3. e \in Evaluation /\ e.rules = rules /\ e.log = <<>> /\ e.fired = {} /\ ~e.done
    BY <1>2 DEF Evaluation
  <1> HIDE DEF e
  <1>4. /\ evaluations \in Seq(Evaluation) /\ n \in Nat
        /\ evaluations' = Append(evaluations, e)
    BY <1>1 DEF RunInv, e
  <1>5. /\ evaluations' \in Seq(Evaluation) /\ DOMAIN evaluations' = DOMAIN evaluations \cup {n}
        /\ n \notin DOMAIN evaluations
        /\ evaluations'[n] = e /\ \A k \in DOMAIN evaluations : evaluations'[k] = evaluations[k]
    BY <1>3, <1>4
  <1>6. /\ p \in Evaluating /\ p.stage = "rule" /\ p.run = n /\ p.rule = 1 /\ p.place = 0 /\ p.ok = TRUE
        /\ requests' = [requests EXCEPT ![r] = p]
    BY <1>4 DEF Evaluating, EvaluateAndExecute
  <1> HIDE DEF n, p
  <1>7. /\ requests' \in [Requests -> AnyRequest] /\ requests'[r] = p
        /\ \A s \in Requests \ {r} : requests'[s] = requests[s]
    BY <1>6 DEF LogInv, AnyRequest
  <1>8. ASSUME NEW x \in Places(rules) PROVE x[1] \in Nat /\ x[1] >= 1 /\ x[2] \in Nat
    <2>1. PICK h \in 1..Len(rules), j \in Nat : x = <<h, j>>
      BY <1>2, PlacesAre
    <2> QED
      BY <2>1
  <1>9. InOrder(e)
    BY <1>3 DEF InOrder
  <1>10. RunFits(p, e)
    <2>1. StageFits(p, e)
      BY <1>6 DEF StageFits
    <2>2. \A x \in Places(e.rules) : ~Before(x, Reached(p))
      BY <1>3, <1>6, <1>8 DEF Before, Reached
    <2>3. p.rule \in 1..(Len(e.rules) + 1)
      BY <1>2, <1>3, <1>6
    <2> QED
      BY <1>3, <2>1, <2>2, <2>3 DEF RunFits
  <1>11. \A run \in DOMAIN evaluations' : InOrder(evaluations'[run])
    BY <1>5, <1>9 DEF RunInv
  <1>12. ASSUME NEW s \in Requests, requests'[s] \in Evaluating
         PROVE  /\ requests'[s].run \in DOMAIN evaluations'
                /\ RunFits(requests'[s], evaluations'[requests'[s].run])
                /\ s # r => requests'[s].run # n
    <2>1. CASE s = r
      BY <1>5, <1>6, <1>7, <1>10, <2>1
    <2>2. CASE s # r
      <3>1. requests[s].run \in DOMAIN evaluations /\ RunFits(requests[s], evaluations[requests[s].run])
        BY <1>7, <1>12, <2>2 DEF RunInv
      <3> QED
        BY <1>5, <1>7, <2>2, <3>1
    <2> QED
      BY <2>1, <2>2
  <1>13. ASSUME NEW s \in Requests, NEW u \in Requests, s # u,
                requests'[s] \in Evaluating, requests'[u] \in Evaluating
         PROVE  requests'[s].run # requests'[u].run
    <2>1. CASE s # r /\ u # r
      BY <1>7, <1>13, <2>1 DEF RunInv
    <2>2. CASE s = r
      BY <1>6, <1>7, <1>12, <1>13, <2>2
    <2>3. CASE u = r
      BY <1>6, <1>7, <1>12, <1>13, <2>3
    <2> QED
      BY <2>1, <2>2, <2>3
  <1>14. rows' \in [Tickets -> [Appending -> Nat]]
    BY DEF RunInv
  <1>15. RunInv'
    BY <1>5, <1>11, <1>12, <1>13, <1>14 DEF RunInv
  <1>16. RequestFits(p, log)
    BY <1>6, KindsDiffer DEF RequestFits
  <1>17. feedback' = feedback
    BY DEF EvaluateAndExecute
  <1>18. LogInv'
    BY <1>7, <1>16, <1>17, LogUntouched DEF LogInv
  <1> QED
    BY <1>3, <1>4, <1>6, <1>7, <1>15, <1>18

(* A request that dies leaves things as they are.                          *)
LEMMA DieStep ==
  ASSUME LogInv, RunInv, NEW r \in Requests, Die(r), scene' = scene
  PROVE  /\ LogInv' /\ RunInv'
         /\ requests'[r] = Free
         /\ \A u \in Requests \ {r} : requests'[u] = requests[u]
  <1>1. /\ requests' = [requests EXCEPT ![r] = Free]
        /\ UNCHANGED <<tickets, log, recommendations, feedback, evaluations, rows, calls, notes>>
    BY DEF Die, Answer, aiVars
  <1>2. /\ requests' \in [Requests -> AnyRequest] /\ requests'[r] = Free
        /\ \A s \in Requests \ {r} : requests'[s] = requests[s]
    BY <1>1, FreeFits DEF LogInv
  <1>3. requests'[r] \notin Evaluating /\ RequestFits(requests'[r], log)
    BY <1>2, FreeFits, KindsDiffer
  <1>4. LogInv'
    BY <1>1, <1>2, <1>3, LogUntouched DEF LogInv
  <1>5. RunInv'
    BY <1>1, <1>2, <1>3, RunUntouched
  <1> QED
    BY <1>2, <1>4, <1>5

(***************************************************************************)
(* Every step of a machine.                                                *)
(***************************************************************************)

(* An evaluation is added with nothing logged, or goes on: it keeps its    *)
(* ticket and rules, and logs nothing or what its request has executed.    *)
GoesOn(r) ==
  /\ \A u \in Requests \ {r} : requests'[u] = requests[u]
  /\ DOMAIN evaluations \subseteq DOMAIN evaluations'
  /\ \A k \in DOMAIN evaluations' \ DOMAIN evaluations : evaluations'[k].log = <<>>
  /\ \A k \in DOMAIN evaluations :
       LET d == evaluations'[k]
           e == evaluations[k]
           q == requests[r]
       IN  /\ d.ticket = e.ticket /\ d.rules = e.rules
           /\ \/ d.log = e.log
              \/ /\ q \in Evaluating /\ k = q.run
                 /\ \E x \in Execution :
                      /\ d.log = Append(e.log, x)
                      /\ x.ok => q.stage = "executed" /\ q.ok /\ x.action = ActionsOf(q)[q.place]

(* What it is about to log as a success has left its row.                  *)
Leaves(r) ==
  LET q == requests[r]
      t == TicketOf(q)
      a == ActionsOf(q)[q.place]
  IN
  \/ /\ requests'[r].stage # "executed" \/ ~requests'[r].ok
     /\ UNCHANGED <<rows, notes>>
  \/ /\ requests'[r].run = q.run /\ Reached(requests'[r]) = Reached(q)
     /\ UNCHANGED evaluations
     /\ \/ /\ t \in Tickets /\ a \in Appending
           /\ rows' = [rows EXCEPT ![t][a] = @ + 1] /\ UNCHANGED notes
        \/ /\ a = "CHANGE_PRIORITY" \/ (a = "ADD_TAG" /\ tickets'[t].tagged)
           /\ UNCHANGED <<rows, notes>>
        \/ /\ a = "SEND_NOTIFICATION" /\ UNCHANGED rows
           /\ \E channel \in Channels : notes' = Append(notes, Queued(channel))

KeepsTags == \A t \in Tickets : tickets[t].tagged => tickets'[t].tagged

(* A step that leaves the evaluations alone.                               *)
LEMMA NothingLogged ==
  ASSUME NEW r \in Requests, \A u \in Requests \ {r} : requests'[u] = requests[u],
         evaluations' = evaluations
  PROVE  GoesOn(r)
  BY DEF GoesOn

(* A classifier's request stays one until it is answered.                  *)
LEMMA ClassifierRequest ==
  ASSUME LogInv', NEW r \in Requests,
         requests'[r].stage \in {"free", "log", "apply", "recommend", "mark", "correct", "record"}
  PROVE  requests'[r] \notin Evaluating /\ requests'[r].stage # "executed"
  <1>1. requests'[r] \in AnyRequest
    BY DEF LogInv
  <1>2. requests'[r] = Free \/ requests'[r] \in Classifying \/ requests'[r] \in Overriding
    BY <1>1, StageTells
  <1> QED
    BY <1>2, KindsDiffer

(* Every step of the classifier.                                           *)
LEMMA ClassifierStep ==
  ASSUME LogInv, RunInv, NEW r \in Requests, UNCHANGED <<feedback, calls, scene>>,
         \/ LogClassification(r) \/ ApplyClassification(r) \/ StoreRecommendation(r)
         \/ MarkOverridden(r) \/ CorrectTicket(r) \/ RecordOverride(r)
  PROVE  LogInv' /\ RunInv' /\ GoesOn(r) /\ Leaves(r) /\ KeepsTags
  <1> DEFINE q == requests[r]
  <1>1. LogInv'
    BY LogClassificationStep, ApplyClassificationStep, StoreRecommendationStep, MarkOverriddenStep,
       CorrectTicketStep, RecordOverrideStep
  <1>2. UNCHANGED <<evaluations, rows, notes>>
    BY DEF LogClassification, ApplyClassification, StoreRecommendation, MarkOverridden, CorrectTicket,
           RecordOverride
  <1>3. q \in AnyRequest /\ requests \in [Requests -> AnyRequest]
    BY DEF LogInv
  <1>4. /\ requests'[r].stage \in {"free", "log", "apply", "recommend", "mark", "correct", "record"}
        /\ \A u \in Requests \ {r} : requests'[u] = requests[u]
    <2>1. CASE LogClassification(r)
      <3>1. q \in Classifying
        BY <1>3, <2>1, StageTells DEF LogClassification, At
      <3>2. requests' = [requests EXCEPT ![r].stage = "apply", ![r].entry = Len(log) + 1]
        BY <2>1 DEF LogClassification
      <3> QED
        BY <1>3, <3>1, <3>2 DEF Classifying
    <2>2. CASE ApplyClassification(r)
      <3>1. q \in Classifying
        BY <1>3, <2>2, StageTells DEF ApplyClassification, At
      <3>2. requests' = [requests EXCEPT ![r].stage = "recommend"]
        BY <2>2 DEF ApplyClassification, Goto
      <3> QED
        BY <1>3, <3>1, <3>2 DEF Classifying
    <2>3. CASE StoreRecommendation(r)
      <3>1. q \in Classifying
        BY <1>3, <2>3, StageTells DEF StoreRecommendation, At
      <3>2. \/ requests' = [requests EXCEPT ![r] = Free]
            \/ requests' = [requests EXCEPT ![r].stored = @ + 1]
        BY <2>3 DEF StoreRecommendation, Answer
      <3> QED
        BY <1>3, <3>1, <3>2 DEF Classifying, Free
    <2>4. CASE MarkOverridden(r)
      <3>1. q \in Overriding
        BY <1>3, <2>4, StageTells DEF MarkOverridden, At
      <3>2. requests' = [requests EXCEPT ![r].stage = "correct"]
        BY <2>4 DEF MarkOverridden, Goto
      <3> QED
        BY <1>3, <3>1, <3>2 DEF Overriding
    <2>5. CASE CorrectTicket(r)
      <3>1. q \in Overriding
        BY <1>3, <2>5, StageTells DEF CorrectTicket, At
      <3>2. requests' = [requests EXCEPT ![r].stage = "record"]
        BY <2>5 DEF CorrectTicket, Goto
      <3> QED
        BY <1>3, <3>1, <3>2 DEF Overriding
    <2>6. CASE RecordOverride(r)
      <3>1. requests' = [requests EXCEPT ![r] = Free]
        BY <2>6 DEF RecordOverride, Answer
      <3> QED
        BY <1>3, <3>1 DEF Free
    <2> QED
      BY <2>1, <2>2, <2>3, <2>4, <2>5, <2>6
  <1>5. requests'[r] \notin Evaluating /\ requests'[r].stage # "executed"
    BY <1>1, <1>4, ClassifierRequest
  <1>6. RunInv'
    BY <1>2, <1>4, <1>5, RunUntouched
  <1>7. KeepsTags
    <2>1. CASE tickets' = tickets
      BY <2>1 DEF KeepsTags
    <2>2. CASE ApplyClassification(r) \/ CorrectTicket(r)
      <3>1. tickets \in [Tickets -> Ticket]
        BY DEF LogInv
      <3>2. q.ticket \in Tickets
        BY <1>3, <2>2, StageTells DEF ApplyClassification, CorrectTicket, At, Classifying, Overriding
      <3> DEFINE x == tickets[q.ticket]
      <3>3. PICK y : (tickets' = [tickets EXCEPT ![q.ticket] = y] /\ y.tagged = x.tagged) \/ tickets' = tickets
        <4>1. x \in Ticket
          BY <3>1, <3>2
        <4>2. ASSUME NEW c, NEW p
              PROVE  /\ [x EXCEPT !.category = c, !.priority = p, !.auto = TRUE].tagged = x.tagged
                     /\ [x EXCEPT !.category = c, !.priority = p].tagged = x.tagged
          <5> HIDE DEF x
          <5> QED
            BY <4>1 DEF Ticket
        <4>3. CASE ApplyClassification(r)
          <5> DEFINE c == IF Prediction(q.text).category # NoCategory THEN Prediction(q.text).category ELSE q.old.category
                     y == [x EXCEPT !.category = c, !.priority = Prediction(q.text).priority, !.auto = TRUE]
          <5>1. y.tagged = x.tagged
            BY <4>2
          <5>2. tickets' = tickets \/ tickets' = [tickets EXCEPT ![q.ticket] = y]
            BY <3>1, <3>2, <4>3 DEF ApplyClassification
          <5> HIDE DEF y
          <5> QED
            BY <5>1, <5>2
        <4>4. CASE CorrectTicket(r)
          <5> DEFINE y == Corrected(q, x)
          <5>1. y.tagged = x.tagged
            BY <4>2 DEF Corrected
          <5>2. tickets' = [tickets EXCEPT ![q.ticket] = y]
            BY <3>1, <3>2, <4>4 DEF CorrectTicket
          <5> HIDE DEF y
          <5> QED
            BY <5>1, <5>2
        <4> QED
          BY <2>2, <4>3, <4>4
      <3> QED
        BY <3>1, <3>2, <3>3 DEF KeepsTags
    <2>3. tickets' = tickets \/ ApplyClassification(r) \/ CorrectTicket(r)
      BY DEF LogClassification, StoreRecommendation, MarkOverridden, RecordOverride
    <2> QED
      BY <2>1, <2>2, <2>3
  <1>8. GoesOn(r)
    BY <1>2, <1>4, NothingLogged
  <1>9. Leaves(r)
    BY <1>2, <1>5 DEF Leaves
  <1> QED
    BY <1>1, <1>6, <1>7, <1>8, <1>9

(* Every call.                                                             *)
LEMMA CallStep ==
  ASSUME LogInv, RunInv, NEW r \in Requests, Call(r), scene' = scene
  PROVE  LogInv' /\ RunInv' /\ GoesOn(r) /\ Leaves(r) /\ KeepsTags
  <1>1. /\ At(r, "free") /\ calls' = calls + 1
        /\ UNCHANGED <<tickets, log, recommendations, rows, notes>>
        /\ ClassifyTicket(r) \/ CreateOverride(r) \/ SubmitFeedback(r) \/ EvaluateAndExecute(r)
    BY DEF Call
  <1>2. KeepsTags
    BY <1>1 DEF KeepsTags
  <1>3. CASE EvaluateAndExecute(r)
    <2>1. /\ LogInv' /\ RunInv' /\ requests'[r].stage # "executed"
          /\ \A u \in Requests \ {r} : requests'[u] = requests[u]
      BY <1>1, <1>3, EvaluateAndExecuteStep
    <2>2. PICK e \in Evaluation : e.log = <<>> /\ evaluations' = Append(evaluations, e)
      BY <1>1, <1>3, EvaluateAndExecuteStep
    <2>3. evaluations \in Seq(Evaluation)
      BY DEF RunInv
    <2>4. /\ DOMAIN evaluations \subseteq DOMAIN evaluations'
          /\ \A k \in DOMAIN evaluations : evaluations'[k] = evaluations[k]
          /\ \A k \in DOMAIN evaluations' \ DOMAIN evaluations : evaluations'[k] = e
      BY <2>2, <2>3
    <2>5. GoesOn(r)
      BY <2>1, <2>2, <2>4 DEF GoesOn
    <2>6. Leaves(r)
      BY <1>1, <2>1 DEF Leaves
    <2> QED
      BY <1>2, <2>1, <2>5, <2>6
  <1>4. CASE ClassifyTicket(r) \/ CreateOverride(r) \/ SubmitFeedback(r)
    <2>1. LogInv'
      BY <1>1, <1>4, ClassifyTicketStep, CreateOverrideStep, SubmitFeedbackStep
    <2>2. requests \in [Requests -> AnyRequest] /\ requests[r].stage = "free"
      BY <1>1 DEF At, LogInv
    <2>3. /\ requests'[r].stage \in {"free", "log", "apply", "recommend", "mark", "correct", "record"}
          /\ \A u \in Requests \ {r} : requests'[u] = requests[u]
      BY <1>4, <2>2 DEF ClassifyTicket, CreateOverride, SubmitFeedback
    <2>4. requests'[r] \notin Evaluating /\ requests'[r].stage # "executed"
      BY <2>1, <2>3, ClassifierRequest
    <2>5. UNCHANGED evaluations
      BY <1>4 DEF ClassifyTicket, CreateOverride, SubmitFeedback
    <2>6. RunInv'
      BY <1>1, <2>3, <2>4, <2>5, RunUntouched
    <2>7. GoesOn(r)
      BY <2>3, <2>5, NothingLogged
    <2>8. Leaves(r)
      BY <1>1, <2>4 DEF Leaves
    <2> QED
      BY <1>2, <2>1, <2>6, <2>7, <2>8
  <1> QED
    BY <1>1, <1>3, <1>4

(* Every step of an evaluation.                                            *)
LEMMA EvaluatorStep ==
  ASSUME LogInv, RunInv, NEW r \in Requests, UNCHANGED <<feedback, calls, scene>>,
         \/ EvaluateRule(r) \/ AfterRules(r) \/ AfterActions(r)
         \/ ReadTicket(r) \/ ChangeTicket(r) \/ AssignTicket(r) \/ AddRow(r) \/ ChangeOnce(r)
         \/ QueueNotification(r) \/ Throw(r) \/ LogExecution(r)
  PROVE  LogInv' /\ RunInv' /\ GoesOn(r) /\ Leaves(r) /\ KeepsTags
  <1> DEFINE q == requests[r]
             e == evaluations[q.run]
  <1>1. CASE AfterActions(r) \/ ReadTicket(r) \/ ChangeTicket(r) \/ AssignTicket(r) \/ Throw(r)
    <2>1. /\ LogInv' /\ RunInv'
          /\ requests'[r].stage # "executed" \/ ~requests'[r].ok
          /\ \A u \in Requests \ {r} : requests'[u] = requests[u]
          /\ UNCHANGED <<evaluations, rows, notes>>
      BY <1>1, AfterActionsStep, ReadTicketStep, ChangeTicketStep, AssignTicketStep, ThrowStep
    <2>2. KeepsTags
      BY <1>1, AfterActionsStep, ReadTicketStep, ChangeTicketStep, AssignTicketStep, ThrowStep
      DEF KeepsTags
    <2> QED
      BY <2>1, <2>2, NothingLogged DEF Leaves
  <1>2. CASE AddRow(r)
    <2>1. KeepsTags /\ GoesOn(r)
      BY <1>2, AddRowStep, NothingLogged DEF KeepsTags
    <2>2. Leaves(r)
      BY <1>2, AddRowStep DEF Leaves
    <2> QED
      BY <1>2, <2>1, <2>2, AddRowStep
  <1>3. CASE ChangeOnce(r)
    <2>1. KeepsTags /\ GoesOn(r)
      BY <1>3, ChangeOnceStep, NothingLogged DEF KeepsTags
    <2>2. Leaves(r)
      BY <1>3, ChangeOnceStep DEF Leaves
    <2> QED
      BY <1>3, <2>1, <2>2, ChangeOnceStep
  <1>4. CASE QueueNotification(r)
    <2>1. KeepsTags /\ GoesOn(r)
      BY <1>4, QueueNotificationStep, NothingLogged DEF KeepsTags
    <2>2. Leaves(r)
      BY <1>4, QueueNotificationStep DEF Leaves
    <2> QED
      BY <1>4, <2>1, <2>2, QueueNotificationStep
  <1>5. CASE AfterRules(r) \/ EvaluateRule(r) \/ LogExecution(r)
    <2>1. /\ LogInv' /\ RunInv' /\ requests'[r].stage # "executed"
          /\ \A u \in Requests \ {r} : requests'[u] = requests[u]
          /\ UNCHANGED <<tickets, rows, notes>>
          /\ q.run \in DOMAIN evaluations
      BY <1>5, AfterRulesStep, EvaluateRuleStep, LogExecutionStep
    <2>2. q \in Evaluating /\ evaluations \in Seq(Evaluation) /\ e \in Evaluation
      <3>1. q.stage \in {"rule", "executed"}
        BY <1>5 DEF AfterRules, EvaluateRule, LogExecution, At
      <3> QED
        BY <3>1, AtARun DEF RunInv
    <2>3. ASSUME NEW d, evaluations' = [evaluations EXCEPT ![q.run] = d],
                 d.ticket = e.ticket, d.rules = e.rules,
                 \/ d.log = e.log
                 \/ \E x \in Execution :
                      /\ d.log = Append(e.log, x)
                      /\ x.ok => q.stage = "executed" /\ q.ok /\ x.action = ActionsOf(q)[q.place]
          PROVE  GoesOn(r)
      <3>1. /\ DOMAIN evaluations' = DOMAIN evaluations /\ evaluations'[q.run] = d
            /\ \A k \in DOMAIN evaluations : k # q.run => evaluations'[k] = evaluations[k]
        BY <2>1, <2>2, <2>3
      <3> DEFINE n == q.run
      <3>2. /\ n \in DOMAIN evaluations /\ evaluations'[n] = d /\ e = evaluations[n]
            /\ \A k \in DOMAIN evaluations : k # n => evaluations'[k] = evaluations[k]
        BY <2>1, <3>1
      <3> HIDE DEF n, e
      <3>3. \A k \in DOMAIN evaluations :
              /\ evaluations'[k].ticket = evaluations[k].ticket
              /\ evaluations'[k].rules = evaluations[k].rules
              /\ \/ evaluations'[k].log = evaluations[k].log
                 \/ /\ k = n
                    /\ \E x \in Execution :
                         /\ evaluations'[k].log = Append(evaluations[k].log, x)
                         /\ x.ok => q.stage = "executed" /\ q.ok /\ x.action = ActionsOf(q)[q.place]
        BY <2>3, <3>2
      <3> QED
        BY <2>1, <2>2, <3>1, <3>3 DEF GoesOn, n
    <2>4. ASSUME NEW x \in Execution, x.ok => q.stage = "executed" /\ q.ok /\ x.action = ActionsOf(q)[q.place],
                 evaluations' = [evaluations EXCEPT ![q.run].log = Append(@, x)]
          PROVE  GoesOn(r)
      <3> DEFINE d == [e EXCEPT !.log = Append(e.log, x)]
      <3>1. d.ticket = e.ticket /\ d.rules = e.rules /\ d.log = Append(e.log, x)
        <4> HIDE DEF e
        <4> QED
          BY <2>2 DEF Evaluation
      <3>2. evaluations' = [evaluations EXCEPT ![q.run] = d]
        BY <2>1, <2>2, <2>4
      <3> HIDE DEF d
      <3> QED
        BY <2>3, <2>4, <3>1, <3>2
    <2>5. ASSUME AfterRules(r) PROVE GoesOn(r)
      <3> DEFINE d == [e EXCEPT !.done = TRUE]
      <3>1. d.ticket = e.ticket /\ d.rules = e.rules /\ d.log = e.log
        <4> HIDE DEF e
        <4> QED
          BY <2>2 DEF Evaluation
      <3>2. evaluations' = [evaluations EXCEPT ![q.run] = d]
        BY <2>2, <2>5, AfterRulesStep
      <3> HIDE DEF d, e, q
      <3> QED
        BY <2>3, <3>1, <3>2
    <2>6. ASSUME EvaluateRule(r) PROVE GoesOn(r)
      <3> DEFINE d == [e EXCEPT !.fired = @ \cup {q.rule}]
                 x == [rule |-> q.rule, place |-> q.place, action |-> "CONDITION_EVALUATION", ok |-> FALSE]
      <3>1. d.ticket = e.ticket /\ d.rules = e.rules /\ d.log = e.log
        <4> HIDE DEF e
        <4> QED
          BY <2>2 DEF Evaluation
      <3>2. x \in Execution /\ x.ok = FALSE
        BY <2>2 DEF Evaluating, Execution
      <3>3. \/ evaluations' = evaluations
            \/ evaluations' = [evaluations EXCEPT ![q.run] = d]
            \/ evaluations' = [evaluations EXCEPT ![q.run].log = Append(@, x)]
        BY <2>2, <2>6, EvaluateRuleStep
      <3>4. CASE evaluations' = evaluations
        BY <2>1, <3>4, NothingLogged
      <3> HIDE DEF d, x, e, q
      <3>5. CASE evaluations' = [evaluations EXCEPT ![q.run] = d]
        BY <2>3, <3>1, <3>5
      <3>6. CASE evaluations' = [evaluations EXCEPT ![q.run].log = Append(@, x)]
        BY <2>4, <3>2, <3>6
      <3> QED
        BY <3>3, <3>4, <3>5, <3>6
    <2>7. ASSUME LogExecution(r) PROVE GoesOn(r)
      <3> DEFINE x == [rule |-> q.rule, place |-> q.place, action |-> ActionsOf(q)[q.place], ok |-> q.ok]
      <3>1. /\ evaluations' = [evaluations EXCEPT ![q.run].log = Append(@, x)]
            /\ q.stage = "executed"
        BY <2>7, LogExecutionStep
      <3>2. ActionsOf(q)[q.place] \in Actions
        <4>1. /\ ActionsOf(q) \in Seq(Actions) /\ ActionsOf(q) = e.rules[q.rule].actions
              /\ StageFits(q, e)
          BY <3>1, AtARun DEF RunFits
        <4>2. q.place \in 1..(Len(ActionsOf(q)) + 1) /\ q.place <= Len(ActionsOf(q))
          BY <3>1, <4>1 DEF StageFits
        <4> DEFINE l == ActionsOf(q)
                   k == q.place
        <4>3. l \in Seq(Actions) /\ k \in 1..(Len(l) + 1) /\ k <= Len(l)
          BY <4>1, <4>2
        <4> HIDE DEF l, k
        <4>4. l[k] \in Actions
          BY <4>3
        <4> QED
          BY <4>4 DEF l, k
      <3>3. x \in Execution /\ (x.ok => q.ok) /\ x.action = ActionsOf(q)[q.place]
        BY <2>2, <3>2 DEF Evaluating, Execution
      <3> HIDE DEF x, q
      <3> QED
        BY <2>4, <3>1, <3>3
    <2>8. Leaves(r) /\ KeepsTags
      BY <2>1 DEF Leaves, KeepsTags
    <2> QED
      BY <1>5, <2>1, <2>5, <2>6, <2>7, <2>8
  <1> QED
    BY <1>1, <1>2, <1>3, <1>4, <1>5

(* One request makes the step, and nothing of the delivery is touched but  *)
(* what it queues.                                                         *)
LEMMA MachineStep ==
  ASSUME LogInv, RunInv, Machine
  PROVE  \E r \in Requests : LogInv' /\ RunInv' /\ GoesOn(r) /\ Leaves(r) /\ KeepsTags
  <1>1. PICK r \in Requests : Call(r) \/ Step(r) \/ Die(r)
    BY DEF Machine
  <1>2. scene' = scene
    BY DEF Machine
  <1>3. CASE Call(r)
    BY <1>2, <1>3, CallStep
  <1>4. CASE Step(r)
    <2>1. UNCHANGED <<feedback, calls>>
      BY <1>4 DEF Step
    <2>2. CASE \/ LogClassification(r) \/ ApplyClassification(r) \/ StoreRecommendation(r)
               \/ MarkOverridden(r) \/ CorrectTicket(r) \/ RecordOverride(r)
      BY <1>2, <2>1, <2>2, ClassifierStep
    <2>3. CASE \/ EvaluateRule(r) \/ AfterRules(r) \/ AfterActions(r)
               \/ ReadTicket(r) \/ ChangeTicket(r) \/ AssignTicket(r) \/ AddRow(r) \/ ChangeOnce(r)
               \/ QueueNotification(r) \/ Throw(r) \/ LogExecution(r)
      BY <1>2, <2>1, <2>3, EvaluatorStep
    <2> QED
      BY <1>4, <2>2, <2>3 DEF Step
  <1>5. CASE Die(r)
    <2>1. /\ LogInv' /\ RunInv' /\ requests'[r].stage # "executed"
          /\ \A u \in Requests \ {r} : requests'[u] = requests[u]
      BY <1>2, <1>5, DieStep DEF Free
    <2>2. UNCHANGED <<tickets, evaluations, rows, notes>>
      BY <1>5 DEF Die
    <2> QED
      BY <2>1, <2>2, NothingLogged DEF Leaves, KeepsTags
  <1> QED
    BY <1>1, <1>3, <1>4, <1>5

(* Nothing has been made, logged or asked at the start.                    *)
LEMMA InitMachine == AutomationInit => LogInv /\ RunInv
  <1> SUFFICES ASSUME AutomationInit PROVE LogInv /\ RunInv
    OBVIOUS
  <1>1. /\ log = <<>> /\ recommendations = {} /\ feedback = <<>> /\ evaluations = <<>>
        /\ requests = [r \in Requests |-> Free] /\ calls = 0 /\ scene \in Scenes
        /\ rows = [t \in Tickets |-> [a \in Appending |-> 0]]
        /\ tickets = [t \in Tickets |-> NewTicket]
    BY DEF AutomationInit
  <1>2. NewTicket \in Ticket /\ NewTicket.auto = FALSE
    BY DEF NewTicket, Ticket, AnyCategory, Priorities
  <1>3. EntriesFit(log)
    BY <1>1 DEF EntriesFit
  <1>4. requests \in [Requests -> AnyRequest]
    BY <1>1, FreeFits
  <1>5. \A r \in Requests : requests[r] \notin Evaluating /\ RequestFits(requests[r], log)
    BY <1>1, FreeFits, KindsDiffer
  <1>6. LogInv
    BY <1>1, <1>2, <1>3, <1>4, <1>5 DEF LogInv
  <1>7. RunInv
    BY <1>1, <1>5 DEF RunInv
  <1> QED
    BY <1>6, <1>7

(* Sending and retrying touch nothing of the machines.                     *)
LEMMA MachineIsKept == LogInv /\ RunInv /\ [AutomationNext]_allVars => (LogInv /\ RunInv)'
  <1> SUFFICES ASSUME LogInv, RunInv, [AutomationNext]_allVars PROVE LogInv' /\ RunInv'
    OBVIOUS
  <1>1. CASE Machine
    BY <1>1, MachineStep
  <1>2. CASE UNCHANGED machineVars
    BY <1>2 DEF machineVars, aiVars, LogInv, RunInv
  <1> QED
    BY <1>1, <1>2 DEF AutomationNext, Delivery, allVars

(***************************************************************************)
(* The metrics.                                                            *)
(***************************************************************************)

(* Entries are finitely many, and those of two disjoint sets add up.       *)
LEMMA EntriesApart ==
  ASSUME log \in Seq(Entry), NEW A \in SUBSET (DOMAIN log), NEW B \in SUBSET (DOMAIN log), A \cap B = {}
  PROVE  /\ Cardinality(A) \in Nat /\ Cardinality(B) \in Nat
         /\ Cardinality(A) + Cardinality(B) = Cardinality(A \cup B)
         /\ Cardinality(A \cup B) <= Len(log) /\ Cardinality(DOMAIN log) = Len(log)
  <1>1. Len(log) \in Nat /\ DOMAIN log = 1..Len(log)
    OBVIOUS
  <1>2. IsFiniteSet(DOMAIN log) /\ Cardinality(DOMAIN log) = Len(log)
    <2>1. IsFiniteSet(1..Len(log)) /\ Cardinality(1..Len(log)) = IF 1 > Len(log) THEN 0 ELSE Len(log) - 1 + 1
      BY <1>1, FS_Interval, SMTT(20)
    <2> QED
      BY <1>1, <2>1
  <1>3. A \cup B \subseteq DOMAIN log
    OBVIOUS
  <1>4. IsFiniteSet(A) /\ IsFiniteSet(B) /\ Cardinality(A \cup B) <= Len(log)
    BY <1>2, <1>3, FS_Subset
  <1>5. Cardinality(A \cup B) = Cardinality(A) + Cardinality(B) - Cardinality(A \cap B)
    BY <1>4, FS_Union
  <1>6. Cardinality(A) \in Nat /\ Cardinality(B) \in Nat /\ Cardinality(A \cap B) = 0
    BY <1>4, FS_CardinalityType, FS_EmptySet
  <1>7. Cardinality(A) + Cardinality(B) = Cardinality(A \cup B)
    BY <1>5, <1>6
  <1> QED
    BY <1>2, <1>4, <1>6, <1>7

(* Those of less confidence than c.                                        *)
Below(c) == {i \in DOMAIN log : log[i].confidence < c}

(* A range takes up where the ones below it end.                           *)
LEMMA NextRange ==
  ASSUME log \in Seq(Entry), NEW c \in Nat, NEW d \in Nat, c <= d
  PROVE  /\ Cardinality(Below(c)) \in Nat
         /\ Cardinality({i \in DOMAIN log : c <= log[i].confidence /\ log[i].confidence < d}) \in Nat
         /\ Cardinality(Below(c)) + Cardinality({i \in DOMAIN log : c <= log[i].confidence /\ log[i].confidence < d})
              = Cardinality(Below(d))
  <1> DEFINE R == {i \in DOMAIN log : c <= log[i].confidence /\ log[i].confidence < d}
  <1>1. \A i \in DOMAIN log : log[i].confidence \in Nat
    <2>1. \A i \in DOMAIN log : log[i] \in Entry
      OBVIOUS
    <2> QED
      BY <2>1 DEF Entry
  <1>2. /\ R \in SUBSET (DOMAIN log) /\ Below(c) \in SUBSET (DOMAIN log)
        /\ Below(c) \cap R = {} /\ Below(c) \cup R = Below(d)
    BY <1>1 DEF Below
  <1> HIDE DEF R
  <1>3. /\ Cardinality(Below(c)) \in Nat /\ Cardinality(R) \in Nat
        /\ Cardinality(Below(c)) + Cardinality(R) = Cardinality(Below(d))
    BY <1>2, EntriesApart
  <1> QED
    BY <1>3 DEF R

(* The ranges follow on one another from no confidence to full confidence. *)
LEMMA MetricsDo ==
  ASSUME LogInv
  PROVE  MetricsAddUp
  <1>1. log \in Seq(Entry) /\ \A i \in DOMAIN log : log[i].confidence \in Nat /\ log[i].confidence < 101
    <2>1. /\ log \in Seq(Entry)
          /\ \A i \in DOMAIN log : log[i].confidence <= (IF log[i].of = 0 THEN 95 ELSE 100)
      BY DEF LogInv, EntriesFit
    <2>2. ASSUME NEW i \in DOMAIN log PROVE log[i].confidence \in Nat /\ log[i].confidence < 101
      <3>1. log[i] \in Entry
        BY <2>1
      <3>2. log[i].confidence \in Nat
        BY <3>1 DEF Entry
      <3> QED
        BY <2>1, <3>2
    <2> QED
      BY <2>1, <2>2
  <1> DEFINE Within(c, d) == {i \in DOMAIN log : c <= log[i].confidence /\ log[i].confidence < d}
             count == Metrics.distribution
  <1>2. \A b \in 1..5 : count[b] = Cardinality({i \in DOMAIN log : Buckets(log[i].confidence)[b]})
    BY DEF Metrics
  <1>3. /\ count[1] = Cardinality(Within(0, 30)) /\ count[2] = Cardinality(Within(30, 50))
        /\ count[3] = Cardinality(Within(50, 70)) /\ count[4] = Cardinality(Within(70, 90))
        /\ count[5] = Cardinality(Within(90, 101))
    <2>1. ASSUME NEW c \in Nat, c < 101
          PROVE  /\ Buckets(c)[1] <=> (0 <= c /\ c < 30)
                 /\ Buckets(c)[2] <=> (30 <= c /\ c < 50)
                 /\ Buckets(c)[3] <=> (50 <= c /\ c < 70)
                 /\ Buckets(c)[4] <=> (70 <= c /\ c < 90)
                 /\ Buckets(c)[5] <=> (90 <= c /\ c < 101)
      <3>1. Buckets(c)[1] <=> (c < 30)
        BY DEF Buckets
      <3>2. Buckets(c)[2] <=> (30 <= c /\ c < 50)
        BY DEF Buckets
      <3>3. Buckets(c)[3] <=> (50 <= c /\ c < 70)
        BY DEF Buckets
      <3>4. Buckets(c)[4] <=> (70 <= c /\ c < 90)
        BY DEF Buckets
      <3>5. Buckets(c)[5] <=> (90 <= c)
        BY DEF Buckets
      <3> QED
        BY <2>1, <3>1, <3>2, <3>3, <3>4, <3>5
    <2> DEFINE B(b) == {i \in DOMAIN log : Buckets(log[i].confidence)[b]}
    <2>2. /\ B(1) = Within(0, 30) /\ B(2) = Within(30, 50) /\ B(3) = Within(50, 70)
          /\ B(4) = Within(70, 90) /\ B(5) = Within(90, 101)
      BY <1>1, <2>1, SMTT(20)
    <2>3. \A b \in 1..5 : count[b] = Cardinality(B(b))
      BY <1>2
    <2> HIDE DEF Within, count, B
    <2>4. 1 \in 1..5 /\ 2 \in 1..5 /\ 3 \in 1..5 /\ 4 \in 1..5 /\ 5 \in 1..5
      OBVIOUS
    <2> QED
      BY <2>2, <2>3, <2>4
  <1> HIDE DEF count
  <1>4. Cardinality(Below(0)) = 0 /\ Cardinality(Below(101)) = Len(log)
    <2>1. \A i \in DOMAIN log : ~(log[i].confidence < 0)
      BY <1>1
    <2>2. Below(0) = {}
      BY <2>1 DEF Below
    <2>3. Below(101) = DOMAIN log
      BY <1>1 DEF Below
    <2>4. {} \in SUBSET (DOMAIN log) /\ {} \cap {} = {}
      OBVIOUS
    <2>5. Cardinality(DOMAIN log) = Len(log)
      BY <1>1, <2>4, EntriesApart
    <2>6. Cardinality({}) = 0
      BY FS_EmptySet
    <2> QED
      BY <2>2, <2>3, <2>5, <2>6
  <1>5. ASSUME NEW c \in Nat, NEW d \in Nat, c <= d
        PROVE  /\ Cardinality(Below(c)) \in Nat /\ Cardinality(Within(c, d)) \in Nat
               /\ Cardinality(Below(c)) + Cardinality(Within(c, d)) = Cardinality(Below(d))
    BY <1>1, <1>5, NextRange
  <1> HIDE DEF Within
  <1>6. /\ Cardinality(Below(0)) + Cardinality(Within(0, 30)) = Cardinality(Below(30))
        /\ Cardinality(Below(30)) + Cardinality(Within(30, 50)) = Cardinality(Below(50))
        /\ Cardinality(Below(50)) + Cardinality(Within(50, 70)) = Cardinality(Below(70))
        /\ Cardinality(Below(70)) + Cardinality(Within(70, 90)) = Cardinality(Below(90))
        /\ Cardinality(Below(90)) + Cardinality(Within(90, 101)) = Cardinality(Below(101))
        /\ Cardinality(Within(0, 30)) \in Nat /\ Cardinality(Within(30, 50)) \in Nat
        /\ Cardinality(Within(50, 70)) \in Nat /\ Cardinality(Within(70, 90)) \in Nat
        /\ Cardinality(Within(90, 101)) \in Nat
    <2>1. /\ Cardinality(Below(0)) + Cardinality(Within(0, 30)) = Cardinality(Below(30))
          /\ Cardinality(Within(0, 30)) \in Nat
      BY <1>5
    <2>2. /\ Cardinality(Below(30)) + Cardinality(Within(30, 50)) = Cardinality(Below(50))
          /\ Cardinality(Within(30, 50)) \in Nat
      BY <1>5
    <2>3. /\ Cardinality(Below(50)) + Cardinality(Within(50, 70)) = Cardinality(Below(70))
          /\ Cardinality(Within(50, 70)) \in Nat
      BY <1>5
    <2>4. /\ Cardinality(Below(70)) + Cardinality(Within(70, 90)) = Cardinality(Below(90))
          /\ Cardinality(Within(70, 90)) \in Nat
      BY <1>5
    <2>5. /\ Cardinality(Below(90)) + Cardinality(Within(90, 101)) = Cardinality(Below(101))
          /\ Cardinality(Within(90, 101)) \in Nat
      BY <1>5
    <2> QED
      BY <2>1, <2>2, <2>3, <2>4, <2>5
  <1>7. count[1] + count[2] + count[3] + count[4] + count[5] = Len(log)
    BY <1>3, <1>4, <1>6
  <1> DEFINE A == {i \in DOMAIN log : log[i].auto /\ ~log[i].manual}
             M == {i \in DOMAIN log : log[i].manual}
  <1>8. Cardinality(A) + Cardinality(M) <= Len(log)
    <2>1. A \in SUBSET (DOMAIN log) /\ M \in SUBSET (DOMAIN log) /\ A \cap M = {}
      OBVIOUS
    <2>2. log \in Seq(Entry)
      BY <1>1
    <2> HIDE DEF A, M
    <2>3. /\ Cardinality(A) \in Nat /\ Cardinality(M) \in Nat
          /\ Cardinality(A) + Cardinality(M) = Cardinality(A \cup M)
          /\ Cardinality(A \cup M) <= Len(log)
      BY <2>1, <2>2, EntriesApart
    <2> QED
      BY <2>3
  <1>9. Metrics.total = Len(log) /\ Metrics.autoApplied = Cardinality(A) /\ Metrics.overrides = Cardinality(M)
    BY DEF Metrics
  <1> HIDE DEF A, M
  <1> QED
    BY <1>7, <1>8, <1>9 DEF MetricsAddUp, count

(* The invariant says what the run checks of the log ...                   *)
LEMMA LogInvIsSound == LogInv /\ RunInv => LogIsSound
  <1> SUFFICES ASSUME LogInv, RunInv PROVE LogIsSound
    OBVIOUS
  <1>1. recommendations \in SUBSET ((DOMAIN log) \X Kinds)
    BY DEF LogInv, RecommendationFits
  <1>2. AutomationTypeOK
    BY <1>1 DEF AutomationTypeOK, LogInv, RunInv, EntriesFit, Kinds, AnyRequest
  <1>3. MarkedIsLogged /\ OverridesMarkTheirEntry /\ RecommendationsFit
    BY DEF LogInv, MarkedIsLogged, Shows, OverridesMarkTheirEntry, RecommendationsFit, RecommendationFits
  <1> QED
    BY <1>2, <1>3, MetricsDo DEF LogIsSound

(* Whatever requests overlap and die, the log of classifications can be    *)
(* relied on: what the classifier changed was logged before with the       *)
(* confidence that it takes, an override marks its entry, and the metrics  *)
(* add up.                                                                 *)
THEOREM LogStaysSound ==
  AutomationSpec => []LogIsSound
  <1> QED
    BY InitMachine, MachineIsKept, LogInvIsSound, PTL DEF AutomationSpec

(* Whatever requests overlap and die, every evaluation tries the actions   *)
(* of the rules that are met in order, each once and without a gap, and    *)
(* goes on after one that failed.                                          *)
THEOREM ActionsAreTriedInOrder ==
  AutomationSpec => []ActionsTriedInOrder
  <1>1. LogInv /\ RunInv => ActionsTriedInOrder
    BY DEF RunInv, ActionsTriedInOrder
  <1> QED
    BY <1>1, InitMachine, MachineIsKept, PTL DEF AutomationSpec

(***************************************************************************)
(* What needs neither OneCron nor EverySendHasRecipients: the types, and   *)
(* that what has been created stays, for whom it was.                      *)
(***************************************************************************)
TypesFit ==
  /\ TypeOK
  /\ \A w \in Workers : workers[w] # Idle =>
       workers[w].batch # {} /\ \A i \in workers[w].batch : i.note \in DOMAIN notes

NotesStay ==
  /\ notes' \in Seq(Note) /\ DOMAIN notes \subseteq DOMAIN notes'
  /\ \A n \in DOMAIN notes : notes'[n].to = notes[n].to

(* A worker at work is at an item of its list.                             *)
LEMMA CurrentIsOnList ==
  ASSUME TypesFit, NEW w \in Workers, workers[w].stage # "idle"
  PROVE  /\ workers[w] \in Busy /\ workers[w] # Idle
         /\ Current(w) \in workers[w].batch
         /\ Current(w) \in [note : Nat, left : SUBSET Recipients]
         /\ Current(w).note \in DOMAIN notes /\ notes[Current(w).note] \in Note
  <1>1. workers[w] \in Busy /\ workers[w] # Idle
    BY DEF TypesFit, TypeOK, Idle
  <1> DEFINE batch == workers[w].batch
             T == {i.note : i \in batch}
  <1>2. batch \in SUBSET [note : Nat, left : SUBSET Recipients] /\ batch # {}
    BY <1>1 DEF TypesFit, Busy
  <1>3. T \in SUBSET Nat /\ T # {}
    BY <1>2
  <1> HIDE DEF T
  <1>4. PICK m \in T : \A k \in T : m <= k
    BY <1>3, LeastNote
  <1>5. \E i \in batch : \A other \in batch : i.note <= other.note
    BY <1>4 DEF T
  <1>6. Current(w) \in batch
    BY <1>5 DEF Current
  <1>7. Current(w).note \in DOMAIN notes
    BY <1>1, <1>6 DEF TypesFit
  <1>8. notes[Current(w).note] \in Note
    BY <1>7 DEF TypesFit, TypeOK
  <1> QED
    BY <1>1, <1>2, <1>6, <1>7, <1>8

(* A step of one worker.                                                   *)
LEMMA TypesOfOne ==
  ASSUME TypesFit, NEW w \in Workers, NEW q \in Busy \cup {Idle},
         q # Idle => q.batch # {} /\ \A i \in q.batch : i.note \in DOMAIN notes',
         workers' = [workers EXCEPT ![w] = q], NotesStay, failures' \in Nat
  PROVE  TypesFit'
  <1>1. workers \in [Workers -> Busy \cup {Idle}]
    BY DEF TypesFit, TypeOK
  <1> QED
    BY <1>1 DEF TypesFit, TypeOK, NotesStay

(* One notification rewritten, and one more.                               *)
LEMMA NoteRewritten ==
  ASSUME notes \in Seq(Note), NEW n \in DOMAIN notes, NEW y \in Note, y.to = notes[n].to,
         notes' = [notes EXCEPT ![n] = y]
  PROVE  NotesStay
  <1>1. /\ notes' \in Seq(Note) /\ DOMAIN notes' = DOMAIN notes /\ notes'[n] = y
        /\ \A k \in DOMAIN notes : k # n => notes'[k] = notes[k]
    BY OneReplaced
  <1> QED
    BY <1>1 DEF NotesStay

LEMMA NoteAdded ==
  ASSUME notes \in Seq(Note), NEW x \in Note, notes' = Append(notes, x)
  PROVE  NotesStay
  BY DEF NotesStay

LEMMA NotesUnchanged ==
  ASSUME notes \in Seq(Note), notes' = notes
  PROVE  NotesStay
  BY DEF NotesStay

LEMMA SendNotificationTypes ==
  ASSUME TypesFit, NEW s \in Senders, SendNotification(s)
  PROVE  TypesFit' /\ NotesStay
  <1>1. PICK channel \in Channels, to \in RecipientSets, limit \in RetryLimits :
          notes' = Append(notes,
            [channel |-> channel, status |-> "PENDING", retries |-> 0, limit |-> limit,
             dated |-> FALSE, to |-> to, delivery |-> [r \in Recipients |-> "PENDING"]])
    BY DEF SendNotification
  <1> DEFINE x == [channel |-> channel, status |-> "PENDING", retries |-> 0, limit |-> limit,
                   dated |-> FALSE, to |-> to, delivery |-> [r \in Recipients |-> "PENDING"]]
             item == [note |-> Len(notes'), left |-> notes'[Len(notes')].to]
  <1>2. x \in Note /\ x.to \in SUBSET Recipients
    BY DeliveryAssumption DEF Note, Status, DeliveryStatus
  <1> HIDE DEF x
  <1>3. notes \in Seq(Note) /\ failures \in Nat /\ s \in Workers
    BY DEF TypesFit, TypeOK, Workers
  <1>4. notes' = Append(notes, x)
    BY <1>1 DEF x
  <1>5. NotesStay
    BY <1>2, <1>3, <1>4, NoteAdded
  <1>6. Len(notes') \in Nat /\ notes'[Len(notes')] = x /\ Len(notes') \in DOMAIN notes'
    BY <1>2, <1>3, <1>4
  <1>7. {item} \in SUBSET [note : Nat, left : SUBSET Recipients]
    BY <1>2, <1>6
  <1>8. workers' = [workers EXCEPT ![s] = Working("send", {item})] /\ failures' = failures
    BY DEF SendNotification
  <1>9. item.note \in DOMAIN notes'
    BY <1>6
  <1> HIDE DEF item
  <1> DEFINE q == Working("send", {item})
  <1>10. q \in Busy /\ q.batch = {item}
    BY <1>7, WorkingIsBusy
  <1> HIDE DEF q
  <1>11. q.batch # {} /\ \A i \in q.batch : i.note \in DOMAIN notes'
    BY <1>9, <1>10
  <1>12. workers' = [workers EXCEPT ![s] = q]
    BY <1>8 DEF q
  <1> QED
    BY <1>3, <1>5, <1>8, <1>10, <1>11, <1>12, TypesOfOne

LEMMA ProcessRetriesTypes ==
  ASSUME TypesFit, NEW c \in Crons, ProcessRetries(c)
  PROVE  TypesFit' /\ NotesStay
  <1> DEFINE batch == {[note |-> n, left |-> Undelivered(n)] : n \in {m \in Oldest : Retryable(m)}}
  <1>1. /\ batch # {} /\ workers' = [workers EXCEPT ![c] = Working("mark", batch)]
        /\ notes' = notes /\ failures' = failures
    BY DEF ProcessRetries
  <1>2. notes \in Seq(Note) /\ failures \in Nat /\ c \in Workers
    BY DEF TypesFit, TypeOK, Workers
  <1>3. /\ batch \in SUBSET [note : Nat, left : SUBSET Recipients]
        /\ \A i \in batch : i.note \in DOMAIN notes'
    <2> SUFFICES ASSUME NEW n \in Oldest
                 PROVE  n \in Nat /\ Undelivered(n) \subseteq Recipients /\ n \in DOMAIN notes'
      OBVIOUS
    <2>1. n \in DOMAIN notes
      BY DEF Oldest, Failed
    <2>2. n \in Nat /\ notes[n] \in Note
      BY <1>2, <2>1
    <2> QED
      BY <1>1, <2>1, <2>2 DEF Undelivered, Note
  <1> HIDE DEF batch
  <1>4. /\ Working("mark", batch) \in Busy /\ Working("mark", batch).batch # {}
        /\ \A i \in Working("mark", batch).batch : i.note \in DOMAIN notes'
    <2>1. Working("mark", batch) \in Busy /\ Working("mark", batch).batch = batch
      BY <1>3, WorkingIsBusy
    <2> QED
      BY <1>1, <1>3, <2>1
  <1> QED
    BY <1>1, <1>2, <1>4, NotesUnchanged, TypesOfOne

LEMMA MarkRetryingTypes ==
  ASSUME TypesFit, NEW c \in Crons, MarkRetrying(c)
  PROVE  TypesFit' /\ NotesStay
  <1> DEFINE n == Current(c).note
             y == [notes[n] EXCEPT !.status = "RETRYING", !.retries = @ + 1]
             b == workers[c].batch
  <1>1. notes \in Seq(Note) /\ failures \in Nat /\ c \in Workers
        /\ workers \in [Workers -> Busy \cup {Idle}]
    BY DEF TypesFit, TypeOK, Workers
  <1>2. /\ workers[c].stage = "mark" /\ failures' = failures
        /\ workers' = [workers EXCEPT ![c] = Working("send", b)]
    BY <1>1 DEF MarkRetrying, In
  <1>3. notes' = [notes EXCEPT ![n] = y]
    BY DEF MarkRetrying
  <1>4. workers[c] \in Busy /\ workers[c] # Idle /\ n \in DOMAIN notes /\ notes[n] \in Note
    BY <1>1, <1>2, CurrentIsOnList
  <1>5. /\ b \in SUBSET [note : Nat, left : SUBSET Recipients] /\ b # {}
        /\ \A i \in b : i.note \in DOMAIN notes
    BY <1>1, <1>4 DEF Busy, TypesFit
  <1>6. y \in Note /\ y.to = notes[n].to
    <2> DEFINE x == notes[n]
    <2>1. x \in Note
      BY <1>4
    <2> HIDE DEF x
    <2>2. x.retries + 1 \in Nat
      BY <2>1 DEF Note
    <2>3. [x EXCEPT !.status = "RETRYING", !.retries = @ + 1] \in Note
      BY <2>1, <2>2 DEF Note, Status
    <2>4. [x EXCEPT !.status = "RETRYING", !.retries = @ + 1].to = x.to
      BY <2>1 DEF Note
    <2> QED
      BY <2>3, <2>4 DEF x
  <1> HIDE DEF n, y, b
  <1>7. NotesStay
    BY <1>1, <1>3, <1>4, <1>6, NoteRewritten
  <1>8. /\ Working("send", b) \in Busy /\ Working("send", b).batch # {}
        /\ \A i \in Working("send", b).batch : i.note \in DOMAIN notes'
    <2>1. Working("send", b) \in Busy /\ Working("send", b).batch = b
      BY <1>5, WorkingIsBusy
    <2>2. \A i \in b : i.note \in DOMAIN notes'
      BY <1>5, <1>7 DEF NotesStay
    <2> QED
      BY <1>5, <2>1, <2>2
  <1> QED
    BY <1>1, <1>2, <1>7, <1>8, TypesOfOne

LEMMA DispatchTypes ==
  ASSUME TypesFit, NEW w \in Workers, Dispatch(w)
  PROVE  TypesFit' /\ NotesStay
  <1> DEFINE q == workers[w]
             item == Current(w)
             c == notes[item.note].channel
  <1>1. notes \in Seq(Note) /\ failures \in Nat /\ workers \in [Workers -> Busy \cup {Idle}]
    BY DEF TypesFit, TypeOK
  <1>2. q.stage = "send" /\ notes' = notes /\ failures' = failures
    BY DEF Dispatch, In
  <1>3. /\ q \in Busy /\ q # Idle /\ item \in [note : Nat, left : SUBSET Recipients] /\ q.batch # {}
        /\ \A i \in q.batch : i.note \in DOMAIN notes
        /\ c \in AllChannels
    <2>1. notes[item.note] \in Note
      BY <1>2, CurrentIsOnList
    <2> QED
      BY <1>2, <2>1, CurrentIsOnList DEF TypesFit, Note
  <1>4. PICK R \in IF c = "WEBHOOK" THEN {item.left} ELSE {{r} : r \in item.left}, a \in AnswersOf(w, c) :
          workers' = [workers EXCEPT ![w].stage = "record", ![w].trying = R, ![w].answer = a]
    BY DEF Dispatch
  <1>5. R \in SUBSET Recipients
    BY <1>3, <1>4
  <1>6. a \in Answers
    <2>1. c = "EMAIL" \/ c = "PUSH" \/ c = "IN_APP" \/ c = "WEBHOOK"
      BY <1>3 DEF AllChannels
    <2> QED
      BY <2>1 DEF AnswersOf, Answers
  <1> DEFINE p == [q EXCEPT !.stage = "record", !.trying = R, !.answer = a]
  <1>7. p \in Busy /\ p.batch = q.batch
    <2> HIDE DEF q
    <2> QED
      BY <1>3, <1>5, <1>6 DEF Busy
  <1>8. workers' = [workers EXCEPT ![w] = p]
    BY <1>1, <1>4
  <1> HIDE DEF p
  <1> QED
    BY <1>1, <1>2, <1>3, <1>7, <1>8, NotesUnchanged, TypesOfOne

LEMMA RecordDeliveryTypes ==
  ASSUME TypesFit, NEW w \in Workers, RecordDelivery(w)
  PROVE  TypesFit' /\ NotesStay
  <1> DEFINE q == workers[w]
             item == Current(w)
             n == item.note
             x == notes[n]
             R == q.trying
             a == q.answer
             later == [r \in Recipients |-> IF r \in R THEN StatusAfter(x.channel, a, x.delivery[r])
                                                       ELSE x.delivery[r]]
             y == [x EXCEPT !.delivery = later]
             j == [item EXCEPT !.left = @ \ R]
             b == (q.batch \ {item}) \cup {j}
             l == q.all /\ Success(a)
             any == q.any \/ Success(a)
             p == [q EXCEPT !.stage = "send", !.batch = b, !.all = l, !.any = any]
  <1>1. notes \in Seq(Note) /\ failures \in Nat /\ workers \in [Workers -> Busy \cup {Idle}]
    BY DEF TypesFit, TypeOK
  <1>2. q.stage = "record" /\ failures' = failures
    BY DEF RecordDelivery, In
  <1>3. /\ q \in Busy /\ q # Idle /\ item \in q.batch /\ item \in [note : Nat, left : SUBSET Recipients]
        /\ n \in DOMAIN notes /\ x \in Note /\ \A i \in q.batch : i.note \in DOMAIN notes
    BY <1>2, CurrentIsOnList DEF TypesFit
  <1>4. later \in [Recipients -> DeliveryStatus]
    <2>1. \A r \in Recipients : x.delivery[r] \in DeliveryStatus
      BY <1>3 DEF Note
    <2>2. \A r \in Recipients : StatusAfter(x.channel, a, x.delivery[r]) \in DeliveryStatus
      BY <2>1 DEF StatusAfter, DeliveryStatus
    <2> QED
      BY <2>1, <2>2
  <1>5. y \in Note /\ y.to = x.to
    <2> HIDE DEF x, later
    <2> QED
      BY <1>3, <1>4 DEF Note
  <1>6. notes' = [notes EXCEPT ![n] = y]
    BY <1>3 DEF RecordDelivery
  <1>7. NotesStay
    <2> HIDE DEF n, y
    <2> QED
      BY <1>1, <1>3, <1>5, <1>6, NoteRewritten DEF x
  <1>8. j \in [note : Nat, left : SUBSET Recipients] /\ j.note = n
    <2> HIDE DEF item, R
    <2> QED
      BY <1>3 DEF n
  <1>9. b \in SUBSET [note : Nat, left : SUBSET Recipients] /\ b # {} /\ \A i \in b : i.note \in DOMAIN notes
    <2>1. q.batch \in SUBSET [note : Nat, left : SUBSET Recipients]
      BY <1>3 DEF Busy
    <2> HIDE DEF j, q, n
    <2> QED
      BY <1>3, <1>8, <2>1
  <1>10. l \in BOOLEAN /\ any \in BOOLEAN
    BY <1>3 DEF Busy, Success
  <1>11. workers' = [workers EXCEPT ![w] = p]
    BY <1>1 DEF RecordDelivery
  <1> HIDE DEF b, l, any
  <1>12. p \in Busy /\ p.batch = b
    <2> HIDE DEF q
    <2> QED
      BY <1>3, <1>9, <1>10 DEF Busy
  <1> HIDE DEF p
  <1>13. \A i \in b : i.note \in DOMAIN notes'
    BY <1>7, <1>9 DEF NotesStay
  <1> QED
    BY <1>1, <1>2, <1>7, <1>9, <1>11, <1>12, <1>13, TypesOfOne

(* A notification that is settled is still for those it was for.           *)
LEMMA SettledIsNote ==
  ASSUME NEW x \in Note, NEW status \in Status, NEW dated \in BOOLEAN
  PROVE  /\ [x EXCEPT !.status = status, !.dated = dated] \in Note
         /\ [x EXCEPT !.status = status, !.dated = dated].to = x.to
  BY DEF Note

LEMMA SettleSendTypes ==
  ASSUME TypesFit, NEW s \in Senders, SettleSend(s)
  PROVE  TypesFit' /\ NotesStay
  <1> DEFINE q == workers[s]
             n == Current(s).note
             status == IF q.all \/ q.any THEN "SENT" ELSE "FAILED"
             y == [notes[n] EXCEPT !.status = status, !.dated = q.any]
  <1>1. notes \in Seq(Note) /\ failures \in Nat /\ s \in Workers
    BY DEF TypesFit, TypeOK, Workers
  <1>2. /\ q.stage = "send" /\ failures' = failures
        /\ notes' = [notes EXCEPT ![n].status = status, ![n].dated = q.any]
        /\ workers' = [workers EXCEPT ![s] = Idle]
    BY DEF SettleSend, Done, In
  <1>3. q \in Busy /\ n \in DOMAIN notes /\ notes[n] \in Note
    BY <1>1, <1>2, CurrentIsOnList
  <1>4. status \in Status /\ q.any \in BOOLEAN
    BY <1>3 DEF Busy, Status
  <1>5. y \in Note /\ y.to = notes[n].to
    <2> HIDE DEF n, status, q
    <2> QED
      BY <1>3, <1>4, SettledIsNote
  <1>6. notes' = [notes EXCEPT ![n] = y]
    <2> HIDE DEF n, status, q
    <2> QED
      BY <1>2, <1>3
  <1>7. NotesStay
    <2> HIDE DEF n, y
    <2> QED
      BY <1>1, <1>3, <1>5, <1>6, NoteRewritten
  <1> QED
    BY <1>1, <1>2, <1>7, TypesOfOne

LEMMA SettleRetryTypes ==
  ASSUME TypesFit, NEW c \in Crons, SettleRetry(c)
  PROVE  TypesFit' /\ NotesStay
  <1> DEFINE q == workers[c]
             n == Current(c).note
             rest == q.batch \ {Current(c)}
             status == IF q.all THEN "SENT" ELSE "FAILED"
             dated == notes[n].dated \/ q.all
             y == [notes[n] EXCEPT !.status = status, !.dated = dated]
             p == IF rest = {} THEN Idle ELSE Working("mark", rest)
  <1>1. notes \in Seq(Note) /\ failures \in Nat /\ c \in Workers
    BY DEF TypesFit, TypeOK, Workers
  <1>2. /\ q.stage = "send" /\ failures' = failures
        /\ notes' = [notes EXCEPT ![n].status = status, ![n].dated = @ \/ q.all]
        /\ workers' = [workers EXCEPT ![c] = p]
    BY DEF SettleRetry, Done, In
  <1>3. /\ q \in Busy /\ q # Idle /\ n \in DOMAIN notes /\ notes[n] \in Note
        /\ \A i \in q.batch : i.note \in DOMAIN notes
    BY <1>1, <1>2, CurrentIsOnList DEF TypesFit
  <1>4. status \in Status /\ dated \in BOOLEAN
    BY <1>3 DEF Busy, Status, Note
  <1>5. y \in Note /\ y.to = notes[n].to
    <2> HIDE DEF n, status, dated
    <2> QED
      BY <1>3, <1>4, SettledIsNote
  <1>6. notes' = [notes EXCEPT ![n] = y]
    BY <1>2, <1>3
  <1>7. NotesStay
    <2> HIDE DEF n, y
    <2> QED
      BY <1>1, <1>3, <1>5, <1>6, NoteRewritten
  <1>8. rest \in SUBSET [note : Nat, left : SUBSET Recipients] /\ \A i \in rest : i.note \in DOMAIN notes
    BY <1>3 DEF Busy
  <1> HIDE DEF rest
  <1>9. p \in Busy \cup {Idle} /\ (p # Idle => p.batch # {} /\ p.batch = rest)
    BY <1>8, WorkingIsBusy
  <1>10. p # Idle => \A i \in p.batch : i.note \in DOMAIN notes'
    BY <1>7, <1>8, <1>9 DEF NotesStay
  <1> HIDE DEF p
  <1> QED
    BY <1>1, <1>2, <1>7, <1>9, <1>10, TypesOfOne

LEMMA FailTypes ==
  ASSUME TypesFit, NEW w \in Workers, Fail(w)
  PROVE  TypesFit' /\ NotesStay
  <1>1. notes \in Seq(Note) /\ failures' \in Nat
    BY DEF TypesFit, TypeOK, Fail
  <1>2. NotesStay
    BY <1>1, NotesUnchanged DEF Fail
  <1> QED
    BY <1>1, <1>2, TypesOfOne DEF Fail

(* Every step of a worker.                                                 *)
LEMMA DeliveryTypes ==
  ASSUME TypesFit, [Next]_vars
  PROVE  TypesFit' /\ NotesStay
  <1>1. CASE UNCHANGED vars
    <2>1. NotesStay
      BY <1>1, NotesUnchanged DEF vars, TypesFit, TypeOK
    <2> QED
      BY <1>1, <2>1 DEF vars, TypesFit, TypeOK
  <1>2. ASSUME NEW s \in Senders, SendNotification(s) \/ Send(s) \/ Fail(s) PROVE TypesFit' /\ NotesStay
    <2>1. s \in Workers
      BY DEF Workers
    <2> QED
      BY <1>2, <2>1, SendNotificationTypes, DispatchTypes, RecordDeliveryTypes, SettleSendTypes, FailTypes
         DEF Send
  <1>3. ASSUME NEW c \in Crons, Retry(c) \/ Fail(c) PROVE TypesFit' /\ NotesStay
    <2>1. c \in Workers
      BY DEF Workers
    <2> QED
      BY <1>3, <2>1, ProcessRetriesTypes, MarkRetryingTypes, DispatchTypes, RecordDeliveryTypes,
         SettleRetryTypes, FailTypes
         DEF Retry
  <1> QED
    BY <1>1, <1>2, <1>3 DEF Next

(* Nobody is at work at the start.                                         *)
LEMMA InitTypes == Init => TypesFit
  <1> SUFFICES ASSUME Init PROVE TypesFit
    OBVIOUS
  <1>1. notes \in Seq(Note)
    BY DEF Init
  <1>2. workers \in [Workers -> Busy \cup {Idle}] /\ \A w \in Workers : workers[w] = Idle
    BY DEF Init
  <1> QED
    BY <1>1, <1>2 DEF Init, TypesFit, TypeOK

(* Though runs of the cron overlap, and though a notification is for       *)
(* nobody, what the tables hold is well typed.                             *)
THEOREM TypesStay ==
  Spec => []TypeOK
  <1>1. TypesFit => TypeOK
    BY DEF TypesFit
  <1> QED
    BY <1>1, InitTypes, DeliveryTypes, PTL DEF Spec

(***************************************************************************)
(* The rows that actions leave.                                            *)
(***************************************************************************)

(* A request that is about to log an action of a ticket as a success owes  *)
(* it a row as much as one that has.                                       *)
Owes(r, T, a) ==
  LET q == requests[r] IN
  /\ q \in Evaluating /\ q.stage = "executed" /\ q.ok
  /\ TicketOf(q) \in T /\ ActionsOf(q)[q.place] = a

(* Where it will log that.                                                 *)
Slot(r) == <<requests[r].run, Len(evaluations[requests[r].run].log) + 1>>

Owed(T, a) == {Slot(r) : r \in {s \in Requests : Owes(s, T, a)}}

Taken(T, a) == Succeeded(T, a) \cup Owed(T, a)

ForNobody == {n \in DOMAIN notes : notes[n].to = {}}

RowsInv ==
  /\ \A t \in Tickets :
       /\ \A a \in Appending : Cardinality(Taken({t}, a)) <= rows[t][a]
       /\ Taken({t}, "ADD_TAG") # {} => tickets[t].tagged
  /\ Cardinality(Taken(Tickets, "SEND_NOTIFICATION")) <= Cardinality(ForNobody)

(* Evaluations are finitely many, and so is what they log.                 *)
LEMMA TakenIsFinite ==
  ASSUME RunInv, NEW T, NEW a
  PROVE  IsFiniteSet(Taken(T, a))
  <1> DEFINE n == Len(evaluations)
             counts == [k \in 1..n |-> Len(evaluations[k].log) + 1]
             all == UNION {{k} \X (1..counts[k]) : k \in 1..n}
  <1>1. evaluations \in Seq(Evaluation) /\ n \in Nat /\ DOMAIN evaluations = 1..n
    BY DEF RunInv
  <1>2. \A k \in 1..n : evaluations[k].log \in Seq(Execution)
    <2> SUFFICES ASSUME NEW k \in 1..n PROVE evaluations[k].log \in Seq(Execution)
      OBVIOUS
    <2>1. evaluations[k] \in Evaluation
      BY <1>1
    <2> QED
      BY <2>1 DEF Evaluation
  <1>3. counts \in [1..n -> Nat] /\ \A k \in 1..n : counts[k] = Len(evaluations[k].log) + 1
    BY <1>2
  <1>4. ASSUME NEW y \in Taken(T, a)
        PROVE  \E k \in 1..n, i \in Nat : y = <<k, i>> /\ i \in 1..(Len(evaluations[k].log) + 1)
    <2>1. CASE y \in Succeeded(T, a)
      <3>1. PICK k \in DOMAIN evaluations : y \in {k} \X (DOMAIN evaluations[k].log)
        BY <2>1 DEF Succeeded
      <3>2. PICK i \in DOMAIN evaluations[k].log : y = <<k, i>>
        BY <3>1
      <3>3. i \in Nat /\ i \in 1..(Len(evaluations[k].log) + 1)
        BY <1>1, <1>2, <3>1, <3>2
      <3> QED
        BY <1>1, <3>2, <3>3
    <2>2. CASE y \in Owed(T, a)
      <3>1. PICK r \in Requests : Owes(r, T, a) /\ y = Slot(r)
        BY <2>2 DEF Owed
      <3>2. requests[r].run \in 1..n
        BY <1>1, <3>1 DEF Owes, RunInv
      <3> DEFINE k == requests[r].run
                 l == Len(evaluations[k].log)
      <3>3. l \in Nat
        BY <1>2, <3>2
      <3>4. y = <<k, l + 1>>
        BY <3>1 DEF Slot
      <3> HIDE DEF k
      <3>5. l + 1 \in Nat /\ l + 1 \in 1..(l + 1)
        BY <3>3
      <3> QED
        BY <3>2, <3>4, <3>5 DEF k
    <2> QED
      BY <2>1, <2>2 DEF Taken
  <1>5. IsFiniteSet(all)
    <2> HIDE DEF counts, n
    <2> QED
      BY <1>1, <1>3, PlacesAreFinite
  <1>6. Taken(T, a) \subseteq all
    <2> SUFFICES ASSUME NEW y \in Taken(T, a) PROVE y \in all
      OBVIOUS
    <2>1. PICK k \in 1..n, i \in Nat : y = <<k, i>> /\ i \in 1..counts[k]
      BY <1>3, <1>4
    <2>2. y \in {k} \X (1..counts[k])
      BY <2>1
    <2> HIDE DEF counts, n
    <2> QED
      BY <2>2
  <1> HIDE DEF all
  <1> QED
    BY <1>5, <1>6, FS_Subset

(* Of sets that are taken and at most one thing more.                      *)
LEMMA NoMoreTaken ==
  ASSUME RunInv, NEW T, NEW a, NEW X, X \subseteq Taken(T, a)
  PROVE  /\ Cardinality(X) \in Nat /\ Cardinality(Taken(T, a)) \in Nat
         /\ Cardinality(X) <= Cardinality(Taken(T, a))
  BY TakenIsFinite, FS_Subset, FS_CardinalityType

(* ... one thing more.                                                     *)
LEMMA OneMoreTaken ==
  ASSUME RunInv, NEW T, NEW a, NEW X, NEW y, X \subseteq Taken(T, a) \cup {y}
  PROVE  /\ Cardinality(X) \in Nat /\ Cardinality(Taken(T, a)) \in Nat
         /\ Cardinality(X) <= Cardinality(Taken(T, a)) + 1
  <1> DEFINE S == Taken(T, a)
  <1>1. IsFiniteSet(S)
    BY TakenIsFinite
  <1> HIDE DEF S
  <1>2. /\ IsFiniteSet(S \cup {y}) /\ Cardinality(S) \in Nat
        /\ Cardinality(S \cup {y}) = Cardinality(S) \/ Cardinality(S \cup {y}) = Cardinality(S) + 1
    BY <1>1, FS_AddElement, FS_CardinalityType
  <1>3. Cardinality(X) \in Nat /\ Cardinality(X) <= Cardinality(S \cup {y})
    BY <1>2, FS_Subset, FS_CardinalityType DEF S
  <1> QED
    BY <1>2, <1>3 DEF S

(* What a step adds to what is taken is what its request now owes.         *)
LEMMA TakenGrows ==
  ASSUME RunInv, RunInv', NEW r \in Requests, GoesOn(r), NEW T, NEW a, NEW y \in Taken(T, a)'
  PROVE  y \in Taken(T, a) \/ (Owes(r, T, a)' /\ y = Slot(r)')
  <1> DEFINE q == requests[r]
  <1>1. /\ evaluations \in Seq(Evaluation)
        /\ \A s \in Requests : requests[s] \in Evaluating => requests[s].run \in DOMAIN evaluations
        /\ \A s, u \in Requests :
             s # u /\ requests[s] \in Evaluating /\ requests[u] \in Evaluating
               => requests[s].run # requests[u].run
    BY DEF RunInv
  <1>2. \A k \in DOMAIN evaluations : evaluations[k].log \in Seq(Execution)
    <2> SUFFICES ASSUME NEW k \in DOMAIN evaluations PROVE evaluations[k].log \in Seq(Execution)
      OBVIOUS
    <2>1. evaluations[k] \in Evaluation
      BY <1>1
    <2> QED
      BY <2>1 DEF Evaluation
  <1>3. CASE y \in Succeeded(T, a)'
    <2>1. PICK k \in DOMAIN evaluations' :
            /\ y \in {k} \X (DOMAIN evaluations'[k].log)
            /\ evaluations'[y[1]].ticket \in T
            /\ evaluations'[y[1]].log[y[2]].action = a /\ evaluations'[y[1]].log[y[2]].ok
      BY <1>3 DEF Succeeded
    <2>2. PICK i \in DOMAIN evaluations'[k].log : y = <<k, i>>
      BY <2>1
    <2>3. /\ evaluations'[k].ticket \in T
          /\ evaluations'[k].log[i].action = a /\ evaluations'[k].log[i].ok
      BY <2>1, <2>2
    <2>4. k \in DOMAIN evaluations
      <3> SUFFICES ASSUME k \notin DOMAIN evaluations PROVE FALSE
        OBVIOUS
      <3>1. evaluations'[k].log = <<>>
        BY <2>1 DEF GoesOn
      <3> QED
        BY <2>2, <3>1
    <2> DEFINE e == evaluations[k]
               d == evaluations'[k]
    <2>5. /\ d.ticket = e.ticket /\ d.rules = e.rules
          /\ \/ d.log = e.log
             \/ /\ q \in Evaluating /\ k = q.run
                /\ \E x \in Execution :
                     /\ d.log = Append(e.log, x)
                     /\ x.ok => q.stage = "executed" /\ q.ok /\ x.action = ActionsOf(q)[q.place]
      BY <2>4 DEF GoesOn
    <2>6. ASSUME i \in DOMAIN e.log, d.log[i] = e.log[i] PROVE y \in Succeeded(T, a)
      <3>1. y[1] = k /\ y[2] = i
        BY <2>2
      <3>2. y \in {k} \X (DOMAIN evaluations[k].log)
        BY <2>2, <2>6
      <3>3. evaluations[k].ticket \in T /\ evaluations[k].log[i].action = a /\ evaluations[k].log[i].ok
        BY <2>3, <2>5, <2>6
      <3> HIDE DEF e, d
      <3> QED
        BY <2>4, <3>1, <3>2, <3>3 DEF Succeeded
    <2>7. CASE d.log = e.log
      BY <2>2, <2>6, <2>7 DEF Taken
    <2>8. CASE d.log # e.log
      <3>1. PICK x \in Execution :
              /\ d.log = Append(e.log, x)
              /\ x.ok => q.stage = "executed" /\ q.ok /\ x.action = ActionsOf(q)[q.place]
        BY <2>5, <2>8
      <3>2. q \in Evaluating /\ k = q.run
        BY <2>5, <2>8
      <3>3. e.log \in Seq(Execution)
        BY <1>2, <2>4
      <3>4. (i \in DOMAIN e.log /\ d.log[i] = e.log[i]) \/ (i = Len(e.log) + 1 /\ d.log[i] = x)
        <4> DEFINE l == e.log
                   m == d.log
        <4>1. l \in Seq(Execution) /\ x \in Execution /\ m = Append(l, x) /\ i \in DOMAIN m
          BY <2>2, <3>1, <3>3
        <4> HIDE DEF l, m
        <4>2. DOMAIN m = DOMAIN l \cup {Len(l) + 1} /\ m[Len(l) + 1] = x /\ \A h \in DOMAIN l : m[h] = l[h]
          BY <4>1
        <4>3. (i \in DOMAIN l /\ m[i] = l[i]) \/ (i = Len(l) + 1 /\ m[i] = x)
          BY <4>1, <4>2
        <4> QED
          BY <4>3 DEF l, m
      <3>5. CASE i = Len(e.log) + 1 /\ d.log[i] = x
        <4>1. x.ok /\ x.action = a
          BY <2>3, <3>5
        <4>2. q.stage = "executed" /\ q.ok /\ ActionsOf(q)[q.place] = a
          BY <3>1, <4>1
        <4>3. TicketOf(q) \in T
          BY <2>3, <2>5, <3>2 DEF TicketOf
        <4>4. Owes(r, T, a)
          BY <3>2, <4>2, <4>3 DEF Owes
        <4>5. y = Slot(r)
          BY <2>2, <3>2, <3>5 DEF Slot
        <4> QED
          BY <4>4, <4>5 DEF Taken, Owed
      <3> QED
        BY <2>6, <3>4, <3>5 DEF Taken
    <2> QED
      BY <2>7, <2>8
  <1>4. CASE y \in Owed(T, a)'
    <2>1. PICK s \in Requests : Owes(s, T, a)' /\ y = Slot(s)'
      BY <1>4 DEF Owed
    <2>2. CASE s = r
      BY <2>1, <2>2
    <2>3. CASE s # r
      <3> DEFINE p == requests[s]
      <3>1. requests'[s] = p
        BY <2>3 DEF GoesOn
      <3>2. /\ p \in Evaluating /\ p.stage = "executed" /\ p.ok
            /\ evaluations'[p.run].ticket \in T
            /\ evaluations'[p.run].rules[p.rule].actions[p.place] = a
            /\ y = <<p.run, Len(evaluations'[p.run].log) + 1>>
        BY <2>1, <3>1 DEF Owes, Slot, TicketOf, ActionsOf, RulesOf
      <3>3. p.run \in DOMAIN evaluations /\ (q \in Evaluating => p.run # q.run)
        BY <1>1, <2>3, <3>2
      <3>4. /\ evaluations'[p.run].ticket = evaluations[p.run].ticket
            /\ evaluations'[p.run].rules = evaluations[p.run].rules
            /\ evaluations'[p.run].log = evaluations[p.run].log
        BY <3>3 DEF GoesOn
      <3>5. Owes(s, T, a) /\ y = Slot(s)
        BY <3>2, <3>4 DEF Owes, Slot, TicketOf, ActionsOf, RulesOf
      <3> QED
        BY <3>5 DEF Taken, Owed
    <2> QED
      BY <2>2, <2>3
  <1> QED
    BY <1>3, <1>4 DEF Taken

(* Notifications for nobody stay.                                          *)
LEMMA NobodyStays ==
  ASSUME notes \in Seq(Note), NotesStay
  PROVE  /\ Cardinality(ForNobody) \in Nat /\ Cardinality(ForNobody') \in Nat
         /\ Cardinality(ForNobody) <= Cardinality(ForNobody')
  <1> DEFINE S == ForNobody'
  <1>1. IsFiniteSet(S)
    <2>1. notes' \in Seq(Note)
      BY DEF NotesStay
    <2>2. Len(notes') \in Nat /\ DOMAIN notes' = 1..Len(notes')
      BY <2>1
    <2>3. IsFiniteSet(DOMAIN notes')
      BY <2>2, FS_Interval
    <2>4. S \subseteq DOMAIN notes'
      BY DEF ForNobody
    <2> HIDE DEF S
    <2> QED
      BY <2>3, <2>4, FS_Subset
  <1>2. ForNobody \subseteq S
    BY DEF ForNobody, NotesStay
  <1> HIDE DEF S
  <1>3. /\ Cardinality(S) \in Nat /\ IsFiniteSet(ForNobody) /\ Cardinality(ForNobody) <= Cardinality(S)
    BY <1>1, <1>2, FS_Subset, FS_CardinalityType
  <1>4. Cardinality(ForNobody) \in Nat
    BY <1>3, FS_CardinalityType
  <1> QED
    BY <1>3, <1>4 DEF S

(* What a rule queues is a notification for nobody.                        *)
LEMMA QueuedIsNote ==
  ASSUME NEW channel \in Channels
  PROVE  Queued(channel) \in Note /\ Queued(channel).to = {}
  BY DeliveryAssumption DEF Queued, Note, Status, DeliveryStatus

(* One that is queued is one more of them.                                 *)
LEMMA OneMoreForNobody ==
  ASSUME notes \in Seq(Note), NEW channel \in Channels, notes' = Append(notes, Queued(channel))
  PROVE  NotesStay /\ Cardinality(ForNobody') = Cardinality(ForNobody) + 1
  <1> DEFINE x == Queued(channel)
             n == Len(notes) + 1
  <1>1. x \in Note /\ x.to = {}
    BY QueuedIsNote
  <1> HIDE DEF x
  <1>2. notes' = Append(notes, x)
    BY DEF x
  <1>3. NotesStay
    BY <1>1, <1>2, NoteAdded
  <1>4. /\ DOMAIN notes' = DOMAIN notes \cup {n} /\ n \notin DOMAIN notes /\ notes'[n] = x
        /\ \A k \in DOMAIN notes : notes'[k] = notes[k]
    BY <1>1, <1>2
  <1> HIDE DEF n
  <1>5. ForNobody' = ForNobody \cup {n} /\ n \notin ForNobody
    BY <1>1, <1>4 DEF ForNobody
  <1>6. IsFiniteSet(ForNobody)
    <2>1. Len(notes) \in Nat /\ DOMAIN notes = 1..Len(notes)
      OBVIOUS
    <2>2. IsFiniteSet(DOMAIN notes)
      BY <2>1, FS_Interval
    <2>3. ForNobody \subseteq DOMAIN notes
      BY DEF ForNobody
    <2> QED
      BY <2>2, <2>3, FS_Subset
  <1> DEFINE S == ForNobody
  <1>7. IsFiniteSet(S) /\ n \notin S
    BY <1>5, <1>6
  <1> HIDE DEF S
  <1>8. Cardinality(S \cup {n}) = Cardinality(S) + 1
    BY <1>7, FS_AddElement
  <1> QED
    BY <1>3, <1>5, <1>8 DEF S

(* A step of a machine leaves the row of what it makes its request owe.    *)
LEMMA RowsStep ==
  ASSUME LogInv, RunInv, RunInv', RowsInv, notes \in Seq(Note), NEW r \in Requests,
         GoesOn(r), Leaves(r), KeepsTags
  PROVE  RowsInv' /\ NotesStay
  <1> DEFINE q == requests[r]
             u == TicketOf(q)
             b == ActionsOf(q)[q.place]
  <1>1. rows \in [Tickets -> [Appending -> Nat]]
    BY DEF RunInv
  <1>2. ASSUME NEW T, NEW a, ~Owes(r, T, a)'
        PROVE  /\ Taken(T, a)' \subseteq Taken(T, a)
               /\ Cardinality(Taken(T, a)') <= Cardinality(Taken(T, a))
               /\ Cardinality(Taken(T, a)) \in Nat /\ Cardinality(Taken(T, a)') \in Nat
    <2>1. Taken(T, a)' \subseteq Taken(T, a)
      BY <1>2, TakenGrows
    <2> DEFINE X == Taken(T, a)'
    <2>2. X \subseteq Taken(T, a)
      BY <2>1
    <2> HIDE DEF X
    <2>3. /\ Cardinality(X) <= Cardinality(Taken(T, a))
          /\ Cardinality(Taken(T, a)) \in Nat /\ Cardinality(X) \in Nat
      BY <2>2, NoMoreTaken
    <2> QED
      BY <2>1, <2>3 DEF X
  <1>3. ASSUME NEW T, NEW a
        PROVE  /\ Cardinality(Taken(T, a)') <= Cardinality(Taken(T, a)) + 1
               /\ Cardinality(Taken(T, a)) \in Nat /\ Cardinality(Taken(T, a)') \in Nat
    <2> DEFINE X == Taken(T, a)'
               y == Slot(r)'
    <2>1. X \subseteq Taken(T, a) \cup {y}
      BY TakenGrows
    <2> HIDE DEF X, y
    <2>2. /\ Cardinality(X) <= Cardinality(Taken(T, a)) + 1
          /\ Cardinality(Taken(T, a)) \in Nat /\ Cardinality(X) \in Nat
      BY <2>1, OneMoreTaken
    <2> QED
      BY <2>2 DEF X
  <1>4. ASSUME NEW t \in Tickets, ~Owes(r, {t}, "ADD_TAG")', Taken({t}, "ADD_TAG")' # {}
        PROVE  tickets'[t].tagged
    <2>1. Taken({t}, "ADD_TAG") # {}
      BY <1>2, <1>4
    <2> QED
      BY <2>1 DEF RowsInv, KeepsTags
  <1>5. ASSUME NEW t \in Tickets, NEW a \in Appending, ~Owes(r, {t}, a)', rows'[t][a] = rows[t][a]
        PROVE  Cardinality(Taken({t}, a)') <= rows'[t][a]
    <2>1. Cardinality(Taken({t}, a)) <= rows[t][a]
      BY DEF RowsInv
    <2>2. rows[t][a] \in Nat
      BY <1>1
    <2> QED
      BY <1>2, <1>5, <2>1, <2>2
  <1>6. ASSUME NotesStay, ~Owes(r, Tickets, "SEND_NOTIFICATION")'
        PROVE  Cardinality(Taken(Tickets, "SEND_NOTIFICATION")') <= Cardinality(ForNobody')
    <2>1. Cardinality(Taken(Tickets, "SEND_NOTIFICATION")) <= Cardinality(ForNobody)
      BY DEF RowsInv
    <2> QED
      BY <1>2, <1>6, <2>1, NobodyStays
  <1>7. CASE /\ requests'[r].stage # "executed" \/ ~requests'[r].ok
             /\ UNCHANGED <<rows, notes>>
    <2>1. \A T, a : ~Owes(r, T, a)'
      BY <1>7 DEF Owes
    <2>2. NotesStay
      BY <1>7, NotesUnchanged
    <2> QED
      BY <1>4, <1>5, <1>6, <1>7, <2>1, <2>2 DEF RowsInv
  <1>8. ASSUME requests'[r].run = q.run, Reached(requests'[r]) = Reached(q), UNCHANGED evaluations,
               NEW T, NEW a, Owes(r, T, a)'
        PROVE  u \in T /\ a = b
    <2>1. /\ requests'[r].rule = q.rule /\ requests'[r].place = q.place
      BY <1>8 DEF Reached
    <2> QED
      BY <1>8, <2>1 DEF Owes, TicketOf, ActionsOf, RulesOf
  <1>9. CASE /\ requests'[r].run = q.run /\ Reached(requests'[r]) = Reached(q)
             /\ UNCHANGED evaluations
             /\ u \in Tickets /\ b \in Appending
             /\ rows' = [rows EXCEPT ![u][b] = @ + 1] /\ UNCHANGED notes
    <2>1. NotesStay
      BY <1>9, NotesUnchanged
    <2>2. b # "ADD_TAG" /\ b # "SEND_NOTIFICATION"
      BY <1>9 DEF Appending
    <2>3. ASSUME NEW t \in Tickets, NEW a \in Appending PROVE Cardinality(Taken({t}, a)') <= rows'[t][a]
      <3> HIDE DEF u, b
      <3>1. CASE t = u /\ a = b
        <4>1. rows'[t][a] = rows[t][a] + 1 /\ rows[t][a] \in Nat
          BY <1>1, <1>9, <3>1
        <4>2. Cardinality(Taken({t}, a)) <= rows[t][a]
          BY DEF RowsInv
        <4> QED
          BY <1>3, <4>1, <4>2
      <3>2. CASE ~(t = u /\ a = b)
        <4>1. rows'[t][a] = rows[t][a]
          BY <1>1, <1>9, <3>2
        <4>2. ~Owes(r, {t}, a)'
          BY <1>8, <1>9, <3>2
        <4> QED
          BY <1>5, <4>1, <4>2
      <3> QED
        BY <3>1, <3>2
    <2>4. ~Owes(r, Tickets, "SEND_NOTIFICATION")' /\ \A t \in Tickets : ~Owes(r, {t}, "ADD_TAG")'
      BY <1>8, <1>9, <2>2
    <2> QED
      BY <1>4, <1>6, <2>1, <2>3, <2>4 DEF RowsInv
  <1>10. CASE /\ requests'[r].run = q.run /\ Reached(requests'[r]) = Reached(q)
              /\ UNCHANGED evaluations
              /\ b = "CHANGE_PRIORITY" \/ (b = "ADD_TAG" /\ tickets'[u].tagged)
              /\ UNCHANGED <<rows, notes>>
    <2>1. NotesStay
      BY <1>10, NotesUnchanged
    <2>2. b \notin Appending /\ b # "SEND_NOTIFICATION"
      BY <1>10 DEF Appending
    <2>3. ASSUME NEW t \in Tickets, Taken({t}, "ADD_TAG")' # {} PROVE tickets'[t].tagged
      <3>1. CASE Owes(r, {t}, "ADD_TAG")'
        <4>1. u = t /\ b = "ADD_TAG"
          BY <1>8, <1>10, <3>1
        <4> QED
          BY <1>10, <4>1
      <3>2. CASE ~Owes(r, {t}, "ADD_TAG")'
        BY <1>4, <2>3, <3>2
      <3> QED
        BY <3>1, <3>2
    <2>4. /\ ~Owes(r, Tickets, "SEND_NOTIFICATION")'
          /\ \A t \in Tickets, a \in Appending : ~Owes(r, {t}, a)'
      BY <1>8, <1>10, <2>2
    <2>5. \A t \in Tickets, a \in Appending : Cardinality(Taken({t}, a)') <= rows'[t][a]
      BY <1>5, <1>10, <2>4
    <2> QED
      BY <1>6, <2>1, <2>3, <2>4, <2>5 DEF RowsInv
  <1>11. CASE /\ requests'[r].run = q.run /\ Reached(requests'[r]) = Reached(q)
              /\ UNCHANGED evaluations
              /\ b = "SEND_NOTIFICATION" /\ UNCHANGED rows
              /\ \E channel \in Channels : notes' = Append(notes, Queued(channel))
    <2>1. /\ NotesStay /\ Cardinality(ForNobody') = Cardinality(ForNobody) + 1
          /\ Cardinality(ForNobody) \in Nat
      BY <1>11, OneMoreForNobody, NobodyStays
    <2>2. b \notin Appending /\ b # "ADD_TAG"
      BY <1>11 DEF Appending
    <2>3. \A t \in Tickets : /\ ~Owes(r, {t}, "ADD_TAG")'
                             /\ \A a \in Appending : ~Owes(r, {t}, a)'
      BY <1>8, <1>11, <2>2
    <2>4. \A t \in Tickets, a \in Appending : Cardinality(Taken({t}, a)') <= rows'[t][a]
      BY <1>5, <1>11, <2>3
    <2>5. Cardinality(Taken(Tickets, "SEND_NOTIFICATION")') <= Cardinality(ForNobody')
      <3>1. Cardinality(Taken(Tickets, "SEND_NOTIFICATION")) <= Cardinality(ForNobody)
        BY DEF RowsInv
      <3>2. /\ Cardinality(Taken(Tickets, "SEND_NOTIFICATION")')
                 <= Cardinality(Taken(Tickets, "SEND_NOTIFICATION")) + 1
            /\ Cardinality(Taken(Tickets, "SEND_NOTIFICATION")) \in Nat
            /\ Cardinality(Taken(Tickets, "SEND_NOTIFICATION")') \in Nat
        BY <1>3
      <3> QED
        BY <2>1, <3>1, <3>2
    <2> QED
      BY <1>4, <2>1, <2>3, <2>4, <2>5 DEF RowsInv
  <1> QED
    BY <1>7, <1>9, <1>10, <1>11 DEF Leaves

(***************************************************************************)
(* Machines and delivery together.                                         *)
(***************************************************************************)
RuleInv == LogInv /\ RunInv /\ TypesFit /\ RowsInv

(* A step of a machine leaves the workers alone, and what it does to       *)
(* notifications is at most to queue one.                                  *)
LEMMA MachineQueues ==
  ASSUME LogInv, RunInv, Machine
  PROVE  /\ UNCHANGED <<workers, failures>>
         /\ notes' = notes \/ \E channel \in Channels : notes' = Append(notes, Queued(channel))
  <1>1. \E r \in Requests : Leaves(r)
    BY MachineStep
  <1> QED
    BY <1>1 DEF Leaves, Machine

(* Sending and retrying touch neither what is owed nor whom a notification *)
(* is for.                                                                 *)
LEMMA RowsInDelivery ==
  ASSUME RuleInv, UNCHANGED machineVars, NotesStay
  PROVE  RowsInv'
  <1>1. notes \in Seq(Note)
    BY DEF RuleInv, TypesFit, TypeOK
  <1>2. Cardinality(ForNobody) \in Nat /\ Cardinality(ForNobody') \in Nat
        /\ Cardinality(ForNobody) <= Cardinality(ForNobody')
    BY <1>1, NobodyStays
  <1>3. UNCHANGED <<tickets, evaluations, rows, requests>>
    BY DEF machineVars
  <1>4. \A T, a : Taken(T, a)' = Taken(T, a)
    BY <1>3 DEF Taken, Succeeded, Owed, Owes, Slot, TicketOf, ActionsOf, RulesOf
  <1>5. Cardinality(Taken(Tickets, "SEND_NOTIFICATION")) \in Nat
    BY NoMoreTaken DEF RuleInv
  <1>6. /\ Cardinality(Taken(Tickets, "SEND_NOTIFICATION")') = Cardinality(Taken(Tickets, "SEND_NOTIFICATION"))
        /\ Cardinality(Taken(Tickets, "SEND_NOTIFICATION")) <= Cardinality(ForNobody)
    BY <1>4 DEF RuleInv, RowsInv
  <1>7. Cardinality(Taken(Tickets, "SEND_NOTIFICATION")') <= Cardinality(ForNobody')
    BY <1>2, <1>5, <1>6
  <1>8. \A t \in Tickets :
          /\ \A a \in Appending : Cardinality(Taken({t}, a)') <= rows'[t][a]
          /\ Taken({t}, "ADD_TAG")' # {} => tickets'[t].tagged
    BY <1>3, <1>4 DEF RuleInv, RowsInv
  <1> QED
    BY <1>7, <1>8 DEF RowsInv

(* Every step keeps the invariant ...                                      *)
LEMMA RuleStep == RuleInv /\ [AutomationNext]_allVars => RuleInv'
  <1> SUFFICES ASSUME RuleInv, [AutomationNext]_allVars PROVE RuleInv'
    OBVIOUS
  <1>1. LogInv /\ RunInv /\ TypesFit /\ RowsInv
    BY DEF RuleInv
  <1>2. LogInv' /\ RunInv'
    BY <1>1, MachineIsKept
  <1>3. notes \in Seq(Note)
    BY <1>1 DEF TypesFit, TypeOK
  <1>4. CASE Machine
    <2>1. PICK r \in Requests : GoesOn(r) /\ Leaves(r) /\ KeepsTags
      BY <1>1, <1>4, MachineStep
    <2>2. RowsInv' /\ NotesStay
      BY <1>1, <1>2, <1>3, <2>1, RowsStep
    <2>3. UNCHANGED <<workers, failures>>
      BY <1>1, <1>4, MachineQueues
    <2>4. TypesFit'
      BY <1>1, <2>2, <2>3 DEF TypesFit, TypeOK, NotesStay
    <2> QED
      BY <1>2, <2>2, <2>4 DEF RuleInv
  <1>5. CASE [Next]_vars /\ UNCHANGED machineVars
    <2>1. TypesFit' /\ NotesStay
      BY <1>1, <1>5, DeliveryTypes
    <2>2. RowsInv'
      BY <1>5, <2>1, RowsInDelivery
    <2> QED
      BY <1>2, <2>1, <2>2 DEF RuleInv
  <1> QED
    BY <1>4, <1>5 DEF AutomationNext, Delivery, allVars

(* ... and it holds at the start.                                          *)
LEMMA InitRules == AutomationInit => RuleInv
  <1> SUFFICES ASSUME AutomationInit PROVE RuleInv
    OBVIOUS
  <1>1. LogInv /\ RunInv /\ TypesFit
    BY InitMachine, InitTypes DEF AutomationInit
  <1>2. /\ evaluations = <<>> /\ requests = [r \in Requests |-> Free] /\ notes = <<>>
        /\ rows = [t \in Tickets |-> [a \in Appending |-> 0]]
    BY DEF AutomationInit, Init
  <1>3. \A r \in Requests : requests[r] \notin Evaluating
    BY <1>2, KindsDiffer, FreeFits
  <1>4. \A T, a : Taken(T, a) = {}
    BY <1>2, <1>3 DEF Taken, Succeeded, Owed, Owes
  <1>5. Cardinality({}) = 0
    BY FS_EmptySet
  <1>6. ForNobody = {} /\ Cardinality(ForNobody) = 0
    <2>1. DOMAIN notes = {}
      BY <1>2
    <2> QED
      BY <1>5, <2>1 DEF ForNobody
  <1>7. RowsInv
    <2>1. \A T, a : Cardinality(Taken(T, a)) = 0
      BY <1>4, <1>5
    <2>2. \A t \in Tickets, a \in Appending : rows[t][a] = 0
      BY <1>2
    <2> QED
      BY <1>4, <1>6, <2>1, <2>2 DEF RowsInv
  <1> QED
    BY <1>1, <1>7 DEF RuleInv

(* What succeeded is taken.                                                *)
LEMMA TakenHasItsRow == RuleInv => SuccessLeavesItsRow
  <1> SUFFICES ASSUME RuleInv PROVE SuccessLeavesItsRow
    OBVIOUS
  <1>1. RunInv /\ RowsInv
    BY DEF RuleInv
  <1>2. \A T, a : Succeeded(T, a) \subseteq Taken(T, a)
    BY DEF Taken
  <1>3. \A T, a : /\ Cardinality(Succeeded(T, a)) \in Nat /\ Cardinality(Taken(T, a)) \in Nat
                  /\ Cardinality(Succeeded(T, a)) <= Cardinality(Taken(T, a))
    BY <1>1, <1>2, NoMoreTaken
  <1>4. ASSUME NEW t \in Tickets, NEW a \in Appending PROVE Cardinality(Succeeded({t}, a)) <= rows[t][a]
    <2>1. rows[t][a] \in Nat
      BY <1>1 DEF RunInv
    <2>2. Cardinality(Taken({t}, a)) <= rows[t][a]
      BY <1>1 DEF RowsInv
    <2> QED
      BY <1>3, <2>1, <2>2
  <1>5. ASSUME NEW t \in Tickets, Succeeded({t}, "ADD_TAG") # {} PROVE tickets[t].tagged
    BY <1>1, <1>2, <1>5 DEF RowsInv
  <1>6. Cardinality(Succeeded(Tickets, "SEND_NOTIFICATION")) <= Cardinality(ForNobody)
    <2>1. notes \in Seq(Note)
      BY DEF RuleInv, TypesFit, TypeOK
    <2>2. Cardinality(ForNobody) \in Nat
      <3>1. Len(notes) \in Nat /\ DOMAIN notes = 1..Len(notes)
        BY <2>1
      <3>2. ForNobody \subseteq DOMAIN notes /\ IsFiniteSet(DOMAIN notes)
        BY <3>1, FS_Interval DEF ForNobody
      <3> QED
        BY <3>2, FS_Subset, FS_CardinalityType
    <2>3. Cardinality(Taken(Tickets, "SEND_NOTIFICATION")) <= Cardinality(ForNobody)
      BY <1>1 DEF RowsInv
    <2> QED
      BY <1>3, <2>2, <2>3
  <1> QED
    BY <1>4, <1>5, <1>6 DEF SuccessLeavesItsRow, ForNobody

(* Whatever requests overlap and die, and whatever is sent and retried     *)
(* meanwhile: what is logged as a success left its own row, tag or         *)
(* notification.                                                           *)
THEOREM SuccessLeftItsRow ==
  AutomationSpec => []SuccessLeavesItsRow
  <1> QED
    BY InitRules, RuleStep, TakenHasItsRow, PTL DEF AutomationSpec

(* A notification that a rule queues is true and on nobody's list.         *)
LEMMA QueuedIsTrue ==
  ASSUME NEW channel \in Channels
  PROVE  NoteIsTrue(Queued(channel))
  BY QueuedIsNote DEF NoteIsTrue, Queued

(* Queueing it keeps the invariant of delivery.                            *)
LEMMA QueueingKeepsDelivery ==
  ASSUME DeliveryInv, LogInv, RunInv, Machine
  PROVE  DeliveryInv'
  <1>1. UNCHANGED <<workers, failures>>
    BY MachineQueues
  <1>2. CASE notes' = notes
    BY <1>1, <1>2 DEF DeliveryInv, SendersApart
  <1>3. ASSUME NEW channel \in Channels, notes' = Append(notes, Queued(channel)) PROVE DeliveryInv'
    <2> DEFINE x == Queued(channel)
    <2>1. x \in Note /\ NoteIsTrue(x) /\ notes' = Append(notes, x)
      BY <1>3, QueuedIsTrue, QueuedIsNote
    <2>2. notes \in Seq(Note) /\ \A n \in DOMAIN notes : NoteIsTrue(notes[n])
      BY DEF DeliveryInv
    <2> HIDE DEF x
    <2>3. /\ notes' \in Seq(Note) /\ DOMAIN notes \subseteq DOMAIN notes'
          /\ \A n \in DOMAIN notes : notes'[n] = notes[n]
          /\ \A n \in DOMAIN notes' : n \in DOMAIN notes \/ notes'[n] = x
      BY <2>1, <2>2
    <2>4. \A n \in DOMAIN notes' : NoteIsTrue(notes'[n])
      BY <2>1, <2>2, <2>3
    <2>5. ASSUME NEW w \in Workers PROVE Fits(w, workers[w], notes')
      <3>1. Fits(w, workers[w], notes)
        BY DEF DeliveryInv
      <3>2. workers[w] # Idle =>
              \A i \in workers[w].batch : i.note \in DOMAIN notes' /\ notes'[i.note] = notes[i.note]
        BY <2>3, <3>1 DEF Fits, ListFits
      <3> QED
        BY <3>1, <3>2, FitsElsewhere
    <2> QED
      BY <1>1, <2>3, <2>4, <2>5 DEF DeliveryInv, SendersApart
  <1> QED
    BY <1>2, <1>3, MachineQueues

(* What holds of both.                                                     *)
SystemInv == LogInv /\ RunInv /\ DeliveryInv

(* Every step keeps both ...                                               *)
LEMMA SystemStep ==
  ASSUME OneCron, EverySendHasRecipients, SystemInv, [AutomationNext]_allVars
  PROVE  SystemInv'
  <1>1. LogInv' /\ RunInv'
    BY MachineIsKept DEF SystemInv
  <1>2. DeliveryInv'
    BY QueueingKeepsDelivery, DeliveryStep DEF SystemInv, AutomationNext, Delivery, allVars
  <1> QED
    BY <1>1, <1>2 DEF SystemInv

(* ... and so they always hold.                                            *)
LEMMA SystemIsKept ==
  ASSUME OneCron, EverySendHasRecipients
  PROVE  AutomationSpec => []SystemInv
  <1>1. AutomationInit => SystemInv
    BY InitMachine, InitDelivery DEF AutomationInit, SystemInv
  <1> QED
    BY <1>1, SystemStep, PTL DEF AutomationSpec

(* Rules that queue notifications beside those that are sent and retried   *)
(* leave what the records say true ...                                     *)
THEOREM RecordsStayTrueBesideRules ==
  ASSUME OneCron, EverySendHasRecipients
  PROVE  AutomationSpec => []RecordsAreTrue
  <1>1. SystemInv => RecordsAreTrue
    BY InvIsTrue DEF SystemInv
  <1> QED
    BY <1>1, SystemIsKept, PTL

(* ... and nobody is tried again who has the message.                      *)
THEOREM NobodyIsTriedTwiceBesideRules ==
  ASSUME OneCron, EverySendHasRecipients
  PROVE  AutomationSpec => NotTriedOnceDelivered
  <1>1. SystemInv /\ [AutomationNext]_allVars =>
          [\A w \in Workers :
             In(w, "send") /\ workers'[w].stage = "record"
               => \A r \in workers'[w].trying :
                    notes[Current(w).note].delivery[r] # "DELIVERED"]_vars
    <2> SUFFICES ASSUME SystemInv, [AutomationNext]_allVars, NEW w \in Workers,
                        In(w, "send"), workers'[w].stage = "record"
                 PROVE  \A r \in workers'[w].trying : notes[Current(w).note].delivery[r] # "DELIVERED"
      OBVIOUS
    <2>1. DeliveryInv /\ LogInv /\ RunInv
      BY DEF SystemInv
    <2>2. ~Machine
      BY <2>1, MachineQueues DEF In
    <2>3. [Next]_vars
      BY <2>2 DEF AutomationNext, Delivery, allVars
    <2> QED
      BY <2>1, <2>3, AttemptsAreOwed
  <1> QED
    BY <1>1, SystemIsKept, PTL DEF AutomationSpec, NotTriedOnceDelivered

(* But what a rule queues is for nobody, and stays so and PENDING.         *)
QueuedForGood == \A n \in DOMAIN notes : notes[n].to = {} => notes[n].status = "PENDING"

(* The comment at the action says that the notifications module handles    *)
(* the dispatch: it never does, whatever is sent or retried.               *)
THEOREM QueuedIsNeverSent ==
  ASSUME OneCron, EverySendHasRecipients
  PROVE  AutomationSpec => []QueuedForGood
  <1>1. SystemInv => QueuedForGood
    BY DEF SystemInv, DeliveryInv, NoteIsTrue, QueuedForGood
  <1> QED
    BY <1>1, SystemIsKept, PTL

(***************************************************************************)
(* Runs of the cron that overlap.                                          *)
(***************************************************************************)

(* A run has yet to count its attempt on what is on its list, but for what *)
(* it is at once that is marked.                                           *)
Owing(q, n) ==
  /\ q # Idle /\ \E i \in q.batch : i.note = n
  /\ q.stage = "mark" \/ n # First(q.batch).note

Counting(n) == {c \in Crons : Owing(workers[c], n)}

(* The attempts that are counted and those that will be.                   *)
WithinRuns(x, counting) ==
  \/ x.retries = 0 /\ counting = {}
  \/ x.retries + Cardinality(counting) < x.limit + Cardinality(Crons)

CountsInv ==
  /\ TypesFit
  /\ \A w \in Workers : workers[w] # Idle => OncePerNote(workers[w].batch)
  /\ \A n \in DOMAIN notes : WithinRuns(notes[n], Counting(n))

LEMMA CountingIsFinite ==
  ASSUME IsFiniteSet(Crons), NEW n
  PROVE  /\ IsFiniteSet(Counting(n)) /\ Cardinality(Counting(n)) \in Nat
         /\ Cardinality(Crons) \in Nat /\ Cardinality(Counting(n)) <= Cardinality(Crons)
  <1>1. Counting(n) \subseteq Crons
    BY DEF Counting
  <1> QED
    BY <1>1, FS_Subset, FS_CardinalityType

(* Nothing that is on a list is yet to be created.                         *)
LEMMA ListedIsCreated ==
  ASSUME CountsInv, NEW c \in Crons, NEW n, Owing(workers[c], n)
  PROVE  n \in DOMAIN notes
  <1>1. c \in Workers
    BY DEF Workers
  <1> QED
    BY <1>1 DEF CountsInv, TypesFit, Owing

(* Fewer that have yet to count.                                           *)
LEMMA FewerCounting ==
  ASSUME IsFiniteSet(Crons), CountsInv, NEW n \in DOMAIN notes, NEW y \in Note,
         y.retries = notes[n].retries, y.limit = notes[n].limit,
         Counting(n)' \subseteq Counting(n)
  PROVE  WithinRuns(y, Counting(n)')
  <1> DEFINE A == Counting(n)
             B == Counting(n)'
             x == notes[n]
  <1>1. IsFiniteSet(A) /\ Cardinality(A) \in Nat /\ Cardinality(Crons) \in Nat
    BY CountingIsFinite
  <1>2. WithinRuns(x, A) /\ x \in Note
    BY DEF CountsInv, TypesFit, TypeOK
  <1>3. B \subseteq A
    OBVIOUS
  <1> HIDE DEF A, B, x
  <1>4. Cardinality(B) \in Nat /\ Cardinality(B) <= Cardinality(A)
    BY <1>1, <1>3, FS_Subset, FS_CardinalityType
  <1>5. y.retries = x.retries /\ y.limit = x.limit /\ x.retries \in Nat /\ x.limit \in Nat
    BY <1>2 DEF x, Note
  <1>6. WithinRuns(y, B)
    BY <1>1, <1>2, <1>3, <1>4, <1>5 DEF WithinRuns
  <1> QED
    BY <1>6 DEF B

(* A step of one worker after which it has no more to count.               *)
LEMMA NoMoreToCount ==
  ASSUME IsFiniteSet(Crons), CountsInv, TypesFit', NotesStay,
         NEW w \in Workers, NEW q, workers' = [workers EXCEPT ![w] = q],
         q # Idle => OncePerNote(q.batch),
         w \in Crons => \A n : Owing(q, n) => Owing(workers[w], n),
         \A n \in DOMAIN notes :
           notes'[n].retries = notes[n].retries /\ notes'[n].limit = notes[n].limit,
         \A n \in DOMAIN notes' : n \notin DOMAIN notes => notes'[n].retries = 0
  PROVE  CountsInv'
  <1>1. workers \in [Workers -> Busy \cup {Idle}]
    BY DEF CountsInv, TypesFit, TypeOK
  <1>2. \A n : Counting(n)' \subseteq Counting(n)
    BY <1>1 DEF Counting, Workers
  <1>3. \A v \in Workers : workers'[v] # Idle => OncePerNote(workers'[v].batch)
    BY <1>1 DEF CountsInv
  <1>4. ASSUME NEW n \in DOMAIN notes' PROVE WithinRuns(notes'[n], Counting(n)')
    <2>1. CASE n \in DOMAIN notes
      <3>1. notes'[n] \in Note
        BY DEF NotesStay
      <3> QED
        BY <1>2, <2>1, <3>1, FewerCounting
    <2>2. CASE n \notin DOMAIN notes
      <3>1. Counting(n) = {}
        BY <2>2, ListedIsCreated DEF Counting
      <3> QED
        BY <1>2, <2>2, <3>1 DEF WithinRuns
    <2> QED
      BY <2>1, <2>2
  <1> QED
    BY <1>3, <1>4 DEF CountsInv

(* A step that rewrites one notification.                                  *)
LEMMA RetriesOfOne ==
  ASSUME notes \in Seq(Note), NEW n \in DOMAIN notes, NEW y \in Note,
         notes' = [notes EXCEPT ![n] = y], y.retries = notes[n].retries, y.limit = notes[n].limit
  PROVE  /\ \A m \in DOMAIN notes :
              notes'[m].retries = notes[m].retries /\ notes'[m].limit = notes[m].limit
         /\ DOMAIN notes' = DOMAIN notes
  BY OneReplaced

LEMMA SendNotificationCounts ==
  ASSUME IsFiniteSet(Crons), CountsInv, NEW s \in Senders, SendNotification(s)
  PROVE  CountsInv'
  <1>1. TypesFit' /\ NotesStay
    BY SendNotificationTypes DEF CountsInv
  <1>2. PICK channel \in Channels, to \in RecipientSets, limit \in RetryLimits :
          notes' = Append(notes,
            [channel |-> channel, status |-> "PENDING", retries |-> 0, limit |-> limit,
             dated |-> FALSE, to |-> to, delivery |-> [r \in Recipients |-> "PENDING"]])
    BY DEF SendNotification
  <1> DEFINE x == [channel |-> channel, status |-> "PENDING", retries |-> 0, limit |-> limit,
                   dated |-> FALSE, to |-> to, delivery |-> [r \in Recipients |-> "PENDING"]]
             item == [note |-> Len(notes'), left |-> notes'[Len(notes')].to]
             q == Working("send", {item})
  <1>3. x.retries = 0 /\ x \in Note
    BY DeliveryAssumption DEF Note, Status, DeliveryStatus
  <1>4. notes' = Append(notes, x) /\ notes \in Seq(Note)
    BY <1>2 DEF CountsInv, TypesFit, TypeOK
  <1>5. workers' = [workers EXCEPT ![s] = q] /\ s \in Workers /\ s \notin Crons
    BY DeliveryAssumption DEF SendNotification, Workers
  <1> HIDE DEF x
  <1>6. /\ \A n \in DOMAIN notes : notes'[n] = notes[n]
        /\ \A n \in DOMAIN notes' : n \notin DOMAIN notes => notes'[n] = x
        /\ Len(notes') \in Nat
    BY <1>3, <1>4
  <1>7. item.note \in Nat
    BY <1>6
  <1> HIDE DEF item
  <1>8. q # Idle => OncePerNote(q.batch)
    BY <1>7, OneItem DEF Working
  <1> HIDE DEF q
  <1> QED
    BY <1>1, <1>3, <1>5, <1>6, <1>8, NoMoreToCount

LEMMA ProcessRetriesCounts ==
  ASSUME IsFiniteSet(Crons), CountsInv, NEW c \in Crons, ProcessRetries(c)
  PROVE  CountsInv'
  <1> DEFINE batch == {[note |-> n, left |-> Undelivered(n)] : n \in {m \in Oldest : Retryable(m)}}
             q == Working("mark", batch)
  <1>1. TypesFit' /\ NotesStay
    BY ProcessRetriesTypes DEF CountsInv
  <1>2. /\ batch # {} /\ workers' = [workers EXCEPT ![c] = q]
        /\ notes' = notes /\ workers[c] = Idle /\ c \in Workers
    BY DEF ProcessRetries, Workers
  <1>3. workers \in [Workers -> Busy \cup {Idle}] /\ notes \in Seq(Note)
    BY DEF CountsInv, TypesFit, TypeOK
  <1>4. OncePerNote(batch) /\ \A i \in batch : Retryable(i.note) /\ i.note \in DOMAIN notes
    <2>1. \A n \in Oldest : n \in DOMAIN notes
      BY DEF Oldest, Failed
    <2>2. \A n \in DOMAIN notes : n \in Nat
      BY <1>3
    <2> QED
      BY <1>2, <2>1, <2>2 DEF OncePerNote
  <1>5. q.batch = batch
    BY DEF Working
  <1> HIDE DEF batch, q
  <1>6. \A v \in Workers : workers'[v] # Idle => OncePerNote(workers'[v].batch)
    BY <1>2, <1>3, <1>4, <1>5 DEF CountsInv
  <1>7. ASSUME NEW n \in DOMAIN notes PROVE WithinRuns(notes'[n], Counting(n)')
    <2> DEFINE x == notes[n]
    <2>1. x \in Note /\ notes'[n] = x
      BY <1>2, <1>3
    <2>2. CASE Retryable(n)
      <3>1. /\ x.retries \in Nat /\ x.limit \in Nat /\ x.retries < x.limit
        BY <2>1, <2>2 DEF Retryable, Note
      <3>2. /\ Cardinality(Counting(n)') \in Nat /\ Cardinality(Crons) \in Nat
            /\ Cardinality(Counting(n)') <= Cardinality(Crons)
        <4>1. Counting(n)' \subseteq Crons
          BY DEF Counting
        <4> QED
          BY <4>1, FS_Subset, FS_CardinalityType
      <3> HIDE DEF x
      <3>3. x.retries + Cardinality(Counting(n)') < x.limit + Cardinality(Crons)
        BY <3>1, <3>2
      <3> QED
        BY <2>1, <3>3 DEF WithinRuns
    <2>3. CASE ~Retryable(n)
      <3>1. ~Owing(q, n)
        BY <1>4, <1>5, <2>3 DEF Owing
      <3>2. Counting(n)' \subseteq Counting(n)
        BY <1>2, <1>3, <3>1 DEF Counting, Workers
      <3> QED
        BY <2>1, <3>2, FewerCounting
    <2> QED
      BY <2>2, <2>3
  <1> QED
    BY <1>1, <1>2, <1>6, <1>7 DEF CountsInv

(* The attempt that is marked is counted.                                  *)
LEMMA MarkRetryingCounts ==
  ASSUME IsFiniteSet(Crons), CountsInv, NEW c \in Crons, MarkRetrying(c)
  PROVE  CountsInv'
  <1>0. PICK n : n = Current(c).note
    OBVIOUS
  <1> DEFINE b == workers[c].batch
             q == Working("send", b)
             y == [notes[n] EXCEPT !.status = "RETRYING", !.retries = @ + 1]
  <1>1. TypesFit' /\ NotesStay
    BY MarkRetryingTypes DEF CountsInv
  <1>2. c \in Workers /\ notes \in Seq(Note) /\ workers \in [Workers -> Busy \cup {Idle}] /\ TypesFit
    BY DEF CountsInv, TypesFit, TypeOK, Workers
  <1>3. workers[c].stage = "mark" /\ workers' = [workers EXCEPT ![c] = q]
    BY <1>2 DEF MarkRetrying, In
  <1>4. notes' = [notes EXCEPT ![n] = y]
    BY <1>0 DEF MarkRetrying
  <1>5. /\ workers[c] \in Busy /\ workers[c] # Idle /\ Current(c) \in b
        /\ n \in DOMAIN notes /\ notes[n] \in Note
    BY <1>0, <1>2, <1>3, CurrentIsOnList
  <1>6. OncePerNote(b)
    BY <1>2, <1>5 DEF CountsInv
  <1>7. n = First(b).note
    BY <1>0 DEF Current, First
  <1>8. q # Idle /\ q.batch = b /\ q.stage = "send"
    <2>1. b \in SUBSET [note : Nat, left : SUBSET Recipients]
      BY <1>5 DEF Busy
    <2> HIDE DEF b, y
    <2> QED
      BY <2>1, WorkingIsBusy
  <1>9. y.retries = notes[n].retries + 1 /\ y.limit = notes[n].limit /\ y \in Note
    <2> DEFINE x == notes[n]
    <2>1. x \in Note
      BY <1>5
    <2> HIDE DEF x
    <2>2. x.retries + 1 \in Nat
      BY <2>1 DEF Note
    <2>3. [x EXCEPT !.status = "RETRYING", !.retries = @ + 1] \in Note
      BY <2>1, <2>2 DEF Note, Status
    <2>4. /\ [x EXCEPT !.status = "RETRYING", !.retries = @ + 1].retries = x.retries + 1
          /\ [x EXCEPT !.status = "RETRYING", !.retries = @ + 1].limit = x.limit
      BY <2>1 DEF Note
    <2> QED
      BY <2>3, <2>4 DEF x
  <1> HIDE DEF b, q, y
  <1>10. \A v \in Workers : workers'[v] # Idle => OncePerNote(workers'[v].batch)
    BY <1>2, <1>3, <1>6, <1>8 DEF CountsInv
  <1>11. Owing(workers[c], n) /\ ~Owing(q, n)
    BY <1>0, <1>3, <1>5, <1>7, <1>8 DEF Owing, b
  <1>12. Counting(n)' = Counting(n) \ {c} /\ c \in Counting(n)
    <2>1. c \in Counting(n)
      BY <1>11 DEF Counting
    <2>2. \A v \in Crons : workers'[v] = IF v = c THEN q ELSE workers[v]
      BY <1>2, <1>3 DEF Workers
    <2>3. \A v \in Crons : Owing(workers'[v], n) <=> v # c /\ Owing(workers[v], n)
      BY <1>11, <2>2
    <2> QED
      BY <2>1, <2>2, <2>3 DEF Counting
  <1>13. ASSUME NEW m \in DOMAIN notes', m # n PROVE WithinRuns(notes'[m], Counting(m)')
    <2>1. m \in DOMAIN notes /\ notes'[m] = notes[m] /\ notes[m] \in Note
      BY <1>2, <1>4, <1>5, <1>9, <1>13
    <2>2. Owing(q, m) => Owing(workers[c], m)
      BY <1>3, <1>5, <1>8 DEF Owing, b
    <2>3. Counting(m)' \subseteq Counting(m)
      BY <1>2, <1>3, <2>2 DEF Counting, Workers
    <2> QED
      BY <2>1, <2>3, FewerCounting
  <1>14. WithinRuns(notes'[n], Counting(n)')
    <2>1. notes'[n] = y
      BY <1>2, <1>4, <1>5
    <2> DEFINE A == Counting(n)
               B == Counting(n)'
               x == notes[n]
    <2>2. IsFiniteSet(A) /\ Cardinality(A) \in Nat /\ Cardinality(Crons) \in Nat
      BY CountingIsFinite
    <2>3. B = A \ {c} /\ c \in A
      BY <1>12
    <2>4. WithinRuns(x, A) /\ x.retries \in Nat /\ x.limit \in Nat
      BY <1>5 DEF CountsInv, Note
    <2>5. y.retries = x.retries + 1 /\ y.limit = x.limit
      BY <1>9
    <2> HIDE DEF A, B, x
    <2>6. Cardinality(B) = Cardinality(A) - 1
      BY <2>2, <2>3, FS_RemoveElement
    <2>7. WithinRuns(y, B)
      BY <2>2, <2>3, <2>4, <2>5, <2>6 DEF WithinRuns
    <2> QED
      BY <2>1, <2>7 DEF B
  <1>15. \A m \in DOMAIN notes' : WithinRuns(notes'[m], Counting(m)')
    BY <1>13, <1>14
  <1> QED
    BY <1>1, <1>10, <1>15 DEF CountsInv

(* An attempt and its answer count nothing.                                *)
LEMMA DispatchCounts ==
  ASSUME IsFiniteSet(Crons), CountsInv, NEW w \in Workers, Dispatch(w)
  PROVE  CountsInv'
  <1>1. TypesFit' /\ NotesStay
    BY DispatchTypes DEF CountsInv
  <1>2. notes \in Seq(Note) /\ workers \in [Workers -> Busy \cup {Idle}] /\ TypesFit
    BY DEF CountsInv, TypesFit, TypeOK
  <1>3. workers[w].stage = "send" /\ notes' = notes
    BY DEF Dispatch, In
  <1>4. workers[w] \in Busy /\ workers[w] # Idle
    BY <1>2, <1>3, CurrentIsOnList
  <1>5. PICK R, a :
          workers' = [workers EXCEPT ![w].stage = "record", ![w].trying = R, ![w].answer = a]
    BY DEF Dispatch
  <1> DEFINE q == [workers[w] EXCEPT !.stage = "record", !.trying = R, !.answer = a]
  <1>6. workers' = [workers EXCEPT ![w] = q]
    BY <1>5
  <1>7. q.batch = workers[w].batch /\ q.stage = "record"
    BY <1>4 DEF Busy
  <1> HIDE DEF q
  <1>8. OncePerNote(q.batch)
    BY <1>4, <1>7 DEF CountsInv
  <1>9. \A n : Owing(q, n) => Owing(workers[w], n)
    BY <1>4, <1>7 DEF Owing
  <1> QED
    BY <1>1, <1>3, <1>6, <1>8, <1>9, NoMoreToCount

LEMMA RecordDeliveryCounts ==
  ASSUME IsFiniteSet(Crons), CountsInv, NEW w \in Workers, RecordDelivery(w)
  PROVE  CountsInv'
  <1> DEFINE item == Current(w)
             n == item.note
             b == workers[w].batch
             j == [item EXCEPT !.left = @ \ workers[w].trying]
             rest == (b \ {item}) \cup {j}
             later == [r \in Recipients |->
                        IF r \in workers[w].trying
                          THEN StatusAfter(notes[n].channel, workers[w].answer, notes[n].delivery[r])
                          ELSE notes[n].delivery[r]]
             y == [notes[n] EXCEPT !.delivery = later]
             q == [workers[w] EXCEPT !.stage = "send", !.batch = rest,
                     !.all = @ /\ Success(workers[w].answer), !.any = @ \/ Success(workers[w].answer)]
  <1>1. TypesFit' /\ NotesStay
    BY RecordDeliveryTypes DEF CountsInv
  <1>2. notes \in Seq(Note) /\ workers \in [Workers -> Busy \cup {Idle}] /\ TypesFit
    BY DEF CountsInv, TypesFit, TypeOK
  <1>3. workers[w].stage = "record"
    BY DEF RecordDelivery, In
  <1>4. /\ workers[w] \in Busy /\ workers[w] # Idle /\ item \in b
        /\ item \in [note : Nat, left : SUBSET Recipients]
        /\ n \in DOMAIN notes /\ notes[n] \in Note
    BY <1>2, <1>3, CurrentIsOnList
  <1>5. workers' = [workers EXCEPT ![w] = q]
    BY <1>2, <1>4 DEF RecordDelivery
  <1>6. notes' = [notes EXCEPT ![n] = y]
    BY DEF RecordDelivery
  <1>7. y.retries = notes[n].retries /\ y.limit = notes[n].limit
    BY <1>4 DEF Note
  <1>8. j.note = n
    BY <1>4
  <1>9. q.batch = rest /\ q.stage = "send"
    BY <1>4 DEF Busy
  <1>10. item = First(b)
    BY DEF Current, First
  <1>11. OncePerNote(b)
    BY <1>2, <1>4 DEF CountsInv
  <1> HIDE DEF j, y, q
  <1>12. OncePerNote(rest) /\ First(rest) = j
    BY <1>8, <1>10, <1>11, FirstStaysFirst
  <1>13. \A m : Owing(q, m) => Owing(workers[w], m)
    BY <1>3, <1>4, <1>8, <1>9, <1>10, <1>12 DEF Owing
  <1>14. \A m \in DOMAIN notes : notes'[m].retries = notes[m].retries /\ notes'[m].limit = notes[m].limit
    BY <1>2, <1>4, <1>6, <1>7
  <1>15. DOMAIN notes' = DOMAIN notes
    BY <1>6
  <1> HIDE DEF rest
  <1> QED
    BY <1>1, <1>5, <1>9, <1>12, <1>13, <1>14, <1>15, NoMoreToCount

(* Nor does what is concluded from them.                                   *)
LEMMA SettleSendCounts ==
  ASSUME IsFiniteSet(Crons), CountsInv, NEW s \in Senders, SettleSend(s)
  PROVE  CountsInv'
  <1> DEFINE n == Current(s).note
             status == IF workers[s].all \/ workers[s].any THEN "SENT" ELSE "FAILED"
             y == [notes[n] EXCEPT !.status = status, !.dated = workers[s].any]
  <1>1. TypesFit' /\ NotesStay
    BY SettleSendTypes DEF CountsInv
  <1>2. notes \in Seq(Note) /\ TypesFit /\ s \in Workers
    BY DEF CountsInv, TypesFit, TypeOK, Workers
  <1>3. workers[s].stage = "send" /\ workers' = [workers EXCEPT ![s] = Idle]
    BY DEF SettleSend, Done, In
  <1>4. n \in DOMAIN notes /\ notes[n] \in Note
    BY <1>2, <1>3, CurrentIsOnList
  <1>5. notes' = [notes EXCEPT ![n] = y]
    BY DEF SettleSend
  <1>6. y.retries = notes[n].retries /\ y.limit = notes[n].limit
    BY <1>4 DEF Note
  <1> HIDE DEF y, n
  <1>7. \A m \in DOMAIN notes : notes'[m].retries = notes[m].retries /\ notes'[m].limit = notes[m].limit
    BY <1>2, <1>4, <1>5, <1>6
  <1>8. DOMAIN notes' = DOMAIN notes
    BY <1>5
  <1>9. \A m : ~Owing(Idle, m)
    BY DEF Owing
  <1> QED
    BY <1>1, <1>2, <1>3, <1>7, <1>8, <1>9, NoMoreToCount

LEMMA SettleRetryCounts ==
  ASSUME IsFiniteSet(Crons), CountsInv, NEW c \in Crons, SettleRetry(c)
  PROVE  CountsInv'
  <1> DEFINE item == Current(c)
             n == item.note
             b == workers[c].batch
             rest == b \ {item}
             status == IF workers[c].all THEN "SENT" ELSE "FAILED"
             y == [notes[n] EXCEPT !.status = status, !.dated = @ \/ workers[c].all]
             q == IF rest = {} THEN Idle ELSE Working("mark", rest)
  <1>1. TypesFit' /\ NotesStay
    BY SettleRetryTypes DEF CountsInv
  <1>2. notes \in Seq(Note) /\ TypesFit /\ c \in Workers
    BY DEF CountsInv, TypesFit, TypeOK, Workers
  <1>3. workers[c].stage = "send" /\ workers' = [workers EXCEPT ![c] = q]
    BY DEF SettleRetry, Done, In
  <1>4. /\ workers[c] \in Busy /\ workers[c] # Idle /\ item \in b
        /\ n \in DOMAIN notes /\ notes[n] \in Note
    BY <1>2, <1>3, CurrentIsOnList
  <1>5. notes' = [notes EXCEPT ![n] = y]
    BY DEF SettleRetry
  <1>6. y.retries = notes[n].retries /\ y.limit = notes[n].limit
    BY <1>4 DEF Note
  <1>7. OncePerNote(b) /\ item = First(b)
    BY <1>2, <1>4 DEF CountsInv, Current, First
  <1>8. q # Idle => rest # {} /\ q.batch = rest
    <2>1. rest \in SUBSET [note : Nat, left : SUBSET Recipients]
      BY <1>4 DEF Busy
    <2> QED
      BY <2>1, WorkingIsBusy
  <1> HIDE DEF y, q
  <1>9. q # Idle => OncePerNote(q.batch)
    BY <1>7, <1>8 DEF OncePerNote
  <1>10. \A m : Owing(q, m) => Owing(workers[c], m)
    BY <1>4, <1>7, <1>8 DEF Owing, OncePerNote
  <1> HIDE DEF n
  <1>11. \A m \in DOMAIN notes : notes'[m].retries = notes[m].retries /\ notes'[m].limit = notes[m].limit
    BY <1>2, <1>4, <1>5, <1>6
  <1>12. DOMAIN notes' = DOMAIN notes
    BY <1>5
  <1> QED
    BY <1>1, <1>2, <1>3, <1>9, <1>10, <1>11, <1>12, NoMoreToCount

LEMMA FailCounts ==
  ASSUME IsFiniteSet(Crons), CountsInv, NEW w \in Workers, Fail(w)
  PROVE  CountsInv'
  <1>1. TypesFit' /\ NotesStay
    BY FailTypes DEF CountsInv
  <1>2. workers' = [workers EXCEPT ![w] = Idle] /\ notes' = notes
    BY DEF Fail
  <1>3. \A m : ~Owing(Idle, m)
    BY DEF Owing
  <1> QED
    BY <1>1, <1>2, <1>3, NoMoreToCount

(* Every step of a worker ...                                              *)
LEMMA CountsInDelivery ==
  ASSUME IsFiniteSet(Crons), CountsInv, [Next]_vars
  PROVE  CountsInv'
  <1>1. Senders \subseteq Workers /\ Crons \subseteq Workers
    BY DEF Workers
  <1>2. CASE UNCHANGED vars
    BY <1>2 DEF vars, CountsInv, TypesFit, TypeOK, Counting
  <1>3. ASSUME NEW s \in Senders, SendNotification(s) \/ Send(s) \/ Fail(s) PROVE CountsInv'
    BY <1>1, <1>3, SendNotificationCounts, DispatchCounts, RecordDeliveryCounts, SettleSendCounts, FailCounts
    DEF Send
  <1>4. ASSUME NEW c \in Crons, Retry(c) \/ Fail(c) PROVE CountsInv'
    BY <1>1, <1>4, ProcessRetriesCounts, MarkRetryingCounts, DispatchCounts, RecordDeliveryCounts,
       SettleRetryCounts, FailCounts
    DEF Retry
  <1> QED
    BY <1>2, <1>3, <1>4 DEF Next

(* ... and of a machine keeps it.                                          *)
LEMMA CountsInMachine ==
  ASSUME CountsInv, LogInv, RunInv, Machine
  PROVE  CountsInv'
  <1>1. UNCHANGED <<workers, failures>>
    BY MachineQueues
  <1>2. \A n : Counting(n)' = Counting(n)
    BY <1>1 DEF Counting
  <1>3. CASE notes' = notes
    BY <1>1, <1>2, <1>3 DEF CountsInv, TypesFit, TypeOK
  <1>4. ASSUME NEW channel \in Channels, notes' = Append(notes, Queued(channel)) PROVE CountsInv'
    <2> DEFINE x == Queued(channel)
    <2>1. x \in Note /\ x.retries = 0
      BY QueuedIsNote DEF Queued
    <2>2. notes \in Seq(Note) /\ notes' = Append(notes, x)
      BY <1>4 DEF CountsInv, TypesFit, TypeOK
    <2> HIDE DEF x
    <2>3. /\ notes' \in Seq(Note) /\ DOMAIN notes \subseteq DOMAIN notes'
          /\ \A n \in DOMAIN notes : notes'[n] = notes[n]
          /\ \A n \in DOMAIN notes' : n \in DOMAIN notes \/ notes'[n] = x
      BY <2>1, <2>2
    <2>4. TypesFit'
      BY <1>1, <2>3 DEF CountsInv, TypesFit, TypeOK
    <2>5. ASSUME NEW n \in DOMAIN notes', n \notin DOMAIN notes PROVE Counting(n) = {}
      BY <2>5, ListedIsCreated DEF Counting
    <2>6. \A n \in DOMAIN notes' : WithinRuns(notes'[n], Counting(n)')
      BY <1>2, <2>1, <2>3, <2>5 DEF CountsInv, WithinRuns
    <2> QED
      BY <1>1, <2>4, <2>6 DEF CountsInv
  <1> QED
    BY <1>3, <1>4, MachineQueues

LEMMA InitCounts == AutomationInit => CountsInv
  <1> SUFFICES ASSUME AutomationInit PROVE CountsInv
    OBVIOUS
  <1>1. Init /\ TypesFit
    BY InitTypes DEF AutomationInit
  <1>2. DOMAIN notes = {} /\ \A w \in Workers : workers[w] = Idle
    BY <1>1 DEF Init
  <1> QED
    BY <1>1, <1>2 DEF CountsInv

LEMMA CountsAreWithinRuns ==
  ASSUME IsFiniteSet(Crons)
  PROVE  CountsInv => RetriesWithinRuns
  <1> SUFFICES ASSUME CountsInv, NEW n \in DOMAIN notes
               PROVE  notes[n].retries = 0 \/ notes[n].retries < notes[n].limit + Cardinality(Crons)
    BY DEF RetriesWithinRuns
  <1> DEFINE x == notes[n]
             k == Cardinality(Counting(n))
  <1>1. k \in Nat /\ Cardinality(Crons) \in Nat
    BY CountingIsFinite
  <1>2. x.retries \in Nat /\ x.limit \in Nat
    <2>1. x \in Note
      BY DEF CountsInv, TypesFit, TypeOK
    <2> QED
      BY <2>1 DEF Note
  <1>3. x.retries = 0 \/ x.retries + k < x.limit + Cardinality(Crons)
    BY DEF CountsInv, WithinRuns
  <1> HIDE DEF x, k
  <1>4. x.retries = 0 \/ x.retries < x.limit + Cardinality(Crons)
    BY <1>1, <1>2, <1>3
  <1> QED
    BY <1>4 DEF x

(* However many runs of the cron overlap, interleave and die, beside any   *)
(* requests and rules: a notification is retried beyond its limit by less  *)
(* than there are runs under way at once. With one it never is.            *)
THEOREM RetriesStayWithinRuns ==
  ASSUME IsFiniteSet(Crons)
  PROVE  AutomationSpec => []RetriesWithinRuns
  <1> DEFINE Kept == LogInv /\ RunInv /\ CountsInv
  <1>1. AutomationInit => Kept
    BY InitMachine, InitCounts
  <1>2. Kept /\ [AutomationNext]_allVars => Kept'
    BY MachineIsKept, CountsInDelivery, CountsInMachine DEF AutomationNext, Delivery, allVars
  <1>3. Kept => RetriesWithinRuns
    BY CountsAreWithinRuns
  <1> QED
    BY <1>1, <1>2, <1>3, PTL DEF AutomationSpec
=============================================================================
