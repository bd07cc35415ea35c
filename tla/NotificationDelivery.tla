-------------------------- MODULE NotificationDelivery ----------------------
(***************************************************************************)
(* Notifications (notifications.service.ts): sendNotification, which       *)
(* creates one and tries every recipient once, and processRetries, which a *)
(* cron starts every five minutes to try again what failed.                *)
(*                                                                         *)
(* Neither is a transaction. A worker (a request that sends, or a run of   *)
(* the cron) calls a provider, then writes what it answered, then turns to *)
(* the next recipient; it may die between any two of these. A run of the   *)
(* cron works on copies made when it started, and nothing keeps the next   *)
(* one from starting while it is still waiting for a provider.             *)
(***************************************************************************)
EXTENDS Integers, Sequences, FiniteSets

CONSTANTS
  Senders,       (* requests that may be sending at once                    *)
  Crons,         (* runs of the retry cron that may be under way at once    *)
  Recipients,    (* recipients a notification may have                      *)
  RecipientSets, (* sets of them that the callers of this instance name     *)
  Channels,      (* channels they use                                       *)
  RetryLimits,   (* values they give maxRetries                             *)
  Batch,         (* notifications a run of the cron takes: 50               *)
  MaxNotes,      (* bound: notifications sent                               *)
  MaxFailures    (* bound: workers that die                                 *)

(* EMAIL stands for SMS too, whose code is the same but for the provider.  *)
AllChannels == {"EMAIL", "PUSH", "IN_APP", "WEBHOOK"}

(* A worker either sends or retries; a client sends a list of recipients,   *)
(* which is finite.                                                        *)
ASSUME DeliveryAssumption ==
  /\ Senders \cap Crons = {}
  /\ IsFiniteSet(Recipients)
  /\ RecipientSets \subseteq SUBSET Recipients
  /\ Channels \subseteq AllChannels
  /\ RetryLimits \subseteq Nat
  /\ Batch \in Nat \ {0}
  /\ MaxNotes \in Nat /\ MaxFailures \in Nat

VARIABLES
  notes,   (* the rows of notifications, oldest first, with those of their *)
           (* recipients                                                   *)
  workers, (* where each worker is                                         *)
  failures (* workers that died                                            *)

vars == <<notes, workers, failures>>

Workers == Senders \cup Crons

Status         == {"PENDING", "SENT", "FAILED", "RETRYING"}
DeliveryStatus == {"PENDING", "DELIVERED", "FAILED"}

Note == [channel : AllChannels, status : Status, retries : Nat, limit : Nat,
         dated : BOOLEAN, to : SUBSET Recipients,
         delivery : [Recipients -> DeliveryStatus]]

(* What became of an attempt. "refused" is also what a provider's answer   *)
(* that never came looks like, though the message may have been delivered. *)
(* "unaddressed": there was no address, or no URL, and nothing was tried.  *)
Answers == {"accepted", "refused", "unaddressed", "stored", "queued"}

(* batch: what the worker has to do, the recipients it has left among      *)
(* them; trying, answer: the attempt it is busy with; all, any: whether    *)
(* all its attempts on this notification succeeded, whether any did.       *)
Idle == [stage |-> "idle"]
Busy == [stage : {"mark", "send", "record"},
         batch : SUBSET [note : Nat, left : SUBSET Recipients],
         trying : SUBSET Recipients, answer : Answers,
         all : BOOLEAN, any : BOOLEAN]

TypeOK ==
  /\ notes \in Seq(Note)
  /\ workers \in [Workers -> Busy \cup {Idle}]
  /\ failures \in Nat

Init ==
  /\ notes = <<>>
  /\ workers = [w \in Workers |-> Idle]
  /\ failures = 0

(* A definition named <Name>_<Change> is <Name> with a plausible mistake   *)
(* in it, to be put in its place to see that the properties notice.        *)

(***************************************************************************)
(* Starting.                                                               *)
(***************************************************************************)
Working(stage, batch) ==
  [stage |-> stage, batch |-> batch, trying |-> {}, answer |-> "queued",
   all |-> TRUE, any |-> FALSE]

(* sendNotification creates the row, then those of the recipients. (Should *)
(* it die in between the row stays PENDING, which nothing ever looks at.)  *)
SendNotification(s) ==
  /\ workers[s] = Idle
  /\ Len(notes) < MaxNotes
  /\ \E channel \in Channels, to \in RecipientSets, limit \in RetryLimits :
       notes' = Append(notes,
         [channel |-> channel, status |-> "PENDING", retries |-> 0, limit |-> limit,
          dated |-> FALSE, to |-> to, delivery |-> [r \in Recipients |-> "PENDING"]])
  /\ workers' = [workers EXCEPT ![s] =
       Working("send", {[note |-> Len(notes'), left |-> notes'[Len(notes')].to]})]
  /\ UNCHANGED failures

Failed == {n \in DOMAIN notes : notes[n].status \in {"FAILED", "RETRYING"}}

(* findMany, in order of creation, take 50; only then are those that have  *)
(* no retries left filtered out.                                           *)
Oldest      == {n \in Failed : Cardinality({m \in Failed : m < n}) < Batch}
Undelivered(n) == {r \in notes[n].to : notes[n].delivery[r] # "DELIVERED"}

Retryable(n) == notes[n].retries < notes[n].limit

ProcessRetries_FailedOnly(c) ==
  LET batch == {[note |-> n, left |-> Undelivered(n)] :
                  n \in {m \in Oldest : Retryable(m) /\ notes[m].status = "FAILED"}}
  IN
  /\ workers[c] = Idle
  /\ batch # {}
  /\ workers' = [workers EXCEPT ![c] = Working("mark", batch)]
  /\ UNCHANGED <<notes, failures>>

ProcessRetries_Everyone(c) ==
  LET batch == {[note |-> n, left |-> notes[n].to] : n \in {m \in Oldest : Retryable(m)}}
  IN
  /\ workers[c] = Idle
  /\ batch # {}
  /\ workers' = [workers EXCEPT ![c] = Working("mark", batch)]
  /\ UNCHANGED <<notes, failures>>

ProcessRetries_Exhausted(c) ==
  LET batch == {[note |-> n, left |-> Undelivered(n)] : n \in Oldest}
  IN
  /\ workers[c] = Idle
  /\ batch # {}
  /\ workers' = [workers EXCEPT ![c] = Working("mark", batch)]
  /\ UNCHANGED <<notes, failures>>

ProcessRetries(c) ==
  LET batch == {[note |-> n, left |-> Undelivered(n)] : n \in {m \in Oldest : Retryable(m)}}
  IN
  /\ workers[c] = Idle
  /\ batch # {}
  /\ workers' = [workers EXCEPT ![c] = Working("mark", batch)]
  /\ UNCHANGED <<notes, failures>>

(***************************************************************************)
(* Working.                                                                *)
(***************************************************************************)
In(w, stage) == workers[w].stage = stage

(* The loop takes the notifications in order of creation.                  *)
Current(w) == CHOOSE item \in workers[w].batch :
                \A other \in workers[w].batch : item.note <= other.note

(* The cron counts the attempt before it makes it.                         *)
MarkRetrying(c) ==
  /\ In(c, "mark")
  /\ notes' = [notes EXCEPT ![Current(c).note].status  = "RETRYING",
                            ![Current(c).note].retries = @ + 1]
  /\ workers' = [workers EXCEPT ![c] = Working("send", @.batch)]
  /\ UNCHANGED failures

(* What can come of an attempt. A retry has lost the URL of a webhook.     *)
AnswersOf(w, channel) ==
  CASE channel = "EMAIL"   -> {"accepted", "refused", "unaddressed"}
    [] channel = "PUSH"    -> {"queued"}
    [] channel = "IN_APP"  -> {"stored"}
    [] channel = "WEBHOOK" -> IF w \in Crons THEN {"unaddressed"}
                              ELSE {"accepted", "refused", "unaddressed"}

(* dispatch calls the provider, recipient by recipient but for a webhook.  *)
Dispatch(w) ==
  LET item == Current(w)
      note == notes[item.note]
  IN
  /\ In(w, "send") /\ item.left # {}
  /\ \E R \in IF note.channel = "WEBHOOK" THEN {item.left} ELSE {{r} : r \in item.left} :
     \E a \in AnswersOf(w, note.channel) :
       workers' = [workers EXCEPT ![w].stage = "record", ![w].trying = R, ![w].answer = a]
  /\ UNCHANGED <<notes, failures>>

(* updateRecipientStatus, which is not called for a push, for a recipient  *)
(* without an address, or for a webhook that failed.                       *)
StatusAfter(channel, answer, old) ==
  CASE answer \in {"accepted", "stored"}                       -> "DELIVERED"
    [] answer = "refused" /\ channel = "EMAIL"                 -> "FAILED"
    [] OTHER                                                   -> old

Success(answer) == answer \in {"accepted", "stored", "queued"}

(* ... and writes down what it answered.                                   *)
RecordDelivery(w) ==
  LET item == Current(w)
      R    == workers[w].trying
      a    == workers[w].answer
  IN
  /\ In(w, "record")
  /\ notes' = [notes EXCEPT ![item.note].delivery =
       [r \in Recipients |-> IF r \in R THEN StatusAfter(notes[item.note].channel, a, @[r])
                                        ELSE @[r]]]
  /\ workers' = [workers EXCEPT ![w].stage = "send",
                   ![w].batch = (@ \ {item}) \cup {[item EXCEPT !.left = @ \ R]},
                   ![w].all = @ /\ Success(a), ![w].any = @ \/ Success(a)]
  /\ UNCHANGED failures

Done(w) == In(w, "send") /\ Current(w).left = {}

(* sendNotification is satisfied if any recipient was reached. (The date   *)
(* is kept apart: there may be no recipient at all.)                       *)
SettleSend(s) ==
  LET w == workers[s] IN
  /\ s \in Senders /\ Done(s)
  /\ notes' = [notes EXCEPT
       ![Current(s).note].status = IF w.all \/ w.any THEN "SENT" ELSE "FAILED",
       ![Current(s).note].dated  = w.any]
  /\ workers' = [workers EXCEPT ![s] = Idle]
  /\ UNCHANGED failures

(* processRetries only if all that it tried were, whereupon it turns to    *)
(* its next notification.                                                  *)
SettleRetry_DateForgotten(c) ==
  LET w    == workers[c]
      rest == w.batch \ {Current(c)}
  IN
  /\ c \in Crons /\ Done(c)
  /\ notes' = [notes EXCEPT
       ![Current(c).note].status = IF w.all THEN "SENT" ELSE "FAILED"]
  /\ workers' = [workers EXCEPT ![c] = IF rest = {} THEN Idle ELSE Working("mark", rest)]
  /\ UNCHANGED failures

SettleRetry_StaysRetrying(c) ==
  LET w    == workers[c]
      rest == w.batch \ {Current(c)}
  IN
  /\ c \in Crons /\ Done(c)
  /\ notes' = IF w.all
                THEN [notes EXCEPT ![Current(c).note].status = "SENT",
                                   ![Current(c).note].dated  = TRUE]
                ELSE notes
  /\ workers' = [workers EXCEPT ![c] = IF rest = {} THEN Idle ELSE Working("mark", rest)]
  /\ UNCHANGED failures

SettleRetry(c) ==
  LET w    == workers[c]
      rest == w.batch \ {Current(c)}
  IN
  /\ c \in Crons /\ Done(c)
  /\ notes' = [notes EXCEPT
       ![Current(c).note].status = IF w.all THEN "SENT" ELSE "FAILED",
       ![Current(c).note].dated  = @ \/ w.all]
  /\ workers' = [workers EXCEPT ![c] = IF rest = {} THEN Idle ELSE Working("mark", rest)]
  /\ UNCHANGED failures

(* The process stops, or a statement fails.                                *)
Fail(w) ==
  /\ workers[w] # Idle
  /\ failures < MaxFailures
  /\ failures' = failures + 1
  /\ workers' = [workers EXCEPT ![w] = Idle]
  /\ UNCHANGED notes

Send(s)  == Dispatch(s) \/ RecordDelivery(s) \/ SettleSend(s)
Retry(c) == ProcessRetries(c) \/ MarkRetrying(c) \/ Dispatch(c)
              \/ RecordDelivery(c) \/ SettleRetry(c)

Next ==
  \/ \E s \in Senders : SendNotification(s) \/ Send(s) \/ Fail(s)
  \/ \E c \in Crons : Retry(c) \/ Fail(c)

Spec == Init /\ [][Next]_vars

(* The cron is started again and again, and a worker under way goes on.    *)
Fairness ==
  /\ \A s \in Senders : WF_vars(Send(s))
  /\ \A c \in Crons : WF_vars(Retry(c))

FairSpec == Spec /\ Fairness

(***************************************************************************)
(* Properties.                                                             *)
(***************************************************************************)

(* A run of the cron tests retries against the limit when it makes its     *)
(* copies, and counts its attempt later: of several that overlap each may  *)
(* count one. No more than that, however they interleave and die.          *)
RetriesWithinRuns ==
  \A n \in DOMAIN notes :
    notes[n].retries = 0 \/ notes[n].retries < notes[n].limit + Cardinality(Crons)

(* The others hold for as long as no two runs of the cron overlap.         *)

(* What the status says of a notification is true of its recipients: SENT  *)
(* is dated and somebody was reached (a push aside, which is only queued), *)
(* FAILED leaves somebody who was not.                                     *)
StatusIsTrue ==
  \A n \in DOMAIN notes : LET note == notes[n] IN
    /\ note.status = "SENT" <=> note.dated
    /\ note.status = "SENT" /\ note.channel # "PUSH" => Undelivered(n) # note.to
    /\ note.status = "FAILED" => Undelivered(n) # {}

(* "Retry_count cannot exceed max_retries".                                *)
RetriesWithinLimit == \A n \in DOMAIN notes : notes[n].retries <= notes[n].limit

(* What the tables hold of notifications is well typed, true and within    *)
(* the limit, at every moment of a run that may die anywhere.              *)
RecordsAreTrue == TypeOK /\ StatusIsTrue /\ RetriesWithinLimit

(* Nobody is tried again once it is on record that they have the message,  *)
(* whichever worker died and whenever.                                     *)
NotTriedOnceDelivered ==
  [][\A w \in Workers :
       In(w, "send") /\ workers'[w].stage = "record"
         => \A r \in workers'[w].trying :
              notes[Current(w).note].delivery[r] # "DELIVERED"]_vars

(* A run of the cron that looks at the Batch oldest of what failed sees    *)
(* nothing of a notification behind that many without retries left.        *)
Hidden(n) == Cardinality({m \in Failed : m < n /\ ~Retryable(m)}) >= Batch

Waiting(n) == n \in Failed /\ Retryable(n)

(* A notification that failed and has retries left is retried, even if the *)
(* run of the cron that was about to dies, unless it ends up for good      *)
(* behind Batch older ones whose retries are used up, which the cron       *)
(* fetches again and again (notifications.service.ts:339-356). "Failures   *)
(* must be retryable" without the exception is false: this says that there *)
(* is no other way for one to be forgotten.                                *)
FailedIsRetried ==
  \A n \in 1..MaxNotes : Waiting(n) ~> (~Waiting(n) \/ []Hidden(n))

(* Unless a worker dies, a notification ends sent, or failed with all its  *)
(* retries used, or hidden for good.                                       *)
Settled(n) ==
  /\ n \in DOMAIN notes
  /\ \/ notes[n].status = "SENT"
     \/ notes[n].status = "FAILED" /\ ~Retryable(n)

SendingEnds ==
  \A n \in 1..MaxNotes :
    n \in DOMAIN notes ~> (Settled(n) \/ failures > 0 \/ []Hidden(n))
=============================================================================
