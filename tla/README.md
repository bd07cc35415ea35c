# Verification of the eCitizen support backend

TLA+ models of the support backend in `src/` (NestJS, Prisma over PostgreSQL,
Kafka), the configurations with which TLC checks them, and theorems about them
that TLAPS proves. Every definition is translated from the TypeScript source and
the Prisma schema; the documents beside the code are only quoted where the code
and they disagree.

- [1. The system](#1-the-system)
- [2. The modules](#2-the-modules)
- [3. What the runs check](#3-what-the-runs-check)
- [4. What is proved](#4-what-is-proved)
- [5. Where the code and its documents disagree](#5-where-the-code-and-its-documents-disagree)
- [6. What is not modelled, and the plan](#6-what-is-not-modelled-and-the-plan)

## 1. The system

A citizen opens a ticket with a government agency through the API or by email.
Agents are assigned to it, answer it, escalate, resolve, close and reopen it. An
SLA engine keeps two due dates per ticket, records breaches and escalates. All
of this notifies people, publishes events, and is steered by policies that
administrators edit.

### How the parts run

Every part is a service class inside one server process, of which there may be
several. There is no locking anywhere: an operation *reads* what it needs with
one or more queries, *decides*, and then *writes*. Where it writes more than one
row it mostly, not always, uses one `prisma.$transaction`. PostgreSQL runs at its
default isolation, READ COMMITTED, and no `update` carries a condition on what
was read. Three things follow, and they are what the models are about:

- between the read and the write of one operation, others may commit;
- writes outside the transaction may be lost when a process dies, and others may
  see the state before them;
- jobs that a cron starts (`@nestjs/schedule`) do not wait for the previous run,
  and every process has its own.

### Components

| component | state it keeps | operations | what is hard | what makes it correct |
|---|---|---|---|---|
| Tickets (`tickets.service.ts`) | `tickets`, `ticket_history`, `ticket_assignments`, `escalation_events`, `ticket_messages` | create, update, assign, escalate, resolve, close, reopen, message | validation against a stale copy; writes after the transaction | status, history, counters, level, stamps and assignee agree; moves follow the table |
| Ticket creation and numbers (`tickets.service.ts`, `email-ingest.service.ts`) | `tickets.ticket_number` | number, create | two creators read the same highest number; string order of numbers | numbers are unique and without gaps; no submission is lost |
| Email ingestion (`email-ingest.*`, Kafka topic) | topic, offsets, `tickets`, `ticket_messages` | webhook, consume, deduplicate, reply, create | repeated webhooks, redelivery after a crash, swallowed errors | an email makes one ticket, and makes one |
| SLA engine (`sla.service.ts`) | `sla_tracking`, `breach_logs`, `escalation_events`, hours and calendars | attach, scan, escalate, match rules, compute due dates | overlapping and dying scans, tickets that change under a scan; nights, holidays, rounding; hours edited between two walks | each overdue ticket is judged once, each breach logged and escalated once; an answer is due after the open time its rule gives |
| Notifications (`notifications.service.ts`) | `notifications`, `notification_recipients`, logs | send, dispatch, retry (cron) | dying workers, overlapping retries, a full batch | status tells the truth, nobody known to have a message is sent it again, failures are retried |
| Administration (`admin`, `users`, `agencies`, `sla` services) | agencies, departments, providers, users, roles, policies, matrices, hours and their rows | create, rename, onboard, replace rows, register | find-then-create; delete-then-create without a transaction | names and keys are unique, onboarding and each batch are all or nothing, no reader sees a gap |
| The seed (`prisma/seed.ts`) | every configuration table, sample tickets and articles | runs in every container before it serves | restarts after a death half-way, replicas that start together, changes administrators made since | it completes what is missing and adds nothing twice |
| Sessions and passwords (`auth.service.ts`) | `sessions`, `password_reset_tokens` | login, refresh, logout, forgot, reset, deactivate | rotation in four statements; what happens to the account meanwhile | what was ended stays ended; a new session comes after the one it replaces; a new link makes old ones useless |
| Knowledge base (`knowledge-base.service.ts`) | articles, versions | create, rename, add version, publish | slugs and version numbers read outside the transaction; publishing what was the latest | versions are sequential, slugs unique, what readers see never goes back |
| AI classification (`ai.service.ts`) | `ai_classification_logs`, recommendations, feedback, tickets | classify, apply, correct, rate, metrics | dying between log, ticket and mark | nothing is applied unlogged; metrics add up |
| Workflow (`workflow.service.ts`) | rules, `automation_execution_logs`, tickets | evaluate an event, execute actions | single writes outside a transaction; failing actions | actions are tried in order, each failure on record, each success left its row |
| Chat and gateway (`chat.*`, `websocket.gateway.ts`) | rooms, participants, messages, receipts; sockets and what they joined | open a room, write, mark read, connect, subscribe | find-then-create; receipts one by one; in-memory subscriptions | one room per ticket, few per agency; a read receipt covers the room; sockets hear their own agency only, and the rooms they entered |
| Media (`media.service.ts`) | files, `media`, presigned tokens in memory | upload, bulk, presign, confirm, delete, restore | bytes and row written apart; tokens checked and then spent | no row without its file on the disk; deletion is whole |
| Dashboards and reports (`admin`, `reporting`, `sla`, `ml` services) | none: they count | overview, summaries, compliance, SLA page, breach rate | each counts by conditions of its own | they tell the same story of a ticket, as far as each looks |
| Audit, cache, HTTP, health, call log | logs | append, query | - | append-only or stateless |

How they interact: `createTicket` starts `attachSlaToTicket` without awaiting it
and publishes an event; the SLA scan reads tickets and writes their escalation
level; ticket operations write the escalation level of the tracking row; the
administrator's operations write tickets and tracking rows directly; dashboards
read both; ticket, user and auth operations call `sendNotification` without
awaiting it; consumers of the Kafka topics create tickets, audit rows and
notifications; deactivating a user is what a refresh under way must notice;
messages of a room are emitted to the sockets that joined it; a ticket's assignee
at the moment its room is opened becomes a participant.

## 2. The modules

| module | models | of |
|---|---|---|
| `TicketStatus` | the transition table, `validateTransition`, the seeded closed flag | `tickets.service.ts`, `seed.ts` |
| `TicketMachine` | the promise: every operation validates and moves the ticket in one step | abstract |
| `TicketLifecycle` | the ticket service as written, `reassignTicket` | `tickets.service.ts`, `admin.service.ts` |
| `SlaBreach` | EXTENDS `TicketLifecycle` with the SLA engine and `overrideSla` | `sla.service.ts`, `admin.service.ts` |
| `Reports` | EXTENDS `SlaBreach` with what the dashboards say | `admin`, `reporting`, `sla`, `ml` services |
| `SlaDueDate` | rule matching and the walk over the business calendar | `sla.service.ts` |
| `NotificationDelivery` | sending and retrying | `notifications.service.ts` |
| `TicketIntake` | numbering, creation, the email webhook, topic and consumer | `tickets.service.ts`, `email-ingest.*`, `kafka.*` |
| `Sessions` | sessions, reset links and the account they are of | `auth.service.ts`, `users.service.ts` |
| `KnowledgeBase` | articles, slugs, versions, publication | `knowledge-base.service.ts` |
| `Administration` | records found by name, rows replaced, onboarding, and the seed | `admin`, `users`, `agencies`, `auth`, `sla` services, `seed.ts` |
| `Automation` | EXTENDS `NotificationDelivery` with the classifier and the rule engine | `ai.service.ts`, `workflow.service.ts` |
| `MediaFiles` | files, their rows, presigned tokens | `media.service.ts` |
| `Conversations` | EXTENDS `MediaFiles` with chat rooms and sockets, one process | `chat.*`, `websocket.gateway.ts` |
| `*Proofs` | theorems about the module they extend | |
| `*MC` | symmetry sets, scenes and constant functions for the configurations | |

A definition named `<Name>_<Change>` is `<Name>` with one plausible mistake; no
specification uses it. Put in the place of `<Name>` it shows that a property
notices the mistake (`mutants` in `PROJECT.json` pairs them).

Invariants are conjunctions of named parts, each with a comment of its own, so
that a run checks one property per question: `TrailExplainsTicket` is
`StatusIsLatestHistory`, `ReopenCountIsHistory`, `LevelIsLatestEscalation`,
`EscalationsAreLedgered` and `SettledIsStamped`. The theorems are about the parts
where their arguments differ.

Some properties are defined beside those that are checked and *fail* of the code
as it is; their comments say so, and section 5 lists them.

### TicketLifecycle

One ticket and a set of requests. The variables are the ticket's row and the
rows that hang on it: `ticket`, `history`, `assignments`, `escalations`,
`tracking` (what its SLA row knows of the escalation), `comments`. `requests`
holds, per request, where its handler is and the copy it took; `now` is the
clock.

`Read(r)` is the first half of every handler: it takes the copy and makes the
handler's checks on it (`Accepts`). The second half is one action per handler
and per transaction: `TransitionStatus` (resolve, close, reopen),
`AssignAndTransition` and `AssignOnly` (the two branches of `assignTicket`),
`EscalateTicket`, `AddMessage`, `UpdateTicket`, `ReassignTicket`. What a handler
writes after its transaction is a third step: `StampFirstResponse`,
`SyncTracking`, `RecordReassignment`. `Fail(r)` kills a handler between two
steps. `AttachSla` happens some time after a creation through the API, or never.

One ticket is enough because no handler writes a row of another ticket. A
transaction is one step because all of them update the ticket's row, whose lock
orders them. `assignments` are the assignment rows: `RecordReassignment` adds the
administrator's after its ticket was written, so that a handler in between has its row
first. Left out as they share no state with the rest: tags, attachments,
categories, listing, and messages of the ticket's own creator. Subject,
description, category and priority are one counter of edits.

### SlaBreach and Reports

`SlaBreach` adds the row `sla` (due dates, breached flags, verdicts),
`breachLogs`, and `scans`. A scan is `checkBreaches`: two queries (`Select`),
then for each type the branch its copy leads to (`Skip`, `MarkMet`, `Breach`),
then `triggerEscalation` (`ReadLevel`, `AutoEscalate`), each in a step of its own
because each awaits. `OverrideSla` is the administrator's. `SlaNext` lets these
interleave with every step of `TicketLifecycle`.

`Reports` has no steps: it gives, as operators on one state, the condition by
which each page counts a ticket (`OverviewTiles`, `CompliantInReporting`,
`OverdueNow`, ...), and says which of them agree in every state the composition
reaches. Two of them do not look at all rows: the escalation summary takes the
latest `ListLimit` events of all tickets (50), the breach rate that routing goes by
the tracking rows of the last `RateWindow` (30 days). Of the list a ticket has
its latest n events, n being what those of other tickets leave room for; the
properties are of every n.

### SlaDueDate

A behaviour is one ticket's attachment: `AttachSlaToTicket` (`findBestMatchingRule`, with
its fallback to the first rule), `ReadHours`, `ReadExceptions`, and the walk, one
turn a step, twice: for the response and for the resolution. Time is counted in
units of which a minute has four, since the code subtracts milliseconds and
rounds to minutes. `SetBusinessHours` may come between any two queries; `used` remembers
the hours with which each of the two computations began. The reference definition, `OpenTime`, counts the units at which the agency is open and knows
nothing of the walk.

### NotificationDelivery

`notes` is the table of notifications in order of creation with their
recipients. Workers are requests that send and runs of the cron; both go
through `Dispatch` (the provider is called and accepts, refuses or times
out, or is not called at all) and `RecordDelivery`.
`ProcessRetries` copies its batch when it starts, `MarkRetrying` counts the
attempt beforehand, `SettleSend` and `SettleRetry` write the status. `Hidden(n)` says
that so many older notifications have failed that the cron's batch (`Batch`, 50 in the
code) never comes to n. EMAIL stands for SMS, whose code is the same; what is sent is
left out.

### TicketIntake

`tickets` are the tickets of one day by number, with the email they quote.
`GenerateNumber` reads the highest number, in the order of *strings*
(`Sorting`), so that the first number that outgrows its padding sorts before
others; `InsertTicket` and `InsertEmailTicket` create, or are refused by the
unique index. `topic`, `position` and `committed` are the Kafka topic as the
consumer sees it; `DropEmail` is its catch-all, `Crash` the hand-over to a
consumer that starts from the committed offset, or, if the partition is not in
`stored`, as nothing of it was ever committed, at the end of the topic: the
subscription says `fromBeginning: false`. `Restart` may fail, which is logged and not
repeated: the process then runs without its consumer (`Down`) until it dies.

### Sessions

One account, its sessions and its reset tokens, each a sequence of rows, and
requests a statement at a time. `Refresh` finds a session that its token
`Matches`, `RotateSession` revokes it, `RereadAccount` may refuse, `OpenSession`
creates the new one. `Matches` is what the code's comparison does: bcrypt reads 72
bytes, which of a JWT are the header and the account, so a token of the account
matches each of its sessions. Two fields of a session are history, for the
properties: `from`, the session that a refresh replaced by it, and `origin`, which
says how it stands to the last time that all sessions were ended: it was there or goes
back to one that was ("ended"), comes of a request that was under way just then
("late"), or was opened by a login since ("fresh").

### KnowledgeBase

Articles with their versions as sets of rows. `TrySlug` is one turn of
`ensureUniqueSlug`, `WriteArticle` the transaction behind it, refused by the
index or not; `AddArticleVersion` / `InsertVersion` and `PublishArticle` /
`MarkPublished` are read and write of the two other operations.

### Administration

Every table that is written by one of two habits: *look for the name, then
insert* and *delete all rows, then create the new ones*. `Tables` are those that
requests write, `SeedTables` those that only the seed does. A behaviour is about
one `Scene`, a group of tables that read each other; tables that do not meet are
looked at apart. A replacement in a transaction keeps to READ COMMITTED as
PostgreSQL runs it: the delete sees what is committed when it starts, waits for
others that deleted the same rows, and skips what they deleted. The seed is a
`Program` of sections that a container goes through, each an upsert, a
find-then-create or a create without looking, with the rows each guards.

### Automation

`ClassifyTicket` computes category, priority and confidence from counts of keywords in
hundredths as the code does; the log entry, the recommendations, the ticket and
its mark are separate steps, as are a correction's. `EvaluateAndExecute` goes through the
rules of an event in order and executes their actions; a condition is met, not
met or broken. Each action is the one to three statements that it is in the code:
what it reads (`ReadTicket`), what it changes (`ChangeTicket`, `AssignTicket`,
`ChangeOnce`), the row that says so (`AddRow`); any of them may `Throw`, and so may
the log entry of a success, which the code then catches and logs as a failure.
`evaluations` holds the log per event, `rows` what the actions added.

`QueueNotification` is where the two modules meet: SEND_NOTIFICATION appends a row
to `notes`, PENDING and without a recipient, beside those that senders create and
the cron retries. A step of the composition is one of a `Machine` or one of the
`Delivery`.

### Conversations and MediaFiles

`MediaFiles` has uploads (store the bytes, then the row), presigned tokens, soft
deletion and restoration. `storage` is the configured mode: `writeToS3` is a stub, so
that in mode "s3" a row is made and nothing stored. `Conversations` adds the rooms, messages, receipts and
sockets of the same process; `Restart` loses what is in memory of both. A room is about
a ticket or about an agency (`topic`); a socket's `entered` are the rooms it joined
since it connected, its `got` the messages it was sent. Scenes separate what does not meet: rooms while the ticket changes hands, rooms while
sockets come and go, uploads.

## 3. What the runs check

Every run sets `CHECK_DEADLOCK FALSE`: clients may stop calling, and the bounds
below end every behaviour somewhere.

| run | instance | what it shows |
|---|---|---|
| `ticket_overlap` | 2 requests, 7 operations, 2 agents, 3 history rows, 2 assignment rows, 1 failure | whatever overlaps or dies, the trail explains the ticket (status, reopen count, level, escalations, stamps); unless a request died, the assignee is named by one of the last two assignment rows or by a reassignment about to write its own; an answer is stamped or about to be |
| `ticket_serial` | 1 request, all operations, 2 agents, 1 failure | with one request at a time `TicketLifecycle` implements `TicketMachine` (refinement), its history chains, its stamps follow its status, the first response never moves |
| `ticket_stale_status` | 2 requests | violation: see 5 |
| `sla_scan` | 1 scan, 1 request, 5 operations, override, 1 failure, fairness | beside scans the trail explains the ticket still; each automatic escalation is owed to a breach of its own; breached and met exclude each other; dashboards agree as far as their list (2 events) and window (1 tick) go; an unanswered ticket shows as overdue or breached at every moment; an overdue row is judged in the end even if a scan dies; a breach is escalated unless one does |
| `due_date` | all creation times of a 2-day week of 16 units a day, 5 calendars, 5 sets of exceptions, one edit; up to 2 rules | the rule fits best; each answer is due after the open time it asks for and while the agency is open, by the hours its computation began with; the response first unless those were not the same for both; the walk ends |
| `notify_retry` | 2 notifications, 2 recipients, 4 channels, 1 sender, 1 cron run with a batch of 1, 1 failure, fairness | the status is true of the recipients, retries stay in their limit, nobody on record as having a message gets it again, what failed is retried or hidden for good by older ones that are exhausted, sending ends |
| `intake_email` | 3 emails (a reply, one without Message-Id), 3 webhook calls, 1 API client, 1 failure, 1 crash, fairness | numbers run from 1 without a gap, an email makes one ticket at most, what the consumer has yet to commit gets on record unless a statement or start fails, a number is refused, or the consumer dies before its first commit |
| `sessions` | 2 requests, 6 calls, 3 sessions, 2 reset links, 2 ticks, 1 failure | what was ended is over and no later refresh brings it back; a session is over before it is replaced, and replaced by no more than the refreshes there can be at once; a new link supersedes the earlier ones |
| `knowledge_base` | 2 requests, 6 calls, 2 articles whose slugs clash, 3 versions | versions are sequential, slugs unique, what readers see never goes back |
| `administration` | 2 requests or containers; scenes of 2 to 4 calls | names and keys unique, onboarding and batches whole, no gap where a transaction replaces, a lone replacement exact, a lone restart completes what is missing and doubles nothing |
| `automation` | 2 requests, up to 3 calls, 4 texts, 3 lists of rules, in 4 scenes; 1 sender, 2 overlapping cron runs, 2 notifications and 1 failure in the last | what the classifier changed is logged, metrics add up, actions are tried in order past failures, each success left a row or a notification of its own, overlapping runs of the cron exceed a limit of retries by at most one for each beyond the first |
| `conversations` | 2 requests, 2 agencies, 3 rooms, 2 messages, 4 calls, 1 socket, 2 uploads in both storage modes, restarts, in 3 scenes | one room per ticket and two at most per agency, sockets listen to their own agency and to what they were told, and are sent stored messages of rooms they entered; a receipt for every message found, local rows have files, tokens are spent |

### Bounds, and why they are enough

- *Two requests.* A stale copy needs one request that reads and one that commits
  in between; a third adds nothing, as a copy is stale or it is not.
  The theorems of section 4 are for any number.
- *Five history rows* of a lone request allow a full cycle (assign or escalate,
  resolve, close, reopen); *three*, where two overlap, a settlement and the reopenings
  of it that overlap. *Two assignments* of *two agents* allow a
  reassignment beside an assignment, in either order of their rows: that the latest row
  names the assignee is false there, as TLC shows.
- *One or two ticks.* Stamps are compared with `None` and with the due date only,
  so it matters whether something happened before or after it. Tokens of `Sessions`
  live one tick and its rows two, so each can be the one that expires first.
- *Due dates of one tick*, both, let one scan find both types overdue; the
  override moves them to two.
- *One failure* puts a death anywhere; what a second does to a worker that starts
  afresh the first has already done.
- *Two notifications, two recipients, two retries* are the least with which one
  recipient is reached in a first retry and tried again in a second or not, and one
  notification can hide another. *A batch of one* lets it: an exhausted one fills it.
  *Two runs of the cron* are the least that overlap; the theorem is for any number.
- *A list of two escalations and a window of one tick* are outgrown by the events of
  one ticket and by the age of its row.
- *Two agencies, three rooms*: a room for the ticket and two for one agency, or one for
  each, so that a message can be heard in the wrong one.
- *Numbers padded to two binary digits*: the fourth is the first that outgrows
  its padding and sorts before the third, as 100000 sorts before 99999. Up to
  five tickets reach past it, where every creation is refused.
- *Weeks of two days, days of four minutes, minutes of four units* keep every
  kind of boundary (start and end of work, half a minute, midnight, the week's end,
  a holiday on a working day, a special day on a closed one) and let TLC go through
  every moment of creation. Lookahead (4 days) and iterations (7) are small enough
  that both limits are reached. The run takes the server to be in UTC (`Offset` 0).
- *Six calls* of `Sessions` and `KnowledgeBase` are two overlapping requests on
  each side of a third; *four calls* of `Administration` are one that creates, two
  that overlap and one alone after them, *three starts* of the seed two containers
  beside each other and one after.
- *Titles* `t1`, `t2` have the slugs "x" and "x-1": the second is the first
  retry of the first.
- Symmetry is used for interchangeable requests, names and keys where a run checks
  safety only.

### Fairness

`SlaBreach`: a scan that can take a step or start does so (the cron starts one
every minute and the steps await only the database), a handler under way goes on,
and the clock advances. Nothing obliges a client to call, a scan to die, or
`attachSlaToTicket` to happen. `NotificationDelivery`: a worker goes on, the cron
(every five minutes) starts again; providers answer or time out after 30 seconds,
so `Dispatch` ends. `TicketIntake`: KafkaJS hands a running consumer its
messages. `SlaDueDate`: the one handler goes on, while edits need not come or
stop. All of it is weak fairness, per scan, worker, consumer or handler. The
other modules state none: their clients owe nothing.

## 4. What is proved

### `TicketProofs`

Four parts, one for each module that they are about, each using the lemmas of the
ones before.

**`TicketLifecycle`.** For any number of requests and agents, any history
length and any subset of the operations (assumption: `LifecycleAssumption`, that
NULL is not an agent, a status or a number, and the bounds are naturals):

| theorem | says |
|---|---|
| `TypeCorrect` | every reachable state is well typed |
| `TrailExplainsTheTicket` | the five that follow together, which is what the runs check (`TrailExplainsTicket`) |
| `StatusFollowsHistory` | status = last history row |
| `LevelFollowsEscalations` | level = last escalation event |
| `SettledTicketsAreStamped` | RESOLVED and CLOSED are stamped |
| `ReopeningsAreCounted` | `reopenCount` = REOPENED rows |
| `EscalationsMatchHistory` | requested escalations = ESCALATED rows, and the flag |
| `AnswersAreStamped` | an answered ticket is stamped, about to be, or a request died |
| `AssigneeStaysOnRecord` | for finitely many requests: unless one died, the ticket is with whom a reassignment is about to record, or with whom one of the last rows names, no further back than requests can overlap |

The argument. `TypeCorrect` is inductive by itself, one step per action. For the
others, `EveryStepKeepsOrMoves` sorts the steps once: a step *keeps* status,
history and stamps, or it is a *move* that appends one history row and sets the
status to what that row says, together with its stamps; each invariant then has
two cases instead of fifteen. That no overlap matters is exactly that a move
writes all of it in one transaction and none of it depends on the copy.

`AnswersAreStamped` is not inductive: a handler that skips the stamp relies on its
copy having had one. The strengthening `SeenResponseStands` says that what such a
copy saw is still there, which holds as no step clears the stamp
(`ResponseStays`). For `AssigneeStaysOnRecord`, a row that names the assignee can be
overtaken only by the rows of reassignments that have written their ticket already:
`AssigneeIsTraced` counts them, so that rows after it and rows still to come stay fewer
than the requests. Anybody who writes the ticket starts afresh, with a row that is the
last or with one to come.

**`SlaBreach`.** For any number of requests and of overlapping scans, any due dates, overrides
and escalation matrix (`SlaAssumption`: dates and levels are naturals):

| theorem | says |
|---|---|
| `SlaTypeCorrect` | every reachable state of the composition is well typed |
| `StatusFollowsHistoryBesideScans`, `LevelFollowsEscalationsBesideScans`, `EscalationsMatchHistoryBesideScans` | what the ticket service keeps it keeps beside the scans |
| `BreachFlagsAreLogged` | a type's flag is set exactly when it has a log row |
| `EscalationsAreOwedToBreaches` | automatic escalations, made and under way, never outnumber the log rows |
| `OneScanLogsABreachOnce` | if no two scans overlap, one log row per type |
| `OneScanJudgesOnce` | if no two scans overlap, breached and met exclude each other |

The argument. The composition's steps are steps of `TicketLifecycle`, stutters of
it, or an automatic escalation that writes event, level and flag together
(`ScansAndTheTicket`), so the lemmas about the ticket service are used again as
they are. `EscalationsAreOwed` is a balance: recording a breach is one log row and
one busy scan more, escalating is one event more and one busy scan less, and a scan
that dies only ever lowers the left side; it needs besides that the busy scans are
finitely many, of which there is no assumption. The two theorems about a single scan
rest on `CopiesAreFresh`: what the scan copied, of the types it has not come to yet,
has no verdict still, as only scans give verdicts. With a second scan that is what
breaks (section 5). `TrailExplainsTheTicketBesideScans` joins the first four.

**`TicketMachine`.** As long as no request overlaps another on the ticket (`Lone`), for any agents,
clock and bounds and with requests that die where they like:

| theorem | says |
|---|---|
| `LoneServiceIsTheMachine` | the service implements the atomic `TicketMachine` (`ImplementsMachine`) |
| `LoneTrailIsExact` | the history replays row by row, the stamps agree with the last row |
| `LoneFirstResponseStands` | nothing moves the first response once it is written |

All three rest on `CopyIsCurrent`: what the request that is under way read is what
the row still holds, since it alone could have changed it (`CopiesAreCurrent`). A
guard evaluated on the copy is then a guard on the row, and validation and write,
two steps, map to a stutter and one step of the machine. With a second request
`CopyIsCurrent` fails, and so do all three (section 5).

**`Reports`.** Of the composition:

| theorem | says |
|---|---|
| `PagesAgree` | if no two scans overlap, every list, count and report tells the same of a ticket, as far as the list of escalations and the window of the breach rate go |
| `UnansweredStaysInView` | however many scans overlap, a ticket that waits for its answer beyond the due date shows as overdue or breached |

The reports count flags, log rows and events, so that most of `PagesAgree` is the
invariants of `SlaBreach` read from the other side; equal counts are shown by
a bijection between the breached types and the rows of the log. The rate counts rows
by the time of their creation, so `BreachIsOfARow` says that a breach, also one on its
way in a scan's copy, is of a row that was created. `UnansweredStaysInView`
needs `AnsweredIsSo`: a verdict other than a breach, on the row or on its way from
a scan's copy, is only ever given on a ticket that had been answered.

### `SessionsProofs`

For any number of requests, links, lifetimes and deaths (`SessionsAreReplaced`
assumes that the requests are finitely many):

| theorem | says |
|---|---|
| `SessionsTypeCorrect` | every reachable state is well typed |
| `EndedSessionsStayEnded` | what a reset, a logout everywhere or a reused token ended is over, and no refresh begun since replaces it |
| `NewLinksSupersede` | a reset link makes useless the links its request found |
| `SessionsAreReplaced` | a session is over before a refresh has replaced it, and has at most as many replacements, made and on their way, as there are requests |

`EndedForGood` holds because a refresh looks for sessions that are not revoked, and
ending all makes "late" of what the requests under way have found before: `Provenance`
adds that none of them holds an ended one. `NewLinkSupersedes` is strengthened by
`SupersededAreUseless`, which covers the links whose request has invalidated them and
not yet created its own. `RotationReplaces` is a balance: while a session is live only
requests that have yet to revoke it hold it, each at most one; once one has, nobody
finds it any more, and a replacement made is one on its way less (`Fits`).

### `KnowledgeBaseProofs`

| theorem | says |
|---|---|
| `ArticlesStaySound` | versions without a gap, unique slugs, a published article has something to show |
| `ReadersNeverGoBack` | the version readers are shown never goes back |

The invariant is `KnowledgeInv`: what is `Sound` of each article, what a request
that is under way knows of its article (`RequestsKnow`: an article and a version it
read still exist, as neither is deleted), and unique slugs. That a version number
read outside the transaction does no harm is the unique index on
`(articleId, versionNumber)`: of two that computed the same number one is refused.
`Sound` includes that the published versions have a greatest, which the proof of
`ReadersNeverGoBack` names; the publication of an older version than the one shown
leaves the later one marked, and that one goes on being shown.

### `TicketIntakeProofs`

For any clients, emails and partitions, any base and width of the padding
(`IntakeAssumption`):

| theorem | says |
|---|---|
| `IntakeTypeCorrect` | types; offsets stay within the topic |
| `NumberingIsSequential` | the tickets of a day are numbered from 1 without a gap |
| `EmailsMakeOneTicket` | an email with a Message-Id makes one ticket at most |

The three are parts of one inductive invariant, `IntakeInvariant`, since the type of
the next number depends on there being a last one: `SomeNumberSortsLast` shows, by
the least-number principle on the set of counter-examples, that an interval has a
member that sorts last in the order of strings. A number computed earlier is taken
or is the next one (`NumbersInFlight`), because tickets are never deleted; the
unique index lets only the next one pass. For emails, `NoTicketYet` says that past
the check for duplicates an email stays without a ticket, because its partition has
one consumer and no other partition holds it (`InTheirPartition`).

### `AutomationProofs`

**`NotificationDelivery`.** As long as no two runs of the retry cron overlap
(`OneCron`) and nobody sends to nobody (`EverySendHasRecipients`), for any number of
senders, any recipients, limits and batch, and workers that die where they like:

| theorem | says |
|---|---|
| `RecordsStayTrue` | statuses are true of the recipients, retries stay within their limit |
| `NobodyIsTriedTwice` | nobody on record as having the message is tried again |
| `TypesStay` | without either condition, what the tables hold is well typed |
| `RetriesStayWithinRuns` | without them too, for finitely many crons: runs that overlap exceed a limit of retries by fewer than there are of them |

`DeliveryInv` ties what a worker remembers to what is on record: those it has left
are among the undelivered, a failed attempt left somebody behind (`AttemptFits`), a
sender that has only seen successes and made an attempt has reached somebody
(`SenderFits`), and the cron that has only seen successes has left all who still
miss the message (`CronFits`). So the two different tests with which
`sendNotification` (any) and `processRetries` (all) settle both leave the truth.
`NobodyElseHasIt` is why copies do no harm: a sender's notification is PENDING,
which the cron does not select, and there is one cron. `StepOfOne` uses it once for
all actions: a worker's step need only be checked for that worker. Both assumptions
are needed (section 5).

For `RetriesStayWithinRuns` a notification's `retries` alone are not enough: a run
tests them when it copies its batch and counts its attempt later, in a step of its
own. `CountsInv` adds the runs that have yet to do so (`Counting`): the sum of both
stays below limit plus runs. It is at most that when a run selects, since fewer than
limit were counted then; counting moves a run from one term to the other, which takes
that a batch names a notification once (`OncePerNote`); and dying only takes away. A
rule's notification starts at 0, so the theorem is one of the composition.

**`Automation`.** For any texts, categories, rules (`AutomationAssumption`: lists of
rules of the module's form, keywords that are counted), and any number of requests
that overlap and die, beside any number of senders and crons:

| theorem | says |
|---|---|
| `LogStaysSound` | what the classifier changed was logged first with the confidence it takes, an override marks its entry, recommendations fit, the metrics add up |
| `ActionsAreTriedInOrder` | an evaluation logs what it tries in the order of rules and actions, once and without a gap, past what fails; all of it, if it returns |
| `SuccessLeftItsRow` | assignments, lines of history, escalation events and notifications for nobody are at least as many as the actions logged as successes |

The argument. `LogInv` says what a request of the classifier knows of its entry:
the entry it will apply is there, is marked as applied if it will be, and has the
confidence (`RequestFits`); entries are only added and marked (`Grows`), so what
others know stays so. The metrics add up because five ranges of confidence lie
end to end (`NextRange`). `RunInv` says where an evaluation is: it has logged every
place before the one its request is at, and none after (`RunFits`), which each
action either keeps or advances by one place, and no two requests share an
evaluation.

`SuccessLeavesItsRow` is a balance that is not inductive: between the row and the log
entry there is a step, at which other requests may log theirs. `RowsInv` counts with
the successes those that a request *owes*, having left the row and being about to log
it; `Taken` is the set of both. One lemma sorts the steps: each goes on with one
evaluation (`GoesOn`), and what it makes its request owe has left its row
(`Leaves`); `TakenGrows` and `RowsStep` then need four cases instead of twenty. That
evaluations are finitely many, and `Taken` therefore finite, is `TakenIsFinite`.

**The two together.** Under the conditions of the first part:

| theorem | says |
|---|---|
| `RecordsStayTrueBesideRules` | what the records say stays true beside rules that queue |
| `NobodyIsTriedTwiceBesideRules` | nobody who has the message is tried again |
| `QueuedIsNeverSent` | what a rule has queued stays PENDING for ever |

The steps of the machines leave the workers alone and at most append a
notification that is on nobody's list (`MachineQueues`, `QueueingKeepsDelivery`); the
cron selects what failed, and one for nobody never does. For the rows it is the other
way round: sending and retrying rewrite notifications, but never remove one or change
whom it is for (`NotesStay`).

### `ConversationsProofs`

For any requests, users, agencies, sockets, limits and lifetimes; that the uploads
are finitely many (`IsFiniteSet(Uploaders)`) is needed for the counting of tokens and
assumed in the first theorem, that the requests are is needed for the counting of rooms
and assumed in the second.

| theorem | says |
|---|---|
| `SoundFiles` | rows of local storage have their files, and in either mode each its own, a deletion is whole, a token is good for so many rows at most as uploads hold it at once |
| `SoundRooms` | one room per ticket, per agency no more than there are requests; no socket listens to another agency's channels, and each is sent stored messages of rooms it has entered |
| `ReadIsCovered` | a reader who is told that a room is read has a receipt for each message of others it held when the request looked |

The argument. `FilesInv` says of each request that its file awaits a row and that no
other has it (`FileAwaitsRow`): files are numbered as they are made, so that a new
one is nobody's (`FilesAreNumbered`). `TokensAreCounted` is the balance behind the
limit: every row made with a token and every request that holds it has a request of
its own, and as long as the token is good, whoever used it has yet to remove it. The
map of tokens is not persisted: after a restart, as after the first removal, nobody
finds the token any more and no use is added. `RoomsAreFew` is of that kind, too: rooms
of a topic and requests that have found none are never more than the requests, since
nobody looks in vain again once there is one; of a ticket the unique index leaves one.
`SocketsListenToTheirOwn` is inductive by itself, given the types; `HeardInv` adds that
what a request is about to announce is a stored message, which is never removed;
`ReadIsCovered` needs `ReadsRightly`: what a reading request found
unread is what it will write receipts for, and no receipt is ever removed.

### `SlaDueDateProofs`

For any rules, calendars and tickets, and administrators who edit hours and
exceptions between any two reads. The assumptions are that a day is a whole number of
minutes, that opening hours are calendars (`IsCalendar`: for some days, times within the
day), and that a rule asks for a minute at least (`CasesAssumption`).

| theorem | says |
|---|---|
| `DatesInOrder` | the rule chosen fits best, a walk covers a day per turn, and a response asked for sooner is due after the resolution only if the hours were not the same when the two computations began |
| `WalkCountsOpenTime` | with `Offset = 0`, what was taken off is the time the agency was open since the start |
| `RightDueDates` | with `Offset = 0`, each date is when the agency has been open for as long as the rule says, by the hours its computation began with |

`Offset = 0` says that the server's day is the UTC day; it is a hypothesis because
without it the claims are false: with `Offset = 3` TLC shows a walk that takes the
exceptions of the day before (section 5). `DatesInOrder` does without it.

The argument. What a walk reads it keeps, so that its turns are determined by its
reading: `Total(read, base)[n]`, a recursive function over the naturals, is what the
first n turns take off. `DueInv` says that the walk is where the totals say
(`WalkIsSound`), that each date already found is where a walk over the hours ends that
there were when its computation began, `used`, whatever became of them (`DueIsSound`), and how far the attachment is. Open time is
additive, a turn takes off the time open that day after the cursor, and so the totals
are open time; the last turn is the first whose total reaches what is wanted, by the
least-number principle, so that two walks of one reading end in the order of what they
want. The proofs corrected two properties. The code rounds what a turn takes off to
minutes, so that the date is exact to half a minute only where exceptions, too, are in
whole minutes (`DueAfterOpenTime`); and a response that is counted in the last turn
the walk has may be rounded past midnight, where a resolution that gave up stops
(`ResponseDueFirst`). Both had been stated without these provisos, and were false of
tickets that the run did not reach; `LastTurnCases` of `SlaDueDateMC` are of the
second kind.

### `AdministrationProofs`

For any requests and containers that overlap and die where they like, any names, keys
and scenes (`AdministrationAssumption`: what is started from is a scene of the
module's form, and the seed has finitely many names):

| theorem | says |
|---|---|
| `TablesStaySound` | one record per unique name, one row per key, an onboarded agency has its administrator, what was set in one transaction is seen whole |
| `NeverSeenEmpty` | a role's permissions and an agency's hours are replaced without a gap |
| `LoneReplacements` | a replacement that nothing overlapped leaves its rows and no others |
| `LoneRestartsFillIn` | a container that starts alone makes no second record and no second row, but for the sample policy's |
| `LoneRestartsMakeGood` | and when it serves, every record of the seed and all its rows are there |

The argument. That a batch is seen whole is not inductive: the transaction's two
statements are two steps, and what the first selected may have been replaced by
another when the second comes. `AdminInv` adds what makes it harmless. A request's
number is its own, so that no row bears it before the request creates its rows and no
two requests under way share one (`HoldsItsBatch`, `BatchesAreApart`); the rows of a
batch have one record and one scope (`BatchesHaveScopes`); and what a transaction has
selected contains, with any row of a batch that is still there, all of its rows
(`DoomsBatches`), so that batches come and go whole whatever was selected in between.
There is one lemma per action; `StepKeeps`, `AnswerKeeps` and `GoKeeps` say once what
a step need show that moves one request only, `BatchAdded` and `RecordAdded` what it
need show that adds rows or a record. Names and keys are unique because the
statements that add them test and add in one step, which is the index.

The three theorems about a lone request add `LoneInv`: while it is alone, all others
are idle, and what it has read is still so. For a replacement it is that the rows it
will find are among those it deletes; for the seed, that each section before the
current one has made its records and rows (`MadeBefore`), that of the current one all
names and keys but those left are made, and that what was looked for in vain is still
not there. Nothing is said of how the containers before it ended, so the claim covers
a restart after a death anywhere. `ProgramIsSound` checks the seed's sections
once for what the lemmas need of them.

### Only model-checked

- *Liveness*: `OverdueIsJudged` and `BreachIsEscalated`, `FailedIsRetried` and
  `SendingEnds`, `EmailIsKept`, `AttachmentEnds`. They rest on fairness, whose
  ENABLED is out of this prover's reach.

Every invariant and every action property of the passing runs is the statement of a
theorem. The other way round, type invariants that TLAPS proves by themselves
(`TypeCorrect`, `SlaTypeCorrect`, `SessionsTypeCorrect`) are in no configuration.

## 5. Where the code and its documents disagree

| run | the code | the text |
|---|---|---|
| `ticket_stale_status` | validates a move against a copy and updates unconditionally: an assignment read before a closure turns CLOSED into ASSIGNED | "State transitions are strictly validated to prevent inconsistent states." |

Each of the following fails of the model too. The property named is in the module
and no run checks it; a configuration that lists it, with the change named, has
TLC show a behaviour.

Tickets and SLA:

- with a second request: overlapping escalations write the same level, overlapping
  answers move the first response, a closed ticket is edited by a request that read
  it open, and history rows do not chain; the administrator's reassignment comes
  apart, so that the latest assignment row may name somebody who has lost the ticket to
  the assignment whose row comes before it (`admin.service.ts:579-592`);
- with a second scan (`sla.service.ts:369`): a breach is logged twice, since the
  transaction does not look at the flag (`OneLogPerBreach`), and a type is both met
  and breached;
- the scan takes the level from the tracking row, which requests update late or
  never, and writes it over the ticket's: "Escalation level cannot decrease
  automatically" (`LevelNeverDrops`, `sla.service.ts:495`);
- a scan that dies between a breach and its escalation: no later scan selects the
  row, and "SLA breaches shall automatically trigger escalation"
  (`EveryBreachIsEscalated`, `sla.service.ts:405`);
- with a server east of UTC (`Offset = 3`) the walk takes exceptions of the day
  before for the first hours of each day (`CountedIsOpenTime`,
  `sla.service.ts:768`); `findBestMatchingRule` falls back to the first rule, which
  need not fit the ticket;
- a breached ticket that was never answered counts as compliant in the overview
  (`OverviewAgrees`); a reopened ticket whose resolution was met keeps the verdict,
  so that its later overdue resolution never shows; a ticket that was judged late
  shows as overdue for good; the escalation summary counts as pending what is among the
  50 latest events (`ActiveIsPending`, `admin.service.ts:327`), and the breach rate that
  routing goes by forgets a row that breaches more than 30 days after its creation
  (`RateKnowsBreaches`, `ml.service.ts:160`);
- an agency that opens on more days between the computation of the response and that of
  the resolution has the response due after the resolution (`ResponseAlwaysDueFirst`,
  `sla.service.ts:244-258`).

Notifications and emails:

- the cron takes the 50 oldest failed notifications and filters out the exhausted
  ones afterwards (`notifications.service.ts:339`), so that 50 of them hide all others
  for good: "Failures must be retryable" is true of `FailedIsRetried` only with its last
  disjunct, as TLC shows with `Batch = 1`; two cron runs send twice and exceed `maxRetries`
  (`RetriesWithinLimit`), by one for each beyond the first at most
  (`RetriesStayWithinRuns`);
- a rule's SEND_NOTIFICATION creates a notification without recipients, which
  neither the sender nor the cron ever looks at: "The notifications module handles
  dispatch" (`QueuedIsDispatched`, `workflow.service.ts:450`; `QueuedIsNeverSent`
  proves that it never does);
- with `RecipientSets = {{}}` a notification is SENT without a date (`StatusIsTrue`);
- an email whose number an overlapping creation takes is lost, the error being
  swallowed and the offset committed (`ConsumedIsKept`,
  `email-ingest.service.ts:146`), and so is what a consumer had not handled that dies
  before its first commit (`kafka.consumer.base.ts:21`); a consumer whose start fails
  stays away (line 38): "The system shall guarantee message delivery for event-driven
  workflows"; a reply delivered twice is appended twice.

The others:

- a refresh that has found its session before a password reset, or a login that has
  read the account, opens a session after it: "Revoke all existing sessions (force
  re-login)" (`LoginIsForced`, `auth.service.ts:720`); two refreshes of one session at
  once make two of it; two requests for a reset link at once leave two that work;
- a logout ends whichever session the comparison finds first
  (`LogoutEndsItsSession`, `auth.service.ts:427`: "Revoke only the session matching
  this specific refresh token");
- publishing leaves earlier versions published (`OnePublishedVersion`; "Only one
  published version per article");
- of two overlapping replacements of a role's permissions rows of both can remain
  (`PermissionsAreOfOneRequest`, `admin.service.ts:829`);
- with two tickets a correction may name a ticket that its log entry is not of
  (`OverridesStayOnTheirTicket`, `ai.service.ts:470`); the share of overrides counts
  an override twice, once in the entry it marks and once in its own;
- `users.service` stores addresses as given while login and registration lower
  their case; there may be two matrices for an agency and priority; every container
  creates the sample policy's rules again, grants the seeded permissions again that
  an administrator took away, and overwrites opening hours;
- two onboarding rooms of an agency are possible; a room's participants do not
  follow a reassignment; anybody may join a room's channel, read and write in it, though
  the gateway says that "Room membership is enforced at the service level"
  (`websocket.gateway.ts:410`; `chat.service.ts:141-232` does not look);
- in mode "s3" an upload is answered with a URL and stored nowhere
  (`media.service.ts:118-139`); in mode "local" uploads of images, videos and documents
  fail unless their directories are there, since those made at the start are `images`,
  `videos` and `documents` and those written to `image`, `video` and `document`
  (`media.service.ts:53-62`, 101-109); a presigned token is good for as many uploads as confirm it
  at once, and is gone after a restart; a socket is authenticated when it connects,
  not afterwards.

## 6. What is not modelled, and the plan

Not modelled, because there is no state a property could be about: the HTTP layer
(controllers, guards, pipes, DTO validation), the Redis wrapper (only the health
check uses it), health probes, the audit log (appended to, read by nobody), listing
queries, the scores and forecasts of `ml.service.ts`, which are arithmetic over
sampled averages, and the wording of notifications. The *call log* cannot hold a
row: `POST /calls/start` takes the caller from `req.user.id`, which
`JwtStrategy.validate` does not set. Call signalling relays events and keeps
nothing. The gateway's ticket and SLA events have no caller, nor have
`permanentDelete` and `evaluateAndExecute`; the last is modelled as what a caller
would get.

Modelled in part: `PENDING_CITIZEN` is a status of the table that no operation
reaches. Of the Kafka topics only the emails' is modelled: the consumers for audit,
SLA and notifications log what they receive. Of administration, contacts, settings
and `deletePolicy` (two statements, `sla.service.ts:90`) are left out, as plain
writes; of the seed, the contacts it deletes and recreates, the links of users to
agencies, and the sample flags of sections 18 and 20, which set breached flags
without log rows and log RESPONSE breaches for every escalated sample ticket. Of
reports, date filters, averages and the periodic metrics tables, which only the seed
writes. Of sessions, MFA codes and the authentication log. Of the knowledge base,
tags, feedback and views.

What is left, in this order:

1. *From events to notifications*: the assignments, answers and breaches that ask
   for a notification, composed with its delivery as rules are in `Automation`, so
   that a handler that dies after its transaction and before its notification shows.
2. *Two tickets*: the daily numbers, the corrections and the search for tickets by
   Message-Id are the only places where one ticket bears on another.
