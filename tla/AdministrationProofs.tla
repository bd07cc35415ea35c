------------------------ MODULE AdministrationProofs ------------------------
(***************************************************************************)
(* Theorems of Administration, for any number of requests and containers   *)
(* at once, any names and keys, and any tables looked at.                  *)
(***************************************************************************)
EXTENDS Administration, FiniteSetTheorems, NaturalsInduction, TLAPS

(***************************************************************************)
(* The inductive invariant.                                                *)
(*                                                                         *)
(* Each request that will create rows was given the number of its call for *)
(* its batch, and no row has that number before it creates them. Hence the *)
(* rows of a batch come all at once; and they go all at once, as whoever   *)
(* deletes some of them deletes all, be it when the transaction that has   *)
(* chosen them long ago commits.                                           *)
(***************************************************************************)
Makers == {"insert", "save", "delete", "wait", "create", "add"}
Seeders == {"look", "put", "row", "putRow", "serve"}
InSection == Seeders \ {"serve"}
Replacers == {"delete", "wait", "create"}

(* The tables whose rows are replaced in a transaction, and by themselves. *)
Together == {"role", "agency", "matrix"}
Apart == {"user", "policy", "matrix"}

OwnersExist == \A p \in DOMAIN records : records[p].owner <= Len(records)

RowsAreNumbered == \A w \in rows : w.record \in DOMAIN records /\ w.batch <= calls

(* The rows of a batch have one scope, and are of the same keys.           *)
BatchesHaveScopes ==
  \A v, w \in rows :
    w.of # {} /\ v.record = w.record /\ v.batch = w.batch => v.scope = w.scope /\ v.of = w.of

(* What a request has read of the records is still so.                     *)
KnowsItsRecords(q) ==
  /\ q.stage = "insert" => q.owner <= Len(records) /\ (q.table = "user" => q.owner = 0)
  /\ q.stage = "rename" => q.record \in DOMAIN records
  /\ q.stage = "save" => q.table \in {"policy", "matrix"} /\ (q.found = 0 \/ q.found \in Of(q.table))
  /\ q.stage \in {"add", "remove"} => q.record \in Of("policy")
  /\ q.stage \in Replacers =>
       /\ records[q.record].table \in IF q.tx THEN Together ELSE Apart
       /\ q.tx => q.scope = "all"
       /\ ~q.tx \/ q.stage = "delete" => q.doomed = {}
  /\ q.stage \in Seeders => \A n \in Names : q.agencies[n] <= Len(records)
  /\ q.stage \in {"row", "putRow"} => q.record \in Of(Section(q).table)

(* A container is in a section of the seed, at a name and at a key of it.  *)
KnowsItsPlace(q) ==
  /\ q.stage \in InSection => q.section \in DOMAIN Program
  /\ q.stage = "putRow" => \E k \in q.keys : q.key = {k}

HoldsItsBatch(q) ==
  /\ q.stage \in Makers \cup Seeders \cup {"remove"} => q.batch <= calls
  /\ q.stage \in Makers => \A w \in rows : w.batch # q.batch
  /\ q.stage \in Seeders => \A w \in rows : w.batch = q.batch => w.of = {}

BatchesAreApart ==
  \A r, o \in Requests :
    /\ r # o
    /\ requests[r].stage \in Makers
    /\ requests[o].stage \in Makers \cup Seeders \cup {"remove"}
    => requests[r].batch # requests[o].batch

(* What a transaction deletes are rows of its record, and whole batches.   *)
DoomsBatches(q) ==
  q.stage \in {"wait", "create"} =>
    \A v \in q.doomed :
      /\ v.record = q.record /\ v.batch <= calls
      /\ \A o \in Requests : requests[o].stage \in Makers => requests[o].batch # v.batch
      /\ v \in rows /\ v.of # {} =>
           \A w \in rows : w.record = v.record /\ w.batch = v.batch => w \in q.doomed

RequestIsSound(q) == KnowsItsRecords(q) /\ KnowsItsPlace(q) /\ HoldsItsBatch(q) /\ DoomsBatches(q)

AdminInv ==
  /\ TablesAreSound
  /\ OwnersExist /\ RowsAreNumbered /\ BatchesHaveScopes
  /\ BatchesAreApart
  /\ \A r \in Requests : RequestIsSound(requests[r])

(***************************************************************************)
(* The seed's sections.                                                    *)
(***************************************************************************)
Looks == {"upsert", "find", "whole", "named"}
Kinds == {"upsert", "find", "findAny", "create", "none"}

Parts == [names : SUBSET Names, table : Tables \cup SeedTables, look : Looks, kind : Kinds, scope : Scopes]

(* A section that finds a record and leaves its rows as they are is of a   *)
(* table that may stay unfinished, and rows are made without looking for   *)
(* them only there and by the sample policy.                               *)
Unfinished == {"ticket", "article", "rule"}

FitsIn(part) ==
  /\ part \in Parts
  /\ part.look = "whole" => part.table \in Unfinished
  /\ part.kind = "create" => part.look = "whole" \/ part = SamplePolicy

LEMMA PartFitsIn ==
  ASSUME NEW names \in SUBSET Names, NEW table \in Tables \cup SeedTables, NEW look \in Looks,
         NEW kind \in Kinds, NEW scope \in Scopes,
         look = "whole" => table \in Unfinished, kind = "create" => look = "whole"
  PROVE  /\ FitsIn(Part(names, table, look, kind, scope))
         /\ Part(names, table, look, kind, scope).look = look
  BY DEF Part, Parts, FitsIn

LEMMA PlainFitsIn ==
  ASSUME NEW table \in Tables \cup SeedTables, NEW look \in {"upsert", "find"}
  PROVE  FitsIn(Plain(table, look)) /\ Plain(table, look).look # "named"
  BY PartFitsIn DEF Plain, Kinds, Scopes, Looks

(* A section of records that another has made: of its roles, and of the    *)
(* agencies of the two sections of agencies.                               *)
LEMMA NamedSections ==
  ASSUME sample \in SUBSET Names
  PROVE  /\ FitsIn(RolePermissions) /\ FitsIn(BusinessHours)
         /\ RolePermissions.table = "role" /\ Roles.table = "role"
         /\ BusinessHours.table = "agency" /\ SampleAgency.table = "agency" /\ CoreAgencies.table = "agency"
         /\ RolePermissions.names = Roles.names
         /\ BusinessHours.names = SampleAgency.names \cup CoreAgencies.names
  <1>1. FitsIn(RolePermissions) /\ FitsIn(BusinessHours)
    BY PartFitsIn DEF RolePermissions, BusinessHours, Tables, Looks, Kinds, Scopes
  <1> QED
    BY <1>1 DEF RolePermissions, BusinessHours, Roles, SampleAgency, CoreAgencies, Part, Plain

LEMMA PlainSections ==
  ASSUME NEW s \in {Statuses, Priorities, Roles, Permissions, Settings, ServiceProviders,
                    ServiceMappings, Templates, AiModel, RetentionPolicies, KbCategories,
                    TicketTags, SlaTrackings, TicketAssignments, EscalationEvents, BreachLogs,
                    ClassificationLogs, Metrics, Holidays, ConsentVersions}
  PROVE  FitsIn(s) /\ s.look # "named"
  <1>1. CASE s \in {Statuses, Priorities, Roles, Permissions, Settings}
    BY <1>1, PlainFitsIn DEF Statuses, Priorities, Roles, Permissions, Settings, Tables, SeedTables
  <1>2. CASE s \in {ServiceProviders, ServiceMappings, Templates, AiModel, RetentionPolicies}
    BY <1>2, PlainFitsIn
       DEF ServiceProviders, ServiceMappings, Templates, AiModel, RetentionPolicies, Tables, SeedTables
  <1>3. CASE s \in {KbCategories, TicketTags, SlaTrackings, TicketAssignments, EscalationEvents}
    BY <1>3, PlainFitsIn
       DEF KbCategories, TicketTags, SlaTrackings, TicketAssignments, EscalationEvents, SeedTables
  <1>4. CASE s \in {BreachLogs, ClassificationLogs, Metrics, Holidays, ConsentVersions}
    BY <1>4, PlainFitsIn
       DEF BreachLogs, ClassificationLogs, Metrics, Holidays, ConsentVersions, SeedTables
  <1> QED
    BY <1>1, <1>2, <1>3, <1>4

LEMMA OtherSections ==
  ASSUME sample \in SUBSET Names,
         NEW s \in {SuperAdmin, SampleAgency, SampleDepartments, SampleCategories, SamplePolicy,
                    CoreAgencies, CoreCategories, CoreDepartments, CorePolicies, Agents,
                    EscalationMatrices, Citizen, Agent, SampleTickets, Staff, KbArticles,
                    AutomationRules}
  PROVE  FitsIn(s) /\ s.look # "named"
  <1> DEFINE Fits(part) == FitsIn(part) /\ part.look # "named"
  <1>1. Names \ sample \in SUBSET Names /\ Names \in SUBSET Names
    OBVIOUS
  <1>2. ASSUME NEW names \in SUBSET Names, NEW table \in Tables \cup SeedTables,
               NEW look \in {"upsert", "find"}, NEW kind \in {"none", "find", "findAny"}, NEW scope \in Scopes
        PROVE  Fits(Part(names, table, look, kind, scope))
    <2>1. look \in Looks /\ kind \in Kinds /\ look # "whole" /\ kind # "create" /\ look # "named"
      BY DEF Looks, Kinds
    <2> QED
      BY <2>1, PartFitsIn
  <1>3. Fits(SamplePolicy)
    BY DEF SamplePolicy, FitsIn, Part, Parts, Tables, Looks, Kinds, Scopes
  <1>4. Fits(SampleTickets) /\ Fits(KbArticles) /\ Fits(AutomationRules)
    <2>1. ASSUME NEW table \in Unfinished PROVE Fits(Part(Names, table, "whole", "create", "all"))
      <3>1. /\ Names \in SUBSET Names /\ table \in Tables \cup SeedTables
            /\ "whole" \in Looks /\ "create" \in Kinds /\ "all" \in Scopes
        BY DEF Unfinished, SeedTables, Looks, Kinds, Scopes
      <3> QED
        BY <3>1, PartFitsIn
    <2> HIDE DEF Fits
    <2> QED
      BY <2>1 DEF SampleTickets, KbArticles, AutomationRules, Unfinished
  <1> HIDE DEF Fits
  <1>5. Fits(SuperAdmin) /\ Fits(SampleAgency) /\ Fits(SampleDepartments) /\ Fits(SampleCategories)
    BY <1>2 DEF SuperAdmin, SampleAgency, SampleDepartments, SampleCategories, Tables, SeedTables, Scopes
  <1>6. Fits(CoreAgencies) /\ Fits(CoreCategories) /\ Fits(CoreDepartments) /\ Fits(CorePolicies)
    BY <1>1, <1>2 DEF CoreAgencies, CoreCategories, CoreDepartments, CorePolicies, Tables, SeedTables, Scopes
  <1>7. Fits(Agents) /\ Fits(EscalationMatrices) /\ Fits(Citizen) /\ Fits(Agent) /\ Fits(Staff)
    BY <1>1, <1>2 DEF Agents, EscalationMatrices, Citizen, Agent, Staff, Tables, Scopes
  <1>8. Fits(s)
    BY <1>3, <1>4, <1>5, <1>6, <1>7
  <1> QED
    BY <1>8 DEF Fits

LEMMA ProgramIsSound ==
  ASSUME sample \in SUBSET Names
  PROVE  /\ DOMAIN Program = 1..Len(Program) /\ Len(Program) \in Nat
         /\ \A i \in DOMAIN Program : FitsIn(Program[i])
         /\ \A i \in DOMAIN Program : Program[i].look = "named" =>
              /\ Program[i].table \in {"role", "agency"}
              /\ \A n \in Program[i].names :
                   \E j \in DOMAIN Program : /\ j < i /\ Program[j].table = Program[i].table
                                             /\ n \in Program[j].names
  <1>1. Len(Program) = 39 /\ DOMAIN Program = 1..39
    BY DEF Program
  <1>2. /\ Program[3] = Roles /\ Program[5] = RolePermissions
        /\ Program[7] = SampleAgency /\ Program[11] = CoreAgencies /\ Program[15] = BusinessHours
    BY DEF Program
  <1>3. \A i \in 1..39 : i \notin {5, 15} => FitsIn(Program[i]) /\ Program[i].look # "named"
    <2> TAKE i \in 1..39
    <2>1. i \notin {5, 15} =>
            \/ Program[i] \in {Statuses, Priorities, Roles, Permissions, Settings, ServiceProviders,
                               ServiceMappings, Templates, AiModel, RetentionPolicies, KbCategories,
                               TicketTags, SlaTrackings, TicketAssignments, EscalationEvents,
                               BreachLogs, ClassificationLogs, Metrics, Holidays, ConsentVersions}
            \/ Program[i] \in {SuperAdmin, SampleAgency, SampleDepartments, SampleCategories,
                               SamplePolicy, CoreAgencies, CoreCategories, CoreDepartments,
                               CorePolicies, Agents, EscalationMatrices, Citizen, Agent,
                               SampleTickets, Staff, KbArticles, AutomationRules}
      <3>1. CASE i \in 1..13
        BY <3>1 DEF Program
      <3>2. CASE i \in 14..26
        BY <3>2 DEF Program
      <3>3. CASE i \in 27..39
        BY <3>3 DEF Program
      <3> QED
        BY <3>1, <3>2, <3>3
    <2> QED
      BY <2>1, PlainSections, OtherSections
  <1>4. \A i \in {5, 15} :
          /\ FitsIn(Program[i]) /\ Program[i].table \in {"role", "agency"}
          /\ \A n \in Program[i].names :
               \E j \in DOMAIN Program : /\ j < i /\ Program[j].table = Program[i].table
                                         /\ n \in Program[j].names
    BY <1>1, <1>2, NamedSections
  <1>5. ASSUME NEW i \in DOMAIN Program
        PROVE  /\ FitsIn(Program[i])
               /\ Program[i].look = "named" =>
                    /\ Program[i].table \in {"role", "agency"}
                    /\ \A n \in Program[i].names :
                         \E j \in DOMAIN Program : /\ j < i /\ Program[j].table = Program[i].table
                                                   /\ n \in Program[j].names
    <2>1. CASE i \in {5, 15}
      BY <1>4, <2>1
    <2>2. CASE i \notin {5, 15}
      BY <1>1, <1>3, <2>2
    <2> QED
      BY <2>1, <2>2
  <1>6. DOMAIN Program = 1..Len(Program) /\ Len(Program) \in Nat
    BY <1>1
  <1> QED
    BY <1>5, <1>6

(* The program is the same as long as the sample is.                       *)
LEMMA ProgramStays ==
  ASSUME sample' = sample
  PROVE  Program' = Program
  <1>1. /\ SuperAdmin' = SuperAdmin /\ SampleAgency' = SampleAgency
        /\ SampleDepartments' = SampleDepartments /\ SampleCategories' = SampleCategories
        /\ SamplePolicy' = SamplePolicy
    BY DEF SuperAdmin, SampleAgency, SampleDepartments, SampleCategories, SamplePolicy
  <1>2. /\ CoreAgencies' = CoreAgencies /\ CoreCategories' = CoreCategories
        /\ CoreDepartments' = CoreDepartments /\ CorePolicies' = CorePolicies
        /\ Agents' = Agents /\ Citizen' = Citizen /\ Agent' = Agent
    BY DEF CoreAgencies, CoreCategories, CoreDepartments, CorePolicies, Agents, Citizen, Agent
  <1> QED
    BY <1>1, <1>2 DEF Program

(***************************************************************************)
(* Requests: what a stage tells of one, and going to another.              *)
(***************************************************************************)
LEMMA StageTells ==
  ASSUME TypeOK, NEW r \in Requests
  PROVE  /\ requests[r].stage = "insert" => requests[r] \in Inserting
         /\ requests[r].stage = "rename" => requests[r] \in Renaming
         /\ requests[r].stage \in {"email", "onboard"} => requests[r] \in Onboarding
         /\ requests[r].stage = "save" => requests[r] \in Saving
         /\ requests[r].stage \in {"add", "remove"} => requests[r] \in Adding
         /\ requests[r].stage \in Seeders => requests[r] \in Seeding
         /\ requests[r].stage \in Replacers => Replacement(requests[r])
  BY DEF TypeOK, Idle, Inserting, Renaming, Onboarding, Saving, Adding, Seeding, Replacement,
         Seeders, Replacers

RequestType(q) ==
  \/ q \in {Idle} \cup Inserting \cup Renaming \cup Onboarding \cup Saving \cup Adding
  \/ q \in Seeding
  \/ Replacement(q)

LEMMA GoesTo ==
  ASSUME TypeOK, NEW r \in Requests, NEW q, Goto(r, q)
  PROVE  /\ requests'[r] = q /\ DOMAIN requests' = Requests
         /\ \A o \in Requests \ {r} : requests'[o] = requests[o]
  BY DEF TypeOK, Goto

LEMMA AnswersIt ==
  ASSUME TypeOK, NEW r \in Requests, Answer(r)
  PROVE  /\ requests'[r] = Idle /\ DOMAIN requests' = Requests
         /\ \A o \in Requests \ {r} : requests'[o] = requests[o]
  BY DEF TypeOK, Answer

(* What a step of r may do to the others: records are made and renamed,    *)
(* and stay what they are otherwise; new rows are not of the batches that  *)
(* others hold or delete; and r takes no batch that it does not have, but  *)
(* the next number, or that of a row there is.                             *)
RecordsGrow ==
  /\ Len(records) <= Len(records')
  /\ \A p \in DOMAIN records :
       /\ records'[p].table = records[p].table /\ records'[p].owner = records[p].owner
       /\ records'[p].onboarded = records[p].onboarded

RowsAreOthers(r) ==
  \A w \in rows' \ rows :
    /\ w.batch <= calls'
    /\ \A o \in Requests \ {r} : requests[o].stage \in Makers => w.batch # requests[o].batch
    /\ \A o \in Requests \ {r} : requests[o].stage \in Seeders => w.batch # requests[o].batch \/ w.of = {}
    /\ \A o \in Requests \ {r} : requests[o].stage \in {"wait", "create"} =>
         \A v \in requests[o].doomed :
           v.of # {} => v # w /\ ~(v \in rows /\ w.record = v.record /\ w.batch = v.batch)

BatchIsKept(r) ==
  LET q == requests[r]
      to == requests'[r]
  IN
  /\ to.stage \in Makers => (q.stage \in Makers /\ to.batch = q.batch) \/ to.batch = calls + 1
  /\ to.stage \in Seeders => (q.stage \in Seeders /\ to.batch = q.batch) \/ to.batch = calls + 1
  /\ to.stage = "remove" => \E w \in rows : w.batch = to.batch

StepOf(r) ==
  /\ \A o \in Requests \ {r} : requests'[o] = requests[o]
  /\ calls' \in {calls, calls + 1}
  /\ UNCHANGED <<scene, sample>>
  /\ RecordsGrow
  /\ RowsAreOthers(r)
  /\ BatchIsKept(r)

(* A record that there was is there, of the same table.                    *)
LEMMA RecordsStay ==
  ASSUME TypeOK, records' \in Seq(Record), RecordsGrow
  PROVE  /\ DOMAIN records \subseteq DOMAIN records'
         /\ \A t : Of(t) \subseteq Of(t)'
  <1>1. DOMAIN records = 1..Len(records) /\ DOMAIN records' = 1..Len(records')
    BY DEF TypeOK
  <1>2. DOMAIN records \subseteq DOMAIN records'
    <2>1. Len(records) \in Nat /\ Len(records') \in Nat
      BY DEF TypeOK
    <2> QED
      BY <1>1, <2>1 DEF RecordsGrow
  <1> QED
    BY <1>2 DEF Of, RecordsGrow

LEMMA RecordsStillKnown ==
  ASSUME AdminInv, records' \in Seq(Record), NEW r \in Requests, StepOf(r), NEW o \in Requests \ {r}
  PROVE  KnowsItsRecords(requests[o])' /\ KnowsItsPlace(requests[o])'
  <1> DEFINE q == requests[o]
  <1>1. KnowsItsRecords(q) /\ KnowsItsPlace(q) /\ TypeOK /\ requests'[o] = q /\ RecordsGrow
    BY DEF AdminInv, RequestIsSound, StepOf, TablesAreSound
  <1>2. DOMAIN records \subseteq DOMAIN records' /\ \A t : Of(t) \subseteq Of(t)'
    BY <1>1, RecordsStay
  <1>3. Program' = Program
    BY ProgramStays DEF StepOf
  <1>4. Len(records) \in Nat /\ Len(records') \in Nat /\ Len(records) <= Len(records')
    BY <1>1 DEF TypeOK, RecordsGrow
  <1>5. KnowsItsPlace(q)'
    BY <1>1, <1>3 DEF KnowsItsPlace
  <1>6. /\ q.stage = "insert" => q.owner \in Nat
        /\ q.stage \in Seeders => \A n \in Names : q.agencies[n] \in Nat
        /\ q.stage \in Replacers => q.record \in DOMAIN records
    BY <1>1, StageTells DEF Inserting, Seeding, Replacement
  <1>7. (q.stage \in Replacers => records'[q.record].table = records[q.record].table)
    BY <1>1, <1>6 DEF RecordsGrow
  <1>8. (q.stage \in {"row", "putRow"} => q.record \in Of(Section(q).table)')
    BY <1>1, <1>2, <1>3 DEF KnowsItsRecords, Section
  <1>9. KnowsItsRecords(q)'
    <2>1. (q.stage = "insert" => q.owner <= Len(records') /\ (q.table = "user" => q.owner = 0))
      BY <1>1, <1>4, <1>6 DEF KnowsItsRecords
    <2>2. (q.stage \in Seeders => \A n \in Names : q.agencies[n] <= Len(records'))
      BY <1>1, <1>4, <1>6 DEF KnowsItsRecords
    <2>3. /\ q.stage = "rename" => q.record \in DOMAIN records'
          /\ q.stage = "save" => q.table \in {"policy", "matrix"} /\ (q.found = 0 \/ q.found \in Of(q.table)')
          /\ q.stage \in {"add", "remove"} => q.record \in Of("policy")'
      BY <1>1, <1>2 DEF KnowsItsRecords
    <2> QED
      BY <1>1, <1>7, <1>8, <2>1, <2>2, <2>3 DEF KnowsItsRecords, Section
  <1> QED
    BY <1>5, <1>9

LEMMA BatchesStillHeld ==
  ASSUME AdminInv, NEW r \in Requests, StepOf(r)
  PROVE  /\ BatchesAreApart'
         /\ \A o \in Requests \ {r} : HoldsItsBatch(requests[o])' /\ DoomsBatches(requests[o])'
  <1>1. /\ \A o \in Requests : HoldsItsBatch(requests[o]) /\ DoomsBatches(requests[o])
        /\ BatchesAreApart /\ TypeOK /\ RowsAreNumbered
    BY DEF AdminInv, RequestIsSound, TablesAreSound
  <1>2. calls \in Nat /\ calls' \in Nat /\ calls <= calls'
    BY <1>1 DEF StepOf, TypeOK
  <1>3. \A o \in Requests : requests[o].stage \in Makers \cup Seeders \cup {"remove"} =>
          requests[o].batch \in Nat /\ requests[o].batch <= calls
    BY <1>1, StageTells
       DEF HoldsItsBatch, Makers, Seeders, Replacers, Inserting, Saving, Adding, Seeding, Replacement
  <1>4. \A w \in rows : w.batch \in Nat /\ w.batch <= calls
    BY <1>1 DEF TypeOK, Row, RowsAreNumbered
  (* The batch that r holds now differs from those that others hold.       *)
  <1>5. ASSUME NEW o \in Requests \ {r}
        PROVE  /\ /\ requests'[r].stage \in Makers
                  /\ requests[o].stage \in Makers \cup Seeders \cup {"remove"}
                  => requests'[r].batch # requests[o].batch
               /\ /\ requests[o].stage \in Makers
                  /\ requests'[r].stage \in Makers \cup Seeders \cup {"remove"}
                  => requests[o].batch # requests'[r].batch
    <2>1. CASE requests'[r].stage \in Makers
      BY <1>1, <1>2, <1>3, <2>1 DEF BatchesAreApart, StepOf, BatchIsKept
    <2>2. CASE requests'[r].stage \in Seeders
      BY <1>1, <1>2, <1>3, <2>2 DEF BatchesAreApart, StepOf, BatchIsKept, Makers, Seeders
    <2>3. CASE requests'[r].stage = "remove"
      BY <1>1, <1>4, <2>3 DEF HoldsItsBatch, StepOf, BatchIsKept, Makers
    <2> QED
      BY <2>1, <2>2, <2>3
  <1>6. BatchesAreApart'
    BY <1>1, <1>5 DEF BatchesAreApart, StepOf
  <1>7. ASSUME NEW o \in Requests \ {r}
        PROVE  HoldsItsBatch(requests[o])'
    <2>1. requests'[o] = requests[o] /\ HoldsItsBatch(requests[o])
      BY <1>1 DEF StepOf
    <2>2. \A w \in rows' \ rows :
            /\ requests[o].stage \in Makers => w.batch # requests[o].batch
            /\ requests[o].stage \in Seeders => w.batch # requests[o].batch \/ w.of = {}
      BY DEF StepOf, RowsAreOthers
    <2>3. requests[o].stage \in Makers \cup Seeders \cup {"remove"} => requests[o].batch <= calls'
      BY <1>2, <1>3
    <2> QED
      BY <2>1, <2>2, <2>3 DEF HoldsItsBatch
  <1>8. ASSUME NEW o \in Requests \ {r}
        PROVE  DoomsBatches(requests[o])'
    <2> DEFINE q == requests[o]
    <2>1. requests'[o] = q /\ DoomsBatches(q)
      BY <1>1 DEF StepOf
    <2> SUFFICES ASSUME q.stage \in {"wait", "create"}, NEW v \in q.doomed
                 PROVE  /\ v.record = q.record /\ v.batch <= calls'
                        /\ \A x \in Requests : requests'[x].stage \in Makers => requests'[x].batch # v.batch
                        /\ v \in rows' /\ v.of # {} =>
                             \A w \in rows' : w.record = v.record /\ w.batch = v.batch => w \in q.doomed
      BY <2>1 DEF DoomsBatches
    <2>2. /\ v.record = q.record /\ v.batch <= calls /\ v.batch \in Nat
          /\ \A x \in Requests : requests[x].stage \in Makers => requests[x].batch # v.batch
          /\ v \in rows /\ v.of # {} =>
               \A w \in rows : w.record = v.record /\ w.batch = v.batch => w \in q.doomed
      BY <1>1, <2>1, StageTells DEF DoomsBatches, Replacers, Replacement, Row
    <2>3. v.batch <= calls'
      BY <1>2, <2>2
    <2>4. \A x \in Requests : requests'[x].stage \in Makers => requests'[x].batch # v.batch
      <3>1. requests'[r].stage \in Makers => requests'[r].batch # v.batch
        BY <1>2, <2>2 DEF StepOf, BatchIsKept
      <3> QED
        BY <2>2, <3>1 DEF StepOf
    <2>5. ASSUME v \in rows', v.of # {}, NEW w \in rows', w.record = v.record, w.batch = v.batch
          PROVE  w \in q.doomed
      <3>1. \A u \in rows' \ rows : v # u /\ ~(v \in rows /\ u.record = v.record /\ u.batch = v.batch)
        BY <2>5 DEF StepOf, RowsAreOthers
      <3> QED
        BY <2>2, <2>5, <3>1
    <2> QED
      BY <2>2, <2>3, <2>4, <2>5
  <1> QED
    BY <1>6, <1>7, <1>8

(* What the tables promise, beside what the requests know of them.         *)
TablesHold ==
  /\ records \in Seq(Record) /\ rows \in SUBSET Row
  /\ NamesAreUnique /\ KeysAreUnique /\ OnboardedWithAdmin /\ BatchesAreWhole
  /\ OwnersExist /\ RowsAreNumbered /\ BatchesHaveScopes

LEMMA TablesUndisturbed ==
  ASSUME AdminInv, UNCHANGED <<records, rows>>, calls' \in {calls, calls + 1}
  PROVE  TablesHold'
  <1>1. /\ TypeOK /\ NamesAreUnique /\ KeysAreUnique /\ OnboardedWithAdmin /\ BatchesAreWhole
        /\ OwnersExist /\ RowsAreNumbered /\ BatchesHaveScopes
    BY DEF AdminInv, TablesAreSound
  <1>2. calls \in Nat /\ \A w \in rows : w.batch \in Nat
    BY <1>1 DEF TypeOK, Row
  <1>3. RowsAreNumbered'
    BY <1>1, <1>2 DEF RowsAreNumbered
  <1>4. NamesAreUnique' /\ OnboardedWithAdmin' /\ OwnersExist'
    BY <1>1 DEF NamesAreUnique, OnboardedWithAdmin, OwnersExist, Of
  <1>5. KeysAreUnique' /\ BatchesAreWhole' /\ BatchesHaveScopes'
    BY <1>1 DEF KeysAreUnique, BatchesAreWhole, BatchesHaveScopes, KeyedOnce
  <1> QED
    BY <1>1, <1>3, <1>4, <1>5 DEF TablesHold, TypeOK

(* A step preserves the invariant if the tables hold after it and what its *)
(* request knows is so.                                                    *)
LEMMA StepKeeps ==
  ASSUME AdminInv, NEW r \in Requests, StepOf(r), DOMAIN requests' = Requests,
         alone' \in SUBSET Requests, TablesHold',
         RequestType(requests[r])', RequestIsSound(requests[r])'
  PROVE  AdminInv'
  <1>1. TypeOK /\ records' \in Seq(Record) /\ RecordsGrow
    BY DEF AdminInv, TablesAreSound, TablesHold, StepOf
  <1>2. DOMAIN records \subseteq DOMAIN records'
    BY <1>1, RecordsStay
  <1>3. \A o \in Requests \ {r} : RequestType(requests[o])'
    <2> TAKE o \in Requests \ {r}
    <2>1. requests'[o] = requests[o] /\ RequestType(requests[o])
      BY <1>1 DEF StepOf, TypeOK, RequestType
    <2> QED
      BY <1>2, <2>1 DEF RequestType, Replacement
  <1>4. TypeOK'
    <2>1. scene' \in Scenes /\ sample' \in SUBSET Names /\ calls' \in Nat
      BY <1>1 DEF StepOf, TypeOK
    <2>2. \A w \in rows' : w.record \in DOMAIN records'
      BY DEF TablesHold, RowsAreNumbered
    <2>3. \A o \in Requests : RequestType(requests[o])'
      BY <1>3
    <2> QED
      BY <2>1, <2>2, <2>3 DEF TypeOK, TablesHold, RequestType
  <1>5. BatchesAreApart' /\ \A o \in Requests : RequestIsSound(requests[o])'
    BY <1>1, RecordsStillKnown, BatchesStillHeld DEF RequestIsSound
  <1> QED
    BY <1>4, <1>5 DEF AdminInv, TablesAreSound, TablesHold

(***************************************************************************)
(* Calls.                                                                  *)
(***************************************************************************)

(* Where a request stands after its first step.                            *)
Begins(q) ==
  \/ /\ q \in Inserting /\ q.batch = calls + 1
     /\ q.owner <= Len(records) /\ (q.table = "user" => q.owner = 0)
  \/ q \in Renaming /\ q.record \in DOMAIN records
  \/ q \in Onboarding /\ q.stage = "email"
  \/ /\ q \in Saving /\ q.batch = calls + 1
     /\ q.table \in {"policy", "matrix"} /\ (q.found = 0 \/ q.found \in Of(q.table))
  \/ /\ q \in Adding /\ q.record \in Of("policy")
     /\ q.stage = "add" => q.batch = calls + 1
     /\ q.stage = "remove" => \E w \in rows : w.batch = q.batch
  \/ /\ Replacement(q) /\ q.stage = "delete" /\ q.batch = calls + 1 /\ q.doomed = {}
     /\ records[q.record].table \in IF q.tx THEN Together ELSE Apart
     /\ q.tx => q.scope = "all"
  \/ /\ q \in Seeding /\ q.stage \in {"look", "serve"} /\ q.batch = calls + 1
     /\ q.stage = "look" => q.section \in DOMAIN Program
     /\ \A n \in Names : q.agencies[n] = 0

LEMMA BeginKeeps ==
  ASSUME AdminInv, NEW r \in Requests, NEW q, Goto(r, q), Begins(q),
         calls' = calls + 1, alone' \in SUBSET Requests, UNCHANGED <<scene, records, rows, sample>>
  PROVE  AdminInv'
  <1>1. TypeOK /\ RowsAreNumbered
    BY DEF AdminInv, TablesAreSound
  <1>2. /\ requests'[r] = q /\ DOMAIN requests' = Requests
        /\ \A o \in Requests \ {r} : requests'[o] = requests[o]
    BY <1>1, GoesTo
  <1>3. calls \in Nat /\ Len(records) \in Nat /\ \A w \in rows : w.batch \in Nat /\ w.batch <= calls
    BY <1>1 DEF TypeOK, RowsAreNumbered, Row
  <1>4. Program' = Program
    BY ProgramStays
  <1>5. /\ q.stage \in Makers \cup Seeders => q.batch = calls + 1
        /\ q.stage = "remove" => \E w \in rows : w.batch = q.batch
    BY DEF Begins, Inserting, Renaming, Onboarding, Saving, Adding, Replacement, Seeding, Makers, Seeders
  <1>6. StepOf(r)
    <2>1. BatchIsKept(r)
      BY <1>2, <1>5 DEF BatchIsKept
    <2>2. RecordsGrow /\ RowsAreOthers(r)
      BY <1>3 DEF RecordsGrow, RowsAreOthers
    <2> QED
      BY <1>2, <2>1, <2>2 DEF StepOf
  <1>7. RequestType(q)'
    BY DEF Begins, RequestType, Replacement
  <1>8. KnowsItsRecords(q)'
    <2>1. q.stage \in {"insert", "rename", "save", "add", "remove"} => KnowsItsRecords(q)'
      BY <1>2 DEF Begins, Inserting, Renaming, Onboarding, Saving, Adding, Replacement, Seeding,
                  KnowsItsRecords, Of, Replacers, Seeders
    <2>2. q.stage \notin {"insert", "rename", "save", "add", "remove"} => KnowsItsRecords(q)'
      BY <1>2, <1>3 DEF Begins, Inserting, Renaming, Onboarding, Saving, Adding, Replacement, Seeding,
                  KnowsItsRecords, Replacers, Seeders
    <2> QED
      BY <2>1, <2>2
  <1>9. KnowsItsPlace(q)'
    BY <1>2, <1>4 DEF Begins, Inserting, Renaming, Onboarding, Saving, Adding, Replacement, Seeding,
                KnowsItsPlace, InSection, Seeders
  <1>10. HoldsItsBatch(q)' /\ DoomsBatches(q)'
    <2>1. q.stage \notin {"wait", "create"}
      BY DEF Begins, Inserting, Renaming, Onboarding, Saving, Adding, Replacement, Seeding
    <2>2. HoldsItsBatch(q)'
      BY <1>3, <1>5 DEF HoldsItsBatch
    <2> QED
      BY <2>1, <2>2 DEF DoomsBatches
  <1>11. TablesHold'
    BY TablesUndisturbed
  <1> QED
    BY <1>2, <1>6, <1>7, <1>8, <1>9, <1>10, <1>11, StepKeeps DEF RequestIsSound

LEMMA LeastNumber ==
  ASSUME NEW S \in SUBSET Nat, S # {}
  PROVE  \E k \in S : \A j \in S : k <= j
  <1>1. \E k \in S : \A j \in S : <<j, k>> \notin OpToRel(<, Nat)
    BY NatLessThanWellFounded, WFMin
  <1>2. PICK k \in S : \A j \in S : <<j, k>> \notin OpToRel(<, Nat)
    BY <1>1
  <1>3. ASSUME NEW j \in S PROVE k <= j
    <2>1. ~(j < k)
      BY <1>2 DEF OpToRel
    <2> QED
      BY <2>1
  <1> QED
    BY <1>3

(* From a section a container goes on to the next that there is something  *)
(* to do for, or serves if there is none.                                  *)
LEMMA GoesOn ==
  ASSUME TypeOK, NEW q \in Seeding
  PROVE  LET to == NextSection(q) IN
         /\ to \in Seeding /\ to.stage \in {"look", "serve"}
         /\ to.batch = q.batch /\ to.agencies = q.agencies
         /\ to.stage = "look" =>
              to.section \in DOMAIN Program /\ q.section < to.section /\ to.names = Program[to.section].names
         /\ \A i \in DOMAIN Program :
              q.section < i /\ Program[i].table \in scene.tables /\ Program[i].names # {}
                => to.stage = "look" /\ to.section <= i
  <1> DEFINE later == {i \in (q.section + 1)..Len(Program) :
                         Program[i].table \in scene.tables /\ Program[i].names # {}}
             next  == CHOOSE i \in later : \A j \in later : i <= j
             to    == NextSection(q)
  <1>1. q.section \in Nat
    BY DEF Seeding
  <1>2. /\ DOMAIN Program = 1..Len(Program) /\ Len(Program) \in Nat
        /\ \A i \in DOMAIN Program : Program[i].names \in SUBSET Names
    BY ProgramIsSound DEF TypeOK, FitsIn, Parts
  <1>3. \A i \in DOMAIN Program :
          i \in later <=> q.section < i /\ Program[i].table \in scene.tables /\ Program[i].names # {}
    BY <1>1, <1>2
  <1>4. later \subseteq DOMAIN Program /\ later \in SUBSET Nat /\ \A i \in later : q.section < i
    BY <1>1, <1>2
  <1>5. to = IF later = {} THEN [q EXCEPT !.stage = "serve"]
             ELSE [q EXCEPT !.stage = "look", !.section = next, !.names = Program[next].names]
    BY DEF NextSection
  <1>6. CASE later = {}
    BY <1>3, <1>5, <1>6 DEF Seeding
  <1>7. CASE later # {}
    <2> HIDE DEF later
    <2>1. next \in later /\ \A j \in later : next <= j
      <3>1. \E i \in later : \A j \in later : i <= j
        BY <1>4, <1>7, LeastNumber
      <3> QED
        BY <3>1
    <2> HIDE DEF next
    <2>2. /\ next \in DOMAIN Program /\ next \in Nat /\ q.section < next /\ Program[next].names \in SUBSET Names
      BY <1>2, <1>4, <2>1
    <2>3. /\ to \in Seeding /\ to.stage = "look" /\ to.section = next /\ to.names = Program[next].names
          /\ to.batch = q.batch /\ to.agencies = q.agencies
      <3> HIDE DEF to
      <3> QED
        BY <1>5, <1>7, <2>2 DEF Seeding
    <2>4. \A i \in DOMAIN Program :
            q.section < i /\ Program[i].table \in scene.tables /\ Program[i].names # {} => next <= i
      BY <1>3, <2>1
    <2> QED
      BY <2>2, <2>3, <2>4
  <1> QED
    BY <1>6, <1>7

LEMMA InsertBegins ==
  ASSUME TypeOK, calls' = calls + 1, NEW r \in Requests,
         NEW t \in Tables, NEW o \in Nat, NEW n \in Names, NEW scope \in Scopes, NEW keys \in SUBSET Keys,
         LookThenInsert(r, t, o, n, scope, keys), o <= Len(records), t = "user" => o = 0
  PROVE  \E q : Begins(q) /\ Goto(r, q)
  <1> DEFINE q == [stage |-> "insert", table |-> t, owner |-> o, name |-> n, scope |-> scope,
                   keys |-> keys, batch |-> calls']
  <1>1. calls \in Nat
    BY DEF TypeOK
  <1>2. q \in Inserting /\ q.batch = calls + 1 /\ q.owner = o /\ q.table = t
    BY <1>1 DEF Inserting
  <1>3. Goto(r, q)
    BY DEF LookThenInsert
  <1> HIDE DEF q
  <1> QED
    BY <1>2, <1>3 DEF Begins

LEMMA RenameBegins ==
  ASSUME TypeOK, NEW r \in Requests, NEW p \in DOMAIN records, NEW n \in Names,
         Goto(r, [stage |-> "rename", record |-> p, name |-> n])
  PROVE  \E q : Begins(q) /\ Goto(r, q)
  <1>1. p \in Nat
    BY DEF TypeOK
  <1>2. [stage |-> "rename", record |-> p, name |-> n] \in Renaming
    BY <1>1 DEF Renaming
  <1> QED
    BY <1>2 DEF Begins

LEMMA SaveBegins ==
  ASSUME TypeOK, calls' = calls + 1, NEW r \in Requests, NEW t \in {"policy", "matrix"}, LookThenSave(r, t)
  PROVE  \E q : Begins(q) /\ Goto(r, q)
  <1>0. PICK n \in Names, keys \in SUBSET Keys :
          \E p \in {0} \cup Named(t, 0, n) :
            Goto(r, [stage |-> "save", table |-> t, name |-> n, found |-> p, keys |-> keys, batch |-> calls'])
    BY DEF LookThenSave
  <1>1. PICK p \in {0} \cup Named(t, 0, n) :
          Goto(r, [stage |-> "save", table |-> t, name |-> n, found |-> p, keys |-> keys, batch |-> calls'])
    BY <1>0
  <1> DEFINE q == [stage |-> "save", table |-> t, name |-> n, found |-> p, keys |-> keys, batch |-> calls']
  <1>2. p \in Nat /\ (p = 0 \/ p \in Of(t)) /\ calls \in Nat
    BY DEF Named, Of, TypeOK
  <1>3. q \in Saving /\ q.batch = calls + 1 /\ q.table = t /\ q.found = p
    BY <1>2 DEF Saving, Tables
  <1>4. Goto(r, q)
    BY <1>1
  <1> HIDE DEF q
  <1> QED
    BY <1>2, <1>3, <1>4 DEF Begins

LEMMA ReplacingBegins ==
  ASSUME TypeOK, calls' = calls + 1, NEW r \in Requests, NEW p \in DOMAIN records, NEW scope \in Scopes,
         NEW keys \in SUBSET Keys, NEW tx \in BOOLEAN, StartReplacing(r, p, scope, keys, calls', tx),
         records[p].table \in IF tx THEN Together ELSE Apart, tx => scope = "all"
  PROVE  \E q : Begins(q) /\ Goto(r, q)
  <1> DEFINE q == [stage |-> "delete", record |-> p, scope |-> scope, keys |-> keys, batch |-> calls',
                   tx |-> tx, doomed |-> {}]
  <1>1. calls' = calls + 1 /\ calls \in Nat
    BY DEF TypeOK
  <1>2. /\ Replacement(q) /\ q.stage = "delete" /\ q.batch = calls + 1 /\ q.doomed = {}
        /\ q.record = p /\ q.tx = tx /\ q.scope = scope
    BY <1>1 DEF Replacement
  <1>3. Goto(r, q)
    BY DEF StartReplacing
  <1> HIDE DEF q
  <1>4. Begins(q)
    BY <1>2 DEF Begins
  <1> QED
    BY <1>3, <1>4

LEMMA CreationBegins ==
  ASSUME TypeOK, calls' = calls + 1, NEW r \in Requests,
         \/ CreateAgency(r) \/ AddDepartment(r) \/ CreateServiceProvider(r) \/ MapServiceProvider(r)
         \/ CreateUser(r) \/ Register(r) \/ CreateRole(r)
  PROVE  \E q : Begins(q) /\ Goto(r, q)
  <1>1. ASSUME NEW t, NEW o \in Of(t)
        PROVE  o \in Nat /\ o <= Len(records) /\ records[o].name \in Names
    <2>1. o \in 1..Len(records) /\ records[o] \in Record /\ Len(records) \in Nat
      BY DEF Of, TypeOK
    <2> QED
      BY <2>1 DEF Record
  <1>2. Len(records) \in Nat /\ "all" \in Scopes /\ {} \in SUBSET Keys
    BY DEF TypeOK, Scopes
  <1> DEFINE Inserts(t, o, scope, keys) == \E n \in Names : LookThenInsert(r, t, o, n, scope, keys)
  <1>3. \E t \in Tables, o \in Nat, scope \in Scopes, keys \in SUBSET Keys :
          o <= Len(records) /\ (t = "user" => o = 0) /\ Inserts(t, o, scope, keys)
    <2>1. CASE CreateAgency(r)
      <3>1. Inserts("agency", 0, "all", {})
        BY <2>1 DEF CreateAgency
      <3> QED
        BY <1>2, <3>1 DEF Tables
    <2>2. CASE CreateServiceProvider(r)
      <3>1. Inserts("provider", 0, "all", {})
        BY <2>2 DEF CreateServiceProvider
      <3> QED
        BY <1>2, <3>1 DEF Tables
    <2>3. CASE CreateRole(r)
      <3>1. Inserts("role", 0, "all", {})
        BY <2>3 DEF CreateRole
      <3> QED
        BY <1>2, <3>1 DEF Tables
    <2>4. CASE AddDepartment(r)
      <3>1. PICK o \in Of("agency") : Inserts("department", o, "all", {})
        BY <2>4 DEF AddDepartment
      <3> QED
        BY <1>1, <1>2, <3>1 DEF Tables
    <2>5. CASE MapServiceProvider(r)
      <3>1. PICK o \in Of("agency") : Inserts("mapping", o, "all", {})
        BY <1>1, <2>5 DEF MapServiceProvider
      <3> QED
        BY <1>1, <1>2, <3>1 DEF Tables
    <2>6. CASE CreateUser(r)
      <3>1. PICK scope \in Scopes, keys \in SUBSET Keys : Inserts("user", 0, scope, keys)
        BY <2>6 DEF CreateUser
      <3> QED
        BY <1>2, <3>1 DEF Tables
    <2>7. CASE Register(r)
      <3>1. PICK citizen \in Keys : Inserts("user", 0, "all", {citizen})
        BY <2>7 DEF Register
      <3> QED
        BY <1>2, <3>1 DEF Tables
    <2> QED
      BY <2>1, <2>2, <2>3, <2>4, <2>5, <2>6, <2>7
  <1> QED
    BY <1>3, InsertBegins

LEMMA ChangeBegins ==
  ASSUME TypeOK, calls' = calls + 1, NEW r \in Requests,
         \/ UpdateAgency(r) \/ UpdateDepartment(r) \/ UpdateUser(r) \/ UpdatePolicy(r)
         \/ UpdateSlaPolicy(r) \/ UpdateEscalationPolicy(r)
  PROVE  \E q : Begins(q) /\ Goto(r, q)
  <1>1. \A t : Of(t) \subseteq DOMAIN records
    BY DEF Of
  <1>2. CASE UpdateAgency(r) \/ UpdateDepartment(r) \/ UpdateUser(r)
    <2>1. PICK t \in {"agency", "department", "user"} : LookThenRename(r, t)
      BY <1>2 DEF UpdateAgency, UpdateDepartment, UpdateUser
    <2> QED
      BY <1>1, <2>1, RenameBegins DEF LookThenRename
  <1>3. CASE UpdatePolicy(r)
    BY <1>1, <1>3, RenameBegins DEF UpdatePolicy
  <1>4. CASE UpdateSlaPolicy(r) \/ UpdateEscalationPolicy(r)
    BY <1>4, SaveBegins DEF UpdateSlaPolicy, UpdateEscalationPolicy
  <1> QED
    BY <1>2, <1>3, <1>4

LEMMA PolicyBegins ==
  ASSUME TypeOK, calls' = calls + 1, NEW r \in Requests,
         CreatePolicy(r) \/ AddRule(r) \/ DeleteRule(r)
  PROVE  \E q : Begins(q) /\ Goto(r, q)
  <1>1. calls \in Nat /\ Len(records) \in Nat
    BY DEF TypeOK
  <1>2. CASE CreatePolicy(r)
    <2>1. PICK t \in {"policy", "matrix"}, n \in Names :
            Goto(r, [stage |-> "insert", table |-> t, owner |-> 0, name |-> n, scope |-> "all",
                     keys |-> {}, batch |-> calls'])
      BY <1>2 DEF CreatePolicy
    <2> DEFINE q == [stage |-> "insert", table |-> t, owner |-> 0, name |-> n, scope |-> "all",
                     keys |-> {}, batch |-> calls']
    <2>2. q \in Inserting /\ q.batch = calls + 1 /\ q.owner = 0
      BY <1>1 DEF Inserting, Tables, Scopes
    <2>3. Goto(r, q)
      BY <2>1
    <2> HIDE DEF q
    <2> QED
      BY <1>1, <2>2, <2>3 DEF Begins
  <1>3. CASE AddRule(r)
    <2>1. PICK p \in Of("policy"), k \in Keys :
            Goto(r, [stage |-> "add", record |-> p, key |-> k, batch |-> calls'])
      BY <1>3 DEF AddRule
    <2> DEFINE q == [stage |-> "add", record |-> p, key |-> k, batch |-> calls']
    <2>2. p \in Nat
      BY DEF Of, TypeOK
    <2>3. q \in Adding /\ q.batch = calls + 1 /\ q.record = p /\ q.stage = "add"
      BY <1>1, <2>2 DEF Adding
    <2>4. Goto(r, q)
      BY <2>1
    <2> HIDE DEF q
    <2> QED
      BY <2>3, <2>4 DEF Begins
  <1>4. CASE DeleteRule(r)
    <2>1. PICK w \in rows :
            /\ records[w.record].table = "policy"
            /\ Goto(r, [stage |-> "remove", record |-> w.record, key |-> w.key, batch |-> w.batch])
      BY <1>4 DEF DeleteRule
    <2> DEFINE q == [stage |-> "remove", record |-> w.record, key |-> w.key, batch |-> w.batch]
    <2>2. w \in Row /\ w.record \in DOMAIN records
      BY DEF TypeOK
    <2>3. q \in Adding /\ q.batch = w.batch /\ q.record \in Of("policy") /\ q.stage = "remove"
      BY <2>1, <2>2 DEF Adding, Row, Of
    <2>4. Goto(r, q)
      BY <2>1
    <2> HIDE DEF q
    <2> QED
      BY <2>3, <2>4 DEF Begins
  <1> QED
    BY <1>2, <1>3, <1>4

LEMMA ReplacementBegins ==
  ASSUME TypeOK, calls' = calls + 1, NEW r \in Requests,
         SetRolePermissions(r) \/ SetBusinessHours(r) \/ SetEscalationLevels(r) \/ AssignRoles(r)
  PROVE  \E q : Begins(q) /\ Goto(r, q)
  <1>1. \E p \in DOMAIN records, scope \in Scopes, keys \in SUBSET Keys, tx \in BOOLEAN :
          /\ StartReplacing(r, p, scope, keys, calls', tx)
          /\ records[p].table \in IF tx THEN Together ELSE Apart
          /\ tx => scope = "all"
    <2>1. CASE SetRolePermissions(r) \/ SetBusinessHours(r) \/ SetEscalationLevels(r)
      <3>1. PICK t \in Together :
              \E p \in Of(t), keys \in SUBSET Keys : StartReplacing(r, p, "all", keys, calls', TRUE)
        BY <2>1 DEF SetRolePermissions, SetBusinessHours, SetEscalationLevels, Together
      <3>2. PICK p \in Of(t), keys \in SUBSET Keys : StartReplacing(r, p, "all", keys, calls', TRUE)
        BY <3>1
      <3>3. p \in DOMAIN records /\ records[p].table \in Together /\ "all" \in Scopes
        BY DEF Of, Scopes
      <3> QED
        BY <3>2, <3>3
    <2>2. CASE AssignRoles(r)
      <3>1. PICK p \in Of("user"), keys \in SUBSET Keys, scope \in Scopes :
              StartReplacing(r, p, scope, keys, calls', FALSE)
        BY <2>2 DEF AssignRoles
      <3>2. p \in DOMAIN records /\ records[p].table \in Apart
        BY DEF Of, Apart
      <3> QED
        BY <3>1, <3>2
    <2> QED
      BY <2>1, <2>2
  <1> QED
    BY <1>1, ReplacingBegins

LEMMA OnboardingBegins ==
  ASSUME NEW r \in Requests, OnboardAgency(r)
  PROVE  \E q : Begins(q) /\ Goto(r, q)
  <1>1. PICK code \in Names, email \in Names, departments \in SUBSET Names :
          Goto(r, [stage |-> "email", code |-> code, email |-> email, departments |-> departments])
    BY DEF OnboardAgency
  <1>2. [stage |-> "email", code |-> code, email |-> email, departments |-> departments] \in Onboarding
    BY DEF Onboarding
  <1> QED
    BY <1>1, <1>2 DEF Begins

LEMMA ContainerBegins ==
  ASSUME TypeOK, calls' = calls + 1, NEW r \in Requests, StartContainer(r)
  PROVE  \E q : Begins(q) /\ Goto(r, q)
  <1>1. PICK n \in sample :
          Goto(r, NextSection([stage |-> "look", section |-> 0, names |-> {}, name |-> n,
                               record |-> 0, keys |-> {}, key |-> {}, batch |-> calls',
                               agencies |-> [o \in Names |-> 0]]))
    BY DEF StartContainer
  <1> DEFINE q == [stage |-> "look", section |-> 0, names |-> {}, name |-> n,
                   record |-> 0, keys |-> {}, key |-> {}, batch |-> calls',
                   agencies |-> [o \in Names |-> 0]]
  <1>2. calls \in Nat /\ n \in Names
    BY DEF TypeOK
  <1>3. /\ q \in Seeding /\ q.batch = calls + 1 /\ \A o \in Names : q.agencies[o] = 0
    BY <1>2 DEF Seeding
  <1>4. Goto(r, NextSection(q))
    BY <1>1
  <1> HIDE DEF q
  <1>5. Begins(NextSection(q))
    BY <1>3, GoesOn DEF Begins
  <1> QED
    BY <1>4, <1>5

LEMMA CallStep ==
  ASSUME AdminInv, NEW r \in Requests, Call(r)
  PROVE  AdminInv'
  <1>1. TypeOK /\ calls' = calls + 1 /\ alone' \in SUBSET Requests /\ UNCHANGED <<scene, records, rows, sample>>
    BY DEF AdminInv, TablesAreSound, Call
  <1>2. \E q : Begins(q) /\ Goto(r, q)
    <2>1. CASE Request(r)
      BY <1>1, <2>1, CreationBegins, ChangeBegins, PolicyBegins, ReplacementBegins, OnboardingBegins
         DEF Request
    <2>2. CASE StartContainer(r)
      BY <1>1, <2>2, ContainerBegins
    <2> QED
      BY <2>1, <2>2 DEF Call
  <1> QED
    BY <1>1, <1>2, BeginKeeps

(***************************************************************************)
(* What is done to the tables.                                             *)
(***************************************************************************)

(* A record is added under a name that the index lets pass.                *)
LEMMA RecordAdded ==
  ASSUME AdminInv, NEW t \in Tables \cup SeedTables, NEW o \in Nat, o <= Len(records), NEW n \in Names,
         t = "user" => o = 0, ~NameRefused(0, t, o, n), records' = Append(records, NewRecord(t, o, n))
  PROVE  /\ records' \in Seq(Record) /\ RecordsGrow
         /\ Len(records) + 1 \in Of(t)' /\ Len(records') = Len(records) + 1
         /\ \A p \in DOMAIN records : records'[p] = records[p]
         /\ records'[Len(records) + 1] = NewRecord(t, o, n)
         /\ NamesAreUnique' /\ OwnersExist' /\ OnboardedWithAdmin'
  <1> DEFINE new == Len(records) + 1
             record == NewRecord(t, o, n)
  <1>1. TypeOK /\ NamesAreUnique /\ OwnersExist /\ OnboardedWithAdmin
    BY DEF AdminInv, TablesAreSound
  <1>2. record \in Record /\ record.table = t /\ record.owner = o /\ record.name = n /\ record.onboarded = FALSE
    BY DEF NewRecord, Record
  <1> HIDE DEF record
  <1>3. /\ records \in Seq(Record) /\ Len(records) \in Nat /\ DOMAIN records = 1..Len(records)
        /\ \A p \in DOMAIN records : records[p] \in Record
    BY <1>1 DEF TypeOK
  <1>4. records' = Append(records, record)
    BY DEF record
  <1>5. /\ records' \in Seq(Record) /\ Len(records') = new /\ DOMAIN records' = 1..new
        /\ \A p \in DOMAIN records : records'[p] = records[p]
        /\ records'[new] = record
    BY <1>2, <1>3, <1>4
  <1>6. DOMAIN records' = DOMAIN records \cup {new} /\ new \notin DOMAIN records /\ new \in Nat /\ new # 0
    BY <1>3, <1>5
  <1>7. RecordsGrow /\ new \in Of(t)'
    BY <1>2, <1>3, <1>5, <1>6 DEF RecordsGrow, Of
  <1>8. OwnersExist'
    BY <1>1, <1>2, <1>3, <1>5, <1>6 DEF OwnersExist, Record
  <1>9. NamesAreUnique'
    <2>1. \A p \in DOMAIN records :
            /\ records[p].table = t /\ records[p].name = n /\ (t \in Owned => records[p].owner = o)
            => t \in Unindexed
      BY <1>3 DEF NameRefused, Named, Of
    <2> SUFFICES ASSUME NEW p \in DOMAIN records', NEW x \in DOMAIN records',
                        records'[p].table = records'[x].table, records'[p].name = records'[x].name,
                        records'[p].table \in Owned => records'[p].owner = records'[x].owner
                 PROVE  p = x \/ records'[p].table \in Unindexed
      BY DEF NamesAreUnique
    <2>2. CASE p \in DOMAIN records /\ x \in DOMAIN records
      BY <1>1, <1>5, <2>2 DEF NamesAreUnique
    <2>3. CASE p = new /\ x \in DOMAIN records
      BY <1>2, <1>5, <2>1, <2>3
    <2>4. CASE p \in DOMAIN records /\ x = new
      BY <1>2, <1>5, <2>1, <2>4
    <2> QED
      BY <1>6, <2>2, <2>3, <2>4
  <1>10. OnboardedWithAdmin'
    <2>1. \A x : Of(x)' = IF x = t THEN Of(x) \cup {new} ELSE Of(x)
      BY <1>2, <1>5, <1>6 DEF Of
    <2>2. \A u \in Of("user")' : u \in Of("user") \/ records'[u].owner = 0
      BY <1>2, <1>5, <2>1
    <2>3. \A u \in Of("user") : records'[u].owner = records[u].owner /\ records[u].owner # new
      BY <1>1, <1>3, <1>5 DEF Of, OwnersExist, Record
    <2> SUFFICES ASSUME NEW p \in Of("agency")'
                 PROVE  records'[p].onboarded <=> \E u \in Of("user")' : records'[u].owner = p
      BY DEF OnboardedWithAdmin
    <2>4. p # 0 /\ Of("user") \subseteq Of("user")'
      BY <1>6, <2>1 DEF Of
    <2>5. CASE p = new
      <3>1. p \notin Of("agency") /\ t = "agency"
        BY <1>6, <2>1, <2>5 DEF Of
      <3>2. ~records'[p].onboarded
        BY <1>2, <1>5, <2>5
      <3> QED
        BY <2>2, <2>3, <2>4, <2>5, <3>2
    <2>6. CASE p # new
      <3>1. p \in Of("agency") /\ records'[p] = records[p]
        BY <1>5, <2>1, <2>6 DEF Of
      <3>2. records[p].onboarded <=> \E u \in Of("user") : records[u].owner = p
        BY <1>1, <3>1 DEF OnboardedWithAdmin
      <3> QED
        BY <2>2, <2>3, <2>4, <3>1, <3>2
    <2> QED
      BY <2>5, <2>6
  <1>11. records'[new] = NewRecord(t, o, n)
    BY <1>5 DEF record
  <1> QED
    BY <1>5, <1>7, <1>8, <1>9, <1>10, <1>11

(* The rows that are kept, whole batches, and a new batch that the index   *)
(* lets pass.                                                              *)
LEMMA BatchAdded ==
  ASSUME AdminInv, records' \in Seq(Record), RecordsGrow, calls' = calls,
         NEW kept \in SUBSET rows, NEW p \in DOMAIN records', NEW scope \in Scopes, NEW keys \in SUBSET Keys,
         NEW b \in Nat, b <= calls,
         \A w \in rows : w.batch # b,
         \A v \in kept, w \in rows : v.of # {} /\ w.record = v.record /\ w.batch = v.batch => w \in kept,
         KeyedOnce(records'[p].table, scope) =>
           ~\E w \in kept : w.record = p /\ w.scope = scope /\ w.key \in keys,
         rows' = kept \cup NewRows(p, scope, b, keys)
  PROVE  /\ rows' \in SUBSET Row /\ RowsAreNumbered'
         /\ KeysAreUnique' /\ BatchesAreWhole' /\ BatchesHaveScopes'
  <1> DEFINE new == NewRows(p, scope, b, keys)
  <1>1. /\ TypeOK /\ KeysAreUnique /\ BatchesAreWhole /\ BatchesHaveScopes /\ RowsAreNumbered
    BY DEF AdminInv, TablesAreSound
  <1>2. \A w \in rows : w \in Row /\ w.record \in DOMAIN records
    BY <1>1 DEF TypeOK
  <1>3. /\ DOMAIN records \subseteq DOMAIN records'
        /\ \A x \in DOMAIN records : records'[x].table = records[x].table
    BY <1>1, RecordsStay DEF RecordsGrow
  <1>4. p \in Nat
    OBVIOUS
  <1>5. \A w \in new : /\ w \in Row /\ w.record = p /\ w.scope = scope /\ w.batch = b /\ w.of = keys
                       /\ w.key \in keys
                       /\ w = [record |-> p, scope |-> scope, batch |-> b, of |-> keys, key |-> w.key]
    BY <1>4 DEF NewRows, Row
  <1>6. ASSUME NEW k \in keys PROVE \E w \in new : w.key = k
    <2> DEFINE w == [record |-> p, scope |-> scope, batch |-> b, of |-> keys, key |-> k]
    <2>1. w \in new /\ w.key = k
      BY DEF NewRows
    <2> QED
      BY <2>1
  <1>7. rows' = kept \cup new
    OBVIOUS
  <1> HIDE DEF new
  <1>8. rows' \in SUBSET Row /\ RowsAreNumbered'
    BY <1>1, <1>2, <1>3, <1>5, <1>7 DEF RowsAreNumbered
  <1>9. KeysAreUnique'
    <2> SUFFICES ASSUME NEW v \in rows', NEW w \in rows',
                        v.record = w.record, v.scope = w.scope, v.key = w.key,
                        KeyedOnce(records'[v.record].table, v.scope)
                 PROVE  v = w
      BY DEF KeysAreUnique, KeyedOnce
    <2>1. CASE v \in kept /\ w \in kept
      <3>1. KeyedOnce(records[v.record].table, v.scope)
        BY <1>2, <1>3, <2>1
      <3> QED
        BY <1>1, <2>1, <3>1 DEF KeysAreUnique
    <2>2. CASE v \in new /\ w \in new
      BY <1>5, <2>2
    <2>3. CASE (v \in kept /\ w \in new) \/ (v \in new /\ w \in kept)
      BY <1>5, <2>3
    <2> QED
      BY <1>7, <2>1, <2>2, <2>3
  <1>10. BatchesAreWhole'
    <2> SUFFICES ASSUME NEW w \in rows', w.of # {}
                 PROVE  {v.key : v \in {u \in rows' : u.record = w.record /\ u.batch = w.batch}} = w.of
      BY DEF BatchesAreWhole
    <2>1. CASE w \in kept
      <3>1. {u \in rows' : u.record = w.record /\ u.batch = w.batch}
              = {u \in rows : u.record = w.record /\ u.batch = w.batch}
        BY <1>5, <1>7, <2>1
      <3>2. {v.key : v \in {u \in rows : u.record = w.record /\ u.batch = w.batch}} = w.of
        BY <1>1, <2>1 DEF BatchesAreWhole
      <3> QED
        BY <3>1, <3>2
    <2>2. CASE w \in new
      <3>1. {u \in rows' : u.record = w.record /\ u.batch = w.batch} = new
        BY <1>5, <1>7, <2>2
      <3>2. {v.key : v \in new} = keys
        BY <1>5, <1>6
      <3> QED
        BY <1>5, <2>2, <3>1, <3>2
    <2> QED
      BY <1>7, <2>1, <2>2
  <1>11. BatchesHaveScopes'
    <2> SUFFICES ASSUME NEW v \in rows', NEW w \in rows', w.of # {}, v.record = w.record, v.batch = w.batch
                 PROVE  v.scope = w.scope /\ v.of = w.of
      BY DEF BatchesHaveScopes
    <2>1. CASE v \in kept /\ w \in kept
      BY <1>1, <2>1 DEF BatchesHaveScopes
    <2> QED
      BY <1>5, <1>7, <2>1
  <1> QED
    BY <1>8, <1>9, <1>10, <1>11

(***************************************************************************)
(* The steps of a request.                                                 *)
(***************************************************************************)

(* What all steps leave alone.                                             *)
Steady == UNCHANGED <<scene, alone, calls, sample>>

LEMMA AnswerKeeps ==
  ASSUME AdminInv, NEW r \in Requests, Answer(r), Steady, RecordsGrow, RowsAreOthers(r), TablesHold'
  PROVE  AdminInv'
  <1>1. TypeOK
    BY DEF AdminInv, TablesAreSound
  <1>2. /\ requests'[r] = Idle /\ DOMAIN requests' = Requests
        /\ \A o \in Requests \ {r} : requests'[o] = requests[o]
    BY <1>1, AnswersIt
  <1>3. StepOf(r)
    <2>1. BatchIsKept(r)
      BY <1>2 DEF BatchIsKept, Idle, Makers, Seeders
    <2> QED
      BY <1>2, <2>1 DEF StepOf, Steady
  <1>4. RequestType(requests[r])' /\ RequestIsSound(requests[r])'
    BY <1>2 DEF RequestType, RequestIsSound, Idle, KnowsItsRecords, KnowsItsPlace, HoldsItsBatch, DoomsBatches,
                InSection, Makers, Seeders, Replacers
  <1>5. alone' \in SUBSET Requests
    BY <1>1 DEF TypeOK, Steady
  <1> QED
    BY <1>2, <1>3, <1>4, <1>5, StepKeeps

LEMMA GoKeeps ==
  ASSUME AdminInv, NEW r \in Requests, NEW q, Goto(r, q), Steady, RecordsGrow, RowsAreOthers(r), TablesHold',
         q.stage \in Makers => requests[r].stage \in Makers /\ q.batch = requests[r].batch,
         q.stage \in Seeders => requests[r].stage \in Seeders /\ q.batch = requests[r].batch,
         q.stage # "remove",
         RequestType(q)', KnowsItsRecords(q)', KnowsItsPlace(q)', DoomsBatches(q)',
         q.stage \in Makers => \A w \in rows' : w.batch # q.batch,
         q.stage \in Seeders => \A w \in rows' : w.batch = q.batch => w.of = {}
  PROVE  AdminInv'
  <1>1. TypeOK /\ HoldsItsBatch(requests[r])
    BY DEF AdminInv, TablesAreSound, RequestIsSound
  <1>2. /\ requests'[r] = q /\ DOMAIN requests' = Requests
        /\ \A o \in Requests \ {r} : requests'[o] = requests[o]
    BY <1>1, GoesTo
  <1>3. StepOf(r)
    <2>1. BatchIsKept(r)
      BY <1>2 DEF BatchIsKept
    <2> QED
      BY <1>2, <2>1 DEF StepOf, Steady
  <1>4. HoldsItsBatch(q)'
    BY <1>1 DEF HoldsItsBatch, Steady
  <1>5. RequestType(requests[r])' /\ RequestIsSound(requests[r])'
    BY <1>2, <1>4 DEF RequestIsSound
  <1>6. alone' \in SUBSET Requests
    BY <1>1 DEF TypeOK, Steady
  <1> QED
    BY <1>2, <1>3, <1>5, <1>6, StepKeeps

(* The rows a request makes of its own batch are no other's business.      *)
LEMMA OwnBatch ==
  ASSUME AdminInv, NEW r \in Requests, requests[r].stage \in Makers, Steady,
         \A w \in rows' \ rows : w.batch = requests[r].batch
  PROVE  RowsAreOthers(r)
  <1>1. /\ BatchesAreApart /\ HoldsItsBatch(requests[r])
        /\ \A o \in Requests : DoomsBatches(requests[o])
    BY DEF AdminInv, RequestIsSound
  <1>2. requests[r].batch <= calls'
    BY <1>1 DEF HoldsItsBatch, Steady
  <1>3. \A o \in Requests \ {r} : requests[o].stage \in Makers \cup Seeders => requests[o].batch # requests[r].batch
    BY <1>1 DEF BatchesAreApart
  <1>4. \A o \in Requests \ {r} : requests[o].stage \in {"wait", "create"} =>
          \A v \in requests[o].doomed : v.batch # requests[r].batch
    BY <1>1 DEF DoomsBatches
  <1> QED
    BY <1>2, <1>3, <1>4 DEF RowsAreOthers

LEMMA NoRowsAdded ==
  ASSUME NEW r \in Requests, rows' \subseteq rows
  PROVE  RowsAreOthers(r)
  BY DEF RowsAreOthers

LEMMA RecordsUnchanged ==
  ASSUME TypeOK, records' = records
  PROVE  /\ RecordsGrow /\ records' \in Seq(Record)
         /\ NamesAreUnique' = NamesAreUnique /\ OnboardedWithAdmin' = OnboardedWithAdmin
         /\ OwnersExist' = OwnersExist /\ \A t : Of(t)' = Of(t)
  BY DEF TypeOK, RecordsGrow, NamesAreUnique, OnboardedWithAdmin, OwnersExist, Of

(* Rows stay sound while records are added and renamed.                    *)
LEMMA RowsUnchanged ==
  ASSUME AdminInv, records' \in Seq(Record), RecordsGrow, Steady, rows' = rows
  PROVE  /\ rows' \in SUBSET Row /\ RowsAreNumbered'
         /\ KeysAreUnique' /\ BatchesAreWhole' /\ BatchesHaveScopes'
  <1>1. /\ TypeOK /\ KeysAreUnique /\ BatchesAreWhole /\ BatchesHaveScopes /\ RowsAreNumbered
    BY DEF AdminInv, TablesAreSound
  <1>2. /\ DOMAIN records \subseteq DOMAIN records'
        /\ \A x \in DOMAIN records : records'[x].table = records[x].table
    BY <1>1, RecordsStay DEF RecordsGrow
  <1>3. KeysAreUnique'
    BY <1>1, <1>2 DEF KeysAreUnique, KeyedOnce, RowsAreNumbered
  <1>4. rows' \in SUBSET Row /\ RowsAreNumbered'
    BY <1>1, <1>2 DEF RowsAreNumbered, TypeOK, Steady
  <1> QED
    BY <1>1, <1>3, <1>4 DEF BatchesAreWhole, BatchesHaveScopes

LEMMA InsertStep ==
  ASSUME AdminInv, NEW r \in Requests, Insert(r), Steady
  PROVE  AdminInv'
  <1> DEFINE q == requests[r]
             p == Len(records) + 1
  <1>1. TypeOK /\ KnowsItsRecords(q) /\ HoldsItsBatch(q) /\ RowsAreNumbered
    BY DEF AdminInv, TablesAreSound, RequestIsSound
  <1>2. Answer(r) /\ q.stage = "insert"
    BY DEF Insert, At
  <1>3. q \in Inserting /\ q.owner <= Len(records) /\ (q.table = "user" => q.owner = 0)
    BY <1>1, <1>2, StageTells DEF KnowsItsRecords
  <1>4. q.table \in Tables \cup SeedTables /\ q.owner \in Nat /\ q.name \in Names /\ q.scope \in Scopes
        /\ q.keys \in SUBSET Keys /\ q.batch \in Nat
    BY <1>3 DEF Inserting
  <1>5. CASE NameRefused(0, q.table, q.owner, q.name)
    <2>1. UNCHANGED <<records, rows>>
      BY <1>5 DEF Insert
    <2>2. TablesHold'
      BY <2>1, TablesUndisturbed DEF Steady
    <2> QED
      BY <1>1, <1>2, <2>1, <2>2, AnswerKeeps, NoRowsAdded, RecordsUnchanged
  <1>6. CASE ~NameRefused(0, q.table, q.owner, q.name)
    <2>1. /\ records' = Append(records, NewRecord(q.table, q.owner, q.name))
          /\ rows' = rows \cup NewRows(p, q.scope, q.batch, q.keys)
      BY <1>6 DEF Insert
    <2>2. /\ records' \in Seq(Record) /\ RecordsGrow /\ Len(records') = p
          /\ NamesAreUnique' /\ OwnersExist' /\ OnboardedWithAdmin'
      BY <1>3, <1>4, <1>6, <2>1, RecordAdded
    <2>3. p \in DOMAIN records' /\ \A w \in rows : w.record # p
      BY <1>1, <2>2 DEF TypeOK, RowsAreNumbered
    <2>4. q.batch <= calls /\ \A w \in rows : w.batch # q.batch
      BY <1>1, <1>2 DEF HoldsItsBatch, Makers
    <2>5. calls' = calls
      BY DEF Steady
    <2> HIDE DEF p, q
    <2>6. /\ rows' \in SUBSET Row /\ RowsAreNumbered'
          /\ KeysAreUnique' /\ BatchesAreWhole' /\ BatchesHaveScopes'
      BY <1>4, <2>1, <2>2, <2>3, <2>4, <2>5, BatchAdded
    <2>7. TablesHold'
      BY <2>2, <2>6 DEF TablesHold
    <2>8. RowsAreOthers(r)
      <3>1. \A w \in rows' \ rows : w.batch = q.batch
        BY <2>1 DEF NewRows
      <3> QED
        BY <1>2, <3>1, OwnBatch DEF q, Makers
    <2> QED
      BY <1>2, <2>2, <2>7, <2>8, AnswerKeeps
  <1> QED
    BY <1>5, <1>6

LEMMA RenameStep ==
  ASSUME AdminInv, NEW r \in Requests, Rename(r), Steady
  PROVE  AdminInv'
  <1> DEFINE q == requests[r]
             p == q.record
             old == records[p]
  <1>1. TypeOK /\ KnowsItsRecords(q) /\ NamesAreUnique /\ OnboardedWithAdmin /\ OwnersExist
    BY DEF AdminInv, TablesAreSound, RequestIsSound
  <1>2. Answer(r) /\ q.stage = "rename" /\ rows' = rows
    BY DEF Rename, At
  <1>3. q.name \in Names /\ p \in DOMAIN records
    BY <1>1, <1>2, StageTells DEF KnowsItsRecords, Renaming
  <1>4. CASE NameRefused(p, old.table, old.owner, q.name)
    <2>1. UNCHANGED <<records, rows>>
      BY <1>2, <1>4 DEF Rename
    <2>2. TablesHold'
      BY <2>1, TablesUndisturbed DEF Steady
    <2> QED
      BY <1>1, <1>2, <2>1, <2>2, AnswerKeeps, NoRowsAdded, RecordsUnchanged
  <1>5. CASE ~NameRefused(p, old.table, old.owner, q.name)
    <2>1. records' = [records EXCEPT ![p].name = q.name]
      BY <1>5 DEF Rename
    <2>2. /\ records \in Seq(Record) /\ \A x \in DOMAIN records : records[x] \in Record
      BY <1>1 DEF TypeOK
    <2>3. /\ records' \in Seq(Record) /\ DOMAIN records' = DOMAIN records /\ Len(records') = Len(records)
          /\ records'[p] = [old EXCEPT !.name = q.name]
          /\ \A x \in DOMAIN records : x # p => records'[x] = records[x]
      <3>1. [old EXCEPT !.name = q.name] \in Record
        BY <1>3, <2>2 DEF Record
      <3> QED
        BY <1>3, <2>1, <2>2, <3>1
    <2> HIDE DEF p, q
    <2>4. \A x \in DOMAIN records :
            /\ records'[x].table = records[x].table /\ records'[x].owner = records[x].owner
            /\ records'[x].onboarded = records[x].onboarded
            /\ records'[x].name = IF x = p THEN q.name ELSE records[x].name
      BY <1>3, <2>2, <2>3 DEF Record
    <2>5. RecordsGrow /\ OwnersExist' /\ \A t : Of(t)' = Of(t)
      BY <1>1, <2>3, <2>4 DEF RecordsGrow, OwnersExist, Of, TypeOK
    <2>6. OnboardedWithAdmin'
      <3>1. \A t : \A x \in Of(t) :
              records'[x].owner = records[x].owner /\ records'[x].onboarded = records[x].onboarded
        BY <2>4 DEF Of
      <3> QED
        BY <1>1, <2>5, <3>1 DEF OnboardedWithAdmin
    <2>7. NamesAreUnique'
      <3>1. \A x \in DOMAIN records \ {p} :
              /\ records[x].table = old.table /\ records[x].name = q.name
              /\ old.table \in Owned => records[x].owner = old.owner
              => old.table \in Unindexed
        BY <1>5 DEF NameRefused, Named, Of
      <3> SUFFICES ASSUME NEW x \in DOMAIN records, NEW y \in DOMAIN records, x # y,
                          records[x].table = records[y].table, records'[x].name = records'[y].name,
                          records[x].table \in Owned => records[x].owner = records[y].owner
                   PROVE  records[x].table \in Unindexed
        BY <2>3, <2>4 DEF NamesAreUnique
      <3>2. CASE x = p
        BY <2>4, <3>1, <3>2
      <3>3. CASE y = p
        BY <2>4, <3>1, <3>3
      <3>4. CASE x # p /\ y # p
        BY <1>1, <2>4, <3>4 DEF NamesAreUnique
      <3> QED
        BY <3>2, <3>3, <3>4
    <2>8. TablesHold'
      BY <1>2, <2>3, <2>5, <2>6, <2>7, RowsUnchanged DEF TablesHold
    <2>9. RowsAreOthers(r)
      BY <1>2, NoRowsAdded
    <2> QED
      BY <1>2, <2>5, <2>8, <2>9, AnswerKeeps
  <1> QED
    BY <1>4, <1>5

(* A step that writes nothing and ends the request.                        *)
LEMMA EndsQuietly ==
  ASSUME AdminInv, NEW r \in Requests, Answer(r), Steady, UNCHANGED <<records, rows>>
  PROVE  AdminInv'
  <1>1. TypeOK
    BY DEF AdminInv, TablesAreSound
  <1>2. TablesHold'
    BY TablesUndisturbed DEF Steady
  <1> QED
    BY <1>1, <1>2, AnswerKeeps, NoRowsAdded, RecordsUnchanged

LEMMA LookForAdminStep ==
  ASSUME AdminInv, NEW r \in Requests, LookForAdmin(r), Steady
  PROVE  AdminInv'
  <1>1. TypeOK /\ requests[r].stage = "email" /\ UNCHANGED <<records, rows>>
    BY DEF AdminInv, TablesAreSound, LookForAdmin, At
  <1>2. CASE Answer(r)
    BY <1>1, <1>2, EndsQuietly
  <1>3. CASE requests' = [requests EXCEPT ![r].stage = "onboard"]
    <2>0. PICK q : q = [requests[r] EXCEPT !.stage = "onboard"]
      OBVIOUS
    <2>1. q \in Onboarding /\ q.stage = "onboard"
      BY <1>1, <2>0, StageTells DEF Onboarding
    <2>2. Goto(r, q)
      BY <1>3, <2>0 DEF Goto
    <2>3. TablesHold' /\ RecordsGrow /\ RowsAreOthers(r)
      BY <1>1, TablesUndisturbed, RecordsUnchanged, NoRowsAdded DEF Steady
    <2>4. RequestType(q)' /\ KnowsItsRecords(q)' /\ KnowsItsPlace(q)' /\ DoomsBatches(q)'
      BY <2>1 DEF RequestType, KnowsItsRecords, KnowsItsPlace, DoomsBatches, Replacers, Seeders, InSection
    <2> QED
      BY <2>1, <2>2, <2>3, <2>4, GoKeeps DEF Makers, Seeders
  <1> QED
    BY <1>2, <1>3 DEF LookForAdmin

LEMMA Concatenated ==
  ASSUME NEW S, NEW s \in Seq(S), NEW t \in Seq(S)
  PROVE  /\ s \o t \in Seq(S) /\ Len(s \o t) = Len(s) + Len(t)
         /\ \A i \in 1..Len(s) : (s \o t)[i] = s[i]
         /\ \A i \in 1..Len(t) : (s \o t)[Len(s) + i] = t[i]
  OBVIOUS

(* The records an agency is onboarded with: the agency, its administrator, *)
(* and a department for each name.                                         *)
LEMMA OnboardedRecords ==
  ASSUME NEW q \in Onboarding, NEW p \in Nat, NEW added \in Onboarded(p, q)
  PROVE  \E names \in Seq(Names) :
           /\ \A i, j \in DOMAIN names : names[i] = names[j] => i = j
           /\ added \in Seq(Record) /\ Len(added) = 2 + Len(names)
           /\ added[1] = [NewRecord("agency", 0, q.code) EXCEPT !.onboarded = TRUE]
           /\ added[2] = NewRecord("user", p, q.email)
           /\ \A i \in 1..Len(names) : added[2 + i] = NewRecord("department", p, names[i])
  <1>1. q.departments \in SUBSET Names /\ q.code \in Names /\ q.email \in Names
    BY DEF Onboarding
  <1>2. Cardinality(q.departments) \in Nat
    BY <1>1, AdministrationAssumption, FS_Subset, FS_CardinalityType
  <1> DEFINE n == Cardinality(q.departments)
             a == [NewRecord("agency", 0, q.code) EXCEPT !.onboarded = TRUE]
             u == NewRecord("user", p, q.email)
  <1>0. n \in Nat
    BY <1>2
  <1>3. PICK names \in [1..n -> q.departments] :
          /\ \A i, j \in DOMAIN names : names[i] = names[j] => i = j
          /\ added = <<a, u>> \o [i \in DOMAIN names |-> NewRecord("department", p, names[i])]
    BY DEF Onboarded
  <1> DEFINE deps == [i \in DOMAIN names |-> NewRecord("department", p, names[i])]
  <1>4. a \in Record /\ u \in Record
    BY <1>1 DEF NewRecord, Record, Tables
  <1>5. \A x \in Names : NewRecord("department", p, x) \in Record
    BY DEF NewRecord, Record, Tables
  <1> HIDE DEF n, a, u
  <1>6. /\ names \in Seq(Names) /\ Len(names) = n /\ DOMAIN names = 1..n
    <2>1. names \in [1..n -> Names]
      BY <1>1, <1>3
    <2> QED
      BY <1>0, <2>1
  <1>7. /\ deps \in Seq(Record) /\ Len(deps) = n
        /\ \A i \in 1..n : deps[i] = NewRecord("department", p, names[i])
    <2>1. deps \in [1..n -> Record]
      BY <1>1, <1>3, <1>5, <1>6
    <2> QED
      BY <1>0, <1>6, <2>1
  <1> HIDE DEF deps
  <1>8. added = <<a, u>> \o deps
    BY <1>3 DEF deps
  <1>9. /\ <<a, u>> \in Seq(Record) /\ Len(<<a, u>>) = 2 /\ <<a, u>>[1] = a /\ <<a, u>>[2] = u
    BY <1>4
  <1>10. /\ added \in Seq(Record) /\ Len(added) = 2 + n /\ added[1] = a /\ added[2] = u
    BY <1>0, <1>7, <1>8, <1>9
  <1>11. \A i \in 1..n : added[2 + i] = deps[i]
    BY <1>0, <1>7, <1>8, <1>9
  <1>12. /\ Len(added) = 2 + Len(names)
         /\ \A i \in 1..Len(names) : added[2 + i] = NewRecord("department", p, names[i])
    BY <1>6, <1>7, <1>10, <1>11
  <1>13. /\ added[1] = [NewRecord("agency", 0, q.code) EXCEPT !.onboarded = TRUE]
         /\ added[2] = NewRecord("user", p, q.email)
    BY <1>10 DEF a, u
  <1> QED
    BY <1>3, <1>6, <1>10, <1>12, <1>13

LEMMA CompleteOnboardingStep ==
  ASSUME AdminInv, NEW r \in Requests, CompleteOnboarding(r), Steady
  PROVE  AdminInv'
  <1> DEFINE q == requests[r]
             l == Len(records)
             p == l + 1
  <1>1. TypeOK /\ NamesAreUnique /\ OnboardedWithAdmin /\ OwnersExist
    BY DEF AdminInv, TablesAreSound
  <1>2. Answer(r) /\ q.stage = "onboard" /\ rows' = rows
    BY DEF CompleteOnboarding, At
  <1>3. q \in Onboarding
    BY <1>1, <1>2, StageTells
  <1>4. CASE NameRefused(0, "agency", 0, q.code) \/ NameRefused(0, "user", 0, q.email)
    BY <1>2, <1>4, EndsQuietly DEF CompleteOnboarding
  <1>5. CASE ~(NameRefused(0, "agency", 0, q.code) \/ NameRefused(0, "user", 0, q.email))
    <2>1. PICK added \in Onboarded(p, q) : records' = records \o added
      BY <1>5 DEF CompleteOnboarding
    <2>2. l \in Nat /\ records \in Seq(Record) /\ DOMAIN records = 1..l /\ Len(records) = l
          /\ \A x \in DOMAIN records : records[x] \in Record
      BY <1>1 DEF TypeOK
    <2>4. p = l + 1 /\ p \in Nat /\ p # 0 /\ p > l /\ p + 1 > l /\ p + 1 # p
      BY <2>2
    <2> HIDE DEF q, l, p
    <2>3. PICK names \in Seq(Names) :
            /\ \A i, j \in DOMAIN names : names[i] = names[j] => i = j
            /\ added \in Seq(Record) /\ Len(added) = 2 + Len(names)
            /\ added[1] = [NewRecord("agency", 0, q.code) EXCEPT !.onboarded = TRUE]
            /\ added[2] = NewRecord("user", p, q.email)
            /\ \A i \in 1..Len(names) : added[2 + i] = NewRecord("department", p, names[i])
      BY <1>3, <2>1, <2>4, OnboardedRecords
    <2> DEFINE m == Len(names)
    <2>20. m \in Nat /\ DOMAIN names = 1..m /\ Len(added) = 2 + m
      BY <2>3
    <2> HIDE DEF m
    <2>5. /\ records' \in Seq(Record) /\ Len(records') = l + 2 + m /\ DOMAIN records' = 1..(l + 2 + m)
          /\ \A x \in 1..l : records'[x] = records[x]
          /\ \A i \in 1..(2 + m) : records'[l + i] = added[i]
      <3>0. added \in Seq(Record)
        BY <2>3
      <3>1. Len(records') = l + (2 + m) /\ records' \in Seq(Record)
        BY <2>1, <2>2, <2>20, <3>0, Concatenated
      <3>2. \A x \in 1..l : records'[x] = records[x]
        BY <2>1, <2>2, <3>0, Concatenated
      <3>3. ASSUME NEW i \in 1..(2 + m) PROVE records'[l + i] = added[i]
        <4>1. i \in 1..Len(added)
          BY <2>20
        <4>2. (records \o added)[Len(records) + i] = added[i]
          BY <2>2, <3>0, <4>1, Concatenated
        <4> QED
          BY <2>1, <2>2, <4>2
      <3>4. Len(records') = l + 2 + m
        BY <2>2, <2>20, <3>1
      <3>5. DOMAIN records' = 1..Len(records')
        BY <3>1
      <3> QED
        BY <3>1, <3>2, <3>3, <3>4, <3>5
    (* What each of the records is.                                        *)
    <2>6. /\ records'[p].table = "agency" /\ records'[p].owner = 0
          /\ records'[p].name = q.code /\ records'[p].onboarded
      <3>1. records'[p] = added[1]
        BY <2>4, <2>5, <2>20
      <3> QED
        BY <2>3, <3>1 DEF NewRecord
    <2>7. /\ records'[p + 1].table = "user" /\ records'[p + 1].owner = p /\ records'[p + 1].name = q.email
      <3>1. records'[p + 1] = added[2] /\ l + 2 = p + 1
        BY <2>2, <2>4, <2>5, <2>20
      <3> QED
        BY <2>3, <3>1 DEF NewRecord
    <2>8. ASSUME NEW x \in (p + 2)..(l + 2 + m)
          PROVE  /\ x - p - 1 \in DOMAIN names
                 /\ records'[x].table = "department" /\ records'[x].owner = p
                 /\ records'[x].name = names[x - p - 1]
      <3> DEFINE i == x - p - 1
      <3>1. i \in 1..m /\ 2 + i \in 1..(2 + m) /\ l + (2 + i) = x
        BY <2>2, <2>4, <2>20
      <3> HIDE DEF i
      <3>2. records'[x] = added[2 + i]
        BY <2>5, <3>1
      <3>3. added[2 + i] = NewRecord("department", p, names[i]) /\ i \in DOMAIN names
        BY <2>3, <2>20, <3>1 DEF m
      <3> QED
        BY <3>2, <3>3 DEF NewRecord, i
    <2>9. DOMAIN records' = (1..l) \cup {p, p + 1} \cup ((p + 2)..(l + 2 + m))
      BY <2>2, <2>4, <2>5, <2>20
    <2>10. RecordsGrow
      BY <2>2, <2>5, <2>20 DEF RecordsGrow
    <2>11. \A x \in 1..l : /\ records'[x].owner = records[x].owner /\ records[x].owner <= l /\ records[x].owner \in Nat
                           /\ records'[x].table = records[x].table /\ records'[x].name = records[x].name
                           /\ records'[x].onboarded = records[x].onboarded /\ records[x].owner # p
      <3> TAKE x \in 1..l
      <3>1. records[x] \in Record /\ records'[x] = records[x] /\ records[x].owner <= l
        BY <1>1, <2>2, <2>5 DEF OwnersExist
      <3>2. records[x].owner \in Nat
        BY <3>1 DEF Record
      <3> QED
        BY <2>2, <2>4, <3>1, <3>2
    <2>12. OwnersExist'
      <3>1. \A x \in DOMAIN records' : records'[x].owner <= l + 2 + m
        BY <2>2, <2>4, <2>6, <2>7, <2>8, <2>9, <2>11, <2>20
      <3> QED
        BY <2>5, <3>1 DEF OwnersExist
    <2>13. NamesAreUnique'
      <3> SUFFICES ASSUME NEW x \in DOMAIN records', NEW y \in DOMAIN records', x < y,
                          records'[x].table = records'[y].table, records'[x].name = records'[y].name,
                          records'[x].table \in Owned => records'[x].owner = records'[y].owner
                   PROVE  records'[x].table \in Unindexed
        BY <2>5 DEF NamesAreUnique
      <3>1. \A z \in 1..l : /\ records[z].table = "agency" => records[z].name # q.code
                            /\ records[z].table = "user" => records[z].name # q.email
        BY <1>5, <2>2, <2>4 DEF NameRefused, Named, Of, Unindexed, Owned
      <3>2. CASE y \in 1..l
        <4>1. x \in 1..l
          BY <2>2, <2>5, <3>2
        <4> QED
          BY <1>1, <2>2, <2>11, <3>2, <4>1 DEF NamesAreUnique
      <3>3. CASE y \in {p, p + 1}
        <4>1. x \in 1..l \/ (x = p /\ y = p + 1)
          BY <2>2, <2>4, <2>9, <3>3
        <4> QED
          BY <2>6, <2>7, <2>11, <3>1, <3>3, <4>1
      <3>4. CASE y \in (p + 2)..(l + 2 + m)
        <4>1. records'[x].table = "department" /\ records'[x].owner = p
          BY <2>8, <3>4 DEF Owned
        <4>2. x \in (p + 2)..(l + 2 + m)
          BY <2>6, <2>7, <2>9, <2>11, <4>1
        <4>3. x - p - 1 = y - p - 1
          BY <2>3, <2>8, <3>4, <4>2
        <4> QED
          BY <2>4, <3>4, <4>2, <4>3
      <3> QED
        BY <2>9, <3>2, <3>3, <3>4
    <2>14. OnboardedWithAdmin'
      <3> SUFFICES ASSUME NEW x \in Of("agency")'
                   PROVE  records'[x].onboarded <=> \E u \in Of("user")' : records'[u].owner = x
        BY DEF OnboardedWithAdmin
      <3>1. Of("agency")' = Of("agency") \cup {p}
        BY <2>2, <2>6, <2>7, <2>8, <2>9, <2>11 DEF Of
      <3>2. Of("user")' = Of("user") \cup {p + 1}
        BY <2>2, <2>6, <2>7, <2>8, <2>9, <2>11 DEF Of
      <3>3. CASE x = p
        BY <2>6, <2>7, <3>2, <3>3
      <3>4. CASE x # p
        <4>1. x \in Of("agency") /\ x \in 1..l
          BY <2>2, <3>1, <3>4 DEF Of
        <4>2. records[x].onboarded <=> \E u \in Of("user") : records[u].owner = x
          BY <1>1, <4>1 DEF OnboardedWithAdmin
        <4>3. \A u \in Of("user") : records'[u].owner = records[u].owner
          BY <2>2, <2>11 DEF Of
        <4> QED
          BY <2>7, <2>11, <3>2, <3>4, <4>1, <4>2, <4>3
      <3> QED
        BY <3>3, <3>4
    <2>15. TablesHold'
      BY <1>2, <2>5, <2>10, <2>12, <2>13, <2>14, RowsUnchanged DEF TablesHold
    <2>16. RowsAreOthers(r)
      BY <1>2, NoRowsAdded
    <2> QED
      BY <1>2, <2>10, <2>15, <2>16, AnswerKeeps
  <1> QED
    BY <1>4, <1>5

(* A request that starts replacing rows or goes on with it.                *)
LEMMA ReplacesOn ==
  ASSUME AdminInv, NEW r \in Requests, NEW q, Goto(r, q), Steady, RecordsGrow, RowsAreOthers(r), TablesHold',
         requests[r].stage \in Makers, q.batch = requests[r].batch, q.stage \in Replacers,
         Replacement(q)', KnowsItsRecords(q)', DoomsBatches(q)', \A w \in rows' : w.batch # q.batch
  PROVE  AdminInv'
  <1>1. q.stage \in Makers /\ q.stage \notin Seeders /\ q.stage # "remove"
    BY DEF Replacers, Makers, Seeders
  <1>2. KnowsItsPlace(q)' /\ RequestType(q)'
    BY DEF KnowsItsPlace, RequestType, Replacers, InSection, Seeders
  <1> QED
    BY <1>1, <1>2, GoKeeps

LEMMA SaveStep ==
  ASSUME AdminInv, NEW r \in Requests, Save(r), Steady
  PROVE  AdminInv'
  <1>0. PICK q : q = requests[r]
    OBVIOUS
  <1> DEFINE create == q.found = 0
             refused == create /\ NameRefused(0, q.table, 0, q.name)
  <1>1. TypeOK /\ KnowsItsRecords(q) /\ HoldsItsBatch(q)
    BY <1>0 DEF AdminInv, TablesAreSound, RequestIsSound
  <1>2. q.stage = "save" /\ rows' = rows
    BY <1>0 DEF Save, At
  <1>3. /\ q \in Saving /\ q.table \in {"policy", "matrix"} /\ (q.found = 0 \/ q.found \in Of(q.table))
        /\ \A w \in rows : w.batch # q.batch
    BY <1>0, <1>1, <1>2, StageTells DEF KnowsItsRecords, HoldsItsBatch, Makers
  <1>4. /\ q.table \in Tables /\ q.name \in Names /\ q.found \in Nat /\ q.keys \in SUBSET Keys /\ q.batch \in Nat
    BY <1>3 DEF Saving
  <1>5. PICK p : p = SavedRecord(q)
    OBVIOUS
  (* The record is there, found or made.                                   *)
  <1>6. /\ records' \in Seq(Record) /\ RecordsGrow
        /\ NamesAreUnique' /\ OwnersExist' /\ OnboardedWithAdmin'
        /\ ~refused => p \in Of(q.table)'
    <2>1. CASE create /\ ~refused
      <3>1. records' = Append(records, NewRecord(q.table, 0, q.name)) /\ p = Len(records) + 1
        BY <1>0, <1>5, <2>1 DEF Save, SavedRecord
      <3>2. 0 \in Nat /\ 0 <= Len(records) /\ q.table \in Tables \cup SeedTables
        BY <1>1, <1>4 DEF TypeOK
      <3>3. q.table # "user"
        BY <1>3
      <3>4. ~NameRefused(0, q.table, 0, q.name)
        BY <2>1
      <3>5. /\ records' \in Seq(Record) /\ RecordsGrow /\ Len(records) + 1 \in Of(q.table)'
            /\ NamesAreUnique' /\ OwnersExist' /\ OnboardedWithAdmin'
        BY <1>4, <3>1, <3>2, <3>3, <3>4, RecordAdded
      <3> QED
        BY <3>1, <3>5
    <2>2. CASE ~(create /\ ~refused)
      <3>1. records' = records
        BY <1>0, <2>2 DEF Save
      <3>2. /\ RecordsGrow /\ records' \in Seq(Record) /\ Of(q.table)' = Of(q.table)
            /\ NamesAreUnique' /\ OwnersExist' /\ OnboardedWithAdmin'
        BY <1>1, <3>1, RecordsUnchanged DEF AdminInv, TablesAreSound
      <3>3. ~refused => p \in Of(q.table)
        BY <1>3, <1>5, <2>2 DEF SavedRecord
      <3> QED
        BY <3>2, <3>3
    <2> QED
      BY <2>1, <2>2
  <1>7. TablesHold' /\ RowsAreOthers(r)
    BY <1>2, <1>6, RowsUnchanged, NoRowsAdded DEF TablesHold
  <1>8. CASE Answer(r)
    BY <1>6, <1>7, <1>8, AnswerKeeps
  <1>9. CASE ~refused /\ StartReplacing(r, p, "all", q.keys, q.batch, FALSE)
    <2>1. PICK to : to = [stage |-> "delete", record |-> p, scope |-> "all", keys |-> q.keys,
                          batch |-> q.batch, tx |-> FALSE, doomed |-> {}]
      OBVIOUS
    <2>2. Goto(r, to)
      BY <1>9, <2>1 DEF StartReplacing
    <2>3. p \in DOMAIN records' /\ records'[p].table \in Apart
      <3>1. p \in DOMAIN records' /\ records'[p].table = q.table
        BY <1>6, <1>9 DEF Of
      <3> QED
        BY <1>3, <3>1 DEF Apart
    <2>4. Replacement(to)'
      BY <1>4, <2>1, <2>3 DEF Replacement, Scopes
    <2>5. KnowsItsRecords(to)' /\ DoomsBatches(to)'
      BY <2>1, <2>3 DEF KnowsItsRecords, DoomsBatches, Replacers, Seeders
    <2>6. to.stage \in Replacers /\ to.batch = q.batch /\ q.stage \in Makers /\ \A w \in rows' : w.batch # to.batch
      BY <1>2, <1>3, <2>1 DEF Replacers, Makers
    <2> QED
      BY <1>0, <1>6, <1>7, <2>2, <2>4, <2>5, <2>6, ReplacesOn
  <1> QED
    BY <1>0, <1>5, <1>8, <1>9 DEF Save

LEMMA DeleteRowsStep ==
  ASSUME AdminInv, NEW r \in Requests, DeleteRows(r), Steady
  PROVE  AdminInv'
  <1>0. PICK q : q = requests[r]
    OBVIOUS
  <1>1. /\ TypeOK /\ KnowsItsRecords(q) /\ HoldsItsBatch(q) /\ BatchesHaveScopes /\ RowsAreNumbered
        /\ \A o \in Requests : HoldsItsBatch(requests[o])
    BY <1>0 DEF AdminInv, TablesAreSound, RequestIsSound
  <1>2. q.stage = "delete" /\ records' = records
    BY <1>0 DEF DeleteRows, At
  <1>3. Replacement(q) /\ q.doomed = {} /\ (q.tx => q.scope = "all")
    BY <1>0, <1>1, <1>2, StageTells DEF KnowsItsRecords, Replacers
  <1>4. /\ q.record \in DOMAIN records /\ q.scope \in Scopes /\ q.keys \in SUBSET Keys /\ q.batch \in Nat
        /\ q.batch <= calls /\ \A w \in rows : w.batch # q.batch
    BY <1>1, <1>2, <1>3 DEF Replacement, HoldsItsBatch, Makers
  <1>5. /\ RecordsGrow /\ records' \in Seq(Record) /\ NamesAreUnique' /\ OnboardedWithAdmin' /\ OwnersExist'
    BY <1>1, <1>2, RecordsUnchanged DEF AdminInv, TablesAreSound
  <1>6. CASE q.tx
    <2>1. PICK to : to = [q EXCEPT !.stage = "wait", !.doomed = Selected(q)]
      OBVIOUS
    <2>2. Goto(r, to) /\ rows' = rows
      BY <1>0, <1>6, <2>1 DEF DeleteRows, InTransaction, Goto
    <2>3. Selected(q) = {w \in rows : w.record = q.record}
      BY <1>3, <1>6 DEF Selected
    <2>4. /\ to = [stage |-> "wait", record |-> q.record, scope |-> q.scope, keys |-> q.keys,
                   batch |-> q.batch, tx |-> q.tx, doomed |-> Selected(q)]
      BY <1>3, <2>1 DEF Replacement
    <2>5. Replacement(to)'
      BY <1>1, <1>2, <1>3, <2>3, <2>4 DEF Replacement, TypeOK
    <2>6. KnowsItsRecords(to)'
      BY <1>1, <1>2, <2>4, <1>6 DEF KnowsItsRecords, Replacers, Seeders
    <2>7. \A o \in Requests :
            requests'[o].stage \in Makers => requests[o].stage \in Makers /\ requests'[o].batch = requests[o].batch
      BY <1>0, <1>1, <1>2, <2>2, <2>4, GoesTo DEF Makers
    <2>8. DoomsBatches(to)'
      BY <1>1, <2>2, <2>3, <2>4, <2>7 DEF DoomsBatches, HoldsItsBatch, RowsAreNumbered, Steady
    <2>9. TablesHold' /\ RowsAreOthers(r)
      BY <1>2, <2>2, TablesUndisturbed, NoRowsAdded DEF Steady
    <2>10. to.stage \in Replacers /\ to.batch = q.batch /\ q.stage \in Makers /\ \A w \in rows' : w.batch # to.batch
      BY <1>2, <1>4, <2>2, <2>4 DEF Replacers, Makers
    <2> QED
      BY <1>0, <1>5, <2>2, <2>5, <2>6, <2>8, <2>9, <2>10, ReplacesOn
  <1>7. CASE ~q.tx
    <2>1. PICK to : to = [q EXCEPT !.stage = "create"]
      OBVIOUS
    <2>2. Goto(r, to) /\ rows' = rows \ Selected(q)
      BY <1>0, <1>7, <2>1 DEF DeleteRows, InTransaction, Goto
    <2>3. to = [stage |-> "create", record |-> q.record, scope |-> q.scope, keys |-> q.keys,
                batch |-> q.batch, tx |-> q.tx, doomed |-> {}]
      BY <1>3, <2>1 DEF Replacement
    <2>4. Replacement(to)' /\ KnowsItsRecords(to)' /\ DoomsBatches(to)'
      <3>1. Replacement(to)'
        BY <1>2, <1>3, <2>3 DEF Replacement
      <3>2. KnowsItsRecords(to)'
        BY <1>1, <1>2, <2>3, <1>7 DEF KnowsItsRecords, Replacers, Seeders
      <3> QED
        BY <2>3, <3>1, <3>2 DEF DoomsBatches
    <2>5. \A v \in rows \ Selected(q), w \in rows :
            v.of # {} /\ w.record = v.record /\ w.batch = v.batch => w \in rows \ Selected(q)
      BY <1>1 DEF BatchesHaveScopes, Selected
    <2>6. rows' = (rows \ Selected(q)) \cup NewRows(q.record, q.scope, q.batch, {})
      BY <2>2 DEF NewRows
    <2>7. /\ rows' \in SUBSET Row /\ RowsAreNumbered'
          /\ KeysAreUnique' /\ BatchesAreWhole' /\ BatchesHaveScopes'
      <3>1. q.record \in DOMAIN records' /\ {} \in SUBSET Keys /\ rows \ Selected(q) \in SUBSET rows /\ calls' = calls
        BY <1>2, <1>4 DEF Steady
      <3> QED
        BY <1>4, <1>5, <2>5, <2>6, <3>1, BatchAdded
    <2>8. TablesHold' /\ RowsAreOthers(r)
      BY <1>5, <2>2, <2>7, NoRowsAdded DEF TablesHold
    <2>9. to.stage \in Replacers /\ to.batch = q.batch /\ q.stage \in Makers /\ \A w \in rows' : w.batch # to.batch
      BY <1>2, <1>4, <2>2, <2>3 DEF Replacers, Makers
    <2> QED
      BY <1>0, <1>5, <2>2, <2>4, <2>8, <2>9, ReplacesOn
  <1> QED
    BY <1>6, <1>7

LEMMA LockRowsStep ==
  ASSUME AdminInv, NEW r \in Requests, LockRows(r), Steady
  PROVE  AdminInv'
  <1>0. PICK q : q = requests[r]
    OBVIOUS
  <1>1. /\ TypeOK /\ KnowsItsRecords(q) /\ HoldsItsBatch(q) /\ DoomsBatches(q)
    BY <1>0 DEF AdminInv, TablesAreSound, RequestIsSound
  <1>2. q.stage = "wait" /\ UNCHANGED <<records, rows>>
    BY <1>0 DEF LockRows, At
  <1>3. Replacement(q)
    BY <1>0, <1>1, <1>2, StageTells DEF Replacers
  <1>4. PICK to : to = [q EXCEPT !.stage = "create", !.doomed = @ \cap rows]
    OBVIOUS
  <1>5. /\ Goto(r, to)
        /\ to = [stage |-> "create", record |-> q.record, scope |-> q.scope, keys |-> q.keys,
                 batch |-> q.batch, tx |-> q.tx, doomed |-> q.doomed \cap rows]
    <2>1. Goto(r, to)
      BY <1>0, <1>4 DEF LockRows, Goto
    <2>2. to = [stage |-> "create", record |-> q.record, scope |-> q.scope, keys |-> q.keys,
                 batch |-> q.batch, tx |-> q.tx, doomed |-> q.doomed \cap rows]
      BY <1>3, <1>4 DEF Replacement
    <2> QED
      BY <2>1, <2>2
  <1>6. Replacement(to)' /\ KnowsItsRecords(to)'
    <2>1. Replacement(to)'
      BY <1>2, <1>3, <1>5 DEF Replacement
    <2>2. KnowsItsRecords(to)'
      BY <1>1, <1>2, <1>3, <1>5 DEF Replacement, KnowsItsRecords, Replacers, Seeders
    <2> QED
      BY <2>1, <2>2
  <1>7. \A o \in Requests :
          requests'[o].stage \in Makers => requests[o].stage \in Makers /\ requests'[o].batch = requests[o].batch
    BY <1>0, <1>1, <1>2, <1>5, GoesTo DEF Makers
  <1>8. DoomsBatches(to)'
    BY <1>1, <1>2, <1>5, <1>7 DEF DoomsBatches, Steady
  <1>9. TablesHold' /\ RowsAreOthers(r) /\ RecordsGrow
    BY <1>1, <1>2, TablesUndisturbed, NoRowsAdded, RecordsUnchanged DEF Steady
  <1>10. to.stage \in Replacers /\ to.batch = q.batch /\ q.stage \in Makers /\ \A w \in rows' : w.batch # to.batch
    BY <1>1, <1>2, <1>5 DEF Replacers, Makers, HoldsItsBatch
  <1> QED
    BY <1>0, <1>5, <1>6, <1>8, <1>9, <1>10, ReplacesOn

LEMMA CreateRowsStep ==
  ASSUME AdminInv, NEW r \in Requests, CreateRows(r), Steady
  PROVE  AdminInv'
  <1>0. PICK q : q = requests[r]
    OBVIOUS
  <1>1. /\ TypeOK /\ KnowsItsRecords(q) /\ HoldsItsBatch(q) /\ DoomsBatches(q) /\ BatchesHaveScopes
    BY <1>0 DEF AdminInv, TablesAreSound, RequestIsSound
  <1>2. q.stage = "create" /\ Answer(r) /\ records' = records /\ rows' = Created(q)
    BY <1>0 DEF CreateRows, At
  <1>3. /\ Replacement(q) /\ q.record \in DOMAIN records /\ q.scope \in Scopes
        /\ q.keys \in SUBSET Keys /\ q.batch \in Nat
    <2>1. Replacement(q)
      BY <1>0, <1>1, <1>2, StageTells DEF Replacers
    <2> QED
      BY <2>1 DEF Replacement
  <1>4. q.batch <= calls /\ calls' = calls /\ \A w \in rows : w.batch # q.batch
    BY <1>1, <1>2 DEF HoldsItsBatch, Makers, Steady
  <1>5. /\ RecordsGrow /\ records' \in Seq(Record) /\ NamesAreUnique' /\ OnboardedWithAdmin' /\ OwnersExist'
    BY <1>1, <1>2, RecordsUnchanged DEF AdminInv, TablesAreSound
  <1> DEFINE kept == rows \ q.doomed
  <1>6. CASE \E w \in kept : KeyRefused(q, w)
    BY <1>2, <1>6, EndsQuietly DEF Created
  <1>7. CASE ~\E w \in kept : KeyRefused(q, w)
    <2>1. rows' = kept \cup NewRows(q.record, q.scope, q.batch, q.keys)
      BY <1>2, <1>7 DEF Created
    (* A batch of which a row is deleted is deleted.                       *)
    <2>2. ASSUME NEW v \in kept, NEW w \in rows, v.of # {}, w.record = v.record, w.batch = v.batch
          PROVE  w \in kept
      <3>1. w.of = v.of
        BY <1>1, <2>2 DEF BatchesHaveScopes
      <3>2. w \notin q.doomed
        BY <1>1, <1>2, <2>2, <3>1 DEF DoomsBatches
      <3> QED
        BY <3>2
    <2>3. KeyedOnce(records'[q.record].table, q.scope) =>
            ~\E w \in kept : w.record = q.record /\ w.scope = q.scope /\ w.key \in q.keys
      BY <1>2, <1>7 DEF KeyRefused
    <2>4. kept \in SUBSET rows
      OBVIOUS
    <2> HIDE DEF kept
    <2>5. /\ rows' \in SUBSET Row /\ RowsAreNumbered'
          /\ KeysAreUnique' /\ BatchesAreWhole' /\ BatchesHaveScopes'
      <3>1. q.record \in DOMAIN records'
        BY <1>2, <1>3
      <3> QED
        BY <1>3, <1>4, <1>5, <2>1, <2>2, <2>3, <2>4, <3>1, BatchAdded
    <2>6. TablesHold'
      BY <1>5, <2>5 DEF TablesHold
    <2>7. \A w \in rows' \ rows : w.batch = q.batch
      BY <2>1, <2>4 DEF NewRows
    <2>8. RowsAreOthers(r)
      BY <1>0, <1>2, <2>7, OwnBatch DEF Makers
    <2> QED
      BY <1>2, <1>5, <2>6, <2>8, AnswerKeeps
  <1> QED
    BY <1>6, <1>7

(* One rule more of a policy, or one less of its batch.                    *)
LEMMA CommitRuleStep ==
  ASSUME AdminInv, NEW r \in Requests, CommitRule(r), Steady
  PROVE  AdminInv'
  <1>0. PICK q : q = requests[r]
    OBVIOUS
  <1>1. /\ TypeOK /\ KnowsItsRecords(q) /\ HoldsItsBatch(q)
        /\ KeysAreUnique /\ BatchesAreWhole /\ BatchesHaveScopes /\ RowsAreNumbered
        /\ \A o \in Requests : KnowsItsRecords(requests[o]) /\ HoldsItsBatch(requests[o]) /\ DoomsBatches(requests[o])
    BY <1>0 DEF AdminInv, TablesAreSound, RequestIsSound
  <1>2. q.stage \in {"add", "remove"} /\ Answer(r) /\ records' = records
    BY <1>0 DEF CommitRule, At
  <1>3. q \in Adding /\ q.record \in DOMAIN records /\ records[q.record].table = "policy"
    BY <1>0, <1>1, <1>2, StageTells DEF KnowsItsRecords, Of
  <1>4. q.record \in Nat /\ q.key \in Keys /\ q.batch \in Nat
    BY <1>3 DEF Adding
  <1>5. /\ RecordsGrow /\ records' \in Seq(Record) /\ NamesAreUnique' /\ OnboardedWithAdmin' /\ OwnersExist'
    BY <1>1, <1>2, RecordsUnchanged DEF AdminInv, TablesAreSound
  <1>6. \A scope \in Scopes : ~KeyedOnce("policy", scope)
    BY DEF KeyedOnce
  <1>7. CASE q.stage = "add"
    <2>1. rows' = rows \cup NewRows(q.record, "all", q.batch, {q.key})
      BY <1>0, <1>7 DEF CommitRule, At
    <2>2. q.batch <= calls /\ calls' = calls /\ \A w \in rows : w.batch # q.batch
      BY <1>1, <1>7 DEF HoldsItsBatch, Makers, Steady
    <2>3. "all" \in Scopes /\ {q.key} \in SUBSET Keys /\ q.record \in DOMAIN records' /\ rows \in SUBSET rows
      BY <1>2, <1>3, <1>4 DEF Scopes
    <2>4. ~KeyedOnce(records'[q.record].table, "all")
      BY <1>2, <1>3, <1>6, <2>3
    <2>5. /\ rows' \in SUBSET Row /\ RowsAreNumbered'
          /\ KeysAreUnique' /\ BatchesAreWhole' /\ BatchesHaveScopes'
      BY <1>4, <1>5, <2>1, <2>2, <2>3, <2>4, BatchAdded
    <2>6. TablesHold'
      BY <1>5, <2>5 DEF TablesHold
    <2>7. \A w \in rows' \ rows : w.batch = q.batch
      BY <2>1 DEF NewRows
    <2>8. RowsAreOthers(r)
      BY <1>0, <1>7, <2>7, OwnBatch DEF Makers
    <2> QED
      BY <1>2, <1>5, <2>6, <2>8, AnswerKeeps
  <1>8. CASE q.stage = "remove"
    <2> DEFINE siblings == {w \in rows : w.record = q.record /\ w.batch = q.batch}
               Less(w) == [w EXCEPT !.of = @ \ {q.key}]
               others == rows \ siblings
               left == {Less(w) : w \in {v \in siblings : v.key # q.key}}
    <2>1. rows' = others \cup left
      BY <1>0, <1>8 DEF CommitRule, At
    <2>2. \A w \in rows : w \in Row /\ w.record \in DOMAIN records /\ w.batch <= calls
      BY <1>1 DEF TypeOK, RowsAreNumbered
    <2>3. \A w \in siblings :
            /\ w \in Row /\ w \in rows /\ w.record = q.record /\ w.batch = q.batch
            /\ Less(w) \in Row /\ Less(w).record = q.record /\ Less(w).batch = q.batch
            /\ Less(w).key = w.key /\ Less(w).scope = w.scope /\ Less(w).of = w.of \ {q.key}
      <3> TAKE w \in siblings
      <3>1. w \in Row /\ w \in rows /\ w.record = q.record /\ w.batch = q.batch
        BY <2>2
      <3>2. PICK of : of = w.of \ {q.key}
        OBVIOUS
      <3>3. Less(w) = [w EXCEPT !.of = of] /\ of \in SUBSET Keys
        BY <3>1, <3>2 DEF Row
      <3>4. [w EXCEPT !.of = of]
              = [record |-> w.record, scope |-> w.scope, batch |-> w.batch, of |-> of, key |-> w.key]
        BY <3>1 DEF Row
      <3>5. PICK u : u = Less(w)
        OBVIOUS
      <3>6. u = [record |-> w.record, scope |-> w.scope, batch |-> w.batch, of |-> of, key |-> w.key]
        BY <3>3, <3>4, <3>5
      <3> HIDE DEF Less
      <3>7. u \in Row /\ u.record = w.record /\ u.batch = w.batch /\ u.key = w.key /\ u.scope = w.scope /\ u.of = of
        BY <3>1, <3>3, <3>6 DEF Row
      <3> QED
        BY <3>1, <3>2, <3>5, <3>7
    <2>4. \A u \in left : \E w \in siblings : w.key # q.key /\ u = Less(w)
      OBVIOUS
    <2>5. \A w \in siblings : w.key # q.key => Less(w) \in left
      OBVIOUS
    <2>6. \A u \in left : u.record = q.record /\ u.batch = q.batch /\ u \in Row
      <3> HIDE DEF siblings, Less, left
      <3> QED
        BY <2>3, <2>4
    <2>7. \A w \in others : w \in rows /\ ~(w.record = q.record /\ w.batch = q.batch)
      OBVIOUS
    <2>8. \A w \in rows : w.record = q.record /\ w.batch = q.batch => w \in siblings
      OBVIOUS
    <2>9. \A w \in rows : w \in others \/ w \in siblings
      OBVIOUS
    <2> HIDE DEF siblings, Less, others, left
    <2>10. rows' \in SUBSET Row /\ RowsAreNumbered'
      <3>1. \A w \in rows' : w \in Row /\ w.record \in DOMAIN records /\ w.batch <= calls
        BY <1>1, <1>3, <2>1, <2>2, <2>3, <2>4, <2>7
      <3> QED
        BY <1>2, <3>1 DEF RowsAreNumbered, Steady
    <2>11. KeysAreUnique'
      <3> SUFFICES ASSUME NEW v \in rows', NEW w \in rows', v.record = w.record, v.scope = w.scope, v.key = w.key,
                          KeyedOnce(records[v.record].table, v.scope)
                   PROVE  v = w
        BY <1>2 DEF KeysAreUnique, KeyedOnce
      <3>1. v.record # q.record
        BY <1>3, <1>6, <2>10 DEF Row
      <3>2. v \in rows /\ w \in rows
        BY <2>1, <2>6, <2>7, <3>1
      <3> QED
        BY <1>1, <3>2 DEF KeysAreUnique
    <2>12. BatchesAreWhole'
      <3> SUFFICES ASSUME NEW w \in rows', w.of # {}
                   PROVE  {v.key : v \in {u \in rows' : u.record = w.record /\ u.batch = w.batch}} = w.of
        BY DEF BatchesAreWhole
      <3>1. CASE w \in others
        <4>1. {u \in rows' : u.record = w.record /\ u.batch = w.batch}
                = {u \in rows : u.record = w.record /\ u.batch = w.batch}
          BY <2>1, <2>3, <2>6, <2>7, <2>9, <3>1
        <4>2. {v.key : v \in {u \in rows : u.record = w.record /\ u.batch = w.batch}} = w.of
          BY <1>1, <2>7, <3>1 DEF BatchesAreWhole
        <4> QED
          BY <4>1, <4>2
      <3>2. CASE w \in left
        <4>1. PICK x \in siblings : w = Less(x)
          BY <2>4, <3>2
        <4>2. {u \in rows' : u.record = w.record /\ u.batch = w.batch} = left
          BY <2>1, <2>6, <2>7, <3>2
        <4>3. {u \in rows : u.record = x.record /\ u.batch = x.batch} = siblings
          BY <2>3, <2>8, <4>1
        <4>4. {v.key : v \in siblings} = x.of
          BY <1>1, <2>3, <4>1, <4>3 DEF BatchesAreWhole
        <4>5. {v.key : v \in left} = x.of \ {q.key}
          <5>1. \A v \in left : v.key \in x.of \ {q.key}
            BY <2>3, <2>4, <4>4
          <5>2. \A k \in x.of \ {q.key} : \E v \in left : v.key = k
            BY <2>3, <2>5, <4>4
          <5> QED
            BY <5>1, <5>2
        <4> QED
          BY <2>3, <4>1, <4>2, <4>5
      <3> QED
        BY <2>1, <3>1, <3>2
    <2>13. BatchesHaveScopes'
      <3> SUFFICES ASSUME NEW v \in rows', NEW w \in rows', w.of # {}, v.record = w.record, v.batch = w.batch
                   PROVE  v.scope = w.scope /\ v.of = w.of
        BY DEF BatchesHaveScopes
      <3>1. CASE w \in others
        <4>1. v \in rows /\ w \in rows
          BY <2>1, <2>6, <2>7, <3>1
        <4> QED
          BY <1>1, <4>1 DEF BatchesHaveScopes
      <3>2. CASE w \in left
        <4>1. v \in left
          BY <2>1, <2>6, <2>7, <3>2
        <4>2. PICK x \in siblings : w = Less(x)
          BY <2>4, <3>2
        <4>3. PICK y \in siblings : v = Less(y)
          BY <2>4, <4>1
        <4>4. y.scope = x.scope /\ y.of = x.of
          BY <1>1, <2>3, <4>2 DEF BatchesHaveScopes
        <4> QED
          BY <2>3, <4>2, <4>3, <4>4
      <3> QED
        BY <2>1, <3>1, <3>2
    <2>14. TablesHold'
      BY <1>5, <2>10, <2>11, <2>12, <2>13 DEF TablesHold
    (* Nobody else has these rows in hand: batches of policies are not of  *)
    (* those that transactions delete.                                     *)
    <2>15. RowsAreOthers(r)
      <3> SUFFICES ASSUME NEW u \in rows' \ rows
                   PROVE  /\ u.batch <= calls'
                          /\ \A o \in Requests \ {r} : requests[o].stage \in Makers => u.batch # requests[o].batch
                          /\ \A o \in Requests \ {r} : requests[o].stage \in Seeders =>
                               u.batch # requests[o].batch \/ u.of = {}
                          /\ \A o \in Requests \ {r} : requests[o].stage \in {"wait", "create"} =>
                               \A v \in requests[o].doomed : v.record # u.record
        BY DEF RowsAreOthers
      <3>1. u \in left
        BY <2>1, <2>7
      <3>2. PICK x \in siblings : u = Less(x)
        BY <2>4, <3>1
      <3>3. x \in rows /\ u.batch = x.batch /\ u.of \subseteq x.of /\ u.record = q.record
        BY <2>3, <3>2
      <3>4. u.batch <= calls'
        BY <2>2, <3>3 DEF Steady
      <3>5. ASSUME NEW o \in Requests \ {r}
            PROVE  /\ requests[o].stage \in Makers => u.batch # requests[o].batch
                   /\ requests[o].stage \in Seeders => u.batch # requests[o].batch \/ u.of = {}
        BY <1>1, <3>3 DEF HoldsItsBatch
      <3>6. ASSUME NEW o \in Requests \ {r}, requests[o].stage \in {"wait", "create"},
                   NEW v \in requests[o].doomed
            PROVE  v.record # u.record
        <4>1. v.record = requests[o].record /\ KnowsItsRecords(requests[o])
          BY <1>1, <3>6 DEF DoomsBatches
        <4>2. requests[o].tx /\ records[v.record].table \in Together
          BY <3>6, <4>1 DEF KnowsItsRecords, Replacers
        <4> QED
          BY <1>3, <3>3, <4>2 DEF Together
      <3> QED
        BY <3>4, <3>5, <3>6
    <2> QED
      BY <1>2, <1>5, <2>14, <2>15, AnswerKeeps
  <1> QED
    BY <1>2, <1>7, <1>8

(***************************************************************************)
(* The steps of the seed.                                                  *)
(***************************************************************************)

(* Where a container stands after a name, after a key, and with a record   *)
(* in hand.                                                                *)
LEMMA NameGoesOn ==
  ASSUME TypeOK, NEW q \in Seeding, q.section \in DOMAIN Program
  PROVE  LET to == NextName(q) IN
         /\ to \in Seeding /\ to.stage \in {"look", "serve"}
         /\ to.batch = q.batch /\ to.agencies = q.agencies
         /\ to.stage = "look" => to.section \in DOMAIN Program
  <1>1. CASE q.names # {}
    <2>1. [q EXCEPT !.stage = "look"] \in Seeding
      BY DEF Seeding
    <2> QED
      BY <1>1, <2>1 DEF NextName, Seeding
  <1>2. CASE q.names = {}
    <2>1. NextName(q) = NextSection(q)
      BY <1>2 DEF NextName
    <2> QED
      BY <2>1, GoesOn
  <1> QED
    BY <1>1, <1>2

LEMMA KeyGoesOn ==
  ASSUME TypeOK, NEW q \in Seeding, q.section \in DOMAIN Program
  PROVE  LET to == NextKey(q) IN
         /\ to \in Seeding /\ to.stage \in {"row", "look", "serve"}
         /\ to.batch = q.batch /\ to.agencies = q.agencies
         /\ to.stage # "serve" => to.section \in DOMAIN Program
         /\ to.stage = "row" => to.section = q.section /\ to.record = q.record
  <1>1. PICK left : left = q.keys \ q.key
    OBVIOUS
  <1>2. PICK on : on = [q EXCEPT !.keys = left, !.key = {}]
    OBVIOUS
  <1>3. /\ on \in Seeding /\ on.section = q.section /\ on.record = q.record /\ on.batch = q.batch
        /\ on.agencies = q.agencies
    <2>1. left \in SUBSET Keys /\ {} \in SUBSET Keys
      BY <1>1 DEF Seeding
    <2> QED
      BY <1>2, <2>1 DEF Seeding
  <1>4. NextKey(q) = IF left # {} THEN [on EXCEPT !.stage = "row"] ELSE NextName(on)
    BY <1>1, <1>2 DEF NextKey
  <1>5. CASE left # {}
    BY <1>3, <1>4, <1>5 DEF Seeding
  <1>6. CASE left = {}
    BY <1>3, <1>4, <1>6, NameGoesOn
  <1> QED
    BY <1>5, <1>6

LEMMA RecordGoesOn ==
  ASSUME TypeOK, NEW q \in Seeding, q.section \in DOMAIN Program, NEW p \in Nat
  PROVE  LET to == WithRecord(q, p) IN
         /\ to \in Seeding /\ to.stage \in {"row", "look", "serve"}
         /\ to.batch = q.batch /\ \A n \in Names : to.agencies[n] \in {q.agencies[n], p}
         /\ to.stage # "serve" => to.section \in DOMAIN Program
         /\ to.stage = "row" => to.section = q.section /\ to.record = p
  <1>1. PICK on : on = IF Section(q).table = "agency" THEN [q EXCEPT !.agencies[q.name] = p] ELSE q
    OBVIOUS
  <1>2. /\ on \in Seeding /\ on.section = q.section /\ on.batch = q.batch /\ on.names = q.names
        /\ \A n \in Names : on.agencies[n] \in {q.agencies[n], p}
    BY <1>1 DEF Seeding
  <1>3. WithRecord(q, p) = IF Section(q).kind = "none" THEN NextName(on)
                           ELSE [on EXCEPT !.stage = "row", !.record = p, !.keys = Keys]
    BY <1>1 DEF WithRecord
  <1>4. CASE Section(q).kind = "none"
    <2>1. PICK to : to = NextName(on)
      OBVIOUS
    <2>2. /\ to \in Seeding /\ to.stage \in {"look", "serve"} /\ to.batch = on.batch /\ to.agencies = on.agencies
          /\ to.stage = "look" => to.section \in DOMAIN Program
      BY <1>2, <2>1, NameGoesOn
    <2> QED
      BY <1>2, <1>3, <1>4, <2>1, <2>2
  <1>5. CASE Section(q).kind # "none"
    <2>1. PICK to : to = [on EXCEPT !.stage = "row", !.record = p, !.keys = Keys]
      OBVIOUS
    <2>2. /\ to \in Seeding /\ to.stage = "row" /\ to.batch = on.batch /\ to.agencies = on.agencies
          /\ to.section = on.section /\ to.record = p
      BY <1>2, <2>1 DEF Seeding
    <2> QED
      BY <1>2, <1>3, <1>5, <2>1, <2>2
  <1> QED
    BY <1>4, <1>5

(* A container goes on in the seed until it serves or dies.                *)
StaysInSeed(r) == requests'[r] \in Seeding \/ requests'[r] = Idle

LEMMA SeedKeeps ==
  ASSUME AdminInv, NEW r \in Requests, NEW q \in Seeding, Goto(r, q), Steady,
         RecordsGrow, RowsAreOthers(r), TablesHold', requests[r].stage \in Seeders, q.batch = requests[r].batch,
         \A n \in Names : q.agencies[n] <= Len(records'),
         q.stage \in InSection => q.section \in DOMAIN Program,
         q.stage \in {"row", "putRow"} => q.record \in Of(Section(q).table)',
         q.stage = "putRow" => \E k \in q.keys : q.key = {k},
         \A w \in rows' : w.batch = q.batch => w.of = {}
  PROVE  AdminInv' /\ StaysInSeed(r)
  <1>1. Program' = Program
    BY ProgramStays DEF Steady
  <1>2. q.stage \in Seeders /\ q.stage \notin Makers /\ q.stage \notin Replacers /\ q.stage # "remove"
    BY DEF Seeding, Seeders, Makers, Replacers
  <1>3. /\ q.stage \notin {"insert", "rename", "save", "add", "remove", "wait", "create"}
    BY DEF Seeding
  <1>4. KnowsItsRecords(q)'
    BY <1>1, <1>2, <1>3 DEF KnowsItsRecords, Section
  <1>5. KnowsItsPlace(q)' /\ RequestType(q)' /\ DoomsBatches(q)'
    BY <1>1, <1>3 DEF KnowsItsPlace, RequestType, DoomsBatches
  <1>6. StaysInSeed(r)
    BY GoesTo DEF AdminInv, TablesAreSound, StaysInSeed
  <1> QED
    BY <1>2, <1>4, <1>5, <1>6, GoKeeps

(* What is so of a container in the middle of the seed.                    *)
LEMMA SeederKnows ==
  ASSUME AdminInv, NEW r \in Requests, NEW q, q = requests[r], q.stage \in InSection
  PROVE  /\ q \in Seeding /\ q.section \in DOMAIN Program /\ q.name \in Names /\ q.batch \in Nat
         /\ q.names \in SUBSET Names /\ q.keys \in SUBSET Keys
         /\ q.batch <= calls /\ \A w \in rows : w.batch = q.batch => w.of = {}
         /\ \A n \in Names : q.agencies[n] \in Nat /\ q.agencies[n] <= Len(records)
         /\ q.stage \in {"row", "putRow"} => q.record \in Of(Section(q).table)
         /\ q.stage = "putRow" => \E k \in q.keys : q.key = {k}
         /\ Section(q) \in Parts /\ Section(q).table \in Tables \cup SeedTables /\ Section(q).scope \in Scopes
  <1>1. TypeOK /\ KnowsItsRecords(q) /\ KnowsItsPlace(q) /\ HoldsItsBatch(q)
    BY DEF AdminInv, TablesAreSound, RequestIsSound
  <1>2. q.stage \in Seeders /\ q.stage \in InSection
    BY DEF InSection
  <1>3. q \in Seeding
    BY <1>1, <1>2, StageTells
  <1>4. q.section \in DOMAIN Program
    BY <1>1, <1>2 DEF KnowsItsPlace
  <1>5. Section(q) \in Parts
    BY <1>1, <1>4, ProgramIsSound DEF TypeOK, FitsIn, Section
  <1>6. /\ q.name \in Names /\ q.batch \in Nat /\ q.agencies \in [Names -> Nat]
        /\ q.names \in SUBSET Names /\ q.keys \in SUBSET Keys
    BY <1>3 DEF Seeding
  <1>7. /\ \A n \in Names : q.agencies[n] <= Len(records)
        /\ q.stage \in {"row", "putRow"} => q.record \in Of(Section(q).table)
    BY <1>1, <1>2 DEF KnowsItsRecords
  <1>8. q.batch <= calls /\ \A w \in rows : w.batch = q.batch => w.of = {}
    BY <1>1, <1>2 DEF HoldsItsBatch
  <1>9. q.stage = "putRow" => \E k \in q.keys : q.key = {k}
    BY <1>1 DEF KnowsItsPlace
  <1> QED
    BY <1>2, <1>3, <1>4, <1>5, <1>6, <1>7, <1>8, <1>9 DEF Parts

(* Going on with a record that is there.                                   *)
LEMMA RecordKeeps ==
  ASSUME AdminInv, NEW r \in Requests, NEW q \in Seeding, NEW p \in Of(Section(q).table)',
         Goto(r, WithRecord(q, p)), Steady, RecordsGrow, TablesHold', rows' = rows,
         requests[r].stage \in InSection, q.batch = requests[r].batch, q.agencies = requests[r].agencies,
         q.section = requests[r].section
  PROVE  AdminInv' /\ StaysInSeed(r)
  <1>0. PICK x : x = requests[r]
    OBVIOUS
  <1>1. /\ TypeOK /\ q.section \in DOMAIN Program /\ x.stage \in Seeders
        /\ \A n \in Names : q.agencies[n] \in Nat /\ q.agencies[n] <= Len(records)
        /\ \A w \in rows : w.batch = q.batch => w.of = {}
    BY <1>0, SeederKnows DEF AdminInv, TablesAreSound, InSection
  <1>2. /\ p \in Nat /\ p <= Len(records') /\ Len(records) <= Len(records')
        /\ Len(records) \in Nat /\ Len(records') \in Nat
    BY <1>1 DEF Of, TablesHold, RecordsGrow, TypeOK
  <1>3. PICK to : to = WithRecord(q, p)
    OBVIOUS
  <1>4. /\ to \in Seeding /\ to.stage \in {"row", "look", "serve"}
        /\ to.batch = q.batch /\ \A n \in Names : to.agencies[n] \in {q.agencies[n], p}
        /\ to.stage # "serve" => to.section \in DOMAIN Program
        /\ to.stage = "row" => to.section = q.section /\ to.record = p
    BY <1>1, <1>2, <1>3, RecordGoesOn
  <1>5. \A n \in Names : to.agencies[n] <= Len(records')
    BY <1>1, <1>2, <1>4
  <1>6. Program' = Program
    BY ProgramStays DEF Steady
  <1>7. to.stage \in {"row", "putRow"} => to.record \in Of(Section(to).table)'
    BY <1>4, <1>6 DEF Section
  <1>8. RowsAreOthers(r) /\ Goto(r, to)
    BY <1>3, NoRowsAdded
  <1>9. /\ to.stage \in InSection => to.section \in DOMAIN Program
        /\ to.stage = "putRow" => \E k \in to.keys : to.key = {k}
        /\ \A w \in rows' : w.batch = to.batch => w.of = {}
    BY <1>1, <1>4 DEF InSection, Seeders
  <1> QED
    BY <1>0, <1>1, <1>4, <1>5, <1>7, <1>8, <1>9, SeedKeeps

LEMMA LookForRecordStep ==
  ASSUME AdminInv, NEW r \in Requests, LookForRecord(r), Steady
  PROVE  AdminInv' /\ StaysInSeed(r)
  <1>0. PICK q : q = requests[r]
    OBVIOUS
  <1>1. TypeOK /\ q.stage = "look" /\ UNCHANGED <<records, rows>>
    BY <1>0 DEF AdminInv, TablesAreSound, LookForRecord, At
  <1>2. /\ q \in Seeding /\ q.section \in DOMAIN Program /\ q.stage \in InSection /\ q.stage \in Seeders
        /\ \A n \in Names : q.agencies[n] <= Len(records)
        /\ \A w \in rows : w.batch = q.batch => w.of = {}
    BY <1>0, <1>1, SeederKnows DEF InSection, Seeders
  <1>3. TablesHold' /\ RecordsGrow /\ RowsAreOthers(r) /\ \A t : Of(t)' = Of(t)
    BY <1>1, TablesUndisturbed, RecordsUnchanged, NoRowsAdded DEF Steady
  <1>4. PICK n \in q.names :
          LET on    == [q EXCEPT !.names = @ \ {n}, !.name = n]
              found == Named(Section(q).table, OwnerIn(on), n)
          IN \/ /\ found = {}
                /\ Goto(r, IF Section(q).look = "named" THEN NextName(on) ELSE [on EXCEPT !.stage = "put"])
             \/ \E p \in found :
                  Goto(r, IF Section(q).look = "whole" THEN NextName(on) ELSE WithRecord(on, p))
    BY <1>0 DEF LookForRecord
  <1>5. PICK on : on = [q EXCEPT !.names = @ \ {n}, !.name = n]
    OBVIOUS
  <1>6. /\ on \in Seeding /\ on.stage = "look" /\ on.section = q.section /\ on.batch = q.batch
        /\ on.agencies = q.agencies
    BY <1>1, <1>2, <1>5 DEF Seeding
  <1>7. Section(on) = Section(q)
    BY <1>6 DEF Section
  <1>8. CASE Goto(r, NextName(on))
    <2>1. PICK to : to = NextName(on)
      OBVIOUS
    <2>2. /\ to \in Seeding /\ to.stage \in {"look", "serve"}
          /\ to.batch = q.batch /\ to.agencies = q.agencies
          /\ to.stage = "look" => to.section \in DOMAIN Program
      BY <1>1, <1>2, <1>6, <2>1, NameGoesOn
    <2>3. /\ to.stage \in InSection => to.section \in DOMAIN Program
          /\ to.stage \notin {"row", "putRow"}
          /\ \A m \in Names : to.agencies[m] <= Len(records')
          /\ \A w \in rows' : w.batch = to.batch => w.of = {}
      BY <1>1, <1>2, <2>2 DEF InSection, Seeders
    <2> QED
      BY <1>0, <1>2, <1>3, <1>8, <2>1, <2>2, <2>3, SeedKeeps
  <1>9. CASE Goto(r, [on EXCEPT !.stage = "put"])
    <2>1. PICK to : to = [on EXCEPT !.stage = "put"]
      OBVIOUS
    <2>2. /\ to \in Seeding /\ to.stage = "put" /\ to.batch = q.batch /\ to.agencies = q.agencies
          /\ to.section = q.section
      BY <1>6, <2>1 DEF Seeding
    <2>3. /\ to.stage \in InSection => to.section \in DOMAIN Program
          /\ to.stage \notin {"row", "putRow"}
          /\ \A m \in Names : to.agencies[m] <= Len(records')
          /\ \A w \in rows' : w.batch = to.batch => w.of = {}
      BY <1>1, <1>2, <2>2
    <2> QED
      BY <1>0, <1>2, <1>3, <1>9, <2>1, <2>2, <2>3, SeedKeeps
  <1>10. ASSUME NEW p \in Named(Section(q).table, OwnerIn(on), n), Goto(r, WithRecord(on, p))
         PROVE  AdminInv' /\ StaysInSeed(r)
    <2>1. p \in Of(Section(on).table)'
      <3>1. p \in Of(Section(q).table)
        BY DEF Named
      <3>2. Program' = Program
        BY ProgramStays DEF Steady
      <3> QED
        BY <1>3, <1>7, <3>1, <3>2 DEF Section
    <2> QED
      BY <1>0, <1>1, <1>2, <1>3, <1>6, <1>10, <2>1, RecordKeeps
  <1> QED
    BY <1>4, <1>5, <1>8, <1>9, <1>10

LEMMA PutRecordStep ==
  ASSUME AdminInv, NEW r \in Requests, PutRecord(r), Steady
  PROVE  AdminInv' /\ StaysInSeed(r)
  <1>0. PICK q : q = requests[r]
    OBVIOUS
  <1>1. TypeOK /\ q.stage = "put" /\ rows' = rows /\ q.stage \in InSection
    BY <1>0 DEF AdminInv, TablesAreSound, PutRecord, At, InSection, Seeders
  <1>2. /\ q \in Seeding /\ q.section \in DOMAIN Program /\ q.name \in Names
        /\ \A n \in Names : q.agencies[n] \in Nat /\ q.agencies[n] <= Len(records)
        /\ Section(q).table \in Tables \cup SeedTables
    BY <1>0, <1>1, SeederKnows
  <1>3. PICK t : t = Section(q).table
    OBVIOUS
  <1>4. PICK o : o = OwnerIn(q)
    OBVIOUS
  <1>5. o \in Nat /\ o <= Len(records) /\ (t = "user" => o = 0)
    BY <1>1, <1>2, <1>3, <1>4 DEF OwnerIn, Owned, TypeOK
  <1>6. Section(q)' = Section(q)
    BY ProgramStays DEF Section, Steady
  <1>7. CASE NameRefused(0, t, o, q.name)
    <2>1. /\ records' = records
          /\ Answer(r) \/ \E p \in Named(t, o, q.name) : Goto(r, WithRecord(q, p))
      BY <1>0, <1>3, <1>4, <1>7 DEF PutRecord
    <2>2. CASE Answer(r)
      BY <1>1, <2>1, <2>2, EndsQuietly, AnswersIt DEF StaysInSeed
    <2>3. CASE \E p \in Named(t, o, q.name) : Goto(r, WithRecord(q, p))
      <3>1. TablesHold' /\ RecordsGrow /\ \A x : Of(x)' = Of(x)
        BY <1>1, <2>1, TablesUndisturbed, RecordsUnchanged DEF Steady
      <3>2. PICK p \in Named(t, o, q.name) : Goto(r, WithRecord(q, p))
        BY <2>3
      <3>3. p \in Of(Section(q).table)'
        BY <1>3, <1>6, <3>1 DEF Named
      <3> QED
        BY <1>0, <1>1, <1>2, <3>1, <3>2, <3>3, RecordKeeps
    <2> QED
      BY <2>1, <2>2, <2>3
  <1>8. CASE ~NameRefused(0, t, o, q.name)
    <2>1. /\ records' = Append(records, NewRecord(t, o, q.name))
          /\ Goto(r, WithRecord(q, Len(records) + 1))
      BY <1>0, <1>3, <1>4, <1>8 DEF PutRecord
    <2>2. /\ records' \in Seq(Record) /\ RecordsGrow
          /\ Len(records) + 1 \in Of(t)'
          /\ NamesAreUnique' /\ OwnersExist' /\ OnboardedWithAdmin'
      BY <1>2, <1>3, <1>5, <1>8, <2>1, RecordAdded
    <2>3. TablesHold'
      BY <1>1, <2>2, RowsUnchanged DEF TablesHold
    <2>4. PICK p : p = Len(records) + 1
      OBVIOUS
    <2>5. p \in Of(Section(q).table)'
      BY <1>3, <1>6, <2>2, <2>4
    <2> QED
      BY <1>0, <1>1, <1>2, <2>1, <2>2, <2>3, <2>4, <2>5, RecordKeeps
  <1> QED
    BY <1>7, <1>8

(* Going on after a key.                                                   *)
LEMMA KeyKeeps ==
  ASSUME AdminInv, NEW r \in Requests, NEW q \in Seeding,
         Goto(r, NextKey(q)), Steady, records' = records, RowsAreOthers(r), TablesHold',
         requests[r].stage \in {"row", "putRow"}, q.batch = requests[r].batch, q.agencies = requests[r].agencies,
         q.section = requests[r].section, q.record = requests[r].record,
         \A w \in rows' : w.batch = q.batch => w.of = {}
  PROVE  AdminInv' /\ StaysInSeed(r)
  <1>0. PICK x : x = requests[r]
    OBVIOUS
  <1>1. /\ TypeOK /\ q.section \in DOMAIN Program /\ x.stage \in Seeders
        /\ \A n \in Names : q.agencies[n] <= Len(records)
        /\ x.record \in Of(Section(x).table)
    BY <1>0, SeederKnows DEF AdminInv, TablesAreSound, InSection, Seeders
  <1>2. PICK to : to = NextKey(q)
    OBVIOUS
  <1>3. /\ to \in Seeding /\ to.stage \in {"row", "look", "serve"}
        /\ to.batch = q.batch /\ to.agencies = q.agencies
        /\ to.stage # "serve" => to.section \in DOMAIN Program
        /\ to.stage = "row" => to.section = q.section /\ to.record = q.record
    BY <1>1, <1>2, KeyGoesOn
  <1>4. Program' = Program /\ RecordsGrow /\ \A t : Of(t)' = Of(t)
    BY <1>1, ProgramStays, RecordsUnchanged DEF Steady
  <1>5. to.stage \in {"row", "putRow"} => to.record \in Of(Section(to).table)'
    BY <1>0, <1>1, <1>3, <1>4 DEF Section
  <1>6. /\ to.stage \in InSection => to.section \in DOMAIN Program
        /\ to.stage = "putRow" => \E k \in to.keys : to.key = {k}
        /\ \A w \in rows' : w.batch = to.batch => w.of = {}
        /\ \A n \in Names : to.agencies[n] <= Len(records')
    BY <1>1, <1>3 DEF InSection, Seeders
  <1> QED
    BY <1>0, <1>1, <1>2, <1>3, <1>4, <1>5, <1>6, SeedKeeps

LEMMA LookForRowStep ==
  ASSUME AdminInv, NEW r \in Requests, LookForRow(r), Steady
  PROVE  AdminInv' /\ StaysInSeed(r)
  <1>0. PICK q : q = requests[r]
    OBVIOUS
  <1>1. TypeOK /\ q.stage = "row" /\ UNCHANGED <<records, rows>> /\ q.stage \in InSection /\ q.stage \in Seeders
    BY <1>0 DEF AdminInv, TablesAreSound, LookForRow, At, InSection, Seeders
  <1>2. /\ q \in Seeding /\ q.section \in DOMAIN Program /\ q.keys \in SUBSET Keys
        /\ \A n \in Names : q.agencies[n] <= Len(records)
        /\ \A w \in rows : w.batch = q.batch => w.of = {}
        /\ q.record \in Of(Section(q).table)
    BY <1>0, <1>1, SeederKnows
  <1>3. TablesHold' /\ RecordsGrow /\ RowsAreOthers(r) /\ \A t : Of(t)' = Of(t)
    BY <1>1, TablesUndisturbed, RecordsUnchanged, NoRowsAdded DEF Steady
  <1>4. PICK k \in q.keys :
          LET on == [q EXCEPT !.key = {k}]
          IN Goto(r, IF RowsThere(q, k) = {} \/ Section(q).kind = "create" THEN [on EXCEPT !.stage = "putRow"]
                     ELSE NextKey(on))
    BY <1>0 DEF LookForRow
  <1>5. PICK on : on = [q EXCEPT !.key = {k}]
    OBVIOUS
  <1>6. /\ on \in Seeding /\ on.stage = "row" /\ on.section = q.section /\ on.batch = q.batch
        /\ on.agencies = q.agencies /\ on.record = q.record /\ on.keys = q.keys /\ on.key = {k}
    <2>1. {k} \in SUBSET Keys
      BY <1>2
    <2> QED
      BY <1>1, <1>2, <1>5, <2>1 DEF Seeding
  <1>7. CASE Goto(r, [on EXCEPT !.stage = "putRow"])
    <2>1. PICK to : to = [on EXCEPT !.stage = "putRow"]
      OBVIOUS
    <2>2. /\ to \in Seeding /\ to.stage = "putRow" /\ to.batch = q.batch /\ to.agencies = q.agencies
          /\ to.section = q.section /\ to.record = q.record /\ k \in to.keys /\ to.key = {k}
      BY <1>6, <2>1 DEF Seeding
    <2>3. Program' = Program
      BY ProgramStays DEF Steady
    <2>4. to.record \in Of(Section(to).table)'
      BY <1>2, <1>3, <2>2, <2>3 DEF Section
    <2>5. /\ to.section \in DOMAIN Program
          /\ \E x \in to.keys : to.key = {x}
          /\ \A m \in Names : to.agencies[m] <= Len(records')
          /\ \A w \in rows' : w.batch = to.batch => w.of = {}
      BY <1>1, <1>2, <2>2
    <2> QED
      BY <1>0, <1>1, <1>3, <1>7, <2>1, <2>2, <2>4, <2>5, SeedKeeps
  <1>8. CASE Goto(r, NextKey(on))
    BY <1>0, <1>1, <1>2, <1>3, <1>6, <1>8, KeyKeeps
  <1> QED
    BY <1>4, <1>5, <1>7, <1>8

(* A row of the seed, which belongs to no batch.                           *)
LEMMA RowAdded ==
  ASSUME AdminInv, records' = records, Steady,
         NEW r \in Requests, NEW q, q = requests[r], q.stage \in Seeders,
         NEW w \in Row, w.record \in DOMAIN records, w.of = {}, w.batch = q.batch,
         KeyedOnce(records[w.record].table, w.scope) =>
           ~\E v \in rows : v.record = w.record /\ v.scope = w.scope /\ v.key = w.key,
         rows' = rows \cup {w}
  PROVE  TablesHold' /\ RowsAreOthers(r) /\ \A v \in rows' : v.batch = q.batch => v.of = {}
  <1>1. /\ TypeOK /\ KeysAreUnique /\ BatchesAreWhole /\ BatchesHaveScopes /\ RowsAreNumbered
        /\ BatchesAreApart /\ \A o \in Requests : HoldsItsBatch(requests[o])
    BY DEF AdminInv, TablesAreSound, RequestIsSound
  <1>2. q.batch <= calls /\ \A v \in rows : v.batch = q.batch => v.of = {}
    BY <1>1 DEF HoldsItsBatch
  <1>3. /\ records' \in Seq(Record) /\ NamesAreUnique' /\ OnboardedWithAdmin' /\ OwnersExist'
    BY <1>1, RecordsUnchanged DEF AdminInv, TablesAreSound
  <1>4. rows' \in SUBSET Row /\ RowsAreNumbered'
    BY <1>1, <1>2 DEF TypeOK, RowsAreNumbered, Steady
  <1>5. KeysAreUnique'
    <2> SUFFICES ASSUME NEW v \in rows', NEW u \in rows',
                        v.record = u.record, v.scope = u.scope, v.key = u.key,
                        KeyedOnce(records[v.record].table, v.scope)
                 PROVE  v = u
      BY DEF KeysAreUnique, KeyedOnce
    <2>1. CASE v \in rows /\ u \in rows
      BY <1>1, <2>1 DEF KeysAreUnique
    <2> QED
      BY <2>1
  <1>6. BatchesAreWhole'
    <2> SUFFICES ASSUME NEW v \in rows', v.of # {}
                 PROVE  {u.key : u \in {x \in rows' : x.record = v.record /\ x.batch = v.batch}} = v.of
      BY DEF BatchesAreWhole
    <2>1. v \in rows /\ v.batch # w.batch
      BY <1>2
    <2>2. {x \in rows' : x.record = v.record /\ x.batch = v.batch}
            = {x \in rows : x.record = v.record /\ x.batch = v.batch}
      BY <2>1
    <2> QED
      BY <1>1, <2>1, <2>2 DEF BatchesAreWhole
  <1>7. BatchesHaveScopes'
    <2> SUFFICES ASSUME NEW v \in rows', NEW u \in rows', u.of # {}, v.record = u.record, v.batch = u.batch
                 PROVE  v.scope = u.scope /\ v.of = u.of
      BY DEF BatchesHaveScopes
    <2>1. u \in rows /\ u.batch # w.batch
      BY <1>2
    <2> QED
      BY <1>1, <2>1 DEF BatchesHaveScopes
  <1>8. TablesHold'
    BY <1>3, <1>4, <1>5, <1>6, <1>7 DEF TablesHold
  <1>9. RowsAreOthers(r)
    <2>1. w.batch <= calls'
      BY <1>2 DEF Steady
    <2>2. \A o \in Requests \ {r} : requests[o].stage \in Makers => w.batch # requests[o].batch
      BY <1>1 DEF BatchesAreApart
    <2>3. \A v \in rows : v.of # {} => v # w /\ v.batch # w.batch
      BY <1>2
    <2>4. \A v : v.of # {} => v # w /\ ~(v \in rows /\ w.record = v.record /\ w.batch = v.batch)
      BY <2>3
    <2> QED
      BY <2>1, <2>2, <2>4 DEF RowsAreOthers
  <1> QED
    BY <1>2, <1>8, <1>9

LEMMA PutRowStep ==
  ASSUME AdminInv, NEW r \in Requests, PutRow(r), Steady
  PROVE  AdminInv' /\ StaysInSeed(r)
  <1>0. PICK q : q = requests[r]
    OBVIOUS
  <1>1. TypeOK /\ q.stage = "putRow" /\ records' = records /\ q.stage \in InSection /\ q.stage \in Seeders
    BY <1>0 DEF AdminInv, TablesAreSound, PutRow, At, InSection, Seeders
  <1>2. /\ q \in Seeding /\ q.batch \in Nat /\ q.keys \in SUBSET Keys
        /\ \A w \in rows : w.batch = q.batch => w.of = {}
        /\ q.record \in Of(Section(q).table) /\ Section(q).scope \in Scopes
        /\ \E k \in q.keys : q.key = {k}
    BY <1>0, <1>1, SeederKnows
  <1>3. q.record \in DOMAIN records /\ records[q.record].table = Section(q).table /\ q.record \in Nat
    BY <1>2 DEF Of, Seeding
  <1> DEFINE new(k) == [record |-> q.record, scope |-> Section(q).scope, batch |-> q.batch, of |-> {}, key |-> k]
             refused(k) == KeyedOnce(Section(q).table, Section(q).scope) /\ RowsThere(q, k) # {}
  <1>4. PICK k \in q.key :
          IF refused(k) THEN rows' = rows /\ (Answer(r) \/ Goto(r, NextKey(q)))
          ELSE rows' = rows \cup {new(k)} /\ Goto(r, NextKey(q))
    BY <1>0 DEF PutRow
  <1>5. k \in Keys
    BY <1>2, <1>4
  <1>6. CASE rows' = rows
    <2>1. CASE Answer(r)
      BY <1>1, <1>6, <2>1, EndsQuietly, AnswersIt DEF StaysInSeed
    <2>2. CASE Goto(r, NextKey(q))
      <3>1. TablesHold' /\ RowsAreOthers(r)
        BY <1>1, <1>6, TablesUndisturbed, NoRowsAdded DEF Steady
      <3> QED
        BY <1>0, <1>1, <1>2, <1>6, <2>2, <3>1, KeyKeeps
    <2> QED
      BY <1>4, <2>1, <2>2
  <1>7. CASE rows' # rows
    <2>1. ~refused(k) /\ rows' = rows \cup {new(k)} /\ Goto(r, NextKey(q))
      BY <1>4, <1>7
    <2>2. PICK w : w = new(k)
      OBVIOUS
    <2>3. /\ w \in Row /\ w.record = q.record /\ w.scope = Section(q).scope /\ w.batch = q.batch
          /\ w.of = {} /\ w.key = k
      BY <1>2, <1>3, <1>5, <2>2 DEF Row
    <2>4. KeyedOnce(records[w.record].table, w.scope) =>
            ~\E v \in rows : v.record = w.record /\ v.scope = w.scope /\ v.key = w.key
      BY <1>3, <2>1, <2>3 DEF RowsThere
    <2>5. rows' = rows \cup {w} /\ w.record \in DOMAIN records
      BY <1>3, <2>1, <2>2, <2>3
    <2> HIDE DEF new, refused
    <2>6. TablesHold' /\ RowsAreOthers(r) /\ \A v \in rows' : v.batch = q.batch => v.of = {}
      BY <1>0, <1>1, <2>3, <2>4, <2>5, RowAdded
    <2> QED
      BY <1>0, <1>1, <1>2, <2>1, <2>6, KeyKeeps
  <1> QED
    BY <1>6, <1>7

(***************************************************************************)
(* Whatever requests, seeds and deaths came before, no two records of a    *)
(* table have one name, an onboarded agency has its administrator, no key  *)
(* is there twice where an index allows it once, and a request's rows are  *)
(* there all together or not at all.                                       *)
(***************************************************************************)
LEMMA AdminInvInit == Init => AdminInv
  <1> SUFFICES ASSUME Init PROVE AdminInv
    OBVIOUS
  <1>1. /\ records = <<>> /\ rows = {} /\ calls = 0 /\ alone = {} /\ scene \in Scenes
        /\ DOMAIN requests = Requests /\ \A r \in Requests : requests[r] = Idle
        /\ sample \in SUBSET Names
    BY DEF Init
  <1>2. records \in Seq(Record) /\ DOMAIN records = {}
    BY <1>1
  <1>3. TypeOK
    BY <1>1, <1>2 DEF TypeOK
  <1>4. NamesAreUnique /\ KeysAreUnique /\ OnboardedWithAdmin /\ BatchesAreWhole
    BY <1>1, <1>2 DEF NamesAreUnique, KeysAreUnique, OnboardedWithAdmin, BatchesAreWhole, Of
  <1>5. OwnersExist /\ RowsAreNumbered /\ BatchesHaveScopes
    BY <1>1, <1>2 DEF OwnersExist, RowsAreNumbered, BatchesHaveScopes
  <1>6. BatchesAreApart
    BY <1>1 DEF BatchesAreApart, Makers, Idle
  <1>7. \A r \in Requests : RequestIsSound(requests[r])
    BY <1>1 DEF RequestIsSound, Idle, KnowsItsRecords, KnowsItsPlace, HoldsItsBatch, DoomsBatches,
                InSection, Makers, Seeders, Replacers
  <1> QED
    BY <1>3, <1>4, <1>5, <1>6, <1>7 DEF AdminInv, TablesAreSound

LEMMA SeedStep ==
  ASSUME AdminInv, NEW r \in Requests, Seed(r), Steady
  PROVE  AdminInv' /\ StaysInSeed(r)
  <1>1. CASE Serve(r)
    BY <1>1, EndsQuietly, AnswersIt DEF Serve, StaysInSeed, AdminInv, TablesAreSound
  <1> QED
    BY <1>1, LookForRecordStep, PutRecordStep, LookForRowStep, PutRowStep DEF Seed

LEMMA AdminInvNext == AdminInv /\ [Next]_vars => AdminInv'
  <1> SUFFICES ASSUME AdminInv, [Next]_vars PROVE AdminInv'
    OBVIOUS
  <1>1. ASSUME NEW r \in Requests, Call(r) PROVE AdminInv'
    BY <1>1, CallStep
  <1>2. ASSUME NEW r \in Requests, Step(r) PROVE AdminInv'
    <2>1. Steady
      BY <1>2 DEF Step, Steady
    <2> QED
      BY <1>2, <2>1, InsertStep, RenameStep, LookForAdminStep, CompleteOnboardingStep, SaveStep,
         DeleteRowsStep, LockRowsStep, CreateRowsStep, CommitRuleStep, SeedStep DEF Step
  <1>3. ASSUME NEW r \in Requests, Fail(r) PROVE AdminInv'
    BY <1>3, EndsQuietly DEF Fail, Steady
  <1>4. CASE UNCHANGED vars
    <2>1. UNCHANGED <<scene, records, rows, requests, alone, calls, sample>>
      BY <1>4 DEF vars
    <2>2. TypeOK' = TypeOK /\ Program' = Program
      BY <2>1, ProgramStays DEF TypeOK, Replacement
    <2>3. TablesHold'
      BY <2>1, TablesUndisturbed
    <2>4. BatchesAreApart' = BatchesAreApart
      BY <2>1 DEF BatchesAreApart
    <2>5. \A r \in Requests : RequestIsSound(requests[r])' = RequestIsSound(requests[r])
      BY <2>1, <2>2 DEF RequestIsSound, KnowsItsRecords, KnowsItsPlace, HoldsItsBatch, DoomsBatches, Of, Section
    <2> QED
      BY <2>2, <2>3, <2>4, <2>5 DEF AdminInv, TablesAreSound, TablesHold
  <1> QED
    BY <1>1, <1>2, <1>3, <1>4 DEF Next

LEMMA AdminInvAlways == Spec => []AdminInv
  BY AdminInvInit, AdminInvNext, PTL DEF Spec

(* What holds of the tables whoever writes them, and in whatever order.    *)
THEOREM TablesStaySound == Spec => []TablesAreSound
  <1>1. AdminInv => TablesAreSound
    BY DEF AdminInv
  <1> QED
    BY <1>1, AdminInvAlways, PTL

(***************************************************************************)
(* What is replaced in a transaction is never seen empty.                  *)
(***************************************************************************)

(* The rows that a step removes are of a policy, a user or a matrix, or    *)
(* deleted by a transaction on its record.                                 *)
LEMMA RowsRemoved ==
  ASSUME AdminInv, [Next]_vars, NEW v \in rows, v \notin rows'
  PROVE  \/ records[v.record].table \in Apart
         \/ \E r \in Requests :
              /\ requests[r].stage = "create" /\ CreateRows(r) /\ requests[r].record = v.record
              /\ rows' = (rows \ requests[r].doomed)
                           \cup NewRows(v.record, requests[r].scope, requests[r].batch, requests[r].keys)
  <1>1. TypeOK /\ \A r \in Requests : KnowsItsRecords(requests[r]) /\ DoomsBatches(requests[r])
    BY DEF AdminInv, TablesAreSound, RequestIsSound
  <1>2. ~(rows \subseteq rows')
    OBVIOUS
  <1>3. PICK r \in Requests : Step(r)
    BY <1>2 DEF Next, Call, Fail, vars
  <1>4. PICK q : q = requests[r]
    OBVIOUS
  <1>5. ~Insert(r) /\ ~Rename(r) /\ ~LookForAdmin(r) /\ ~CompleteOnboarding(r) /\ ~Save(r) /\ ~LockRows(r)
    BY <1>2 DEF Insert, Rename, LookForAdmin, CompleteOnboarding, Save, LockRows
  <1>6. ~Seed(r)
    BY <1>2 DEF Seed, LookForRecord, PutRecord, LookForRow, PutRow, Serve
  <1>7. CASE DeleteRows(r)
    <2>1. q.stage = "delete" /\ ~q.tx /\ v.record = q.record
      BY <1>2, <1>4, <1>7 DEF DeleteRows, At, InTransaction, Selected
    <2> QED
      BY <1>1, <1>4, <2>1 DEF KnowsItsRecords, Replacers
  <1>8. CASE CommitRule(r)
    <2>1. q.stage \in {"add", "remove"} /\ v.record = q.record
      BY <1>2, <1>4, <1>8 DEF CommitRule, At
    <2> QED
      BY <1>1, <1>4, <2>1 DEF KnowsItsRecords, Of, Apart
  <1>9. CASE CreateRows(r)
    <2>1. q.stage = "create" /\ rows' = Created(q)
      BY <1>4, <1>9 DEF CreateRows, At
    <2>2. rows' = (rows \ q.doomed) \cup NewRows(q.record, q.scope, q.batch, q.keys)
      BY <1>2, <2>1 DEF Created
    <2>3. v \in q.doomed
      BY <2>2
    <2>4. v.record = q.record
      BY <1>1, <1>4, <2>1, <2>3 DEF DoomsBatches
    <2> QED
      BY <1>4, <1>9, <2>1, <2>2, <2>4
  <1> QED
    BY <1>3, <1>5, <1>6, <1>7, <1>8, <1>9 DEF Step

(* Whoever reads a role's permissions or an agency's hours while they are  *)
(* being replaced finds the old or the new ones (setRolePermissions and    *)
(* setBusinessHours, deleteMany and createMany in one $transaction).       *)
THEOREM NeverSeenEmpty == Spec => ReplacedWithoutGap
  <1>1. ASSUME AdminInv, [Next]_vars, NEW p \in DOMAIN records,
               records[p].table \in {"role", "agency"}, RowsOf(p) # {}, RowsOf(p)' = {}
        PROVE  \E r \in Requests : /\ requests[r].stage = "create" /\ requests'[r] = Idle
                                   /\ requests[r].record = p /\ requests[r].keys = {}
    <2>1. PICK v \in rows : v.record = p
      BY <1>1 DEF RowsOf
    <2>2. v \notin rows'
      BY <1>1, <2>1 DEF RowsOf
    <2>3. records[v.record].table \notin Apart
      BY <1>1, <2>1 DEF Apart
    <2>4. PICK r \in Requests :
            /\ requests[r].stage = "create" /\ CreateRows(r) /\ requests[r].record = p
            /\ rows' = (rows \ requests[r].doomed)
                         \cup NewRows(p, requests[r].scope, requests[r].batch, requests[r].keys)
      BY <1>1, <2>1, <2>2, <2>3, RowsRemoved
    <2>5. requests'[r] = Idle
      BY <1>1, <2>4, AnswersIt DEF CreateRows, AdminInv, TablesAreSound
    <2>6. requests[r].keys = {}
      <3>1. ASSUME NEW k \in requests[r].keys PROVE FALSE
        <4>1. PICK w : w = [record |-> p, scope |-> requests[r].scope, batch |-> requests[r].batch,
                            of |-> requests[r].keys, key |-> k]
          OBVIOUS
        <4>2. w \in rows' /\ w.record = p
          BY <2>4, <4>1 DEF NewRows
        <4> QED
          BY <1>1, <4>2 DEF RowsOf
      <3> QED
        BY <3>1
    <2> QED
      BY <2>4, <2>5, <2>6
  <1>2. AdminInv /\ [Next]_vars =>
          [\A p \in DOMAIN records :
             records[p].table \in {"role", "agency"} /\ RowsOf(p) # {} /\ RowsOf(p)' = {}
               => \E r \in Requests : /\ requests[r].stage = "create" /\ requests'[r] = Idle
                                      /\ requests[r].record = p /\ requests[r].keys = {}]_vars
    BY <1>1
  <1> QED
    BY <1>2, AdminInvAlways, PTL DEF Spec, ReplacedWithoutGap

(***************************************************************************)
(* A request that no other has overlapped.                                 *)
(*                                                                         *)
(* Nothing changes but by its own steps. So what its delete selects is all *)
(* there is when it creates its rows; and a container that looked for a    *)
(* record or a row in vain may put it. What the container has been through *)
(* is made, record by record and key by key, and what it has yet to do is  *)
(* what it holds: the sections after its own, the names and the keys left. *)
(***************************************************************************)
Watched == scene.tables \ Unfinished

(* Section i has its record of name n, with all its rows.                  *)
Made(i, n) ==
  \E p \in Of(Program[i].table) :
    /\ records[p].name = n
    /\ Program[i].kind # "none" => \A k \in Keys : \E w \in rows : w.record = p /\ w.key = k

MadeBefore(i) ==
  \A j \in DOMAIN Program : j < i /\ Program[j].table \in Watched => \A n \in Program[j].names : Made(j, n)

(* The record that the container is at, and the keys it has done.          *)
RecordInHand(q) ==
  /\ records[q.record].name = q.name
  /\ \A k \in Keys \ q.keys : \E w \in rows : w.record = q.record /\ w.key = k
  /\ Section(q).look = "whole" => \A w \in rows : w.record = q.record => w.key \notin q.keys

LoneSeeder(q) ==
  /\ q.stage \in InSection =>
       /\ q.names \subseteq Section(q).names
       /\ MadeBefore(q.section)
       /\ Section(q).table \in Watched =>
            \A n \in Section(q).names \ q.names : Made(q.section, n) \/ (n = q.name /\ q.stage # "look")
  /\ q.stage = "put" => Named(Section(q).table, OwnerIn(q), q.name) = {}
  /\ q.stage \in {"row", "putRow"} => RecordInHand(q)
  /\ q.stage = "putRow" => Section(q).kind = "create" \/ \A k \in q.key : RowsThere(q, k) = {}
  /\ q.stage = "serve" => MadeBefore(Len(Program) + 1)

LoneReplacer(q) == q.stage \in {"wait", "create"} => Selected(q) \subseteq q.doomed

LoneInv ==
  \A r \in alone :
    /\ \A o \in Requests \ {r} : requests[o] = Idle
    /\ LoneReplacer(requests[r]) /\ LoneSeeder(requests[r])

(* What is made stays made while rows and records are only added.          *)
OnlyAdds ==
  /\ records' \in Seq(Record) /\ Len(records) <= Len(records')
  /\ \A p \in DOMAIN records : records'[p] = records[p]
  /\ rows \subseteq rows'

LEMMA MadeStays ==
  ASSUME TypeOK, UNCHANGED <<scene, sample>>, OnlyAdds
  PROVE  /\ \A i, n : Made(i, n) => Made(i, n)'
         /\ \A i : MadeBefore(i) => MadeBefore(i)'
         /\ \A t : Of(t) \subseteq Of(t)'
         /\ Program' = Program /\ Watched' = Watched
  <1>1. Program' = Program /\ Watched' = Watched
    BY ProgramStays DEF Watched
  <1>2. DOMAIN records \subseteq DOMAIN records'
    <2>1. /\ DOMAIN records = 1..Len(records) /\ DOMAIN records' = 1..Len(records')
          /\ Len(records) \in Nat /\ Len(records') \in Nat
      BY DEF TypeOK, OnlyAdds
    <2> QED
      BY <2>1 DEF OnlyAdds
  <1>3. \A t : Of(t) \subseteq Of(t)'
    BY <1>2 DEF Of, OnlyAdds
  <1>4. ASSUME NEW i, NEW n, Made(i, n) PROVE Made(i, n)'
    <2>1. PICK p \in Of(Program[i].table) :
            /\ records[p].name = n
            /\ Program[i].kind # "none" => \A k \in Keys : \E w \in rows : w.record = p /\ w.key = k
      BY <1>4 DEF Made
    <2>2. p \in DOMAIN records /\ records'[p].name = n /\ p \in Of(Program[i].table)'
      BY <1>1, <1>3, <2>1 DEF Of, OnlyAdds
    <2>3. Program[i].kind # "none" => \A k \in Keys : \E w \in rows' : w.record = p /\ w.key = k
      BY <2>1 DEF OnlyAdds
    <2> QED
      BY <1>1, <2>2, <2>3 DEF Made
  <1>5. ASSUME NEW i, MadeBefore(i) PROVE MadeBefore(i)'
    BY <1>1, <1>4, <1>5 DEF MadeBefore
  <1> QED
    BY <1>1, <1>3, <1>4, <1>5

(* On to the next section, when all before it is made;                     *)
LEMMA LoneSection ==
  ASSUME TypeOK, UNCHANGED <<scene, sample>>, NEW q \in Seeding, MadeBefore(q.section + 1)',
         NEW to, to = NextSection(q)
  PROVE  LoneSeeder(to)'
  <1>1. /\ to \in Seeding /\ to.stage \in {"look", "serve"}
        /\ to.stage = "look" =>
             to.section \in DOMAIN Program /\ q.section < to.section /\ to.names = Program[to.section].names
        /\ \A i \in DOMAIN Program :
             q.section < i /\ Program[i].table \in scene.tables /\ Program[i].names # {}
               => to.stage = "look" /\ to.section <= i
    BY GoesOn
  <1>2. Program' = Program /\ Watched' = Watched
    BY ProgramStays DEF Watched
  <1>3. DOMAIN Program = 1..Len(Program) /\ Len(Program) \in Nat
    BY ProgramIsSound DEF TypeOK
  <1>4. q.section \in Nat /\ to.section \in Nat
    BY <1>1 DEF Seeding
  <1>5. \A i \in DOMAIN Program : i <= q.section /\ Program[i].table \in Watched =>
          \A n \in Program[i].names : Made(i, n)'
    BY <1>2, <1>3, <1>4 DEF MadeBefore
  <1>6. ASSUME NEW i \in DOMAIN Program, Program[i].table \in Watched, Program[i].names # {},
               to.stage = "serve" \/ i < to.section
        PROVE  i <= q.section
    <2>1. Program[i].table \in scene.tables
      BY <1>6 DEF Watched
    <2>2. i \in Nat
      BY <1>3
    <2>3. ~(q.section < i)
      BY <1>1, <1>4, <1>6, <2>1, <2>2
    <2> QED
      BY <1>4, <2>2, <2>3
  <1>7. CASE to.stage = "look"
    <2>1. MadeBefore(to.section)'
      BY <1>2, <1>5, <1>6 DEF MadeBefore
    <2> QED
      BY <1>1, <1>2, <1>7, <2>1 DEF LoneSeeder, Section
  <1>8. CASE to.stage = "serve"
    <2>1. MadeBefore(Len(Program) + 1)'
      BY <1>2, <1>5, <1>6, <1>8 DEF MadeBefore
    <2> QED
      BY <1>8, <2>1 DEF LoneSeeder, InSection
  <1> QED
    BY <1>1, <1>7, <1>8

(* to the next name, when those done of this section are made.             *)
LEMMA LoneName ==
  ASSUME TypeOK, UNCHANGED <<scene, sample>>, NEW q \in Seeding, q.section \in DOMAIN Program,
         q.names \subseteq Section(q).names, MadeBefore(q.section)',
         Section(q).table \in Watched => \A n \in Section(q).names \ q.names : Made(q.section, n)',
         NEW to, to = NextName(q)
  PROVE  LoneSeeder(to)'
  <1>1. Program' = Program /\ Watched' = Watched
    BY ProgramStays DEF Watched
  <1>2. CASE q.names # {}
    <2>1. to = [q EXCEPT !.stage = "look"]
      BY <1>2 DEF NextName
    <2>2. to.stage = "look" /\ to.section = q.section /\ to.names = q.names
      BY <2>1 DEF Seeding
    <2> QED
      BY <1>1, <2>2 DEF LoneSeeder, Section
  <1>3. CASE q.names = {}
    <2>1. to = NextSection(q)
      BY <1>3 DEF NextName
    <2>2. DOMAIN Program = 1..Len(Program) /\ Len(Program) \in Nat /\ q.section \in Nat
      BY ProgramIsSound DEF TypeOK, Seeding
    <2>3. ASSUME NEW j \in DOMAIN Program, j < q.section + 1, Program[j].table \in Watched,
                 NEW n \in Program[j].names
          PROVE  Made(j, n)'
      <3>1. j < q.section \/ j = q.section
        BY <2>2, <2>3
      <3> QED
        BY <1>1, <1>3, <2>3, <3>1 DEF MadeBefore, Section
    <2>4. MadeBefore(q.section + 1)'
      BY <1>1, <2>3 DEF MadeBefore
    <2> QED
      BY <2>1, <2>4, LoneSection
  <1> QED
    BY <1>2, <1>3

(* to the next key of the record in hand, or on when no key is left;       *)
LEMMA LoneKey ==
  ASSUME TypeOK, UNCHANGED <<scene, sample>>, NEW q \in Seeding, q.section \in DOMAIN Program,
         q.names \subseteq Section(q).names, MadeBefore(q.section)',
         Section(q).table \in Watched => \A n \in Section(q).names \ q.names : Made(q.section, n)' \/ n = q.name,
         q.record \in Of(Section(q).table)', records'[q.record].name = q.name,
         \A k \in Keys \ (q.keys \ q.key) : \E w \in rows' : w.record = q.record /\ w.key = k,
         Section(q).look = "whole" => \A w \in rows' : w.record = q.record => w.key \notin q.keys \ q.key,
         NEW to, to = NextKey(q)
  PROVE  LoneSeeder(to)'
  <1>1. Program' = Program /\ Watched' = Watched
    BY ProgramStays DEF Watched
  <1>2. PICK left : left = q.keys \ q.key
    OBVIOUS
  <1>3. PICK on : on = [q EXCEPT !.keys = left, !.key = {}]
    OBVIOUS
  <1>4. /\ on \in Seeding /\ on.section = q.section /\ on.record = q.record /\ on.name = q.name
        /\ on.names = q.names /\ on.keys = left
    <2>1. left \in SUBSET Keys /\ {} \in SUBSET Keys
      BY <1>2 DEF Seeding
    <2> QED
      BY <1>3, <2>1 DEF Seeding
  <1>5. to = IF left # {} THEN [on EXCEPT !.stage = "row"] ELSE NextName(on)
    BY <1>2, <1>3 DEF NextKey
  <1>6. CASE left # {}
    <2>1. /\ to.stage = "row" /\ to.section = q.section /\ to.record = q.record /\ to.name = q.name
          /\ to.names = q.names /\ to.keys = left
      BY <1>4, <1>5, <1>6 DEF Seeding
    <2>2. Section(to) = Section(q) /\ Section(to)' = Section(q)
      BY <1>1, <2>1 DEF Section
    <2>3. RecordInHand(to)'
      BY <1>2, <2>1, <2>2 DEF RecordInHand
    <2> QED
      BY <1>1, <2>1, <2>2, <2>3 DEF LoneSeeder
  <1>7. CASE left = {}
    <2>1. Made(q.section, q.name)'
      <3>1. q.record \in Of(Program[q.section].table)'
        BY <1>1 DEF Section
      <3>2. \A k \in Keys : \E w \in rows' : w.record = q.record /\ w.key = k
        BY <1>2, <1>7
      <3> QED
        BY <3>1, <3>2 DEF Made
    <2>2. Section(on) = Section(q)
      BY <1>4 DEF Section
    <2>3. Section(on).table \in Watched => \A n \in Section(on).names \ on.names : Made(on.section, n)'
      BY <1>4, <2>1, <2>2
    <2> QED
      BY <1>4, <1>5, <1>7, <2>2, <2>3, LoneName
  <1> QED
    BY <1>6, <1>7

(* to the keys of a record that is there, or on when it has no rows.       *)
LEMMA LoneRecord ==
  ASSUME TypeOK, UNCHANGED <<scene, sample>>, NEW q \in Seeding, q.section \in DOMAIN Program,
         q.names \subseteq Section(q).names, MadeBefore(q.section)',
         Section(q).table \in Watched => \A n \in Section(q).names \ q.names : Made(q.section, n)' \/ n = q.name,
         NEW p \in Nat, p \in Of(Section(q).table)', records'[p].name = q.name,
         Section(q).look = "whole" => \A w \in rows' : w.record # p,
         NEW to, to = WithRecord(q, p)
  PROVE  LoneSeeder(to)'
  <1>1. Program' = Program /\ Watched' = Watched
    BY ProgramStays DEF Watched
  <1>2. PICK on : on = IF Section(q).table = "agency" THEN [q EXCEPT !.agencies[q.name] = p] ELSE q
    OBVIOUS
  <1>3. /\ on \in Seeding /\ on.section = q.section /\ on.names = q.names /\ on.name = q.name
    BY <1>2 DEF Seeding
  <1>4. to = IF Section(q).kind = "none" THEN NextName(on)
             ELSE [on EXCEPT !.stage = "row", !.record = p, !.keys = Keys]
    BY <1>2 DEF WithRecord
  <1>5. Section(on) = Section(q)
    BY <1>3 DEF Section
  <1>6. CASE Section(q).kind = "none"
    <2>1. Made(q.section, q.name)'
      BY <1>1, <1>6 DEF Made, Section
    <2>2. Section(on).table \in Watched => \A n \in Section(on).names \ on.names : Made(on.section, n)'
      BY <1>3, <1>5, <2>1
    <2> QED
      BY <1>3, <1>4, <1>5, <1>6, <2>2, LoneName
  <1>7. CASE Section(q).kind # "none"
    <2>1. /\ to.stage = "row" /\ to.section = q.section /\ to.record = p /\ to.name = q.name
          /\ to.names = q.names /\ to.keys = Keys
      BY <1>3, <1>4, <1>7 DEF Seeding
    <2>2. Section(to) = Section(q) /\ Section(to)' = Section(q)
      BY <1>1, <2>1 DEF Section
    <2>3. RecordInHand(to)'
      BY <2>1, <2>2 DEF RecordInHand
    <2> QED
      BY <1>1, <2>1, <2>2, <2>3 DEF LoneSeeder
  <1> QED
    BY <1>6, <1>7

LEMMA LoneLookForRecord ==
  ASSUME AdminInv, NEW r \in Requests, LookForRecord(r), Steady, LoneSeeder(requests[r])
  PROVE  LoneSeeder(requests[r])'
  <1>0. PICK q : q = requests[r]
    OBVIOUS
  <1>1. /\ TypeOK /\ q.stage = "look" /\ UNCHANGED <<records, rows>> /\ q.stage \in InSection /\ LoneSeeder(q)
        /\ UNCHANGED <<scene, sample>>
    BY <1>0 DEF AdminInv, TablesAreSound, LookForRecord, At, InSection, Seeders, Steady
  <1>2. q \in Seeding /\ q.section \in DOMAIN Program /\ Section(q) = Program[q.section]
    BY <1>0, <1>1, SeederKnows DEF Section
  <1>3. /\ q.names \subseteq Section(q).names /\ MadeBefore(q.section)
        /\ Section(q).table \in Watched => \A n \in Section(q).names \ q.names : Made(q.section, n)
    BY <1>1 DEF LoneSeeder
  <1>4. OnlyAdds
    BY <1>1 DEF OnlyAdds, TypeOK
  <1>5. /\ \A i, n : Made(i, n) => Made(i, n)'
        /\ \A i : MadeBefore(i) => MadeBefore(i)'
        /\ Program' = Program /\ Watched' = Watched /\ \A t : Of(t) \subseteq Of(t)'
    BY <1>1, <1>4, MadeStays
  <1>6. PICK n \in q.names :
          LET on    == [q EXCEPT !.names = @ \ {n}, !.name = n]
              found == Named(Section(q).table, OwnerIn(on), n)
          IN \/ /\ found = {}
                /\ Goto(r, IF Section(q).look = "named" THEN NextName(on) ELSE [on EXCEPT !.stage = "put"])
             \/ \E p \in found :
                  Goto(r, IF Section(q).look = "whole" THEN NextName(on) ELSE WithRecord(on, p))
    BY <1>0 DEF LookForRecord
  <1>7. PICK on : on = [q EXCEPT !.names = @ \ {n}, !.name = n]
    OBVIOUS
  <1>8. /\ on \in Seeding /\ on.section = q.section /\ on.names = q.names \ {n} /\ on.name = n
        /\ on.agencies = q.agencies /\ on.section \in DOMAIN Program
    BY <1>2, <1>7 DEF Seeding
  <1>9. Section(on) = Section(q) /\ on.names \subseteq Section(on).names
    BY <1>3, <1>8 DEF Section
  <1>10. /\ MadeBefore(on.section)'
         /\ Section(on).table \in Watched =>
              \A m \in Section(on).names \ on.names : Made(on.section, m)' \/ m = on.name
    BY <1>3, <1>5, <1>8, <1>9
  <1>11. PICK found : found = Named(Section(q).table, OwnerIn(on), n)
    OBVIOUS
  <1>12. CASE found = {} /\ Section(q).look = "named" /\ Goto(r, NextName(on))
    <2>1. PICK to : to = NextName(on)
      OBVIOUS
    <2>2. Section(q).table \notin Watched
      <3>1. SUFFICES ASSUME Section(q).table \in Watched PROVE FALSE
        OBVIOUS
      <3>2. /\ Section(q).table \in {"role", "agency"}
            /\ \E j \in DOMAIN Program : /\ j < q.section /\ Program[j].table = Section(q).table
                                         /\ n \in Program[j].names
        BY <1>1, <1>2, <1>3, <1>12, ProgramIsSound DEF TypeOK
      <3>3. PICK j \in DOMAIN Program : j < q.section /\ Program[j].table = Section(q).table /\ n \in Program[j].names
        BY <3>2
      <3>4. Made(j, n)
        BY <1>3, <3>1, <3>3 DEF MadeBefore
      <3>5. PICK p \in Of(Section(q).table) : records[p].name = n
        BY <3>3, <3>4 DEF Made
      <3>6. p \in found
        BY <1>11, <3>2, <3>5 DEF Named, Owned
      <3> QED
        BY <1>12, <3>6
    <2>3. Section(on).table \in Watched => \A m \in Section(on).names \ on.names : Made(on.section, m)'
      BY <1>9, <2>2
    <2>4. LoneSeeder(to)'
      BY <1>1, <1>8, <1>9, <1>10, <2>1, <2>3, LoneName
    <2> QED
      BY <1>1, <1>12, <2>1, <2>4, GoesTo
  <1>13. CASE found = {} /\ Goto(r, [on EXCEPT !.stage = "put"])
    <2>1. PICK to : to = [on EXCEPT !.stage = "put"]
      OBVIOUS
    <2>2. /\ to.stage = "put" /\ to.section = q.section /\ to.names = on.names /\ to.name = n
          /\ to.agencies = q.agencies
      BY <1>8, <2>1 DEF Seeding
    <2>3. Section(to)' = Section(q) /\ Section(to) = Section(q) /\ OwnerIn(to)' = OwnerIn(on)
      BY <1>5, <1>8, <1>9, <2>2 DEF Section, OwnerIn
    <2>4. Named(Section(q).table, OwnerIn(on), n)' = {}
      <3>1. PICK t : t = Section(q).table
        OBVIOUS
      <3>2. PICK o : o = OwnerIn(on)
        OBVIOUS
      <3>3. Named(t, o, n)' = Named(t, o, n)
        BY <1>1 DEF Named, Of
      <3>4. Section(q)' = Section(q) /\ OwnerIn(on)' = OwnerIn(on)
        BY <1>5 DEF Section, OwnerIn
      <3> QED
        BY <1>11, <1>13, <3>1, <3>2, <3>3, <3>4
    <2>5. Named(Section(to).table, OwnerIn(to), to.name)' = {}
      BY <1>5, <2>2, <2>3, <2>4 DEF Section, OwnerIn
    <2>6. LoneSeeder(to)'
      BY <1>5, <1>8, <1>9, <1>10, <2>2, <2>3, <2>5 DEF LoneSeeder
    <2> QED
      BY <1>1, <1>13, <2>1, <2>6, GoesTo
  <1>14. CASE Section(q).look = "whole" /\ Goto(r, NextName(on))
    <2>1. PICK to : to = NextName(on)
      OBVIOUS
    <2>2. Section(q).table \notin Watched
      BY <1>1, <1>2, <1>14, ProgramIsSound DEF TypeOK, FitsIn, Watched
    <2>3. Section(on).table \in Watched => \A m \in Section(on).names \ on.names : Made(on.section, m)'
      BY <1>9, <2>2
    <2>4. LoneSeeder(to)'
      BY <1>1, <1>8, <1>9, <1>10, <2>1, <2>3, LoneName
    <2> QED
      BY <1>1, <1>14, <2>1, <2>4, GoesTo
  <1>15. ASSUME NEW p \in found, Section(q).look # "whole", Goto(r, WithRecord(on, p))
         PROVE  LoneSeeder(requests[r])'
    <2>1. PICK to : to = WithRecord(on, p)
      OBVIOUS
    <2>2. p \in Of(Section(q).table) /\ records[p].name = n
      BY <1>11, <1>15 DEF Named
    <2>3. p \in Of(Section(on).table)' /\ records'[p].name = on.name /\ p \in Nat
      <3>1. Section(on)' = Section(q)
        BY <1>5, <1>9 DEF Section
      <3>2. PICK t : t = Section(q).table
        OBVIOUS
      <3>3. p \in Of(t)'
        BY <1>5, <2>2, <3>2
      <3>4. p \in Nat
        BY <1>1, <2>2 DEF Of, TypeOK
      <3> QED
        BY <1>1, <1>8, <2>2, <3>1, <3>2, <3>3, <3>4
    <2>4. LoneSeeder(to)'
      BY <1>1, <1>8, <1>9, <1>10, <1>15, <2>1, <2>3, LoneRecord
    <2> QED
      BY <1>1, <1>15, <2>1, <2>4, GoesTo
  <1> QED
    BY <1>0, <1>6, <1>7, <1>11, <1>12, <1>13, <1>14, <1>15

LEMMA LonePutRecord ==
  ASSUME AdminInv, NEW r \in Requests, PutRecord(r), Steady, LoneSeeder(requests[r])
  PROVE  LoneSeeder(requests[r])'
  <1>0. PICK q : q = requests[r]
    OBVIOUS
  <1>1. /\ TypeOK /\ RowsAreNumbered /\ q.stage = "put" /\ rows' = rows /\ q.stage \in InSection /\ LoneSeeder(q)
        /\ UNCHANGED <<scene, sample>>
    BY <1>0 DEF AdminInv, TablesAreSound, PutRecord, At, InSection, Seeders, Steady
  <1>2. /\ q \in Seeding /\ q.section \in DOMAIN Program /\ Section(q) = Program[q.section] /\ q.name \in Names
        /\ Section(q).table \in Tables \cup SeedTables
        /\ \A n \in Names : q.agencies[n] \in Nat /\ q.agencies[n] <= Len(records)
    BY <1>0, <1>1, SeederKnows DEF Section
  <1>3. /\ q.names \subseteq Section(q).names /\ MadeBefore(q.section)
        /\ Section(q).table \in Watched => \A n \in Section(q).names \ q.names : Made(q.section, n) \/ n = q.name
    BY <1>1 DEF LoneSeeder
  <1>4. PICK t : t = Section(q).table
    OBVIOUS
  <1>5. PICK o : o = OwnerIn(q)
    OBVIOUS
  <1>6. o \in Nat /\ o <= Len(records) /\ (t = "user" => o = 0)
    BY <1>1, <1>2, <1>4, <1>5 DEF OwnerIn, Owned, TypeOK
  <1>7. Section(q)' = Section(q)
    BY <1>1, ProgramStays DEF Section
  <1>8. PICK p \in Nat :
          /\ OnlyAdds /\ p \in Of(t)' /\ records'[p].name = q.name
          /\ Section(q).look = "whole" => \A w \in rows' : w.record # p
          /\ Goto(r, WithRecord(q, p))
        \/ Answer(r)
    <2>1. CASE NameRefused(0, t, o, q.name)
      <3>1. /\ records' = records
            /\ Answer(r) \/ (Section(q).look = "upsert" /\ \E p \in Named(t, o, q.name) : Goto(r, WithRecord(q, p)))
        BY <1>0, <1>4, <1>5, <2>1 DEF PutRecord
      <3>2. CASE Answer(r)
        BY <3>2
      <3>3. CASE Section(q).look = "upsert" /\ \E p \in Named(t, o, q.name) : Goto(r, WithRecord(q, p))
        <4>1. PICK p \in Named(t, o, q.name) : Goto(r, WithRecord(q, p))
          BY <3>3
        <4>2. p \in DOMAIN records /\ records[p].table = t /\ records[p].name = q.name /\ p \in Nat
          BY <1>1, <4>1 DEF Named, Of, TypeOK
        <4>3. OnlyAdds /\ p \in Of(t)' /\ records'[p].name = q.name
          BY <1>1, <3>1, <4>2 DEF OnlyAdds, Of, TypeOK
        <4> QED
          BY <3>3, <4>1, <4>2, <4>3
      <3> QED
        BY <3>1, <3>2, <3>3
    <2>2. CASE ~NameRefused(0, t, o, q.name)
      <3>1. /\ records' = Append(records, NewRecord(t, o, q.name))
            /\ Goto(r, WithRecord(q, Len(records) + 1))
        BY <1>0, <1>4, <1>5, <2>2 DEF PutRecord
      <3>2. /\ records' \in Seq(Record) /\ RecordsGrow
            /\ Len(records) + 1 \in Of(t)'
            /\ \A p \in DOMAIN records : records'[p] = records[p]
            /\ records'[Len(records) + 1] = NewRecord(t, o, q.name)
        BY <1>2, <1>4, <1>6, <2>2, <3>1, RecordAdded
      <3>3. PICK p : p = Len(records) + 1
        OBVIOUS
      <3>4. OnlyAdds
        BY <1>1, <3>2 DEF OnlyAdds, RecordsGrow
      <3>5. p \in Nat /\ p \in Of(t)' /\ records'[p].name = q.name
        BY <1>1, <3>2, <3>3 DEF NewRecord, TypeOK
      <3>6. \A w \in rows' : w.record # p
        BY <1>1, <3>3 DEF RowsAreNumbered, TypeOK
      <3> QED
        BY <3>1, <3>3, <3>4, <3>5, <3>6
    <2> QED
      BY <2>1, <2>2
  <1>9. CASE Answer(r)
    BY <1>1, <1>9, AnswersIt DEF Idle, LoneSeeder, InSection, Seeders
  <1>10. CASE ~Answer(r)
    <2>1. PICK to : to = WithRecord(q, p)
      OBVIOUS
    <2>2. /\ MadeBefore(q.section)'
          /\ Section(q).table \in Watched => \A n \in Section(q).names \ q.names : Made(q.section, n)' \/ n = q.name
      BY <1>1, <1>3, <1>8, <1>10, MadeStays
    <2>3. p \in Of(Section(q).table)'
      BY <1>4, <1>7, <1>8, <1>10
    <2>4. LoneSeeder(to)'
      BY <1>1, <1>2, <1>3, <1>8, <1>10, <2>1, <2>2, <2>3, LoneRecord
    <2> QED
      BY <1>1, <1>8, <1>10, <2>1, <2>4, GoesTo
  <1> QED
    BY <1>9, <1>10

LEMMA LoneLookForRow ==
  ASSUME AdminInv, NEW r \in Requests, LookForRow(r), Steady, LoneSeeder(requests[r])
  PROVE  LoneSeeder(requests[r])'
  <1>0. PICK q : q = requests[r]
    OBVIOUS
  <1>1. /\ TypeOK /\ q.stage = "row" /\ UNCHANGED <<records, rows>> /\ q.stage \in InSection /\ LoneSeeder(q)
        /\ UNCHANGED <<scene, sample>>
    BY <1>0 DEF AdminInv, TablesAreSound, LookForRow, At, InSection, Seeders, Steady
  <1>2. /\ q \in Seeding /\ q.section \in DOMAIN Program /\ Section(q) = Program[q.section]
        /\ q.record \in Of(Section(q).table) /\ q.keys \in SUBSET Keys
    BY <1>0, <1>1, SeederKnows DEF Section
  <1>3. /\ q.names \subseteq Section(q).names /\ MadeBefore(q.section) /\ RecordInHand(q)
        /\ Section(q).table \in Watched => \A n \in Section(q).names \ q.names : Made(q.section, n) \/ n = q.name
    BY <1>1 DEF LoneSeeder
  <1>4. OnlyAdds
    BY <1>1 DEF OnlyAdds, TypeOK
  <1>5. /\ \A i, n : Made(i, n) => Made(i, n)'
        /\ \A i : MadeBefore(i) => MadeBefore(i)'
        /\ Program' = Program /\ Watched' = Watched /\ \A t : Of(t) \subseteq Of(t)'
    BY <1>1, <1>4, MadeStays
  <1>6. PICK k \in q.keys :
          LET on == [q EXCEPT !.key = {k}]
          IN Goto(r, IF RowsThere(q, k) = {} \/ Section(q).kind = "create" THEN [on EXCEPT !.stage = "putRow"]
                     ELSE NextKey(on))
    BY <1>0 DEF LookForRow
  <1>7. PICK on : on = [q EXCEPT !.key = {k}]
    OBVIOUS
  <1>8. /\ on \in Seeding /\ on.section = q.section /\ on.record = q.record /\ on.keys = q.keys /\ on.key = {k}
        /\ on.name = q.name /\ on.names = q.names
    <2>1. {k} \in SUBSET Keys
      BY <1>2
    <2> QED
      BY <1>2, <1>7, <2>1 DEF Seeding
  <1>9. Section(on) = Section(q) /\ Section(on)' = Section(q) /\ Section(q)' = Section(q)
    BY <1>5, <1>8 DEF Section
  <1>10. /\ MadeBefore(q.section)'
         /\ Section(q).table \in Watched => \A n \in Section(q).names \ q.names : Made(q.section, n)' \/ n = q.name
    BY <1>3, <1>5
  <1>11. q.record \in Of(Section(q).table)' /\ records'[q.record].name = q.name
    <2>1. PICK t : t = Section(q).table
      OBVIOUS
    <2>2. q.record \in Of(t)'
      BY <1>2, <1>5, <2>1
    <2> QED
      BY <1>1, <1>3, <1>9, <2>1, <2>2 DEF RecordInHand
  <1>12. CASE (RowsThere(q, k) = {} \/ Section(q).kind = "create") /\ Goto(r, [on EXCEPT !.stage = "putRow"])
    <2>1. PICK to : to = [on EXCEPT !.stage = "putRow"]
      OBVIOUS
    <2>2. /\ to.stage = "putRow" /\ to.section = q.section /\ to.record = q.record /\ to.keys = q.keys
          /\ to.key = {k} /\ to.name = q.name /\ to.names = q.names
      BY <1>8, <2>1 DEF Seeding
    <2>3. Section(to) = Section(q) /\ Section(to)' = Section(q)
      BY <1>5, <2>2 DEF Section
    <2>4. RecordInHand(to)'
      BY <1>1, <1>3, <2>2, <2>3 DEF RecordInHand
    <2>5. RowsThere(q, k) = {} => RowsThere(to, k)' = {}
      BY <1>1, <2>2, <2>3 DEF RowsThere
    <2>6. LoneSeeder(to)'
      BY <1>3, <1>5, <1>10, <1>12, <2>2, <2>3, <2>4, <2>5 DEF LoneSeeder
    <2> QED
      BY <1>1, <1>12, <2>1, <2>6, GoesTo
  <1>13. CASE RowsThere(q, k) # {} /\ Goto(r, NextKey(on))
    <2>1. PICK to : to = NextKey(on)
      OBVIOUS
    <2>2. \A j \in Keys \ (on.keys \ on.key) : \E w \in rows' : w.record = on.record /\ w.key = j
      BY <1>1, <1>3, <1>8, <1>13 DEF RecordInHand, RowsThere
    <2>3. Section(on).look = "whole" => \A w \in rows' : w.record = on.record => w.key \notin on.keys \ on.key
      BY <1>1, <1>3, <1>8, <1>9 DEF RecordInHand
    <2>4. on.record \in Of(Section(on).table)' /\ records'[on.record].name = on.name
      BY <1>8, <1>9, <1>11
    <2>5. /\ on.section \in DOMAIN Program /\ on.names \subseteq Section(on).names /\ MadeBefore(on.section)'
          /\ Section(on).table \in Watched =>
               \A n \in Section(on).names \ on.names : Made(on.section, n)' \/ n = on.name
      BY <1>2, <1>3, <1>8, <1>9, <1>10
    <2>6. LoneSeeder(to)'
      BY <1>1, <1>8, <2>1, <2>2, <2>3, <2>4, <2>5, LoneKey
    <2> QED
      BY <1>1, <1>13, <2>1, <2>6, GoesTo
  <1> QED
    BY <1>0, <1>6, <1>7, <1>12, <1>13

LEMMA LonePutRow ==
  ASSUME AdminInv, NEW r \in Requests, PutRow(r), Steady, LoneSeeder(requests[r])
  PROVE  LoneSeeder(requests[r])'
  <1>0. PICK q : q = requests[r]
    OBVIOUS
  <1>1. /\ TypeOK /\ q.stage = "putRow" /\ records' = records /\ q.stage \in InSection /\ LoneSeeder(q)
        /\ UNCHANGED <<scene, sample>>
    BY <1>0 DEF AdminInv, TablesAreSound, PutRow, At, InSection, Seeders, Steady
  <1>2. /\ q \in Seeding /\ q.section \in DOMAIN Program
        /\ q.record \in Of(Section(q).table) /\ q.keys \in SUBSET Keys
        /\ \E k \in q.keys : q.key = {k}
    BY <1>0, <1>1, SeederKnows
  <1>3. /\ q.names \subseteq Section(q).names /\ MadeBefore(q.section) /\ RecordInHand(q)
        /\ Section(q).table \in Watched => \A n \in Section(q).names \ q.names : Made(q.section, n) \/ n = q.name
    BY <1>1 DEF LoneSeeder
  <1> DEFINE new(k) == [record |-> q.record, scope |-> Section(q).scope, batch |-> q.batch, of |-> {}, key |-> k]
             refused(k) == KeyedOnce(Section(q).table, Section(q).scope) /\ RowsThere(q, k) # {}
  <1>4. PICK k \in q.key :
          IF refused(k) THEN rows' = rows /\ (Answer(r) \/ Goto(r, NextKey(q)))
          ELSE rows' = rows \cup {new(k)} /\ Goto(r, NextKey(q))
    BY <1>0 DEF PutRow
  <1>5. q.key = {k}
    BY <1>2, <1>4
  <1>6. CASE Answer(r)
    BY <1>1, <1>6, AnswersIt DEF Idle, LoneSeeder, InSection, Seeders
  <1>7. CASE Goto(r, NextKey(q))
    <2>1. \A w \in rows' \ rows : w.key = k
      BY <1>4
    <2>2. rows \subseteq rows' /\ \E w \in rows' : w.record = q.record /\ w.key = k
      <3>1. CASE refused(k)
        BY <1>4, <3>1 DEF RowsThere
      <3>2. CASE ~refused(k)
        <4>1. new(k) \in rows' /\ rows \subseteq rows'
          BY <1>4, <3>2
        <4>2. new(k).record = q.record /\ new(k).key = k
          OBVIOUS
        <4> HIDE DEF new, refused
        <4> QED
          BY <4>1, <4>2
      <3> QED
        BY <3>1, <3>2
    <2> HIDE DEF new, refused
    <2>3. OnlyAdds
      BY <1>1, <2>2 DEF OnlyAdds, TypeOK
    <2>4. PICK to : to = NextKey(q)
      OBVIOUS
    <2>5. \A j \in Keys \ (q.keys \ q.key) : \E w \in rows' : w.record = q.record /\ w.key = j
      BY <1>3, <1>5, <2>2 DEF RecordInHand
    <2>6. Section(q).look = "whole" => \A w \in rows' : w.record = q.record => w.key \notin q.keys \ q.key
      BY <1>3, <1>5, <2>1 DEF RecordInHand
    <2>7. q.record \in Of(Section(q).table)' /\ records'[q.record].name = q.name
      <3>1. PICK t : t = Section(q).table
        OBVIOUS
      <3>2. Section(q)' = Section(q)
        BY <1>1, ProgramStays DEF Section
      <3>3. q.record \in Of(t)'
        BY <1>1, <1>2, <2>3, <3>1, MadeStays
      <3> QED
        BY <1>1, <1>3, <3>1, <3>2, <3>3 DEF RecordInHand
    <2>8. /\ MadeBefore(q.section)'
          /\ Section(q).table \in Watched => \A n \in Section(q).names \ q.names : Made(q.section, n)' \/ n = q.name
      BY <1>1, <1>3, <2>3, MadeStays
    <2>9. LoneSeeder(to)'
      BY <1>1, <1>2, <1>3, <2>4, <2>5, <2>6, <2>7, <2>8, LoneKey
    <2> QED
      BY <1>1, <1>7, <2>4, <2>9, GoesTo
  <1> QED
    BY <1>4, <1>6, <1>7

(* A request starts at its own first stage, not in the seed.               *)
First == {"insert", "rename", "email", "save", "add", "remove", "delete"}

LEMMA RequestStarts ==
  ASSUME NEW r \in Requests, Request(r)
  PROVE  \E q : Goto(r, q) /\ q.stage \in First
  <1>1. ASSUME NEW t, NEW o, NEW n, NEW scope, NEW keys, LookThenInsert(r, t, o, n, scope, keys)
        PROVE  \E q : Goto(r, q) /\ q.stage \in First
    BY <1>1 DEF LookThenInsert, First
  <1>2. ASSUME NEW t, LookThenRename(r, t) \/ LookThenSave(r, t)
        PROVE  \E q : Goto(r, q) /\ q.stage \in First
    <2>1. CASE LookThenRename(r, t)
      BY <2>1 DEF LookThenRename, First
    <2>2. CASE LookThenSave(r, t)
      BY <2>2 DEF LookThenSave, First
    <2> QED
      BY <1>2, <2>1, <2>2
  <1>3. ASSUME NEW p, NEW scope, NEW keys, NEW batch, NEW tx, StartReplacing(r, p, scope, keys, batch, tx)
        PROVE  \E q : Goto(r, q) /\ q.stage \in First
    BY <1>3 DEF StartReplacing, First
  <1>4. CASE CreateAgency(r) \/ AddDepartment(r) \/ CreateServiceProvider(r) \/ MapServiceProvider(r) \/ CreateRole(r)
    BY <1>1, <1>4 DEF CreateAgency, AddDepartment, CreateServiceProvider, MapServiceProvider, CreateRole
  <1>5. CASE CreateUser(r) \/ Register(r)
    BY <1>1, <1>5 DEF CreateUser, Register
  <1>6. CASE UpdateAgency(r) \/ UpdateDepartment(r) \/ UpdateUser(r) \/ UpdateSlaPolicy(r) \/ UpdateEscalationPolicy(r)
    BY <1>2, <1>6 DEF UpdateAgency, UpdateDepartment, UpdateUser, UpdateSlaPolicy, UpdateEscalationPolicy
  <1>7. CASE SetBusinessHours(r) \/ AssignRoles(r) \/ SetRolePermissions(r) \/ SetEscalationLevels(r)
    BY <1>3, <1>7 DEF SetBusinessHours, AssignRoles, SetRolePermissions, SetEscalationLevels
  <1>8. CASE OnboardAgency(r)
    BY <1>8 DEF OnboardAgency, First
  <1>9. CASE CreatePolicy(r) \/ UpdatePolicy(r)
    <2>1. CASE CreatePolicy(r)
      BY <2>1 DEF CreatePolicy, First
    <2>2. CASE UpdatePolicy(r)
      BY <2>2 DEF UpdatePolicy, First
    <2> QED
      BY <1>9, <2>1, <2>2
  <1>10. CASE AddRule(r) \/ DeleteRule(r)
    <2>1. CASE AddRule(r)
      BY <2>1 DEF AddRule, First
    <2>2. CASE DeleteRule(r)
      BY <2>2 DEF DeleteRule, First
    <2> QED
      BY <1>10, <2>1, <2>2
  <1> QED
    BY <1>4, <1>5, <1>6, <1>7, <1>8, <1>9, <1>10 DEF Request

LEMMA ContainerStarts ==
  ASSUME TypeOK, NEW r \in Requests, StartContainer(r), calls' = calls + 1, UNCHANGED <<scene, sample>>
  PROVE  \E q : Goto(r, q) /\ q.stage \in Seeders /\ LoneSeeder(q)'
  <1>1. PICK n \in sample :
          Goto(r, NextSection([stage |-> "look", section |-> 0, names |-> {}, name |-> n,
                               record |-> 0, keys |-> {}, key |-> {}, batch |-> calls',
                               agencies |-> [o \in Names |-> 0]]))
    BY DEF StartContainer
  <1>2. PICK q : q = [stage |-> "look", section |-> 0, names |-> {}, name |-> n,
                      record |-> 0, keys |-> {}, key |-> {}, batch |-> calls + 1,
                      agencies |-> [o \in Names |-> 0]]
    OBVIOUS
  <1>3. q \in Seeding /\ q.section = 0
    <2>1. n \in Names /\ calls + 1 \in Nat
      BY DEF TypeOK
    <2> QED
      BY <1>2, <2>1 DEF Seeding
  <1>4. MadeBefore(q.section + 1)'
    <2>1. DOMAIN Program = 1..Len(Program) /\ Program' = Program
      BY ProgramIsSound, ProgramStays DEF TypeOK
    <2> QED
      BY <1>3, <2>1 DEF MadeBefore
  <1>5. PICK to : to = NextSection(q)
    OBVIOUS
  <1>6. Goto(r, to)
    BY <1>1, <1>2, <1>5
  <1>7. LoneSeeder(to)'
    BY <1>3, <1>4, <1>5, LoneSection
  <1>8. to.stage \in Seeders
    BY <1>3, <1>5, GoesOn DEF Seeders
  <1> QED
    BY <1>6, <1>7, <1>8

(* A step that is not of the seed leads to none of its stages, and what a  *)
(* request deletes is all that it selects.                                 *)
LEMMA LoneOtherStep ==
  ASSUME AdminInv, NEW r \in Requests, Steady, LoneReplacer(requests[r]),
         \/ Insert(r) \/ Rename(r) \/ LookForAdmin(r) \/ CompleteOnboarding(r) \/ Save(r)
         \/ DeleteRows(r) \/ LockRows(r) \/ CreateRows(r) \/ CommitRule(r)
  PROVE  requests'[r].stage \notin Seeders /\ LoneReplacer(requests[r])'
  <1>0. PICK q : q = requests[r]
    OBVIOUS
  <1>1. TypeOK
    BY DEF AdminInv, TablesAreSound
  <1>2. ASSUME Answer(r) PROVE requests'[r].stage \notin Seeders /\ LoneReplacer(requests[r])'
    BY <1>1, <1>2, AnswersIt DEF Idle, Seeders, LoneReplacer
  <1>3. ASSUME NEW to, Goto(r, to), to.stage \notin Seeders \cup {"wait", "create"}
        PROVE  requests'[r].stage \notin Seeders /\ LoneReplacer(requests[r])'
    BY <1>1, <1>3, GoesTo DEF LoneReplacer
  <1>4. CASE Insert(r) \/ Rename(r) \/ CompleteOnboarding(r) \/ CreateRows(r) \/ CommitRule(r)
    BY <1>2, <1>4 DEF Insert, Rename, CompleteOnboarding, CreateRows, CommitRule
  <1>5. CASE LookForAdmin(r)
    <2>1. CASE Answer(r)
      BY <1>2, <2>1
    <2>2. CASE requests' = [requests EXCEPT ![r].stage = "onboard"]
      <3>1. PICK to : to = [q EXCEPT !.stage = "onboard"]
        OBVIOUS
      <3>2. q \in Onboarding
        BY <1>0, <1>1, <1>5, StageTells DEF LookForAdmin, At
      <3>3. Goto(r, to) /\ to.stage = "onboard"
        BY <1>0, <2>2, <3>1, <3>2 DEF Goto, Onboarding
      <3> QED
        BY <1>3, <3>3 DEF Seeders
    <2> QED
      BY <1>5, <2>1, <2>2 DEF LookForAdmin
  <1>6. CASE Save(r)
    <2>1. CASE Answer(r)
      BY <1>2, <2>1
    <2>2. CASE ~Answer(r)
      <3>1. PICK p : StartReplacing(r, p, "all", q.keys, q.batch, FALSE)
        BY <1>0, <1>6, <2>2 DEF Save
      <3>2. PICK to : to = [stage |-> "delete", record |-> p, scope |-> "all", keys |-> q.keys, batch |-> q.batch,
                            tx |-> FALSE, doomed |-> {}]
        OBVIOUS
      <3>3. Goto(r, to) /\ to.stage = "delete"
        BY <3>1, <3>2 DEF StartReplacing
      <3> QED
        BY <1>3, <3>3 DEF Seeders
    <2> QED
      BY <2>1, <2>2
  <1>7. CASE DeleteRows(r)
    <2>1. Replacement(q) /\ q.stage = "delete"
      BY <1>0, <1>1, <1>7, StageTells DEF DeleteRows, At, Replacers
    <2>2. CASE q.tx
      <3>1. PICK to : to = [q EXCEPT !.stage = "wait", !.doomed = Selected(q)]
        OBVIOUS
      <3>2. Goto(r, to) /\ rows' = rows
        BY <1>0, <1>7, <2>2, <3>1 DEF DeleteRows, InTransaction, Goto
      <3>3. to.stage = "wait" /\ to.record = q.record /\ to.scope = q.scope /\ to.doomed = Selected(q)
        BY <2>1, <3>1 DEF Replacement
      <3>4. Selected(to)' \subseteq to.doomed
        BY <3>2, <3>3 DEF Selected
      <3> QED
        BY <1>1, <3>2, <3>3, <3>4, GoesTo DEF LoneReplacer, Seeders
    <2>3. CASE ~q.tx
      <3>1. PICK to : to = [q EXCEPT !.stage = "create"]
        OBVIOUS
      <3>2. Goto(r, to) /\ rows' = rows \ Selected(q)
        BY <1>0, <1>7, <2>3, <3>1 DEF DeleteRows, InTransaction, Goto
      <3>3. to.stage = "create" /\ to.record = q.record /\ to.scope = q.scope
        BY <2>1, <3>1 DEF Replacement
      <3>4. Selected(to)' = {}
        BY <3>2, <3>3 DEF Selected
      <3> QED
        BY <1>1, <3>2, <3>3, <3>4, GoesTo DEF LoneReplacer, Seeders
    <2> QED
      BY <2>2, <2>3
  <1>8. CASE LockRows(r)
    <2>1. Replacement(q) /\ q.stage = "wait" /\ rows' = rows
      BY <1>0, <1>1, <1>8, StageTells DEF LockRows, At, Replacers
    <2>2. PICK to : to = [q EXCEPT !.stage = "create", !.doomed = @ \cap rows]
      OBVIOUS
    <2>3. Goto(r, to)
      BY <1>0, <1>8, <2>2 DEF LockRows, Goto
    <2>4. to.stage = "create" /\ to.record = q.record /\ to.scope = q.scope /\ to.doomed = q.doomed \cap rows
      BY <2>1, <2>2 DEF Replacement
    <2>5. Selected(q) \subseteq q.doomed
      BY <1>0, <2>1 DEF LoneReplacer
    <2>6. Selected(to)' \subseteq to.doomed
      BY <2>1, <2>4, <2>5 DEF Selected
    <2> QED
      BY <1>1, <2>3, <2>4, <2>6, GoesTo DEF LoneReplacer, Seeders
  <1> QED
    BY <1>4, <1>5, <1>6, <1>7, <1>8

LEMMA LoneSeedStep ==
  ASSUME AdminInv, NEW r \in Requests, Steady, Seed(r), LoneSeeder(requests[r])
  PROVE  LoneSeeder(requests[r])' /\ LoneReplacer(requests[r])'
  <1>1. TypeOK /\ requests[r].stage \in Seeders
    BY DEF AdminInv, TablesAreSound, Seed, LookForRecord, PutRecord, LookForRow, PutRow, Serve, At, Seeders
  <1>2. LoneSeeder(requests[r])'
    <2>1. CASE Serve(r)
      BY <1>1, <2>1, AnswersIt DEF Serve, Idle, LoneSeeder, InSection, Seeders
    <2> QED
      BY <2>1, LoneLookForRecord, LonePutRecord, LoneLookForRow, LonePutRow DEF Seed
  <1>3. requests'[r].stage \notin {"wait", "create"}
    BY SeedStep DEF StaysInSeed, Idle, Seeding
  <1> QED
    BY <1>2, <1>3 DEF LoneReplacer

LEMMA OthersStay ==
  ASSUME TypeOK, NEW r \in Requests, Step(r)
  PROVE  \A o \in Requests \ {r} : requests'[o] = requests[o]
  <1>1. ASSUME NEW q, Goto(r, q) PROVE \A o \in Requests \ {r} : requests'[o] = requests[o]
    BY <1>1, GoesTo
  <1>2. ASSUME Answer(r) PROVE \A o \in Requests \ {r} : requests'[o] = requests[o]
    BY <1>2, AnswersIt
  <1>3. CASE Insert(r) \/ Rename(r) \/ CompleteOnboarding(r) \/ CreateRows(r) \/ CommitRule(r)
    BY <1>2, <1>3 DEF Insert, Rename, CompleteOnboarding, CreateRows, CommitRule
  <1>4. CASE LookForAdmin(r)
    BY <1>2, <1>4 DEF LookForAdmin, TypeOK
  <1>5. CASE DeleteRows(r) \/ LockRows(r)
    BY <1>5 DEF DeleteRows, LockRows, TypeOK
  <1>6. CASE Save(r)
    BY <1>1, <1>2, <1>6 DEF Save, StartReplacing
  <1>7. CASE LookForRecord(r) \/ LookForRow(r)
    BY <1>1, <1>7 DEF LookForRecord, LookForRow
  <1>8. CASE PutRecord(r) \/ PutRow(r) \/ Serve(r)
    BY <1>1, <1>2, <1>8 DEF PutRecord, PutRow, Serve
  <1> QED
    BY <1>3, <1>4, <1>5, <1>6, <1>7, <1>8 DEF Step, Seed

LEMMA LoneInvNext ==
  ASSUME AdminInv, LoneInv, [Next]_vars
  PROVE  LoneInv'
  <1>1. TypeOK /\ \A r \in Requests : requests[r].stage = "idle" => requests[r] = Idle
    BY DEF AdminInv, TablesAreSound, TypeOK, Inserting, Renaming, Onboarding, Saving, Adding, Seeding, Replacement
  <1>2. ASSUME NEW r \in Requests, Call(r) PROVE LoneInv'
    <2>1. calls' = calls + 1 /\ UNCHANGED <<scene, sample>>
      BY <1>2 DEF Call
    <2>2. PICK q : Goto(r, q) /\ LoneReplacer(q)' /\ LoneSeeder(q)'
      <3>1. CASE Request(r)
        <4>1. PICK q : Goto(r, q) /\ q.stage \in First
          BY <3>1, RequestStarts
        <4> QED
          BY <4>1 DEF First, LoneReplacer, LoneSeeder, InSection, Seeders
      <3>2. CASE StartContainer(r)
        <4>1. PICK q : Goto(r, q) /\ q.stage \in Seeders /\ LoneSeeder(q)'
          BY <1>1, <2>1, <3>2, ContainerStarts
        <4> QED
          BY <4>1 DEF LoneReplacer, Seeders
      <3> QED
        BY <1>2, <3>1, <3>2 DEF Call
    <2>3. requests'[r] = q /\ \A o \in Requests \ {r} : requests'[o] = requests[o]
      BY <1>1, <2>2, GoesTo
    <2>4. alone' = {} \/ (alone' = {r} /\ \A o \in Requests \ {r} : requests[o] = Idle)
      BY <1>1, <1>2 DEF Call, At
    <2> QED
      BY <2>2, <2>3, <2>4 DEF LoneInv
  <1>3. ASSUME NEW r \in Requests, Step(r) PROVE LoneInv'
    <2>1. Steady /\ alone' = alone
      BY <1>3 DEF Step, Steady
    <2>2. SUFFICES ASSUME NEW x \in alone
                   PROVE  /\ \A o \in Requests \ {x} : requests'[o] = Idle
                          /\ LoneReplacer(requests[x])' /\ LoneSeeder(requests[x])'
      BY <2>1 DEF LoneInv
    <2>3. /\ \A o \in Requests \ {x} : requests[o] = Idle
          /\ LoneReplacer(requests[x]) /\ LoneSeeder(requests[x])
      BY DEF LoneInv
    <2>4. requests[r].stage # "idle"
      BY <1>3 DEF Step, Insert, Rename, LookForAdmin, CompleteOnboarding, Save, DeleteRows, LockRows, CreateRows,
                  CommitRule, Seed, LookForRecord, PutRecord, LookForRow, PutRow, Serve, At
    <2>5. r = x
      BY <2>3, <2>4 DEF Idle
    <2>6. \A o \in Requests \ {x} : requests'[o] = Idle
      BY <1>1, <1>3, <2>3, <2>5, OthersStay
    <2>8. CASE Seed(r)
      BY <2>1, <2>3, <2>5, <2>6, <2>8, LoneSeedStep
    <2>9. CASE ~Seed(r)
      <3>1. requests'[r].stage \notin Seeders /\ LoneReplacer(requests[r])'
        BY <1>3, <2>1, <2>3, <2>5, <2>9, LoneOtherStep DEF Step
      <3> QED
        BY <2>5, <2>6, <3>1 DEF LoneSeeder, InSection, Seeders
    <2> QED
      BY <2>8, <2>9
  <1>4. ASSUME NEW r \in Requests, Fail(r) PROVE LoneInv'
    <2>1. /\ requests[r].stage # "idle" /\ requests'[r] = Idle /\ alone' = alone
          /\ \A o \in Requests \ {r} : requests'[o] = requests[o]
      BY <1>1, <1>4, AnswersIt DEF Fail, At
    <2>2. ASSUME NEW x \in alone PROVE \A o \in Requests : requests'[o] = Idle
      <3>1. \A o \in Requests \ {x} : requests[o] = Idle
        BY DEF LoneInv
      <3> QED
        BY <2>1, <3>1 DEF Idle
    <2>3. \A x \in alone' : x \in Requests
      BY <1>1, <2>1 DEF TypeOK
    <2> QED
      BY <2>1, <2>2, <2>3 DEF LoneInv, LoneReplacer, LoneSeeder, Idle, InSection, Seeders
  <1>5. CASE UNCHANGED vars
    <2>1. UNCHANGED <<scene, records, rows, requests, alone, sample>>
      BY <1>5 DEF vars
    <2>2. OnlyAdds /\ UNCHANGED <<scene, sample>>
      BY <1>1, <2>1 DEF OnlyAdds, TypeOK
    <2>3. Program' = Program /\ \A i : MadeBefore(i) => MadeBefore(i)'
      BY <1>1, <2>2, MadeStays
    <2>4. \A i, n : Made(i, n) => Made(i, n)'
      BY <1>1, <2>2, MadeStays
    <2>5. Watched' = Watched
      BY <2>1 DEF Watched
    <2>6. ASSUME NEW q, LoneSeeder(q) PROVE LoneSeeder(q)'
      BY <2>1, <2>3, <2>4, <2>5, <2>6 DEF LoneSeeder, RecordInHand, RowsThere, Section, Named, Of, OwnerIn
    <2>7. ASSUME NEW q, LoneReplacer(q) PROVE LoneReplacer(q)'
      BY <2>1, <2>7 DEF LoneReplacer, Selected
    <2>8. ASSUME NEW x \in alone
          PROVE  /\ \A o \in Requests \ {x} : requests'[o] = Idle
                 /\ LoneReplacer(requests[x])' /\ LoneSeeder(requests[x])'
      BY <2>1, <2>6, <2>7 DEF LoneInv
    <2> QED
      BY <2>1, <2>8 DEF LoneInv
  <1> QED
    BY <1>2, <1>3, <1>4, <1>5 DEF Next

LEMMA LoneInvAlways == Spec => [](AdminInv /\ LoneInv)
  <1>1. Init => LoneInv
    BY DEF Init, LoneInv
  <1>2. AdminInv /\ LoneInv /\ [Next]_vars => LoneInv'
    BY LoneInvNext
  <1> QED
    BY <1>1, <1>2, AdminInvInit, AdminInvNext, PTL DEF Spec

(* A change of the tables while one is alone is its own.                   *)
LEMMA LoneStep ==
  ASSUME AdminInv, LoneInv, [Next]_vars, NEW r \in alone, ~UNCHANGED <<records, rows>>
  PROVE  r \in Requests /\ Step(r) /\ Steady
  <1>1. alone \subseteq Requests
    BY DEF AdminInv, TablesAreSound, TypeOK
  <1>2. PICK x \in Requests : Step(x)
    BY DEF Next, Call, Fail, vars
  <1>3. requests[x].stage # "idle"
    BY <1>2 DEF Step, Insert, Rename, LookForAdmin, CompleteOnboarding, Save, DeleteRows, LockRows, CreateRows,
                CommitRule, Seed, LookForRecord, PutRecord, LookForRow, PutRow, Serve, At
  <1>4. x = r
    BY <1>3 DEF LoneInv, Idle
  <1> QED
    BY <1>1, <1>2, <1>4 DEF Step, Steady

(* A replacement that nothing overlapped is exact, whatever rows failed or *)
(* overlapping ones had left: it deletes all that it selects before it     *)
(* creates (assignRoles, updateSlaPolicy, setRolePermissions and others).  *)
THEOREM LoneReplacements == Spec => LoneReplacementIsExact
  <1>1. ASSUME AdminInv, LoneInv, [Next]_vars, NEW r \in alone, NEW q, q = requests[r],
               q.stage = "create", \E w \in rows' : w.batch = q.batch
        PROVE  {w \in rows' : w.record = q.record /\ (q.scope = "agency" => w.scope = "agency")}
                 = NewRows(q.record, q.scope, q.batch, q.keys)
    <2>1. r \in Requests
      BY <1>1 DEF AdminInv, TablesAreSound, TypeOK
    <2>2. \A w \in rows : w.batch # q.batch
      BY <1>1, <2>1 DEF AdminInv, RequestIsSound, HoldsItsBatch, Makers
    <2>3. rows' # rows
      BY <1>1, <2>2
    <2>4. Step(r)
      BY <1>1, <2>3, LoneStep
    <2>5. CreateRows(r)
      BY <1>1, <2>4 DEF Step, Insert, Rename, LookForAdmin, CompleteOnboarding, Save, DeleteRows, LockRows,
                        CommitRule, Seed, LookForRecord, PutRecord, LookForRow, PutRow, Serve, At
    <2>6. rows' = (rows \ q.doomed) \cup NewRows(q.record, q.scope, q.batch, q.keys)
      BY <1>1, <2>3, <2>5 DEF CreateRows, Created
    <2>7. \A w \in rows : w.record = q.record /\ (q.scope = "agency" => w.scope = "agency") => w \in q.doomed
      BY <1>1 DEF LoneInv, LoneReplacer, Selected
    <2>8. \A w \in NewRows(q.record, q.scope, q.batch, q.keys) : w.record = q.record /\ w.scope = q.scope
      BY DEF NewRows
    <2> QED
      BY <2>6, <2>7, <2>8
  <1>2. AdminInv /\ LoneInv /\ [Next]_vars =>
          [\A r \in alone :
             LET q == requests[r] IN
             q.stage = "create" /\ (\E w \in rows' : w.batch = q.batch)
               => {w \in rows' : w.record = q.record /\ (q.scope = "agency" => w.scope = "agency")}
                    = NewRows(q.record, q.scope, q.batch, q.keys)]_vars
    BY <1>1
  <1> QED
    BY <1>2, LoneInvAlways, PTL DEF Spec, LoneReplacementIsExact

(* A container that starts alone only fills in what is missing (seed.ts,   *)
(* run again by docker-entrypoint.sh): it looked for a record or a row in  *)
(* vain before it makes one, and what it does not look for hangs on a      *)
(* record that it has just made itself.                                    *)
THEOREM LoneRestartsFillIn == Spec => LoneRestartFillsIn
  <1>1. ASSUME AdminInv, LoneInv, [Next]_vars, NEW r \in alone, NEW q, q = requests[r],
               q.stage \in {"put", "putRow"}
        PROVE  /\ \A p \in DOMAIN records' \ DOMAIN records :
                    Named(records'[p].table, records'[p].owner, records'[p].name) = {}
               /\ \A w \in rows' \ rows :
                    \/ records[w.record].table = "policy" /\ Section(q) = SamplePolicy
                    \/ ~\E v \in rows : v.record = w.record /\ v.key = w.key /\ v.scope = w.scope
    <2>1. CASE UNCHANGED <<records, rows>>
      BY <2>1
    <2>2. CASE ~UNCHANGED <<records, rows>>
      <3>1. r \in Requests /\ Step(r)
        BY <1>1, <2>2, LoneStep
      <3>2. PutRecord(r) \/ PutRow(r)
        BY <1>1, <2>2, <3>1 DEF Step, Insert, Rename, LookForAdmin, CompleteOnboarding, Save, DeleteRows, LockRows,
                          CreateRows, CommitRule, Seed, LookForRecord, LookForRow, Serve, At
      <3>3. LoneSeeder(q) /\ TypeOK
        BY <1>1 DEF LoneInv, AdminInv, TablesAreSound
      <3>4. q.stage \in InSection
        BY <1>1 DEF InSection, Seeders
      <3>5. q.record \in Of(Section(q).table) \/ q.stage = "put"
        BY <1>1, <3>1, <3>4, SeederKnows
      <3>6. CASE PutRecord(r)
        <4>1. q.stage = "put" /\ rows' = rows
          BY <1>1, <3>6 DEF PutRecord, At
        <4>2. PICK t, o : t = Section(q).table /\ o = OwnerIn(q)
          OBVIOUS
        <4>3. records' = Append(records, NewRecord(t, o, q.name))
          BY <1>1, <2>2, <3>6, <4>1, <4>2 DEF PutRecord
        <4>4. ASSUME NEW p \in DOMAIN records' \ DOMAIN records PROVE records'[p] = NewRecord(t, o, q.name)
          BY <3>3, <4>3 DEF TypeOK
        <4>5. Named(t, o, q.name) = {}
          BY <3>3, <4>1, <4>2 DEF LoneSeeder
        <4> QED
          BY <4>1, <4>4, <4>5 DEF NewRecord
      <3>7. CASE PutRow(r)
        <4>1. q.stage = "putRow" /\ records' = records
          BY <1>1, <3>7 DEF PutRow, At
        <4>2. PICK k \in q.key :
                rows' \in {rows, rows \cup {[record |-> q.record, scope |-> Section(q).scope, batch |-> q.batch,
                                             of |-> {}, key |-> k]}}
          BY <1>1, <3>7 DEF PutRow
        <4>3. \A w \in rows' \ rows : w.record = q.record /\ w.scope = Section(q).scope /\ w.key = k
          BY <4>2
        <4>4. CASE RowsThere(q, k) = {}
          BY <4>1, <4>3, <4>4 DEF RowsThere
        <4>5. CASE Section(q).kind = "create" /\ Section(q).look = "whole"
          <5>1. k \in q.keys
            BY <1>1, <3>1, <3>4, <4>1, <4>2, SeederKnows
          <5>2. \A v \in rows : v.record = q.record => v.key \notin q.keys
            BY <3>3, <4>1, <4>5 DEF LoneSeeder, RecordInHand
          <5> QED
            BY <4>1, <4>3, <5>1, <5>2
        <4>6. CASE Section(q) = SamplePolicy
          <5>1. Section(q).table = "policy"
            BY <4>6 DEF SamplePolicy, Part
          <5>2. records[q.record].table = "policy"
            BY <3>5, <4>1, <5>1 DEF Of
          <5> QED
            BY <4>1, <4>3, <4>6, <5>2
        <4>7. RowsThere(q, k) = {} \/ Section(q).kind = "create"
          BY <3>3, <4>1, <4>2 DEF LoneSeeder
        <4>8. FitsIn(Section(q))
          BY <1>1, <3>1, <3>3, <3>4, SeederKnows, ProgramIsSound DEF TypeOK, Section
        <4> QED
          BY <4>4, <4>5, <4>6, <4>7, <4>8 DEF FitsIn
      <3> QED
        BY <3>2, <3>6, <3>7
    <2> QED
      BY <2>1, <2>2
  <1>2. AdminInv /\ LoneInv /\ [Next]_vars =>
          [\A r \in alone :
             requests[r].stage \in {"put", "putRow"} =>
               /\ \A p \in DOMAIN records' \ DOMAIN records :
                    Named(records'[p].table, records'[p].owner, records'[p].name) = {}
               /\ \A w \in rows' \ rows :
                    \/ records[w.record].table = "policy" /\ Section(requests[r]) = SamplePolicy
                    \/ ~\E v \in rows : v.record = w.record /\ v.key = w.key /\ v.scope = w.scope]_vars
    BY <1>1
  <1> QED
    BY <1>2, LoneInvAlways, PTL DEF Spec, LoneRestartFillsIn

(* And when it serves, every record of the seed and all its rows are       *)
(* there, whatever the containers before it had left undone.               *)
THEOREM LoneRestartsMakeGood == Spec => []LoneRestartMakesGood
  <1>1. ASSUME AdminInv, LoneInv PROVE LoneRestartMakesGood
    <2> SUFFICES ASSUME NEW r \in alone, requests[r].stage = "serve",
                        NEW i \in DOMAIN Program,
                        Program[i].table \in scene.tables \ {"ticket", "article", "rule"},
                        NEW n \in Program[i].names
                 PROVE  \E p \in Of(Program[i].table) :
                          /\ records[p].name = n
                          /\ Program[i].kind # "none" => \A k \in Keys : \E w \in rows : w.record = p /\ w.key = k
      BY DEF LoneRestartMakesGood, At
    <2>1. MadeBefore(Len(Program) + 1)
      BY <1>1 DEF LoneInv, LoneSeeder
    <2>2. i < Len(Program) + 1
      BY <1>1, ProgramIsSound DEF AdminInv, TablesAreSound, TypeOK
    <2>3. Made(i, n)
      BY <2>1, <2>2 DEF MadeBefore, Watched, Unfinished
    <2> QED
      BY <2>3 DEF Made
  <1> QED
    BY <1>1, LoneInvAlways, PTL
=============================================================================
