--------------------------- MODULE Administration ---------------------------
(***************************************************************************)
(* What administrators set up: agencies, their departments, providers and  *)
(* opening hours (agencies.service.ts), users and their roles              *)
(* (users.service.ts, auth.service.ts register), roles and their           *)
(* permissions, SLA policies and their rules, escalation matrices and      *)
(* their levels (admin.service.ts, sla.service.ts). And the seed           *)
(* (prisma/seed.ts), which every container runs before it serves           *)
(* (docker-entrypoint.sh), beside the others that are already serving.     *)
(*                                                                         *)
(* They share two habits. A record is looked for by its name and then      *)
(* written, in two statements, against a unique index where the schema has *)
(* one. And a record's rows are replaced by deleting them all and creating *)
(* the new ones: in one transaction for permissions and hours, in two      *)
(* statements of their own for rules, levels and roles.                    *)
(*                                                                         *)
(* The transactions run at the default isolation of PostgreSQL, READ       *)
(* COMMITTED: a delete sees the rows committed when it starts, waits for   *)
(* transactions that have deleted some of them, and skips what they        *)
(* deleted. What the rows and records say beyond their key is left out.    *)
(***************************************************************************)
EXTENDS Integers, Sequences, FiniteSets

CONSTANTS
  Requests,    (* requests, and containers starting, at once                *)
  Names,       (* names, codes and addresses given to records               *)
  Keys,        (* what tells a record's rows apart: a day, a level, a role  *)
  Scenes,      (* what is looked at together: see Scene                     *)
  MaxRecords   (* bound: records                                            *)

VARIABLES
  scene,     (* what is looked at; chosen at the start                      *)
  records,   (* in order of creation                                        *)
  rows,      (* the committed rows of the records                           *)
  requests,  (* per request: where its handler is and what it has read      *)
  alone,     (* the request that no other has overlapped since its start    *)
  calls,     (* requests made                                               *)
  sample     (* of the names, that of the seed's sample agency and policy     *)

vars == <<scene, records, rows, requests, alone, calls, sample>>

(* The tables that requests write, and those that only the seed writes     *)
(* here.                                                                   *)
Tables == {"agency", "department", "provider", "mapping", "user", "role", "policy", "matrix"}

SeedTables ==
  {"status", "priority", "permission", "category", "setting", "template", "model",
   "retention", "ticket", "tracking", "assignment", "escalation", "breachLog", "kbCategory",
   "article", "tag", "aiLog", "rule", "metric", "holiday", "consent"}

(* Some tables, who writes them, and how often (a bound).                  *)
Scene == [tables : SUBSET (Tables \cup SeedTables), by : SUBSET {"requests", "containers"}, calls : Nat]

ASSUME AdministrationAssumption == Scenes \subseteq Scene /\ IsFiniteSet(Names)

(* Departments and provider mappings have their names within an agency; a  *)
(* user that was onboarded with an agency is linked to it.                 *)
Owned == {"department", "mapping", "category"}

Scopes == {"all", "agency"}

(* owner is an agency's record or 0; onboarded is of agencies.             *)
Record == [table : Tables \cup SeedTables, owner : Nat, name : Names, onboarded : BOOLEAN]

(* A row belongs to the batch that a request created, of the keys "of"; a  *)
(* row of the seed, which creates each on its own, has none there.         *)
Row == [record : Nat, scope : Scopes, batch : Nat, of : SUBSET Keys, key : Keys]

Idle == [stage |-> "idle"]
Seeding == [stage : {"look", "put", "row", "putRow", "serve"}, section : Nat, names : SUBSET Names,
            name : Names, record : Nat, keys : SUBSET Keys, key : SUBSET Keys, batch : Nat,
            agencies : [Names -> Nat]]
Adding == [stage : {"add", "remove"}, record : Nat, key : Keys, batch : Nat]
Inserting == [stage : {"insert"}, table : Tables, owner : Nat, name : Names,
              scope : Scopes, keys : SUBSET Keys, batch : Nat]
Renaming == [stage : {"rename"}, record : Nat, name : Names]
Onboarding == [stage : {"email", "onboard"}, code : Names, email : Names, departments : SUBSET Names]
Saving == [stage : {"save"}, table : Tables, name : Names, found : Nat, keys : SUBSET Keys, batch : Nat]
(* A request that replaces rows; doomed are those its transaction deletes. *)
Replacement(q) ==
  /\ q.stage \in {"delete", "wait", "create"}
  /\ q = [stage |-> q.stage, record |-> q.record, scope |-> q.scope, keys |-> q.keys,
          batch |-> q.batch, tx |-> q.tx, doomed |-> q.doomed]
  /\ q.record \in DOMAIN records /\ q.scope \in Scopes /\ q.keys \in SUBSET Keys /\ q.batch \in Nat
  /\ q.doomed \in SUBSET Row /\ q.tx \in BOOLEAN

TypeOK ==
  /\ scene \in Scenes
  /\ records \in Seq(Record)
  /\ rows \in SUBSET Row
  /\ \A w \in rows : w.record \in DOMAIN records
  /\ DOMAIN requests = Requests
  /\ \A r \in Requests :
       \/ requests[r] \in {Idle} \cup Inserting \cup Renaming \cup Onboarding \cup Saving \cup Adding
       \/ requests[r] \in Seeding
       \/ Replacement(requests[r])
  /\ alone \in SUBSET Requests
  /\ calls \in Nat
  /\ sample \in SUBSET Names

Init ==
  /\ scene \in Scenes
  /\ records = <<>>
  /\ rows = {}
  /\ requests = [r \in Requests |-> Idle]
  /\ alone = {}
  /\ calls = 0
  /\ sample \in IF "containers" \in scene.by THEN {{n} : n \in Names} ELSE {{}}

(* A definition named <Name>_<Change> is <Name> with a plausible mistake   *)
(* in it, to be put in its place to see that the properties notice.        *)

At(r, stage) == requests[r].stage = stage
Answer(r) == requests' = [requests EXCEPT ![r] = Idle]
Goto(r, q) == requests' = [requests EXCEPT ![r] = q]

Of(t) == {p \in DOMAIN records : records[p].table = t}

(* The records of a table that have a name, within an agency if owned.     *)
Named(t, o, n) == {p \in Of(t) : records[p].name = n /\ (t \in Owned => records[p].owner = o)}

(* Escalation matrices and what the seed derives from tickets have no      *)
(* unique index; templates, articles and tags have one that the seed's     *)
(* escape, as they belong to no agency and in SQL no two NULLs are equal.  *)
Unindexed == {"matrix", "template", "kbCategory", "article", "tag", "assignment",
              "escalation", "breachLog", "aiLog"}

(* What the unique indexes refuse for record p, new (0) or renamed.        *)
NameRefused(p, t, o, n) == t \notin Unindexed /\ Named(t, o, n) \ {p} # {}

NewRecord(t, o, n) == [table |-> t, owner |-> o, name |-> n, onboarded |-> FALSE]

NewRows(p, scope, batch, keys) ==
  {[record |-> p, scope |-> scope, batch |-> batch, of |-> keys, key |-> k] : k \in keys}

(***************************************************************************)
(* Look for the name, then insert: refused at once if it is found.         *)
(***************************************************************************)
LookThenInsert(r, t, o, n, scope, keys) ==
  /\ t \in scene.tables /\ Named(t, o, n) = {}
  /\ Goto(r, [stage |-> "insert", table |-> t, owner |-> o, name |-> n, scope |-> scope,
              keys |-> keys, batch |-> calls'])

CreateAgency(r) == \E n \in Names : LookThenInsert(r, "agency", 0, n, "all", {})

AddDepartment(r) == \E n \in Names, o \in Of("agency") : LookThenInsert(r, "department", o, n, "all", {})

CreateServiceProvider(r) == \E n \in Names : LookThenInsert(r, "provider", 0, n, "all", {})

(* The name of a mapping is that of the provider it maps, which exists.    *)
MapServiceProvider(r) ==
  \E s \in Of("provider"), o \in Of("agency") : LookThenInsert(r, "mapping", o, records[s].name, "all", {})

CreateRole(r) == \E n \in Names : LookThenInsert(r, "role", 0, n, "all", {})

(* A user is inserted with its roles, for one agency or for all.           *)
CreateUser(r) ==
  \E n \in Names, scope \in Scopes, keys \in SUBSET Keys : LookThenInsert(r, "user", 0, n, scope, keys)

(* Citizens register with the one role CITIZEN.                            *)
Register(r) == \E n \in Names, citizen \in Keys : LookThenInsert(r, "user", 0, n, "all", {citizen})

Insert(r) ==
  LET q == requests[r]
      p == Len(records) + 1
  IN
  /\ At(r, "insert")
  /\ IF NameRefused(0, q.table, q.owner, q.name)
       THEN UNCHANGED <<records, rows>>
       ELSE /\ Len(records) < MaxRecords
            /\ records' = Append(records, NewRecord(q.table, q.owner, q.name))
            /\ rows' = rows \cup NewRows(p, q.scope, q.batch, q.keys)
  /\ Answer(r)

(***************************************************************************)
(* Look whether another has the new name, then update.                     *)
(***************************************************************************)
LookThenRename(r, t) ==
  \E p \in Of(t), n \in Names :
    /\ Named(t, records[p].owner, n) \ {p} = {}
    /\ Goto(r, [stage |-> "rename", record |-> p, name |-> n])

UpdateAgency(r) == LookThenRename(r, "agency")

UpdateDepartment(r) == LookThenRename(r, "department")

UpdateUser(r) == LookThenRename(r, "user")

(* sla.service.ts looks for no name: it leaves that to the index.          *)
CreatePolicy(r) ==
  \E t \in {"policy", "matrix"} \cap scene.tables, n \in Names :
    Goto(r, [stage |-> "insert", table |-> t, owner |-> 0, name |-> n, scope |-> "all",
             keys |-> {}, batch |-> calls'])

UpdatePolicy(r) ==
  \E p \in Of("policy"), n \in Names : Goto(r, [stage |-> "rename", record |-> p, name |-> n])

Rename(r) ==
  LET q == requests[r]
      old == records[q.record]
  IN
  /\ At(r, "rename")
  /\ records' = IF NameRefused(q.record, old.table, old.owner, q.name) THEN records
                ELSE [records EXCEPT ![q.record].name = q.name]
  /\ Answer(r)
  /\ UNCHANGED rows

(***************************************************************************)
(* onboardAgency: two looks, then the agency, its departments and its      *)
(* administrator in one transaction. The role of the administrator and the *)
(* three automation rules, which nothing refuses, are left out.            *)
(***************************************************************************)
OnboardAgency(r) ==
  \E code, email \in Names, departments \in SUBSET Names :
    /\ {"agency", "user"} \subseteq scene.tables
    /\ Named("agency", 0, code) = {}
    /\ Goto(r, [stage |-> "email", code |-> code, email |-> email, departments |-> departments])

LookForAdmin(r) ==
  /\ At(r, "email")
  /\ IF Named("user", 0, requests[r].email) # {} THEN Answer(r)
     ELSE requests' = [requests EXCEPT ![r].stage = "onboard"]
  /\ UNCHANGED <<records, rows>>

(* The records an agency is onboarded with, p being the agency's.          *)
Onboarded_OneByOne(p, q) ==
  {<<[NewRecord("agency", 0, q.code) EXCEPT !.onboarded = TRUE]>>}

Onboarded(p, q) ==
  {<<[NewRecord("agency", 0, q.code) EXCEPT !.onboarded = TRUE], NewRecord("user", p, q.email)>>
     \o [i \in DOMAIN names |-> NewRecord("department", p, names[i])]
   : names \in {s \in [1..Cardinality(q.departments) -> q.departments] :
                  \A i, j \in DOMAIN s : s[i] = s[j] => i = j}}

CompleteOnboarding(r) ==
  LET q == requests[r]
      p == Len(records) + 1
  IN
  /\ At(r, "onboard")
  /\ IF NameRefused(0, "agency", 0, q.code) \/ NameRefused(0, "user", 0, q.email)
       THEN UNCHANGED records
       ELSE \E added \in Onboarded(p, q) :
              Len(records) + Len(added) <= MaxRecords /\ records' = records \o added
  /\ Answer(r)
  /\ UNCHANGED rows

(***************************************************************************)
(* Policies and matrices: look for one, update it or create it, and        *)
(* replace its rows if some are given.                                     *)
(***************************************************************************)
StartReplacing(r, p, scope, keys, batch, tx) ==
  Goto(r, [stage |-> "delete", record |-> p, scope |-> scope, keys |-> keys, batch |-> batch,
           tx |-> tx, doomed |-> {}])

LookThenSave(r, t) ==
  \E n \in Names, keys \in SUBSET Keys :
    LET found == Named(t, 0, n) IN
    \E p \in IF found = {} THEN {0} ELSE found :
      /\ t \in scene.tables
      /\ Goto(r, [stage |-> "save", table |-> t, name |-> n, found |-> p, keys |-> keys, batch |-> calls'])

UpdateSlaPolicy(r) == LookThenSave(r, "policy")

UpdateEscalationPolicy(r) == LookThenSave(r, "matrix")

(* The record whose rows are replaced: the one found or the one created.   *)
SavedRecord(q) == IF q.found = 0 THEN Len(records) + 1 ELSE q.found

Save(r) ==
  LET q == requests[r]
      create == q.found = 0
      refused == create /\ NameRefused(0, q.table, 0, q.name)
  IN
  /\ At(r, "save")
  /\ create /\ ~refused => Len(records) < MaxRecords
  /\ records' = IF create /\ ~refused THEN Append(records, NewRecord(q.table, 0, q.name)) ELSE records
  /\ IF refused \/ q.keys = {} THEN Answer(r) ELSE StartReplacing(r, SavedRecord(q), "all", q.keys, q.batch, FALSE)
  /\ UNCHANGED rows

(***************************************************************************)
(* The rows of a record that exists are replaced.                          *)
(***************************************************************************)
SetRolePermissions(r) ==
  \E p \in Of("role"), keys \in SUBSET Keys : StartReplacing(r, p, "all", keys, calls', TRUE)

SetBusinessHours(r) ==
  \E p \in Of("agency"), keys \in SUBSET Keys : StartReplacing(r, p, "all", keys, calls', TRUE)

SetEscalationLevels(r) ==
  \E p \in Of("matrix"), keys \in SUBSET Keys : StartReplacing(r, p, "all", keys, calls', TRUE)

(* Roles are assigned for one agency or for all.                           *)
AssignRoles(r) ==
  \E p \in Of("user"), keys \in SUBSET Keys, scope \in Scopes : StartReplacing(r, p, scope, keys, calls', FALSE)

InTransaction_Never(q) == FALSE

InTransaction(q) == q.tx

(* The rows that deleteMany selects.                                       *)
Selected_OwnScope(q) == {w \in rows : w.record = q.record /\ w.scope = q.scope}

Selected(q) == {w \in rows : w.record = q.record /\ (q.scope = "agency" => w.scope = "agency")}

(* A delete of its own takes effect at once; one in a transaction selects  *)
(* its rows,                                                               *)
DeleteRows(r) ==
  LET q == requests[r] IN
  /\ At(r, "delete")
  /\ IF InTransaction(q)
       THEN /\ requests' = [requests EXCEPT ![r].stage = "wait", ![r].doomed = Selected(q)]
            /\ UNCHANGED rows
       ELSE /\ rows' = rows \ Selected(q)
            /\ requests' = [requests EXCEPT ![r].stage = "create"]
  /\ UNCHANGED records

(* waits for the transactions that hold some of them, and deletes those    *)
(* that are still there.                                                   *)
LockRows(r) ==
  LET doomed == requests[r].doomed IN
  /\ At(r, "wait")
  /\ \A o \in Requests \ {r} : At(o, "create") => requests[o].doomed \cap doomed = {}
  /\ requests' = [requests EXCEPT ![r].stage = "create", ![r].doomed = doomed \cap rows]
  /\ UNCHANGED <<records, rows>>

(* Where an index allows each key once. A role without an agency is not    *)
(* compared: in SQL no two NULLs are equal.                                *)
KeyedOnce(t, scope) == t \in {"matrix", "role", "agency"} \/ (t = "user" /\ scope = "agency")

KeyRefused(q, w) ==
  /\ KeyedOnce(records[q.record].table, q.scope)
  /\ w.record = q.record /\ w.scope = q.scope /\ w.key \in q.keys

(* The rows once the batch of q is created and, in a transaction, all of   *)
(* it is committed: if a key is refused nothing is.                        *)
Created(q) ==
  LET kept == rows \ q.doomed IN
  IF \E w \in kept : KeyRefused(q, w) THEN rows
  ELSE kept \cup NewRows(q.record, q.scope, q.batch, q.keys)

CreateRows(r) ==
  /\ At(r, "create")
  /\ rows' = Created(requests[r])
  /\ Answer(r)
  /\ UNCHANGED records

(***************************************************************************)
(* One rule of a policy.                                                   *)
(***************************************************************************)
AddRule(r) ==
  \E p \in Of("policy"), k \in Keys :
    Goto(r, [stage |-> "add", record |-> p, key |-> k, batch |-> calls'])

(* A rule is found first; batch is that of the rule.                       *)
DeleteRule(r) ==
  \E w \in rows :
    /\ records[w.record].table = "policy"
    /\ Goto(r, [stage |-> "remove", record |-> w.record, key |-> w.key, batch |-> w.batch])

CommitRule(r) ==
  LET q == requests[r]
      siblings == {w \in rows : w.record = q.record /\ w.batch = q.batch}
  IN
  /\ \/ /\ At(r, "add")
        /\ rows' = rows \cup NewRows(q.record, "all", q.batch, {q.key})
     \/ /\ At(r, "remove")
        /\ rows' = (rows \ siblings) \cup
                     {[w EXCEPT !.of = @ \ {q.key}] : w \in {v \in siblings : v.key # q.key}}
  /\ Answer(r)
  /\ UNCHANGED records

(***************************************************************************)
(* The seed: sections one after the other, in each a record for each of    *)
(* its names, and the record's rows. How it looks for a record:            *)
(*   upsert  prisma's upsert, on a unique index                            *)
(*   find    findFirst, then create                                        *)
(*   whole   the same, and one that is found is left as it is, with what   *)
(*           rows it has                                                   *)
(*   named   findUnique of a record that another section creates           *)
(* and its rows: upsert, find, findAny (whatever the scope), create        *)
(* (without looking) or none.                                              *)
(***************************************************************************)
Part(names, table, look, kind, scope) ==
  [names |-> names, table |-> table, look |-> look, kind |-> kind, scope |-> scope]

Plain(table, look) == Part(Names, table, look, "none", "all")

Statuses            == Plain("status", "upsert")
Priorities          == Plain("priority", "upsert")
Roles               == Plain("role", "upsert")
Permissions         == Plain("permission", "upsert")
RolePermissions     == Part(Names, "role", "named", "upsert", "all")
SuperAdmin          == Part(sample, "user", "upsert", "find", "all")
SampleAgency        == Part(sample, "agency", "upsert", "none", "all")
SampleDepartments   == Part(sample, "department", "upsert", "none", "all")
SampleCategories    == Part(sample, "category", "upsert", "none", "all")
SamplePolicy        == Part(sample, "policy", "upsert", "create", "all")
CoreAgencies        == Part(Names \ sample, "agency", "upsert", "none", "all")
CoreCategories      == Part(Names \ sample, "category", "upsert", "none", "all")
CoreDepartments     == Part(Names \ sample, "department", "upsert", "none", "all")

CorePolicies_NotLooked == Part(Names \ sample, "policy", "upsert", "create", "all")

CorePolicies_PolicyIsEnough == Part(Names \ sample, "policy", "whole", "create", "all")

CorePolicies        == Part(Names \ sample, "policy", "upsert", "find", "all")
BusinessHours       == Part(Names, "agency", "named", "upsert", "all")
Settings            == Plain("setting", "upsert")
Agents              == Part(Names \ sample, "user", "upsert", "find", "agency")
ServiceProviders    == Plain("provider", "upsert")
ServiceMappings     == Plain("mapping", "find")
EscalationMatrices  == Part(Names, "matrix", "find", "find", "all")
Citizen             == Part(sample, "user", "upsert", "find", "all")
Agent               == Part(Names \ sample, "user", "upsert", "findAny", "agency")
Templates           == Plain("template", "find")
AiModel             == Plain("model", "upsert")
RetentionPolicies   == Plain("retention", "upsert")
SampleTickets       == Part(Names, "ticket", "whole", "create", "all")
Staff               == Part(Names, "user", "upsert", "find", "all")
KbCategories        == Plain("kbCategory", "find")
KbArticles          == Part(Names, "article", "whole", "create", "all")
TicketTags          == Plain("tag", "find")
SlaTrackings        == Plain("tracking", "find")
TicketAssignments   == Plain("assignment", "find")
EscalationEvents    == Plain("escalation", "find")
BreachLogs          == Plain("breachLog", "find")
ClassificationLogs  == Plain("aiLog", "find")
AutomationRules     == Part(Names, "rule", "whole", "create", "all")
Metrics             == Plain("metric", "upsert")
Holidays            == Plain("holiday", "upsert")
ConsentVersions     == Plain("consent", "upsert")

Program ==
  <<Statuses, Priorities, Roles, Permissions, RolePermissions, SuperAdmin, SampleAgency,
    SampleDepartments, SampleCategories, SamplePolicy, CoreAgencies, CoreCategories,
    CoreDepartments, CorePolicies, BusinessHours, Settings, Agents, ServiceProviders,
    ServiceMappings, EscalationMatrices, Citizen, Agent, Templates, AiModel,
    RetentionPolicies, SampleTickets, Staff, KbCategories, KbArticles, TicketTags, SlaTrackings,
    TicketAssignments, EscalationEvents, BreachLogs, ClassificationLogs, AutomationRules, Metrics,
    Holidays, ConsentVersions>>

(* The next section that writes a table looked at, with its names to do;   *)
(* after the last the container serves.                                    *)
NextSection(q) ==
  LET later == {i \in (q.section + 1)..Len(Program) : Program[i].table \in scene.tables /\ Program[i].names # {}}
      next  == CHOOSE i \in later : \A j \in later : i <= j
  IN IF later = {} THEN [q EXCEPT !.stage = "serve"]
     ELSE [q EXCEPT !.stage = "look", !.section = next, !.names = Program[next].names]

NextName(q) == IF q.names # {} THEN [q EXCEPT !.stage = "look"] ELSE NextSection(q)

NextKey(q) ==
  LET left == q.keys \ q.key
      on   == [q EXCEPT !.keys = left, !.key = {}]
  IN IF left # {} THEN [on EXCEPT !.stage = "row"] ELSE NextName(on)

Section(q) == Program[q.section]

(* The record of this name is there, at p: on to its rows. The seed keeps  *)
(* the agencies' identifiers.                                              *)
WithRecord(q, p) ==
  LET on == IF Section(q).table = "agency" THEN [q EXCEPT !.agencies[q.name] = p] ELSE q
  IN IF Section(q).kind = "none" THEN NextName(on)
     ELSE [on EXCEPT !.stage = "row", !.record = p, !.keys = Keys]

StartContainer(r) ==
  /\ "containers" \in scene.by
  /\ \E n \in sample :
       Goto(r, NextSection([stage |-> "look", section |-> 0, names |-> {}, name |-> n,
                            record |-> 0, keys |-> {}, key |-> {}, batch |-> calls',
                            agencies |-> [o \in Names |-> 0]]))

OwnerIn(q) == IF Section(q).table \in Owned THEN q.agencies[q.name] ELSE 0

LookForRecord(r) ==
  LET q == requests[r] IN
  /\ At(r, "look")
  /\ \E n \in q.names :
       LET on    == [q EXCEPT !.names = @ \ {n}, !.name = n]
           found == Named(Section(q).table, OwnerIn(on), n)
       IN
       \/ /\ found = {}
          /\ Goto(r, IF Section(q).look = "named" THEN NextName(on) ELSE [on EXCEPT !.stage = "put"])
       \/ \E p \in found :
            Goto(r, IF Section(q).look = "whole" THEN NextName(on) ELSE WithRecord(on, p))
  /\ UNCHANGED <<records, rows>>

(* If the index refuses it, an upsert may turn to the record that is there *)
(* after all (where the database does the upsert) or, like any create,     *)
(* fail. A failure ends the seed and the container serves nevertheless.    *)
PutRecord(r) ==
  LET q == requests[r]
      t == Section(q).table
      o == OwnerIn(q)
  IN
  /\ At(r, "put")
  /\ IF NameRefused(0, t, o, q.name)
       THEN /\ UNCHANGED records
            /\ \/ Answer(r)
               \/ /\ Section(q).look = "upsert"
                  /\ \E p \in Named(t, o, q.name) : Goto(r, WithRecord(q, p))
       ELSE /\ records' = Append(records, NewRecord(t, o, q.name))
            /\ Goto(r, WithRecord(q, Len(records) + 1))
  /\ UNCHANGED rows

RowsThere(q, k) ==
  {w \in rows : w.record = q.record /\ w.key = k /\ (w.scope = Section(q).scope \/ Section(q).kind = "findAny")}

LookForRow(r) ==
  LET q == requests[r] IN
  /\ At(r, "row")
  /\ \E k \in q.keys :
       LET on == [q EXCEPT !.key = {k}] IN
       Goto(r, IF RowsThere(q, k) = {} \/ Section(q).kind = "create" THEN [on EXCEPT !.stage = "putRow"]
               ELSE NextKey(on))
  /\ UNCHANGED <<records, rows>>

PutRow(r) ==
  LET q == requests[r]
      new(k) == [record |-> q.record, scope |-> Section(q).scope, batch |-> q.batch, of |-> {}, key |-> k]
  IN
  /\ At(r, "putRow")
  /\ \E k \in q.key :
       IF KeyedOnce(Section(q).table, Section(q).scope) /\ RowsThere(q, k) # {}
         THEN /\ UNCHANGED rows
              /\ Answer(r) \/ (Section(q).kind = "upsert" /\ Goto(r, NextKey(q)))
         ELSE /\ rows' = rows \cup {new(k)}
              /\ Goto(r, NextKey(q))
  /\ UNCHANGED records

Serve(r) == At(r, "serve") /\ Answer(r) /\ UNCHANGED <<records, rows>>

Seed(r) == LookForRecord(r) \/ PutRecord(r) \/ LookForRow(r) \/ PutRow(r) \/ Serve(r)

(***************************************************************************)
(* All together.                                                           *)
(***************************************************************************)

(* A request dies between two statements; its transaction is rolled back.  *)
Fail(r) ==
  /\ ~At(r, "idle")
  /\ Answer(r)
  /\ UNCHANGED <<scene, records, rows, alone, calls, sample>>

Request(r) ==
  /\ "requests" \in scene.by
  /\ \/ CreateAgency(r) \/ UpdateAgency(r) \/ OnboardAgency(r) \/ SetBusinessHours(r)
     \/ AddDepartment(r) \/ UpdateDepartment(r)
     \/ CreateServiceProvider(r) \/ MapServiceProvider(r)
     \/ CreateUser(r) \/ Register(r) \/ UpdateUser(r) \/ AssignRoles(r)
     \/ CreateRole(r) \/ SetRolePermissions(r)
     \/ UpdateSlaPolicy(r) \/ UpdateEscalationPolicy(r)
     \/ CreatePolicy(r) \/ UpdatePolicy(r) \/ AddRule(r) \/ DeleteRule(r) \/ SetEscalationLevels(r)

Call(r) ==
  /\ At(r, "idle") /\ calls < scene.calls
  /\ calls' = calls + 1
  /\ alone' = IF \A o \in Requests : At(o, "idle") THEN {r} ELSE {}
  /\ \/ Request(r)
     \/ StartContainer(r)
  /\ UNCHANGED <<scene, records, rows, sample>>

Step(r) ==
  /\ Insert(r) \/ Rename(r) \/ LookForAdmin(r) \/ CompleteOnboarding(r) \/ Save(r)
       \/ DeleteRows(r) \/ LockRows(r) \/ CreateRows(r) \/ CommitRule(r) \/ Seed(r)
  /\ UNCHANGED <<scene, alone, calls, sample>>

Next == \E r \in Requests : Call(r) \/ Step(r) \/ Fail(r)

Spec == Init /\ [][Next]_vars

(***************************************************************************)
(* Properties.                                                             *)
(***************************************************************************)

(* No two records of a table have one name (within an agency where that is *)
(* what the index says), though two requests may both have found it free.  *)
(* Of a few tables there may be two: of matrices for an agency and         *)
(* priority, of the seed's templates and articles.                         *)
NamesAreUnique ==
  \A p, o \in DOMAIN records :
    /\ records[p].table = records[o].table /\ records[p].name = records[o].name
    /\ records[p].table \in Owned => records[p].owner = records[o].owner
    => p = o \/ records[p].table \in Unindexed

(* An agency that was onboarded has its administrator: an agency is not    *)
(* left behind when the address turns out to be taken.                     *)
OnboardedWithAdmin ==
  \A p \in Of("agency") : records[p].onboarded <=> \E u \in Of("user") : records[u].owner = p

(* Readers never see a part of what one request set: not half the rules of *)
(* a policy, nor half an agency's week.                                    *)
BatchesAreWhole ==
  \A w \in rows : w.of # {} => {v.key : v \in {u \in rows : u.record = w.record /\ u.batch = w.batch}} = w.of

(* No two requests together give a record two rows for one key, where an   *)
(* index says so: two levels of one number, a day with two opening hours.  *)
KeysAreUnique ==
  \A v, w \in rows :
    /\ v.record = w.record /\ v.scope = w.scope /\ v.key = w.key
    /\ KeyedOnce(records[v.record].table, v.scope)
    => v = w

RowsOf(p) == {w \in rows : w.record = p}

(* A role that has permissions and an agency that has hours keep some      *)
(* until a request that sets none completes: who reads them while they are *)
(* being replaced finds the old or the new ones, never nothing. (Rules,    *)
(* levels and users' roles are gone between the two statements.)           *)
ReplacedWithoutGap ==
  [][\A p \in DOMAIN records :
       records[p].table \in {"role", "agency"} /\ RowsOf(p) # {} /\ RowsOf(p)' = {}
         => \E r \in Requests : /\ requests[r].stage = "create" /\ requests'[r] = Idle
                                /\ requests[r].record = p /\ requests[r].keys = {}]_vars

(* A replacement that no other request overlapped leaves its rows and none *)
(* else in its scope, whatever failed or overlapping ones left before.     *)
LoneReplacementIsExact ==
  [][\A r \in alone :
       LET q == requests[r] IN
       q.stage = "create" /\ (\E w \in rows' : w.batch = q.batch)
         => {w \in rows' : w.record = q.record /\ (q.scope = "agency" => w.scope = "agency")}
              = NewRows(q.record, q.scope, q.batch, q.keys)]_vars

(* "Set permissions for a role (replaces all existing permissions)": one   *)
(* request's permissions at a time. It fails: of two that overlap, the     *)
(* second does not see the rows of the first and leaves them.              *)
PermissionsAreOfOneRequest ==
  \A v, w \in rows :
    v.record = w.record /\ records[v.record].table = "role" => v.batch = w.batch

(* A container that starts while nothing else is under way only fills in   *)
(* what is missing, however the ones before it ended: it makes no second   *)
(* record and no second row. (But for the rules of the sample policy,      *)
(* which every container creates again.)                                   *)
LoneRestartFillsIn ==
  [][\A r \in alone :
       requests[r].stage \in {"put", "putRow"} =>
         /\ \A p \in DOMAIN records' \ DOMAIN records :
              Named(records'[p].table, records'[p].owner, records'[p].name) = {}
         /\ \A w \in rows' \ rows :
              \/ records[w.record].table = "policy" /\ Section(requests[r]) = SamplePolicy
              \/ ~\E v \in rows : v.record = w.record /\ v.key = w.key /\ v.scope = w.scope]_vars

(* When it serves, every record of the seed and all rows of each are       *)
(* there, whatever a container that died in the middle had left out. (But  *)
(* for what is guarded by its parent: a sample ticket, an article or an    *)
(* automation rule whose container died stays without the rest for good.)  *)
LoneRestartMakesGood ==
  \A r \in alone :
    At(r, "serve") =>
      \A i \in DOMAIN Program :
        LET part == Program[i] IN
        part.table \in scene.tables \ {"ticket", "article", "rule"} =>
          \A n \in part.names :
            \E p \in Of(part.table) :
              /\ records[p].name = n
              /\ part.kind # "none" => \A k \in Keys : \E w \in rows : w.record = p /\ w.key = k

(* What holds of the tables at every moment, whatever requests, seeds and  *)
(* deaths came before.                                                     *)
TablesAreSound ==
  TypeOK /\ NamesAreUnique /\ KeysAreUnique /\ OnboardedWithAdmin /\ BatchesAreWhole
=============================================================================
