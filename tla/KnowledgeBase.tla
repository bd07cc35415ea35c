---------------------------- MODULE KnowledgeBase ---------------------------
(***************************************************************************)
(* The articles of the knowledge base (knowledge-base.service.ts): their   *)
(* slugs, their versions and what of them is published.                    *)
(*                                                                         *)
(* Two things are computed from queries that run before the transaction    *)
(* that uses them, the slug (ensureUniqueSlug) and the number of the next  *)
(* version; unique indexes refuse what is taken by then. An index on       *)
(* (agency, slug) does not see articles without an agency: in SQL no two   *)
(* NULLs are equal.                                                        *)
(*                                                                         *)
(* Content, tags, categories, feedback and views are left out: no decision *)
(* depends on them.                                                        *)
(***************************************************************************)
EXTENDS Integers, Sequences, FiniteSets

CONSTANTS
  Requests,    (* requests that may be handled at once                      *)
  Agencies,    (* agencies that write articles                              *)
  NoAgency,    (* of an article that belongs to none                        *)
  Titles,      (* titles authors give                                       *)
  SlugOf,      (* generateSlug: a title's slug, a sequence of words         *)
  MaxArticles, (* bound: articles created                                   *)
  MaxVersions, (* bound: versions of an article                             *)
  MaxCalls     (* bound: requests made                                      *)

ASSUME KnowledgeBaseAssumption ==
  /\ NoAgency \notin Agencies
  /\ SlugOf \in [Titles -> Seq(Nat)]
  /\ {MaxArticles, MaxVersions, MaxCalls} \subseteq Nat

VARIABLES
  articles,  (* in order of creation                                        *)
  requests,  (* per request: where its handler is and what it has read      *)
  calls      (* requests made                                               *)

vars == <<articles, requests, calls>>

Owners == Agencies \cup {NoAgency}

(* A slug is a sequence of words and counters, both written as numbers.    *)
Slugs == Seq(Nat)

(* Versions are rows (number, isPublished); current is the number of the   *)
(* version that currentVersionId points to.                                *)
Version == [number : Nat, published : BOOLEAN]
Article == [agency : Owners, slug : Slugs, versions : SUBSET Version, current : Nat,
            published : BOOLEAN]

Idle == [stage |-> "idle"]
Slugging == [stage : {"slug", "write"}, article : Nat, agency : Owners, title : Titles, tries : Nat]
Versioning == [stage : {"version", "publish"}, article : Nat, number : Nat]

TypeOK ==
  /\ articles \in Seq(Article)
  /\ requests \in [Requests -> {Idle} \cup Slugging \cup Versioning]
  /\ \A r \in Requests : requests[r] # Idle => requests[r].article \in 0..Len(articles)
  /\ calls \in Nat

Init ==
  /\ articles = <<>>
  /\ requests = [r \in Requests |-> Idle]
  /\ calls = 0

(* A definition named <Name>_<Change> is <Name> with a plausible mistake   *)
(* in it, to be put in its place to see that the properties notice.        *)

At(r, stage) == requests[r].stage = stage
Answer(r) == requests' = [requests EXCEPT ![r] = Idle]

Numbers(a) == {v.number : v \in articles[a].versions}

(* The version that "orderBy versionNumber desc, take 1" finds, or 0.      *)
LatestNumber(a) == IF Numbers(a) = {} THEN 0
                   ELSE CHOOSE n \in Numbers(a) : \A m \in Numbers(a) : m <= n

(***************************************************************************)
(* Slugs: of a new article (article 0) or of one that gets a new title.    *)
(***************************************************************************)

(* The candidate: the title's slug, then "-1", "-2", ... appended.         *)
Candidate(q) == IF q.tries = 0 THEN SlugOf[q.title] ELSE Append(SlugOf[q.title], q.tries)

Taken(agency, slug) == \E a \in DOMAIN articles : articles[a].agency = agency /\ articles[a].slug = slug

CreateArticle(r) ==
  /\ At(r, "idle") /\ Len(articles) < MaxArticles
  /\ \E o \in Owners, t \in Titles :
       requests' = [requests EXCEPT ![r] =
         [stage |-> "slug", article |-> 0, agency |-> o, title |-> t, tries |-> 0]]
  /\ UNCHANGED articles

(* updateArticle with a title, perhaps the one it has.                     *)
UpdateArticle(r, a) ==
  /\ At(r, "idle")
  /\ \E t \in Titles :
       requests' = [requests EXCEPT ![r] =
         [stage |-> "slug", article |-> a, agency |-> articles[a].agency, title |-> t, tries |-> 0]]
  /\ UNCHANGED articles

(* One turn of the loop of ensureUniqueSlug. The article's own slug counts *)
(* as taken.                                                               *)
TrySlug(r) ==
  LET q == requests[r] IN
  /\ At(r, "slug")
  /\ requests' = IF Taken(q.agency, Candidate(q))
                   THEN [requests EXCEPT ![r].tries = @ + 1]
                   ELSE [requests EXCEPT ![r].stage = "write"]
  /\ UNCHANGED <<articles, calls>>

(* What the index uq_kb_slug refuses.                                      *)
SlugRefused(agency, slug, a) ==
  /\ agency # NoAgency
  /\ \E b \in DOMAIN articles \ {a} : articles[b].agency = agency /\ articles[b].slug = slug

NewArticle(agency, slug) ==
  [agency |-> agency, slug |-> slug, versions |-> {[number |-> 1, published |-> FALSE]},
   current |-> 1, published |-> FALSE]

(* The transaction, refused by the index or not.                           *)
WriteArticle(r) ==
  LET q == requests[r]
      slug == Candidate(q)
  IN
  /\ At(r, "write")
  /\ \/ /\ SlugRefused(q.agency, slug, q.article)
        /\ UNCHANGED articles
     \/ /\ ~SlugRefused(q.agency, slug, q.article)
        /\ articles' = IF q.article = 0
                         THEN Append(articles, NewArticle(q.agency, slug))
                         ELSE [articles EXCEPT ![q.article].slug = slug]
  /\ Answer(r)
  /\ UNCHANGED calls

(***************************************************************************)
(* Versions.                                                               *)
(***************************************************************************)

(* addArticleVersion reads the latest number and computes the next.        *)
AddArticleVersion(r, a) ==
  /\ At(r, "idle") /\ LatestNumber(a) < MaxVersions
  /\ requests' = [requests EXCEPT ![r] =
       [stage |-> "version", article |-> a, number |-> LatestNumber(a) + 1]]
  /\ UNCHANGED articles

(* What the index uq_article_version refuses.                              *)
VersionRefused_Never(a, n) == FALSE

VersionRefused(a, n) == n \in Numbers(a)

InsertVersion(r) ==
  LET a == requests[r].article
      n == requests[r].number
  IN
  /\ At(r, "version")
  /\ articles' = IF VersionRefused(a, n) THEN articles
                 ELSE [articles EXCEPT ![a].versions = @ \cup {[number |-> n, published |-> FALSE]},
                                       ![a].current = n]
  /\ Answer(r)
  /\ UNCHANGED calls

(***************************************************************************)
(* publishArticle reads the latest version, then marks it and the article. *)
(***************************************************************************)
PublishArticle(r, a) ==
  /\ At(r, "idle")
  /\ requests' = [requests EXCEPT ![r] =
       [stage |-> "publish", article |-> a, number |-> LatestNumber(a)]]
  /\ UNCHANGED articles

(* The versions of a once n is marked.                                     *)
Published_Only(a, n) ==
  {[v EXCEPT !.published = (v.number = n)] : v \in articles[a].versions}

Published(a, n) ==
  {[v EXCEPT !.published = @ \/ v.number = n] : v \in articles[a].versions}

MarkPublished(r) ==
  LET a == requests[r].article IN
  /\ At(r, "publish")
  /\ articles' = [articles EXCEPT ![a].versions = Published(a, requests[r].number),
                                  ![a].published = TRUE]
  /\ Answer(r)
  /\ UNCHANGED calls

(* A request dies between its reads and its transaction.                   *)
Fail(r) ==
  /\ ~At(r, "idle")
  /\ Answer(r)
  /\ UNCHANGED <<articles, calls>>

Call(r) ==
  /\ calls < MaxCalls /\ calls' = calls + 1
  /\ \/ CreateArticle(r)
     \/ \E a \in DOMAIN articles : UpdateArticle(r, a) \/ AddArticleVersion(r, a) \/ PublishArticle(r, a)

Step(r) == TrySlug(r) \/ WriteArticle(r) \/ InsertVersion(r) \/ MarkPublished(r)

Next == \E r \in Requests : Call(r) \/ Step(r) \/ Fail(r)

Spec == Init /\ [][Next]_vars

(***************************************************************************)
(* Properties.                                                             *)
(***************************************************************************)

(* An article's versions are numbered from 1 without a gap and the article *)
(* points to the last, however many authors add versions at once.          *)
VersionsAreSequential ==
  \A a \in DOMAIN articles :
    /\ Numbers(a) = 1..Cardinality(articles[a].versions)
    /\ articles[a].current = LatestNumber(a)

(* Within an agency a slug names one article, though two requests may have *)
(* found the same one free.                                                *)
SlugsAreUnique ==
  \A a, b \in DOMAIN articles :
    articles[a].agency = articles[b].agency /\ articles[a].slug = articles[b].slug
      => a = b \/ articles[a].agency = NoAgency

(* The version that readers are shown: getArticles takes the highest       *)
(* published one.                                                          *)
Shown(a) ==
  LET marked == {v.number : v \in {w \in articles[a].versions : w.published}}
  IN  IF marked = {} THEN 0 ELSE CHOOSE n \in marked : \A m \in marked : m <= n

(* A published article has something to show.                              *)
PublishedIsShown == \A a \in DOMAIN articles : articles[a].published <=> Shown(a) # 0

(* All of them: an article is at every moment what the completed requests  *)
(* of its authors made of it, whoever overlapped and whatever died.        *)
ArticlesAreSound ==
  TypeOK /\ VersionsAreSequential /\ SlugsAreUnique /\ PublishedIsShown

(* What readers are shown never goes back to an older version, even when a *)
(* publication was asked for before a newer version came.                  *)
ShownNeverGoesBack == [][\A a \in DOMAIN articles : Shown(a)' >= Shown(a)]_vars

(* "Only one published version per article". It fails: publishing leaves   *)
(* the versions published before as they are.                              *)
OnePublishedVersion ==
  \A a \in DOMAIN articles : Cardinality({v \in articles[a].versions : v.published}) <= 1
=============================================================================
