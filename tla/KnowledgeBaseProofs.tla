------------------------- MODULE KnowledgeBaseProofs ------------------------
(***************************************************************************)
(* Theorems of KnowledgeBase, for any number of overlapping authors, any   *)
(* agencies, titles and slugs.                                             *)
(***************************************************************************)
EXTENDS KnowledgeBase, FiniteSetTheorems, FunctionTheorems, TLAPS

(***************************************************************************)
(* One article.                                                            *)
(***************************************************************************)

(* The numbers of an article's versions, and of those that are published.  *)
NumbersOf(x) == {v.number : v \in x.versions}
MarkedOf(x)  == {v.number : v \in {w \in x.versions : w.published}}

(* The versions are numbered 1 to their count, once each, the article      *)
(* points to the last, and it is published iff one of them is. (The last   *)
(* conjunct spares an induction: a set of numbers that grows one by one    *)
(* always has a greatest.)                                                 *)
Sound(x) ==
  /\ x \in Article
  /\ IsFiniteSet(x.versions) /\ Cardinality(x.versions) \in Nat \ {0}
  /\ \A v, w \in x.versions : v.number = w.number => v = w
  /\ NumbersOf(x) = 1..Cardinality(x.versions)
  /\ x.current = Cardinality(x.versions)
  /\ x.published <=> MarkedOf(x) # {}
  /\ MarkedOf(x) # {} => \E m \in MarkedOf(x) : \A k \in MarkedOf(x) : k <= m

(* createArticle writes a sound article ...                                *)
LEMMA NewArticleIsSound ==
  ASSUME NEW agency \in Owners, NEW slug \in Slugs
  PROVE  Sound(NewArticle(agency, slug))
  <1> DEFINE v == [number |-> 1, published |-> FALSE]
             x == NewArticle(agency, slug)
  <1>1. x.versions = {v} /\ x.current = 1 /\ x.published = FALSE
    BY DEF NewArticle
  <1>2. x \in Article
    <2>1. v \in Version
      BY DEF Version
    <2> QED
      BY <2>1 DEF NewArticle, Article
  <1>3. IsFiniteSet({v}) /\ Cardinality({v}) = 1
    BY FS_Singleton
  <1>4. NumbersOf(x) = {1} /\ MarkedOf(x) = {}
    BY <1>1 DEF NumbersOf, MarkedOf
  <1>5. 1..1 = {1}
    OBVIOUS
  <1> QED
    BY <1>1, <1>2, <1>3, <1>4, <1>5 DEF Sound

(* ... updateArticle keeps it sound under another slug ...                 *)
LEMMA RenamedIsSound ==
  ASSUME NEW x, Sound(x), NEW slug \in Slugs
  PROVE  Sound([x EXCEPT !.slug = slug])
  <1> DEFINE y == [x EXCEPT !.slug = slug]
  <1>1. /\ y \in Article /\ y.versions = x.versions /\ y.current = x.current
        /\ y.published = x.published
    BY DEF Sound, Article
  <1> HIDE DEF y
  <1>2. NumbersOf(y) = NumbersOf(x) /\ MarkedOf(y) = MarkedOf(x)
    BY <1>1 DEF NumbersOf, MarkedOf
  <1> QED
    BY <1>1, <1>2 DEF Sound, y

(* ... a version added with a number that follows one there is, and that   *)
(* no other has, is the next ...                                           *)
LEMMA NextNumber ==
  ASSUME NEW x, Sound(x), NEW n \in Nat \ {0}, n \notin NumbersOf(x),
         n - 1 \in NumbersOf(x) \cup {0}
  PROVE  n = Cardinality(x.versions) + 1
  BY DEF Sound

LEMMA ExtendedIsSound ==
  ASSUME NEW x, Sound(x), NEW n \in Nat \ {0}, n \notin NumbersOf(x),
         n - 1 \in NumbersOf(x) \cup {0}
  PROVE  Sound([x EXCEPT !.versions = @ \cup {[number |-> n, published |-> FALSE]},
                         !.current = n])
  <1> DEFINE v == [number |-> n, published |-> FALSE]
             y == [x EXCEPT !.versions = @ \cup {v}, !.current = n]
             c == Cardinality(x.versions)
  <1>1. /\ x \in Article /\ IsFiniteSet(x.versions) /\ c \in Nat \ {0}
        /\ \A u, w \in x.versions : u.number = w.number => u = w
        /\ NumbersOf(x) = 1..c
    BY DEF Sound
  <1>2. v \in Version /\ v.number = n /\ v.published = FALSE
    BY DEF Version
  <1>3. v \notin x.versions /\ \A u \in x.versions : u.number # n
    BY <1>2 DEF NumbersOf
  <1>4. n = c + 1
    BY NextNumber
  <1> HIDE DEF v
  <1>5. /\ y.versions = x.versions \cup {v} /\ y.current = n
        /\ y.published = x.published /\ y \in Article
    BY <1>1, <1>2 DEF Article
  <1> HIDE DEF y, c
  <1>6. IsFiniteSet(y.versions) /\ Cardinality(y.versions) = c + 1
    BY <1>1, <1>3, <1>5, FS_AddElement DEF c
  <1>7. \A u, w \in y.versions : u.number = w.number => u = w
    BY <1>1, <1>2, <1>3, <1>5
  <1>8. NumbersOf(y) = 1..(c + 1)
    <2>1. NumbersOf(y) = NumbersOf(x) \cup {n}
      BY <1>2, <1>5 DEF NumbersOf
    <2> QED
      BY <1>1, <1>4, <2>1
  <1>9. MarkedOf(y) = MarkedOf(x)
    BY <1>2, <1>5 DEF MarkedOf
  <1>10. /\ x.published <=> MarkedOf(x) # {}
         /\ MarkedOf(x) # {} => \E m \in MarkedOf(x) : \A k \in MarkedOf(x) : k <= m
    BY DEF Sound
  <1>11. y.current = Cardinality(y.versions) /\ Cardinality(y.versions) \in Nat \ {0}
    BY <1>1, <1>4, <1>5, <1>6
  <1>12. Sound(y)
    BY <1>5, <1>6, <1>7, <1>8, <1>9, <1>10, <1>11 DEF Sound
  <1> QED
    BY <1>12 DEF y, v
(* ... and publishArticle leaves it sound, whichever of its versions it    *)
(* marks.                                                                  *)
LEMMA PublishedIsSound ==
  ASSUME NEW x, Sound(x), NEW n \in NumbersOf(x)
  PROVE  LET y == [x EXCEPT
                     !.versions = {[v EXCEPT !.published = @ \/ v.number = n] : v \in x.versions},
                     !.published = TRUE]
         IN  Sound(y) /\ NumbersOf(y) = NumbersOf(x) /\ MarkedOf(y) = MarkedOf(x) \cup {n}
  <1> DEFINE mark(v) == [v EXCEPT !.published = @ \/ v.number = n]
             marked == {mark(v) : v \in x.versions}
             y == [x EXCEPT !.versions = marked, !.published = TRUE]
             c == Cardinality(x.versions)
  <1>1. /\ x \in Article /\ IsFiniteSet(x.versions) /\ c \in Nat \ {0}
        /\ \A v, w \in x.versions : v.number = w.number => v = w
        /\ NumbersOf(x) = 1..c /\ x.current = c
        /\ x.versions \subseteq Version
    BY DEF Sound, Article
  <1>2. \A v \in x.versions :
          /\ mark(v).number = v.number
          /\ mark(v).published = (v.published \/ v.number = n)
    BY <1>1 DEF Version
  <1>3. \A v \in x.versions : mark(v) \in Version
    BY <1>1 DEF Version
  <1> HIDE DEF mark
  <1>4. /\ y.versions = {mark(v) : v \in x.versions} /\ y.current = x.current
        /\ y.published = TRUE /\ y \in Article
    <2>1. marked \in SUBSET Version
      BY <1>3
    <2> HIDE DEF marked
    <2>2. y.versions = marked /\ y.current = x.current /\ y.published = TRUE
      BY <1>1 DEF Article
    <2>3. y \in Article
      BY <1>1, <2>1 DEF Article
    <2> QED
      BY <2>2, <2>3 DEF marked
  <1> HIDE DEF y, c
  <1>5. NumbersOf(y) = NumbersOf(x)
    BY <1>2, <1>4 DEF NumbersOf
  <1>6. \A v, w \in y.versions : v.number = w.number => v = w
    BY <1>1, <1>2, <1>4
  <1>7. IsFiniteSet(y.versions) /\ Cardinality(y.versions) = c
    <2> DEFINE f == [v \in x.versions |-> mark(v)]
    <2>1. \A v, w \in x.versions : mark(v) = mark(w) => v = w
      BY <1>1, <1>2
    <2>2. f \in Bijection(x.versions, y.versions)
      <3>1. f \in [x.versions -> y.versions]
        BY <1>4
      <3>2. \A v, w \in x.versions : f[v] = f[w] => v = w
        BY <2>1
      <3>3. \A w \in y.versions : \E v \in x.versions : f[v] = w
        BY <1>4
      <3> QED
        BY <3>1, <3>2, <3>3, Fun_IsBij
    <2> QED
      BY <1>1, <2>2, FS_Bijection DEF ExistsBijection, c
  <1>8. MarkedOf(y) = MarkedOf(x) \cup {n}
    <2>1. PICK v \in x.versions : v.number = n
      BY DEF NumbersOf
    <2>2. ASSUME NEW k \in MarkedOf(y)
          PROVE  k \in MarkedOf(x) \cup {n}
      <3>1. PICK w \in x.versions : mark(w).number = k /\ mark(w).published
        BY <1>4 DEF MarkedOf
      <3>2. w.number = k /\ (w.published \/ w.number = n)
        BY <1>2, <3>1
      <3> QED
        BY <3>2 DEF MarkedOf
    <2>3. ASSUME NEW k \in MarkedOf(x)
          PROVE  k \in MarkedOf(y)
      <3>1. PICK w \in x.versions : w.number = k /\ w.published
        BY DEF MarkedOf
      <3>2. mark(w) \in y.versions /\ mark(w).number = k /\ mark(w).published
        BY <1>2, <1>4, <3>1
      <3> QED
        BY <3>2 DEF MarkedOf
    <2>4. n \in MarkedOf(y)
      <3>1. mark(v) \in y.versions /\ mark(v).number = n /\ mark(v).published
        BY <1>2, <1>4, <2>1
      <3> QED
        BY <3>1 DEF MarkedOf
    <2> QED
      BY <2>2, <2>3, <2>4
  <1>9. \E m \in MarkedOf(y) : \A k \in MarkedOf(y) : k <= m
    <2>1. MarkedOf(x) \subseteq NumbersOf(x) /\ NumbersOf(x) \subseteq Nat
      BY <1>1 DEF MarkedOf, NumbersOf
    <2>2. CASE MarkedOf(x) = {}
      BY <1>8, <2>1, <2>2
    <2>3. CASE MarkedOf(x) # {}
      <3>1. PICK m \in MarkedOf(x) : \A k \in MarkedOf(x) : k <= m
        BY <2>3 DEF Sound
      <3>2. CASE n <= m
        BY <1>8, <3>1, <3>2
      <3>3. CASE ~(n <= m)
        BY <1>8, <2>1, <3>1, <3>3
      <3> QED
        BY <3>2, <3>3
    <2> QED
      BY <2>2, <2>3
  <1>10. y.published <=> MarkedOf(y) # {}
    BY <1>4, <1>8
  <1>11. Sound(y)
    BY <1>1, <1>4, <1>5, <1>6, <1>7, <1>9, <1>10 DEF Sound
  <1> QED
    BY <1>5, <1>8, <1>11 DEF y, marked, mark
(***************************************************************************)
(* All articles.                                                           *)
(***************************************************************************)
AllSound == \A a \in DOMAIN articles : Sound(articles[a])

(* What a request read of its article still holds when it writes: the      *)
(* agency never changes and no version goes away.                          *)
RequestsKnow ==
  \A r \in Requests :
    /\ requests[r].stage \in {"slug", "write"} /\ requests[r].article # 0 =>
         /\ requests[r].article \in DOMAIN articles
         /\ articles[requests[r].article].agency = requests[r].agency
    /\ requests[r].stage = "version" =>
         /\ requests[r].article \in DOMAIN articles
         /\ requests[r].number \in Nat \ {0}
         /\ requests[r].number - 1 \in NumbersOf(articles[requests[r].article]) \cup {0}
    /\ requests[r].stage = "publish" =>
         /\ requests[r].article \in DOMAIN articles
         /\ requests[r].number \in NumbersOf(articles[requests[r].article])

(* The four transactions, as what they make of the articles.               *)
Created(agency, slug) ==
  /\ ~SlugRefused(agency, slug, 0)
  /\ articles' = Append(articles, NewArticle(agency, slug))

Renamed(a, slug) ==
  /\ ~SlugRefused(articles[a].agency, slug, a)
  /\ articles' = [articles EXCEPT ![a].slug = slug]

Extended(a, n) ==
  /\ n \notin NumbersOf(articles[a])
  /\ n - 1 \in NumbersOf(articles[a]) \cup {0}
  /\ articles' = [articles EXCEPT ![a].versions = @ \cup {[number |-> n, published |-> FALSE]},
                                  ![a].current = n]

Announced(a, n) ==
  articles' = [articles EXCEPT ![a].versions = Published(a, n), ![a].published = TRUE]

Transaction ==
  \/ \E o \in Owners, slug \in Slugs : Created(o, slug)
  \/ \E a \in DOMAIN articles, slug \in Slugs : Renamed(a, slug)
  \/ \E a \in DOMAIN articles, n \in Nat \ {0} : Extended(a, n)
  \/ \E a \in DOMAIN articles : \E n \in NumbersOf(articles[a]) : Announced(a, n)

(* The articles as a list.                                                 *)
LEMMA ArticlesAreListed ==
  ASSUME TypeOK
  PROVE  /\ articles \in Seq(Article) /\ Len(articles) \in Nat
         /\ DOMAIN articles = 1..Len(articles)
         /\ \A a \in DOMAIN articles : articles[a] \in Article /\ a # 0
  BY DEF TypeOK

(* A request at work on a slug, or on a version, is one of its kind.       *)
LEMMA KindOfRequest ==
  ASSUME TypeOK, NEW r \in Requests
  PROVE  /\ At(r, "slug") \/ At(r, "write") => requests[r] \in Slugging
         /\ At(r, "version") \/ At(r, "publish") => requests[r] \in Versioning
         /\ requests[r] \in {Idle} \cup Slugging \cup Versioning
  BY DEF TypeOK, At, Idle, Slugging, Versioning

(* A candidate is a slug.                                                  *)
LEMMA CandidateIsSlug ==
  ASSUME NEW q \in Slugging
  PROVE  Candidate(q) \in Slugs
  <1>1. SlugOf[q.title] \in Seq(Nat) /\ q.tries \in Nat
    BY KnowledgeBaseAssumption DEF Slugging
  <1> QED
    BY <1>1 DEF Candidate, Slugs

(* Every step leaves the articles alone or is one of the transactions.     *)
LEMMA ArticlesStep ==
  ASSUME TypeOK, RequestsKnow, [Next]_vars
  PROVE  UNCHANGED articles \/ Transaction
  <1>1. ASSUME NEW r \in Requests, Call(r) \/ TrySlug(r) \/ Fail(r)
        PROVE  UNCHANGED articles
    BY <1>1 DEF Call, CreateArticle, UpdateArticle, AddArticleVersion, PublishArticle,
                TrySlug, Fail
  <1>2. ASSUME NEW r \in Requests, WriteArticle(r)
        PROVE  UNCHANGED articles \/ Transaction
    <2> DEFINE q == requests[r]
               slug == Candidate(q)
    <2>1. q \in Slugging /\ slug \in Slugs /\ q.agency \in Owners
      BY <1>2, KindOfRequest, CandidateIsSlug DEF WriteArticle, Slugging
    <2>2. q.article # 0 =>
            q.article \in DOMAIN articles /\ articles[q.article].agency = q.agency
      BY <1>2 DEF WriteArticle, At, RequestsKnow
    <2>3. \/ UNCHANGED articles
          \/ q.article = 0 /\ Created(q.agency, slug)
          \/ q.article # 0 /\ Renamed(q.article, slug)
      BY <1>2, <2>2 DEF WriteArticle, Created, Renamed
    <2> QED
      BY <2>1, <2>2, <2>3 DEF Transaction
  <1>3. ASSUME NEW r \in Requests, InsertVersion(r)
        PROVE  UNCHANGED articles \/ Transaction
    <2> DEFINE a == requests[r].article
               n == requests[r].number
    <2>1. /\ a \in DOMAIN articles /\ n \in Nat \ {0}
          /\ n - 1 \in NumbersOf(articles[a]) \cup {0}
      BY <1>3 DEF InsertVersion, At, RequestsKnow
    <2>2. UNCHANGED articles \/ Extended(a, n)
      BY <1>3, <2>1 DEF InsertVersion, Extended, VersionRefused, Numbers, NumbersOf
    <2> QED
      BY <2>1, <2>2 DEF Transaction
  <1>4. ASSUME NEW r \in Requests, MarkPublished(r)
        PROVE  Transaction
    <2> DEFINE a == requests[r].article
               n == requests[r].number
    <2>1. a \in DOMAIN articles /\ n \in NumbersOf(articles[a]) /\ Announced(a, n)
      BY <1>4 DEF MarkPublished, At, RequestsKnow, Announced
    <2> QED
      BY <2>1 DEF Transaction
  <1>5. CASE UNCHANGED vars
    BY <1>5 DEF vars
  <1> QED
    BY <1>1, <1>2, <1>3, <1>4, <1>5 DEF Next, Step

(* A transaction on an article leaves the others as they are, and of the   *)
(* article it leaves the agency, every version, and what is published.     *)
Continues(x, y) ==
  /\ Sound(y)
  /\ y.agency = x.agency
  /\ NumbersOf(x) \subseteq NumbersOf(y)
  /\ MarkedOf(x) \subseteq MarkedOf(y)

LEMMA ArticlesContinue ==
  ASSUME TypeOK, AllSound, Transaction \/ UNCHANGED articles
  PROVE  /\ articles' \in Seq(Article) /\ Len(articles') >= Len(articles)
         /\ AllSound'
         /\ \A a \in DOMAIN articles : a \in DOMAIN articles' /\ Continues(articles[a], articles'[a])
  <1>1. /\ articles \in Seq(Article) /\ Len(articles) \in Nat
        /\ DOMAIN articles = 1..Len(articles)
        /\ \A a \in DOMAIN articles : articles[a] \in Article /\ Sound(articles[a])
    BY ArticlesAreListed DEF AllSound
  <1>2. \A a \in DOMAIN articles : Continues(articles[a], articles[a])
    BY <1>1 DEF Continues
  <1>3. CASE UNCHANGED articles
    BY <1>1, <1>2, <1>3 DEF AllSound
  <1>4. ASSUME NEW o \in Owners, NEW slug \in Slugs, Created(o, slug)
        PROVE  /\ articles' \in Seq(Article) /\ Len(articles') >= Len(articles)
               /\ AllSound'
               /\ \A a \in DOMAIN articles :
                    a \in DOMAIN articles' /\ Continues(articles[a], articles'[a])
    <2> DEFINE x == NewArticle(o, slug)
    <2>1. Sound(x) /\ x \in Article
      BY NewArticleIsSound DEF Sound
    <2>2. articles' = Append(articles, x)
      BY <1>4 DEF Created
    <2> HIDE DEF x
    <2>3. /\ articles' \in Seq(Article) /\ Len(articles') = Len(articles) + 1
          /\ DOMAIN articles' = 1..(Len(articles) + 1)
          /\ articles'[Len(articles) + 1] = x
          /\ \A a \in DOMAIN articles : a \in DOMAIN articles' /\ articles'[a] = articles[a]
      <3>1. articles \in Seq(Article) /\ x \in Article
        BY <1>1, <2>1
      <3>2. articles' \in Seq(Article) /\ Len(articles') = Len(articles) + 1
        BY <2>2, <3>1
      <3>3. DOMAIN articles' = 1..(Len(articles) + 1)
        BY <1>1, <3>2
      <3>4. /\ articles'[Len(articles) + 1] = x
            /\ \A a \in 1..Len(articles) : articles'[a] = articles[a]
        BY <2>2, <3>1
      <3>5. 1..Len(articles) \subseteq 1..(Len(articles) + 1)
        BY <1>1
      <3> QED
        BY <1>1, <3>2, <3>3, <3>4, <3>5
    <2>4. AllSound'
      BY <1>1, <2>1, <2>3 DEF AllSound
    <2> QED
      BY <1>1, <1>2, <2>3, <2>4
  <1>5. ASSUME NEW a \in DOMAIN articles, NEW y, articles' = [articles EXCEPT ![a] = y],
               Continues(articles[a], y)
        PROVE  /\ articles' \in Seq(Article) /\ Len(articles') >= Len(articles)
               /\ AllSound'
               /\ \A b \in DOMAIN articles :
                    b \in DOMAIN articles' /\ Continues(articles[b], articles'[b])
    <2>1. y \in Article
      BY <1>5 DEF Continues, Sound
    <2>2. /\ articles' \in Seq(Article) /\ Len(articles') = Len(articles)
          /\ DOMAIN articles' = DOMAIN articles /\ articles'[a] = y
          /\ \A b \in DOMAIN articles \ {a} : articles'[b] = articles[b]
      BY <1>1, <1>5, <2>1
    <2>3. AllSound'
      BY <1>1, <1>5, <2>2 DEF AllSound, Continues
    <2> QED
      BY <1>1, <1>2, <1>5, <2>2, <2>3
  <1>6. ASSUME NEW a \in DOMAIN articles, NEW slug \in Slugs, Renamed(a, slug)
        PROVE  \E y : articles' = [articles EXCEPT ![a] = y] /\ Continues(articles[a], y)
    <2> DEFINE x == articles[a]
               y == [x EXCEPT !.slug = slug]
    <2>1. Sound(x) /\ x \in Article /\ Sound(y)
      BY <1>1, RenamedIsSound
    <2>2. y.agency = x.agency /\ y.versions = x.versions
      BY <2>1 DEF Article
    <2>3. Continues(x, y)
      BY <2>1, <2>2 DEF Continues, NumbersOf, MarkedOf
    <2>4. articles' = [articles EXCEPT ![a] = y]
      BY <1>6 DEF Renamed
    <2> QED
      BY <2>3, <2>4
  <1>7. ASSUME NEW a \in DOMAIN articles, NEW n \in Nat \ {0}, Extended(a, n)
        PROVE  \E y : articles' = [articles EXCEPT ![a] = y] /\ Continues(articles[a], y)
    <2> DEFINE x == articles[a]
               v == [number |-> n, published |-> FALSE]
               y == [x EXCEPT !.versions = @ \cup {v}, !.current = n]
    <2>1. Sound(x) /\ x \in Article /\ Sound(y)
      BY <1>1, <1>7, ExtendedIsSound DEF Extended
    <2>2. y.agency = x.agency /\ x.versions \subseteq y.versions
      BY <2>1 DEF Article
    <2>3. Continues(x, y)
      BY <2>1, <2>2 DEF Continues, NumbersOf, MarkedOf
    <2>4. articles' = [articles EXCEPT ![a] = y]
      BY <1>7 DEF Extended
    <2> QED
      BY <2>3, <2>4
  <1>8. ASSUME NEW a \in DOMAIN articles, NEW n \in NumbersOf(articles[a]), Announced(a, n)
        PROVE  \E y : articles' = [articles EXCEPT ![a] = y] /\ Continues(articles[a], y)
    <2> DEFINE x == articles[a]
               y == [x EXCEPT
                       !.versions = {[v EXCEPT !.published = @ \/ v.number = n] : v \in x.versions},
                       !.published = TRUE]
    <2>1. Sound(x) /\ x \in Article
      BY <1>1
    <2>2. Sound(y) /\ NumbersOf(y) = NumbersOf(x) /\ MarkedOf(y) = MarkedOf(x) \cup {n}
      BY <2>1, PublishedIsSound
    <2>3. y.agency = x.agency
      BY <2>1 DEF Article
    <2>4. articles' = [articles EXCEPT ![a] = y]
      BY <1>8 DEF Announced, Published
    <2>5. Continues(x, y)
      BY <2>2, <2>3 DEF Continues
    <2> QED
      BY <2>4, <2>5
  <1> QED
    BY <1>3, <1>4, <1>5, <1>6, <1>7, <1>8 DEF Transaction
(* The latest number of a sound article is its count, and there is one.    *)
LEMMA LatestIsCount ==
  ASSUME NEW a \in DOMAIN articles, Sound(articles[a])
  PROVE  /\ Numbers(a) = NumbersOf(articles[a])
         /\ LatestNumber(a) = Cardinality(articles[a].versions)
         /\ LatestNumber(a) \in Nat \ {0}
         /\ LatestNumber(a) \in NumbersOf(articles[a])
  <1> DEFINE c == Cardinality(articles[a].versions)
  <1>1. c \in Nat \ {0} /\ NumbersOf(articles[a]) = 1..c
    BY DEF Sound
  <1>2. Numbers(a) = 1..c
    BY <1>1 DEF Numbers, NumbersOf
  <1> HIDE DEF c
  <1>3. c \in Numbers(a) /\ \A m \in Numbers(a) : m <= c
    BY <1>1, <1>2
  <1>4. \A n \in Numbers(a) : (\A m \in Numbers(a) : m <= n) => n = c
    BY <1>1, <1>2, <1>3
  <1>5. LatestNumber(a) = c
    BY <1>3, <1>4 DEF LatestNumber
  <1> QED
    BY <1>1, <1>2, <1>3, <1>5 DEF NumbersOf, Numbers, c

(* The number readers are shown is the greatest published one.             *)
ShownOf(x) == IF MarkedOf(x) = {} THEN 0
              ELSE CHOOSE n \in MarkedOf(x) : \A m \in MarkedOf(x) : m <= n

LEMMA ShownIsGreatest ==
  ASSUME NEW x, Sound(x)
  PROVE  /\ ShownOf(x) \in Nat
         /\ ShownOf(x) = 0 <=> MarkedOf(x) = {}
         /\ \A k \in MarkedOf(x) : k <= ShownOf(x)
         /\ MarkedOf(x) # {} => ShownOf(x) \in MarkedOf(x)
  <1>1. MarkedOf(x) \subseteq Nat \ {0}
    BY DEF MarkedOf, NumbersOf, Sound
  <1>2. MarkedOf(x) # {} => \E m \in MarkedOf(x) : \A k \in MarkedOf(x) : k <= m
    BY DEF Sound
  <1>3. MarkedOf(x) # {} => ShownOf(x) \in MarkedOf(x) /\ \A m \in MarkedOf(x) : m <= ShownOf(x)
    BY <1>2 DEF ShownOf
  <1> QED
    BY <1>1, <1>3 DEF ShownOf

(***************************************************************************)
(* The requests.                                                           *)
(***************************************************************************)

(* What a request may know, when the articles are a list.                  *)
Knows(q, list) ==
  /\ q \in {Idle} \cup Slugging \cup Versioning
  /\ q # Idle => q.article \in 0..Len(list)
  /\ q.stage \in {"slug", "write"} /\ q.article # 0 =>
       /\ q.article \in DOMAIN list
       /\ list[q.article].agency = q.agency
  /\ q.stage = "version" =>
       /\ q.article \in DOMAIN list
       /\ q.number \in Nat \ {0}
       /\ q.number - 1 \in NumbersOf(list[q.article]) \cup {0}
  /\ q.stage = "publish" =>
       /\ q.article \in DOMAIN list
       /\ q.number \in NumbersOf(list[q.article])

LEMMA IdleKnows == Knows(Idle, articles)
  BY DEF Knows, Idle

(* Every step gives a request nothing but what it may know.                *)
LEMMA RequestsStep ==
  ASSUME TypeOK, AllSound, RequestsKnow, [Next]_vars
  PROVE  \/ UNCHANGED requests
         \/ \E r \in Requests : \E q :
              Knows(q, articles) /\ requests' = [requests EXCEPT ![r] = q]
  <1>1. /\ Len(articles) \in Nat /\ DOMAIN articles = 1..Len(articles)
        /\ \A a \in DOMAIN articles : articles[a] \in Article /\ Sound(articles[a])
        /\ \A a \in DOMAIN articles : articles[a].agency \in Owners
    BY ArticlesAreListed DEF AllSound, Article
  <1>2. \A r \in Requests : Knows(requests[r], articles)
    BY DEF TypeOK, RequestsKnow, Knows
  <1>3. ASSUME NEW r \in Requests, CreateArticle(r)
        PROVE  \E q : Knows(q, articles) /\ requests' = [requests EXCEPT ![r] = q]
    <2>1. PICK o \in Owners, t \in Titles :
            requests' = [requests EXCEPT ![r] =
              [stage |-> "slug", article |-> 0, agency |-> o, title |-> t, tries |-> 0]]
      BY <1>3 DEF CreateArticle
    <2>2. Knows([stage |-> "slug", article |-> 0, agency |-> o, title |-> t, tries |-> 0], articles)
      BY <1>1 DEF Knows, Slugging
    <2> QED
      BY <2>1, <2>2
  <1>4. ASSUME NEW r \in Requests, NEW a \in DOMAIN articles, UpdateArticle(r, a)
        PROVE  \E q : Knows(q, articles) /\ requests' = [requests EXCEPT ![r] = q]
    <2>1. PICK t \in Titles :
            requests' = [requests EXCEPT ![r] =
              [stage |-> "slug", article |-> a, agency |-> articles[a].agency,
               title |-> t, tries |-> 0]]
      BY <1>4 DEF UpdateArticle
    <2>2. Knows([stage |-> "slug", article |-> a, agency |-> articles[a].agency,
                 title |-> t, tries |-> 0], articles)
      BY <1>1 DEF Knows, Slugging
    <2> QED
      BY <2>1, <2>2
  <1>5. ASSUME NEW r \in Requests, NEW a \in DOMAIN articles, AddArticleVersion(r, a)
        PROVE  \E q : Knows(q, articles) /\ requests' = [requests EXCEPT ![r] = q]
    <2> DEFINE n == LatestNumber(a)
               q == [stage |-> "version", article |-> a, number |-> n + 1]
    <2>1. n \in Nat /\ n \in NumbersOf(articles[a])
      BY <1>1, LatestIsCount
    <2> HIDE DEF n
    <2>2. n + 1 \in Nat \ {0} /\ (n + 1) - 1 = n
      BY <2>1
    <2>3. Knows(q, articles)
      BY <1>1, <2>1, <2>2 DEF Knows, Versioning
    <2> QED
      BY <1>5, <2>3 DEF AddArticleVersion, n
  <1>6. ASSUME NEW r \in Requests, NEW a \in DOMAIN articles, PublishArticle(r, a)
        PROVE  \E q : Knows(q, articles) /\ requests' = [requests EXCEPT ![r] = q]
    <2> DEFINE n == LatestNumber(a)
               q == [stage |-> "publish", article |-> a, number |-> n]
    <2>1. n \in Nat /\ n \in NumbersOf(articles[a])
      BY <1>1, LatestIsCount
    <2> HIDE DEF n
    <2>2. Knows(q, articles)
      BY <1>1, <2>1 DEF Knows, Versioning
    <2> QED
      BY <1>6, <2>2 DEF PublishArticle, n
  <1>7. ASSUME NEW r \in Requests, TrySlug(r)
        PROVE  \E q : Knows(q, articles) /\ requests' = [requests EXCEPT ![r] = q]
    <2> DEFINE p == requests[r]
    <2>1. p \in Slugging /\ p.stage = "slug" /\ Knows(p, articles)
      BY <1>2, <1>7, KindOfRequest DEF TrySlug, At
    <2>2. \/ requests' = [requests EXCEPT ![r] = [p EXCEPT !.tries = @ + 1]]
          \/ requests' = [requests EXCEPT ![r] = [p EXCEPT !.stage = "write"]]
      BY <1>7 DEF TrySlug
    <2> HIDE DEF p
    <2>3. Knows([p EXCEPT !.tries = @ + 1], articles)
      BY <2>1 DEF Knows, Slugging, Idle
    <2>4. Knows([p EXCEPT !.stage = "write"], articles)
      BY <2>1 DEF Knows, Slugging, Idle
    <2> QED
      BY <2>2, <2>3, <2>4
  <1>8. ASSUME NEW r \in Requests,
               WriteArticle(r) \/ InsertVersion(r) \/ MarkPublished(r) \/ Fail(r)
        PROVE  \E q : Knows(q, articles) /\ requests' = [requests EXCEPT ![r] = q]
    BY <1>8, IdleKnows DEF WriteArticle, InsertVersion, MarkPublished, Fail, Answer
  <1>9. CASE UNCHANGED vars
    BY <1>9 DEF vars
  <1> QED
    BY <1>3, <1>4, <1>5, <1>6, <1>7, <1>8, <1>9 DEF Next, Call, Step
(***************************************************************************)
(* The invariant.                                                          *)
(***************************************************************************)

(* Types, sound articles, requests that know their article, unique slugs.  *)
KnowledgeInv == TypeOK /\ AllSound /\ RequestsKnow /\ SlugsAreUnique

(* The transactions keep a slug to one article of its agency: the index    *)
(* is asked when the slug is written, not only when it was looked for.     *)
LEMMA SlugsStep ==
  ASSUME TypeOK, SlugsAreUnique, Transaction \/ UNCHANGED articles
  PROVE  SlugsAreUnique'
  <1>1. /\ articles \in Seq(Article) /\ Len(articles) \in Nat
        /\ DOMAIN articles = 1..Len(articles)
        /\ \A a \in DOMAIN articles : articles[a] \in Article /\ a # 0
    BY ArticlesAreListed
  <1>2. CASE UNCHANGED articles
    BY <1>2 DEF SlugsAreUnique
  <1>3. ASSUME NEW c \in DOMAIN articles', NEW o, NEW slug, ~SlugRefused(o, slug, c),
               articles'[c].agency = o, articles'[c].slug = slug,
               \A a \in DOMAIN articles' \ {c} :
                 /\ a \in DOMAIN articles
                 /\ articles'[a].agency = articles[a].agency
                 /\ articles'[a].slug = articles[a].slug
        PROVE  SlugsAreUnique'
    BY <1>3 DEF SlugsAreUnique, SlugRefused
  <1>4. ASSUME NEW o \in Owners, NEW slug \in Slugs, Created(o, slug)
        PROVE  SlugsAreUnique'
    <2> DEFINE x == NewArticle(o, slug)
    <2>1. x \in Article /\ x.agency = o /\ x.slug = slug
      BY NewArticleIsSound DEF Sound, NewArticle
    <2>2. articles' = Append(articles, x)
      BY <1>4 DEF Created
    <2> HIDE DEF x
    <2>3. articles \in Seq(Article)
      BY <1>1
    <2>4. /\ DOMAIN articles' = 1..(Len(articles) + 1)
          /\ articles'[Len(articles) + 1] = x
          /\ \A a \in 1..Len(articles) : articles'[a] = articles[a]
      BY <2>1, <2>2, <2>3
    <2>5. Len(articles) + 1 \in DOMAIN articles'
      BY <1>1, <2>4
    <2>6. \A a \in DOMAIN articles' \ {Len(articles) + 1} :
            a \in DOMAIN articles /\ articles'[a] = articles[a]
      BY <1>1, <2>4
    <2>7. ~SlugRefused(o, slug, Len(articles) + 1)
      BY <1>1, <1>4 DEF Created, SlugRefused
    <2> QED
      BY <1>3, <2>1, <2>4, <2>5, <2>6, <2>7
  <1>5. ASSUME NEW a \in DOMAIN articles, NEW slug \in Slugs, Renamed(a, slug)
        PROVE  SlugsAreUnique'
    <2>1. /\ articles'[a].agency = articles[a].agency /\ articles'[a].slug = slug
          /\ DOMAIN articles' = DOMAIN articles
          /\ \A b \in DOMAIN articles \ {a} : articles'[b] = articles[b]
      BY <1>1, <1>5 DEF Renamed, Article
    <2> QED
      BY <1>3, <1>5, <2>1 DEF Renamed
  <1>6. ASSUME NEW a \in DOMAIN articles, NEW y, articles' = [articles EXCEPT ![a] = y],
               y.agency = articles[a].agency, y.slug = articles[a].slug
        PROVE  SlugsAreUnique'
    <2>1. /\ DOMAIN articles' = DOMAIN articles
          /\ \A b \in DOMAIN articles :
               articles'[b].agency = articles[b].agency /\ articles'[b].slug = articles[b].slug
      BY <1>6
    <2> QED
      BY <2>1 DEF SlugsAreUnique
  <1>7. ASSUME NEW a \in DOMAIN articles, NEW n, Extended(a, n) \/ Announced(a, n)
        PROVE  SlugsAreUnique'
    <2>1. articles[a] \in Article
      BY <1>1
    <2>2. CASE Extended(a, n)
      <3> DEFINE V == articles[a].versions \cup {[number |-> n, published |-> FALSE]}
                 y == [articles[a] EXCEPT !.versions = V, !.current = n]
      <3>1. articles' = [articles EXCEPT ![a] = y]
        BY <2>2 DEF Extended
      <3>2. y.agency = articles[a].agency /\ y.slug = articles[a].slug
        BY <2>1 DEF Article
      <3> QED
        BY <1>6, <3>1, <3>2
    <2>3. CASE Announced(a, n)
      <3> DEFINE V == Published(a, n)
                 y == [articles[a] EXCEPT !.versions = V, !.published = TRUE]
      <3>1. articles' = [articles EXCEPT ![a] = y]
        BY <2>3 DEF Announced
      <3>2. y.agency = articles[a].agency /\ y.slug = articles[a].slug
        BY <2>1 DEF Article
      <3> QED
        BY <1>6, <3>1, <3>2
    <2> QED
      BY <1>7, <2>2, <2>3
  <1> QED
    BY <1>2, <1>4, <1>5, <1>7 DEF Transaction

(* What a request knew it still knows after a transaction.                 *)
LEMMA KnowledgeLasts ==
  ASSUME TypeOK, AllSound, Transaction \/ UNCHANGED articles
  PROVE  \A q : Knows(q, articles) => Knows(q, articles')
  <1>1. /\ Len(articles) \in Nat /\ Len(articles') \in Nat /\ Len(articles') >= Len(articles)
        /\ DOMAIN articles \subseteq DOMAIN articles'
        /\ \A a \in DOMAIN articles :
             /\ articles'[a].agency = articles[a].agency
             /\ NumbersOf(articles[a]) \subseteq NumbersOf(articles'[a])
    BY ArticlesAreListed, ArticlesContinue DEF Continues
  <1>2. 0..Len(articles) \subseteq 0..Len(articles')
    BY <1>1
  <1> QED
    BY <1>1, <1>2 DEF Knows

(* One step of the service.                                                *)
LEMMA KnowledgeStep == KnowledgeInv /\ [Next]_vars => KnowledgeInv'
  <1> SUFFICES ASSUME KnowledgeInv, [Next]_vars PROVE KnowledgeInv'
    OBVIOUS
  <1>1. TypeOK /\ AllSound /\ RequestsKnow /\ SlugsAreUnique
    BY DEF KnowledgeInv
  <1>2. Transaction \/ UNCHANGED articles
    BY <1>1, ArticlesStep
  <1>3. articles' \in Seq(Article) /\ AllSound' /\ SlugsAreUnique'
    BY <1>1, <1>2, ArticlesContinue, SlugsStep
  <1>4. requests \in [Requests -> {Idle} \cup Slugging \cup Versioning]
    BY <1>1 DEF TypeOK
  <1>5. \A r \in Requests : Knows(requests[r], articles)
    BY <1>1 DEF TypeOK, RequestsKnow, Knows
  <1>6. \A q : Knows(q, articles) => Knows(q, articles')
    BY <1>1, <1>2, KnowledgeLasts
  <1>7. /\ requests' \in [Requests -> {Idle} \cup Slugging \cup Versioning]
        /\ \A r \in Requests : Knows(requests'[r], articles')
    <2>1. CASE UNCHANGED requests
      BY <1>4, <1>5, <1>6, <2>1
    <2>2. ASSUME NEW r \in Requests, NEW q, Knows(q, articles),
                 requests' = [requests EXCEPT ![r] = q]
          PROVE  /\ requests' \in [Requests -> {Idle} \cup Slugging \cup Versioning]
                 /\ \A x \in Requests : Knows(requests'[x], articles')
      <3>1. q \in {Idle} \cup Slugging \cup Versioning
        BY <2>2 DEF Knows
      <3>2. \A x \in Requests : requests'[x] = q \/ requests'[x] = requests[x]
        BY <1>4, <2>2
      <3> QED
        BY <1>4, <1>5, <1>6, <2>2, <3>1, <3>2
    <2> QED
      BY <1>1, <2>1, <2>2, RequestsStep
  <1>8. calls' \in Nat
    <2>1. calls' = calls \/ calls' = calls + 1
      BY <1>1 DEF KnowledgeInv, Next, Call, Step, TrySlug, WriteArticle, InsertVersion,
                  MarkPublished, Fail, vars
    <2> QED
      BY <1>1, <2>1 DEF TypeOK
  <1>9. TypeOK'
    BY <1>3, <1>7, <1>8 DEF TypeOK, Knows
  <1>10. RequestsKnow'
    BY <1>7 DEF RequestsKnow, Knows
  <1> QED
    BY <1>3, <1>9, <1>10 DEF KnowledgeInv

(* No article is there at the start.                                       *)
LEMMA InitKnowledge == Init => KnowledgeInv
  BY DEF Init, KnowledgeInv, TypeOK, AllSound, RequestsKnow, SlugsAreUnique, Idle

LEMMA KnowledgeIsKept == Spec => []KnowledgeInv
  BY InitKnowledge, KnowledgeStep, PTL DEF Spec

(* Articles are what their authors' completed requests made of them, for   *)
(* any number of authors at once: versions numbered without a gap, the     *)
(* article pointing to the last, slugs unique in their agency, a published *)
(* article with something to show.                                         *)
THEOREM ArticlesStaySound == Spec => []ArticlesAreSound
  <1>1. KnowledgeInv => ArticlesAreSound
    <2> SUFFICES ASSUME KnowledgeInv PROVE ArticlesAreSound
      OBVIOUS
    <2>1. \A a \in DOMAIN articles : Sound(articles[a])
      BY DEF KnowledgeInv, AllSound
    <2>2. VersionsAreSequential
      BY <2>1, LatestIsCount DEF VersionsAreSequential, Sound
    <2>3. \A a \in DOMAIN articles : Shown(a) = ShownOf(articles[a])
      BY DEF Shown, ShownOf, MarkedOf
    <2>4. PublishedIsShown
      BY <2>1, <2>3, ShownIsGreatest DEF PublishedIsShown, Sound
    <2> QED
      BY <2>2, <2>4 DEF KnowledgeInv, ArticlesAreSound
  <1> QED
    BY <1>1, KnowledgeIsKept, PTL

(* The version shown of an article after a step.                           *)
LEMMA ShownStep == KnowledgeInv /\ [Next]_vars =>
                     [\A a \in DOMAIN articles : Shown(a)' >= Shown(a)]_vars
  <1> SUFFICES ASSUME KnowledgeInv, [Next]_vars, NEW a \in DOMAIN articles
               PROVE  Shown(a)' >= Shown(a)
    OBVIOUS
  <1>1. TypeOK /\ AllSound /\ RequestsKnow /\ AllSound'
    BY KnowledgeStep DEF KnowledgeInv
  <1>2. a \in DOMAIN articles' /\ Continues(articles[a], articles'[a])
    BY <1>1, ArticlesStep, ArticlesContinue
  <1>3. Sound(articles[a]) /\ Sound(articles'[a])
    BY <1>1, <1>2 DEF AllSound, Continues
  <1>4. Shown(a) = ShownOf(articles[a]) /\ Shown(a)' = ShownOf(articles'[a])
    BY DEF Shown, ShownOf, MarkedOf
  <1>5. /\ ShownOf(articles[a]) \in Nat
        /\ ShownOf(articles[a]) = 0 <=> MarkedOf(articles[a]) = {}
        /\ MarkedOf(articles[a]) # {} => ShownOf(articles[a]) \in MarkedOf(articles[a])
    BY <1>3, ShownIsGreatest
  <1>6. /\ ShownOf(articles'[a]) \in Nat
        /\ \A k \in MarkedOf(articles'[a]) : k <= ShownOf(articles'[a])
    BY <1>3, ShownIsGreatest
  <1> QED
    BY <1>2, <1>4, <1>5, <1>6 DEF Continues

(* Readers never see an article go back to an older version, whichever     *)
(* publications and new versions overlap.                                  *)
THEOREM ReadersNeverGoBack == Spec => ShownNeverGoesBack
  BY ShownStep, KnowledgeIsKept, PTL DEF Spec, ShownNeverGoesBack
=============================================================================
