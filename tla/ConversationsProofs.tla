------------------------- MODULE ConversationsProofs ------------------------
(***************************************************************************)
(* Theorems of Conversations and of the uploads it runs beside, for any    *)
(* number of requests, sockets, users and agencies, any bounds and scenes. *)
(***************************************************************************)
EXTENDS Conversations, FiniteSetTheorems, TLAPS

(* The variables of the store are taken one by one.                        *)
USE DEF store

(***************************************************************************)
(* Uploads.                                                                *)
(***************************************************************************)
Handling == Uploading \cup Spending \cup Writing

Storing(u) == u.stage \in {"store", "row"}

(* The rows that came of a token, the requests that may still make one,    *)
(* and those that have made theirs and not yet removed the token.          *)
RowsOf(t) == {i \in DOMAIN media : media[i].token = t}
Using(t) == {r \in Uploaders : Storing(uploads[r]) /\ uploads[r].token = t}
Spenders(t) == {r \in Uploaders : uploads[r].stage = "spend" /\ uploads[r].token = t}

(* Rows are of files that were named.                                      *)
RowsAreNamed == \A i \in DOMAIN media : media[i].file \in 1..named

(* A file whose row is to be made is on the disk, if files are kept there, *)
(* and has no row and no other request to make one.                        *)
FileAwaitsRow(r) ==
  LET f == uploads[r].file IN
  uploads[r].stage = "row" =>
    /\ f \in 1..named
    /\ storage = "local" => f \in files
    /\ \A i \in DOMAIN media : media[i].file # f
    /\ \A q \in Uploaders : uploads[q].stage = "row" /\ uploads[q].file = f => q = r

(* A request that goes on with a row or a token has one that exists.       *)
PointsSomewhere(u) ==
  /\ u.stage \in {"delete", "restore"} => u.row \in DOMAIN media
  /\ u.stage \in {"store", "row", "spend"} => u.token <= issued

(* What is known of a token's uses: those made and those to come have a    *)
(* request each, and while the token is good, whoever used it has yet to   *)
(* remove it.                                                              *)
TokensAreCounted ==
  /\ \A i \in DOMAIN media : media[i].token <= issued
  /\ \A t \in tokens : t.token \in 1..issued
  /\ \A t \in 1..issued :
       Cardinality(RowsOf(t)) + Cardinality(Using(t)) <= Cardinality(Uploaders)
  /\ \A t \in tokens : Cardinality(RowsOf(t.token)) <= Cardinality(Spenders(t.token))

FilesInv ==
  /\ MediaTypeOK /\ now # 0
  /\ RowsAreNamed
  /\ RowsHaveFiles /\ DeletedIsWhole
  /\ \A r \in Uploaders : FileAwaitsRow(r) /\ PointsSomewhere(uploads[r])
  /\ TokensAreCounted

(* A step of a request changes its own state only.                         *)
LEMMA GoChangesOne ==
  ASSUME MediaTypeOK, NEW r \in Uploaders, NEW to \in {Free} \cup Handling, Go(r, to)
  PROVE  /\ uploads' \in [Uploaders -> {Free} \cup Uploading \cup Spending \cup Writing]
         /\ uploads'[r] = to
         /\ \A q \in Uploaders \ {r} : uploads'[q] = uploads[q]
  BY DEF MediaTypeOK, Go, Handling

(* A request under way holds what its stage says.                          *)
LEMMA StageTells ==
  ASSUME MediaTypeOK, NEW r \in Uploaders
  PROVE  /\ uploads[r].stage \in {"store", "row"} => uploads[r] \in Uploading
         /\ uploads[r].stage = "spend" => uploads[r] \in Spending
         /\ uploads[r].stage \in {"delete", "restore"} => uploads[r] \in Writing
  <1>1. uploads[r] \in {Free} \cup Uploading \cup Spending \cup Writing
    BY DEF MediaTypeOK
  <1> QED
    BY <1>1 DEF Free, Uploading, Spending, Writing

(* Sets of requests and of rows are finite.                                *)
LEMMA UsesAreFinite ==
  ASSUME IsFiniteSet(Uploaders), MediaTypeOK, NEW t
  PROVE  /\ IsFiniteSet(RowsOf(t)) /\ Cardinality(RowsOf(t)) \in Nat
         /\ IsFiniteSet(Using(t)) /\ Cardinality(Using(t)) \in Nat
         /\ IsFiniteSet(Spenders(t)) /\ Cardinality(Spenders(t)) \in Nat
         /\ Cardinality(Uploaders) \in Nat
  <1>1. media \in Seq(Row)
    BY DEF MediaTypeOK
  <1>2. Len(media) \in Nat /\ DOMAIN media = 1..Len(media)
    BY <1>1
  <1>3. IsFiniteSet(DOMAIN media)
    BY <1>2, FS_Interval
  <1>4. RowsOf(t) \subseteq DOMAIN media /\ Using(t) \subseteq Uploaders /\ Spenders(t) \subseteq Uploaders
    BY DEF RowsOf, Using, Spenders
  <1>5. IsFiniteSet(RowsOf(t)) /\ IsFiniteSet(Using(t)) /\ IsFiniteSet(Spenders(t))
    BY <1>3, <1>4, FS_Subset
  <1> QED
    BY <1>5, FS_CardinalityType

(* A request that is at neither stage finds room for one use more.         *)
LEMMA RoomForOneMore ==
  ASSUME IsFiniteSet(Uploaders), MediaTypeOK, NEW t, NEW r \in Uploaders,
         r \notin Using(t), r \notin Spenders(t)
  PROVE  Cardinality(Using(t)) + Cardinality(Spenders(t)) + 1 <= Cardinality(Uploaders)
  <1> DEFINE S == Using(t) \cup Spenders(t)
  <1>1. /\ IsFiniteSet(Using(t)) /\ IsFiniteSet(Spenders(t))
        /\ Cardinality(Using(t)) \in Nat /\ Cardinality(Spenders(t)) \in Nat
    BY UsesAreFinite
  <1>2. Using(t) \cap Spenders(t) = {}
    BY DEF Using, Spenders, Storing
  <1>3. IsFiniteSet(S) /\ Cardinality(S) = Cardinality(Using(t)) + Cardinality(Spenders(t))
    BY <1>1, <1>2, FS_Union, FS_EmptySet
  <1>4. r \notin S /\ S \subseteq Uploaders
    BY DEF Using, Spenders
  <1> HIDE DEF S
  <1>5. IsFiniteSet(S \cup {r}) /\ Cardinality(S \cup {r}) = Cardinality(S) + 1
    BY <1>3, <1>4, FS_AddElement
  <1>6. S \cup {r} \subseteq Uploaders
    BY <1>4
  <1>7. Cardinality(S \cup {r}) <= Cardinality(Uploaders)
    BY <1>6, FS_Subset
  <1> QED
    BY <1>3, <1>5, <1>7

(* The uses of tokens stay counted when no token comes to be, no rows or   *)
(* requests of one, and no request that has yet to remove one that stays   *)
(* is gone.                                                                *)
LEMMA CountedStill ==
  ASSUME IsFiniteSet(Uploaders), FilesInv, MediaTypeOK', issued' = issued, tokens' \subseteq tokens,
         \A i \in DOMAIN media' : media'[i].token <= issued,
         \A t \in 1..issued : RowsOf(t)' = RowsOf(t) /\ Using(t)' \subseteq Using(t),
         \A t \in tokens' : Spenders(t.token) \subseteq Spenders(t.token)'
  PROVE  TokensAreCounted'
  <1>1. /\ \A t \in tokens : t.token \in 1..issued
        /\ \A t \in 1..issued :
             Cardinality(RowsOf(t)) + Cardinality(Using(t)) <= Cardinality(Uploaders)
        /\ \A t \in tokens : Cardinality(RowsOf(t.token)) <= Cardinality(Spenders(t.token))
        /\ MediaTypeOK
    BY DEF FilesInv, TokensAreCounted
  <1>2. ASSUME NEW t \in 1..issued
        PROVE  Cardinality(RowsOf(t)') + Cardinality(Using(t)') <= Cardinality(Uploaders)
    <2>1. RowsOf(t)' = RowsOf(t) /\ Using(t)' \subseteq Using(t)
      OBVIOUS
    <2>2. /\ IsFiniteSet(Using(t)) /\ Cardinality(Using(t)) \in Nat
          /\ Cardinality(RowsOf(t)) \in Nat /\ Cardinality(Uploaders) \in Nat
      BY <1>1, UsesAreFinite
    <2>3. /\ Cardinality(Using(t)') <= Cardinality(Using(t)) /\ IsFiniteSet(Using(t)')
      BY <2>1, <2>2, FS_Subset
    <2>4. Cardinality(Using(t)') \in Nat
      BY <2>3, FS_CardinalityType
    <2> QED
      BY <1>1, <2>1, <2>2, <2>3, <2>4
  <1>3. ASSUME NEW t \in tokens'
        PROVE  Cardinality(RowsOf(t.token)') <= Cardinality(Spenders(t.token)')
    <2>1. t \in tokens /\ t.token \in 1..issued
      BY <1>1
    <2>2. RowsOf(t.token)' = RowsOf(t.token) /\ Spenders(t.token) \subseteq Spenders(t.token)'
      BY <2>1
    <2>3. Spenders(t.token)' \subseteq Uploaders
      BY DEF Spenders
    <2>4. IsFiniteSet(Spenders(t.token)') /\ Cardinality(Spenders(t.token)') \in Nat
      BY <2>3, FS_Subset, FS_CardinalityType
    <2>5. Cardinality(Spenders(t.token)) <= Cardinality(Spenders(t.token)')
      BY <2>2, <2>4, FS_Subset
    <2>6. Cardinality(RowsOf(t.token)) \in Nat /\ Cardinality(Spenders(t.token)) \in Nat
      BY <1>1, UsesAreFinite
    <2> QED
      BY <1>1, <2>1, <2>2, <2>4, <2>5, <2>6
  <1> QED
    BY <1>1, <1>2, <1>3 DEF TokensAreCounted

(* What a request alone does to the sets of those at a token, when it goes *)
(* to a stage with a token or to none.                                     *)
LEMMA GoMovesOne ==
  ASSUME MediaTypeOK, NEW r \in Uploaders, NEW to \in {Free} \cup Handling, Go(r, to), NEW t
  PROVE  /\ Using(t)' = IF Storing(to) /\ to.token = t THEN Using(t) \cup {r} ELSE Using(t) \ {r}
         /\ Spenders(t)' = IF to.stage = "spend" /\ to.token = t THEN Spenders(t) \cup {r}
                                                                ELSE Spenders(t) \ {r}
  <1>1. /\ uploads'[r] = to
        /\ \A q \in Uploaders \ {r} : uploads'[q] = uploads[q]
    BY GoChangesOne
  <1>2. ASSUME NEW q \in Uploaders
        PROVE  /\ q \in Using(t)' <=> IF q = r THEN Storing(to) /\ to.token = t ELSE q \in Using(t)
               /\ q \in Spenders(t)' <=> IF q = r THEN to.stage = "spend" /\ to.token = t
                                                  ELSE q \in Spenders(t)
    <2>1. CASE q = r
      BY <1>1, <2>1 DEF Using, Spenders
    <2>2. CASE q # r
      <3>1. uploads'[q] = uploads[q]
        BY <1>1, <2>2
      <3> QED
        BY <2>2, <3>1 DEF Using, Spenders
    <2> QED
      BY <2>1, <2>2
  <1>3. Using(t)' \subseteq Uploaders /\ Using(t) \subseteq Uploaders
        /\ Spenders(t)' \subseteq Uploaders /\ Spenders(t) \subseteq Uploaders
    BY DEF Using, Spenders
  <1>4. Using(t)' = IF Storing(to) /\ to.token = t THEN Using(t) \cup {r} ELSE Using(t) \ {r}
    BY <1>2, <1>3
  <1>5. Spenders(t)' = IF to.stage = "spend" /\ to.token = t THEN Spenders(t) \cup {r}
                                                            ELSE Spenders(t) \ {r}
    BY <1>2, <1>3
  <1> QED
    BY <1>4, <1>5

(* A step of a request that leaves files, rows and tokens alone keeps the  *)
(* invariant if the request takes up no file and no token, and has none to *)
(* remove.                                                                 *)
LEMMA WalkStep ==
  ASSUME IsFiniteSet(Uploaders), FilesInv, NEW r \in Uploaders,
         UNCHANGED <<store, media, issued, now>>, tokens' \subseteq tokens,
         NEW to \in {Free} \cup Handling, Go(r, to),
         to.stage # "row", PointsSomewhere(to),
         Storing(to) => to.token = 0 \/ (Storing(uploads[r]) /\ to.token = uploads[r].token),
         uploads[r].stage = "spend" => \A t \in tokens' : t.token # uploads[r].token
  PROVE  FilesInv'
  <1>1. MediaTypeOK /\ issued \in Nat /\ now \in Nat /\ now # 0
    BY DEF FilesInv, MediaTypeOK
  <1>2. /\ uploads' \in [Uploaders -> {Free} \cup Uploading \cup Spending \cup Writing]
        /\ uploads'[r] = to
        /\ \A q \in Uploaders \ {r} : uploads'[q] = uploads[q]
    BY <1>1, GoChangesOne
  <1>3. MediaTypeOK'
    BY <1>1, <1>2 DEF MediaTypeOK
  <1>4. RowsAreNamed' /\ RowsHaveFiles' /\ DeletedIsWhole'
    BY DEF FilesInv, RowsAreNamed, RowsHaveFiles, DeletedIsWhole
  <1>5. ASSUME NEW q \in Uploaders
        PROVE  FileAwaitsRow(q)' /\ PointsSomewhere(uploads'[q])
    <2>1. FileAwaitsRow(q) /\ PointsSomewhere(uploads[q])
      BY DEF FilesInv
    <2>2. CASE q = r
      BY <1>2, <2>2 DEF FileAwaitsRow
    <2>3. CASE q # r
      <3>1. uploads'[q] = uploads[q]
        BY <1>2, <2>3
      <3>2. \A p \in Uploaders : uploads'[p].stage = "row" => uploads'[p] = uploads[p]
        BY <1>2
      <3> QED
        BY <2>1, <3>1, <3>2 DEF FileAwaitsRow
    <2> QED
      BY <2>2, <2>3
  <1>6. \A i \in DOMAIN media' : media'[i].token <= issued
    BY DEF FilesInv, TokensAreCounted
  <1>7. ASSUME NEW t \in 1..issued PROVE RowsOf(t)' = RowsOf(t) /\ Using(t)' \subseteq Using(t)
    <2>1. Using(t)' = IF Storing(to) /\ to.token = t THEN Using(t) \cup {r} ELSE Using(t) \ {r}
      BY <1>1, GoMovesOne
    <2>2. Storing(to) /\ to.token = t => r \in Using(t)
      BY DEF Using
    <2> QED
      BY <2>1, <2>2 DEF RowsOf
  <1>8. ASSUME NEW t \in tokens' PROVE Spenders(t.token) \subseteq Spenders(t.token)'
    <2>1. r \notin Spenders(t.token)
      BY DEF Spenders
    <2>2. Spenders(t.token)' = IF to.stage = "spend" /\ to.token = t.token
                                 THEN Spenders(t.token) \cup {r} ELSE Spenders(t.token) \ {r}
      BY <1>1, GoMovesOne
    <2> QED
      BY <2>1, <2>2
  <1>9. TokensAreCounted'
    BY <1>3, <1>6, <1>7, <1>8, CountedStill
  <1>10. \A q \in Uploaders : FileAwaitsRow(q)' /\ PointsSomewhere(uploads[q])'
    <2>1. \A u : PointsSomewhere(u)' <=> PointsSomewhere(u)
      BY DEF PointsSomewhere
    <2> QED
      BY <1>5 DEF PointsSomewhere
  <1> QED
    BY <1>1, <1>3, <1>4, <1>9, <1>10 DEF FilesInv

(* The steps that walk.                                                    *)
LEMMA WalksKeepFiles ==
  ASSUME IsFiniteSet(Uploaders), FilesInv, NEW r \in Uploaders,
         \/ UploadFiles(r) \/ UploadFails(r) \/ SpendToken(r) \/ SoftDelete(r) \/ Restore(r)
  PROVE  FilesInv'
  <1>1. MediaTypeOK /\ issued \in Nat /\ PointsSomewhere(uploads[r]) /\ TokensAreCounted
    BY DEF FilesInv, MediaTypeOK
  <1>2. Free \in {Free} \cup Handling /\ Free.stage = "free"
    BY DEF Free
  <1>3. CASE UploadFiles(r)
    <2>1. PICK n \in 1..MaxBulk : Go(r, ToStore(0, n - 1))
      BY <1>3 DEF UploadFiles
    <2> DEFINE to == ToStore(0, n - 1)
    <2>2. n - 1 \in Nat
      BY MediaAssumption
    <2>3. to \in Uploading /\ to.stage = "store" /\ to.token = 0
      BY <2>2 DEF ToStore, Uploading
    <2> HIDE DEF to
    <2>4. to \in {Free} \cup Handling /\ PointsSomewhere(to)
      BY <1>1, <2>3 DEF PointsSomewhere, Handling
    <2>5. uploads[r].stage = "free" /\ UNCHANGED <<store, media, tokens, issued, now>>
      BY <1>3 DEF UploadFiles, UploaderAt
    <2>6. Go(r, to)
      BY <2>1 DEF to
    <2> QED
      BY <2>3, <2>4, <2>5, <2>6, WalkStep
  <1>4. CASE UploadFails(r)
    <2> DEFINE u == uploads[r]
               to == AfterFile(u)
    <2>1. /\ u.stage \in {"store", "row"} /\ u \in Uploading
          /\ Go(r, to) /\ UNCHANGED <<store, media, tokens, issued, now>>
      BY <1>1, <1>4, StageTells DEF UploadFails
    <2>2. \/ to = Free
          \/ to \in Uploading /\ to.stage = "store" /\ to.token = u.token
      <3>1. u.token \in Nat /\ u.more \in Nat
        BY <2>1 DEF Uploading
      <3>2. u.more # 0 => u.more - 1 \in Nat
        BY <3>1
      <3> QED
        BY <3>1, <3>2 DEF AfterFile, ToStore, Uploading
    <2> HIDE DEF to
    <2>3. to \in {Free} \cup Handling /\ PointsSomewhere(to) /\ to.stage # "row"
      BY <1>1, <1>2, <2>1, <2>2 DEF PointsSomewhere, Handling
    <2>4. Storing(to) => to.token = 0 \/ (Storing(u) /\ to.token = u.token)
      BY <1>2, <2>1, <2>2 DEF Storing
    <2> QED
      BY <2>1, <2>3, <2>4, WalkStep
  <1>5. CASE SpendToken(r)
    <2>1. /\ uploads[r].stage = "spend" /\ tokens' = Unspent(uploads[r].token)
          /\ Go(r, Free) /\ UNCHANGED <<store, media, issued, now>>
      BY <1>5 DEF SpendToken, UploaderAt
    <2>2. tokens' \subseteq tokens /\ \A t \in tokens' : t.token # uploads[r].token
      BY <2>1 DEF Unspent
    <2> QED
      BY <1>2, <2>1, <2>2, WalkStep DEF PointsSomewhere, Storing
  <1>6. ASSUME NEW stage \in {"delete", "restore"}, CheckRow(r, stage)
        PROVE  FilesInv'
    <2>1. PICK i \in DOMAIN media : Go(r, [stage |-> stage, row |-> i])
      BY <1>6 DEF CheckRow
    <2> DEFINE to == [stage |-> stage, row |-> i]
    <2>2. i \in Nat
      BY <1>1 DEF MediaTypeOK
    <2>3. to \in Writing /\ to.stage \in {"delete", "restore"} /\ to.row = i
      BY <2>2 DEF Writing
    <2> HIDE DEF to
    <2>4. to \in {Free} \cup Handling /\ PointsSomewhere(to)
      BY <2>1, <2>3 DEF PointsSomewhere, Handling
    <2>5. uploads[r].stage = "free" /\ UNCHANGED <<store, media, tokens, issued, now>>
      BY <1>6 DEF CheckRow, UploaderAt
    <2>6. Go(r, to)
      BY <2>1 DEF to
    <2> QED
      BY <2>3, <2>4, <2>5, <2>6, WalkStep DEF Storing
  <1> QED
    BY <1>3, <1>4, <1>5, <1>6 DEF SoftDelete, Restore

(* A good token is taken: whoever has used it has yet to remove it, so     *)
(* that the request that takes it is one more.                             *)
LEMMA ConfirmPresignUploadStep ==
  ASSUME IsFiniteSet(Uploaders), FilesInv, NEW r \in Uploaders, ConfirmPresignUpload(r)
  PROVE  FilesInv'
  <1>1. /\ MediaTypeOK /\ issued \in Nat /\ now \in Nat /\ now # 0 /\ TokensAreCounted
        /\ \A q \in Uploaders : FileAwaitsRow(q) /\ PointsSomewhere(uploads[q])
    BY DEF FilesInv, MediaTypeOK
  <1>2. uploads[r].stage = "free" /\ UNCHANGED <<store, media, issued, now>>
    BY DEF ConfirmPresignUpload, UploaderAt
  <1>3. RowsAreNamed' /\ RowsHaveFiles' /\ DeletedIsWhole'
    BY <1>2 DEF FilesInv, RowsAreNamed, RowsHaveFiles, DeletedIsWhole
  <1>4. PICK x \in tokens :
          \/ tokens' = tokens \ {x} /\ UNCHANGED uploads
          \/ Go(r, ToStore(x.token, 0)) /\ UNCHANGED tokens
    BY DEF ConfirmPresignUpload
  <1>5. CASE tokens' = tokens \ {x} /\ UNCHANGED uploads
    <2>1. MediaTypeOK'
      BY <1>1, <1>2, <1>5 DEF MediaTypeOK
    <2>2. \A q \in Uploaders : FileAwaitsRow(q)' /\ PointsSomewhere(uploads[q])'
      BY <1>1, <1>2, <1>5 DEF FileAwaitsRow, PointsSomewhere
    <2>3. \A t : RowsOf(t)' = RowsOf(t) /\ Using(t)' = Using(t) /\ Spenders(t)' = Spenders(t)
      BY <1>2, <1>5 DEF RowsOf, Using, Spenders
    <2>4. TokensAreCounted'
      <3>1. \A i \in DOMAIN media' : media'[i].token <= issued
        BY <1>1, <1>2 DEF TokensAreCounted
      <3> QED
        BY <1>2, <1>5, <2>1, <2>3, <3>1, CountedStill
    <2> QED
      BY <1>1, <1>2, <1>3, <2>1, <2>2, <2>4 DEF FilesInv
  <1>6. CASE Go(r, ToStore(x.token, 0)) /\ UNCHANGED tokens
    <2> DEFINE to == ToStore(x.token, 0)
    <2>1. x.token \in 1..issued /\ x.token \in Nat
      BY <1>1 DEF TokensAreCounted
    <2>2. to \in Uploading /\ to.stage = "store" /\ to.token = x.token
      BY <2>1 DEF ToStore, Uploading
    <2>3. Go(r, to)
      BY <1>6
    <2> HIDE DEF to
    <2>4. to \in {Free} \cup Handling /\ Storing(to)
      BY <2>2 DEF Handling, Storing
    <2>5. /\ uploads' \in [Uploaders -> {Free} \cup Uploading \cup Spending \cup Writing]
          /\ uploads'[r] = to
          /\ \A q \in Uploaders \ {r} : uploads'[q] = uploads[q]
      BY <1>1, <2>3, <2>4, GoChangesOne
    <2>6. MediaTypeOK'
      BY <1>1, <1>2, <1>6, <2>5 DEF MediaTypeOK
    <2>7. ASSUME NEW q \in Uploaders PROVE FileAwaitsRow(q)' /\ PointsSomewhere(uploads[q])'
      <3>1. FileAwaitsRow(q) /\ PointsSomewhere(uploads[q])
        BY <1>1
      <3>2. \A p \in Uploaders : uploads'[p].stage = "row" => uploads'[p] = uploads[p]
        BY <2>2, <2>5
      <3>3. CASE q = r
        BY <1>1, <1>2, <2>1, <2>2, <2>5, <3>3 DEF FileAwaitsRow, PointsSomewhere
      <3>4. CASE q # r
        <4>1. uploads'[q] = uploads[q]
          BY <2>5, <3>4
        <4> QED
          BY <1>2, <3>1, <3>2, <4>1 DEF FileAwaitsRow, PointsSomewhere
      <3> QED
        BY <3>3, <3>4
    <2>8. ASSUME NEW t \in 1..issued
          PROVE  /\ Cardinality(RowsOf(t)') + Cardinality(Using(t)') <= Cardinality(Uploaders)
                 /\ Spenders(t)' = Spenders(t) /\ RowsOf(t)' = RowsOf(t)
      <3>1. r \notin Using(t) /\ r \notin Spenders(t)
        BY <1>2 DEF Using, Spenders, Storing
      <3>2. /\ Using(t)' = IF to.token = t THEN Using(t) \cup {r} ELSE Using(t)
            /\ Spenders(t)' = Spenders(t)
        BY <1>1, <2>2, <2>3, <2>4, <3>1, GoMovesOne
      <3>3. RowsOf(t)' = RowsOf(t)
        BY <1>2 DEF RowsOf
      <3>4. /\ IsFiniteSet(Using(t)) /\ Cardinality(Using(t)) \in Nat
            /\ Cardinality(RowsOf(t)) \in Nat /\ Cardinality(Uploaders) \in Nat
            /\ Cardinality(Spenders(t)) \in Nat
        BY <1>1, UsesAreFinite
      <3>5. CASE to.token # t
        BY <1>1, <3>2, <3>3, <3>5 DEF TokensAreCounted
      <3>6. CASE to.token = t
        <4>1. Cardinality(RowsOf(t)) <= Cardinality(Spenders(t))
          BY <1>1, <2>2, <3>6 DEF TokensAreCounted
        <4>2. Cardinality(Using(t)) + Cardinality(Spenders(t)) + 1 <= Cardinality(Uploaders)
          BY <1>1, <3>1, RoomForOneMore
        <4>3. Cardinality(Using(t)') = Cardinality(Using(t)) + 1
          BY <3>1, <3>2, <3>4, <3>6, FS_AddElement
        <4> QED
          BY <3>2, <3>3, <3>4, <4>1, <4>2, <4>3
      <3> QED
        BY <3>2, <3>3, <3>5, <3>6
    <2>9. TokensAreCounted'
      <3>1. \A i \in DOMAIN media' : media'[i].token <= issued'
        BY <1>1, <1>2 DEF TokensAreCounted
      <3>2. \A t \in tokens' : t.token \in 1..issued'
        BY <1>1, <1>2, <1>6 DEF TokensAreCounted
      <3>3. \A t \in tokens' : Cardinality(RowsOf(t.token)') <= Cardinality(Spenders(t.token)')
        BY <1>1, <1>6, <2>8 DEF TokensAreCounted
      <3> QED
        BY <1>2, <2>8, <3>1, <3>2, <3>3 DEF TokensAreCounted
    <2> QED
      BY <1>1, <1>2, <1>3, <2>6, <2>7, <2>9 DEF FilesInv
  <1> QED
    BY <1>4, <1>5, <1>6

(* The file a request stores is a new one.                                 *)
LEMMA StoreFileStep ==
  ASSUME IsFiniteSet(Uploaders), FilesInv, NEW r \in Uploaders, StoreFile(r)
  PROVE  FilesInv'
  <1> DEFINE f == named + 1
             to == [uploads[r] EXCEPT !.stage = "row", !.file = f]
  <1>1. /\ MediaTypeOK /\ issued \in Nat /\ now \in Nat /\ now # 0
        /\ \A q \in Uploaders : FileAwaitsRow(q) /\ PointsSomewhere(uploads[q])
        /\ RowsAreNamed /\ RowsHaveFiles /\ DeletedIsWhole /\ TokensAreCounted
    BY DEF FilesInv, MediaTypeOK
  <1>2. /\ uploads[r].stage = "store" /\ named' = f /\ files' = Stored(f) /\ Go(r, to)
        /\ UNCHANGED <<storage, media, tokens, issued, now>>
    BY DEF StoreFile, UploaderAt
  <1>3. /\ named \in Nat /\ f \in Nat /\ named < f /\ files \subseteq 1..named
        /\ files \subseteq files' /\ files' \subseteq 1..f
        /\ storage = "local" => f \in files'
    BY <1>1, <1>2 DEF MediaTypeOK, Stored
  <1> HIDE DEF f
  <1>4. /\ to \in Uploading /\ to.stage = "row" /\ to.file = f /\ to.token = uploads[r].token
    <2>1. uploads[r] \in Uploading
      BY <1>1, <1>2, StageTells
    <2> QED
      BY <1>3, <2>1 DEF Uploading
  <1> HIDE DEF to
  <1>5. to \in {Free} \cup Handling /\ Storing(to)
    BY <1>4 DEF Handling, Storing
  <1>6. /\ uploads' \in [Uploaders -> {Free} \cup Uploading \cup Spending \cup Writing]
        /\ uploads'[r] = to
        /\ \A q \in Uploaders \ {r} : uploads'[q] = uploads[q]
    BY <1>1, <1>2, <1>5, GoChangesOne
  <1>7. MediaTypeOK'
    BY <1>1, <1>2, <1>3, <1>6 DEF MediaTypeOK
  <1>8. RowsAreNamed' /\ RowsHaveFiles' /\ DeletedIsWhole'
    BY <1>1, <1>2, <1>3 DEF RowsAreNamed, RowsHaveFiles, DeletedIsWhole
  <1>9. ASSUME NEW q \in Uploaders PROVE FileAwaitsRow(q)' /\ PointsSomewhere(uploads[q])'
    <2>1. \A p \in Uploaders : uploads[p].stage = "row" => uploads[p].file # f
      BY <1>1, <1>3 DEF FileAwaitsRow
    <2>2. \A i \in DOMAIN media : media[i].file # f
      BY <1>1, <1>3 DEF RowsAreNamed
    <2>3. CASE q = r
      <3>1. \A p \in Uploaders \ {r} : uploads'[p].stage = "row" => uploads'[p].file # f
        BY <1>6, <2>1
      <3>2. FileAwaitsRow(r)'
        BY <1>2, <1>3, <1>4, <1>6, <2>2, <3>1 DEF FileAwaitsRow
      <3>3. uploads[r].token <= issued
        BY <1>1, <1>2 DEF PointsSomewhere
      <3> QED
        BY <1>2, <1>4, <1>6, <2>3, <3>2, <3>3 DEF PointsSomewhere
    <2>4. CASE q # r
      <3>1. uploads'[q] = uploads[q]
        BY <1>6, <2>4
      <3>2. uploads[q].stage = "row" => uploads'[r].file # uploads[q].file
        BY <1>4, <1>6, <2>1
      <3>3. FileAwaitsRow(q)'
        <4> SUFFICES ASSUME uploads[q].stage = "row"
                     PROVE  FileAwaitsRow(q)'
          BY <3>1 DEF FileAwaitsRow
        <4>1. /\ uploads[q].file \in 1..named
              /\ storage = "local" => uploads[q].file \in files
              /\ \A i \in DOMAIN media : media[i].file # uploads[q].file
              /\ \A p \in Uploaders : uploads[p].stage = "row" /\ uploads[p].file = uploads[q].file => p = q
          BY <1>1 DEF FileAwaitsRow
        <4>2. \A p \in Uploaders : uploads'[p].stage = "row" /\ uploads'[p].file = uploads[q].file => p = q
          BY <1>6, <3>2, <4>1
        <4> QED
          BY <1>2, <1>3, <3>1, <4>1, <4>2 DEF FileAwaitsRow
      <3> QED
        BY <1>1, <1>2, <3>1, <3>3 DEF PointsSomewhere
    <2> QED
      BY <2>3, <2>4
  <1>10. TokensAreCounted'
    <2>1. \A i \in DOMAIN media' : media'[i].token <= issued
      BY <1>1, <1>2 DEF TokensAreCounted
    <2>2. ASSUME NEW t PROVE /\ RowsOf(t)' = RowsOf(t) /\ Using(t)' = Using(t)
                             /\ Spenders(t)' = Spenders(t)
      <3>1. r \in Using(t) <=> to.token = t
        BY <1>2, <1>4 DEF Using, Storing
      <3>2. r \notin Spenders(t)
        BY <1>2 DEF Spenders
      <3>3. RowsOf(t)' = RowsOf(t)
        BY <1>2 DEF RowsOf
      <3>4. /\ Using(t)' = IF Storing(to) /\ to.token = t THEN Using(t) \cup {r} ELSE Using(t) \ {r}
            /\ Spenders(t)' = IF to.stage = "spend" /\ to.token = t THEN Spenders(t) \cup {r}
                                                                   ELSE Spenders(t) \ {r}
        BY <1>1, <1>2, <1>5, GoMovesOne
      <3>5. Using(t)' = Using(t)
        BY <1>5, <3>1, <3>4
      <3>6. Spenders(t)' = Spenders(t)
        <4>1. to.stage # "spend"
          BY <1>4
        <4> QED
          BY <3>2, <3>4, <4>1
      <3> QED
        BY <3>3, <3>5, <3>6
    <2> QED
      BY <1>2, <1>7, <2>1, <2>2, CountedStill
  <1> QED
    BY <1>1, <1>2, <1>7, <1>8, <1>9, <1>10 DEF FilesInv

(* A row is made for the file the request stored; of a token, one use to   *)
(* come becomes one made.                                                  *)
LEMMA CreateRowStep ==
  ASSUME IsFiniteSet(Uploaders), FilesInv, NEW r \in Uploaders, CreateRow(r)
  PROVE  FilesInv'
  <1> DEFINE u == uploads[r]
             row == NewRow(u)
             to == IF u.token = 0 THEN AfterFile(u) ELSE [stage |-> "spend", token |-> u.token]
             n == Len(media) + 1
  <1>1. /\ MediaTypeOK /\ issued \in Nat /\ now \in Nat /\ now # 0
        /\ \A q \in Uploaders : FileAwaitsRow(q) /\ PointsSomewhere(uploads[q])
        /\ RowsAreNamed /\ RowsHaveFiles /\ DeletedIsWhole /\ TokensAreCounted
    BY DEF FilesInv, MediaTypeOK
  <1>2. /\ u.stage = "row" /\ media' = Append(media, row) /\ Go(r, to)
        /\ UNCHANGED <<store, tokens, issued, now>>
    BY DEF CreateRow, UploaderAt
  <1>3. u \in Uploading /\ u.file \in Nat /\ u.token \in Nat /\ u.more \in Nat
    <2>1. u \in Uploading
      BY <1>1, <1>2, StageTells
    <2> QED
      BY <2>1 DEF Uploading
  <1>4. /\ row \in Row /\ row.file = u.file /\ row.token = u.token
        /\ row.isDeleted = FALSE /\ row.isActive = TRUE /\ row.deletedAt = 0
    BY <1>3 DEF NewRow, Row
  <1>5. /\ to \in {Free} \cup Handling /\ to.stage # "row"
        /\ Storing(to) => to.token = 0
        /\ to.stage = "spend" <=> u.token # 0
        /\ to.stage = "spend" => to.token = u.token
        /\ to.stage \notin {"delete", "restore"}
    <2>1. CASE u.token # 0
      BY <1>3, <2>1 DEF Handling, Spending, Storing
    <2>2. CASE u.token = 0
      <3>1. u.more # 0 => u.more - 1 \in Nat
        BY <1>3
      <3>2. to = Free \/ (to \in Uploading /\ to.stage = "store" /\ to.token = 0)
        BY <1>3, <2>2, <3>1 DEF AfterFile, ToStore, Uploading
      <3> HIDE DEF to
      <3> QED
        BY <2>2, <3>2 DEF Handling, Storing, Free
    <2> QED
      BY <2>1, <2>2
  <1> HIDE DEF row, to
  <1>6. /\ media \in Seq(Row) /\ media' \in Seq(Row) /\ n \in Nat /\ n \notin DOMAIN media
        /\ DOMAIN media' = DOMAIN media \cup {n} /\ media'[n] = row
        /\ \A i \in DOMAIN media : media'[i] = media[i]
    BY <1>1, <1>2, <1>4 DEF MediaTypeOK
  <1> HIDE DEF n
  <1>7. /\ uploads' \in [Uploaders -> {Free} \cup Uploading \cup Spending \cup Writing]
        /\ uploads'[r] = to
        /\ \A q \in Uploaders \ {r} : uploads'[q] = uploads[q]
    BY <1>1, <1>2, <1>5, GoChangesOne
  <1>8. MediaTypeOK'
    BY <1>1, <1>2, <1>6, <1>7 DEF MediaTypeOK
  <1>9. /\ u.file \in 1..named
        /\ storage = "local" => u.file \in files
        /\ \A i \in DOMAIN media : media[i].file # u.file
    BY <1>1, <1>2 DEF FileAwaitsRow
  <1>10. RowsAreNamed' /\ RowsHaveFiles' /\ DeletedIsWhole'
    <2>1. RowsAreNamed'
      <3> HIDE DEF u
      <3> QED
        BY <1>1, <1>2, <1>4, <1>6, <1>9 DEF RowsAreNamed
    <2>2. RowsHaveFiles'
      <3> HIDE DEF u
      <3>1. /\ storage = "local" => \A i \in DOMAIN media : media[i].file \in files
            /\ \A i, j \in DOMAIN media : media[i].file = media[j].file => i = j
        BY <1>1 DEF RowsHaveFiles
      <3>2. /\ \A i \in DOMAIN media : media'[i].file = media[i].file
            /\ media'[n].file = u.file
        BY <1>4, <1>6
      <3>3. storage = "local" => \A i \in DOMAIN media' : media'[i].file \in files
        BY <1>6, <1>9, <3>1, <3>2
      <3>4. \A i, j \in DOMAIN media' : media'[i].file = media'[j].file => i = j
        BY <1>6, <1>9, <3>1, <3>2
      <3> QED
        BY <1>2, <3>3, <3>4 DEF RowsHaveFiles
    <2>3. DeletedIsWhole'
      <3> HIDE DEF u
      <3> SUFFICES ASSUME NEW i \in DOMAIN media'
                   PROVE  /\ media'[i].isDeleted = ~media'[i].isActive
                          /\ media'[i].isDeleted = (media'[i].deletedAt # 0)
        BY DEF DeletedIsWhole
      <3>1. CASE i = n
        <4>1. media'[i].isDeleted = FALSE /\ media'[i].isActive = TRUE /\ media'[i].deletedAt = 0
          BY <1>4, <1>6, <3>1
        <4> QED
          BY <4>1
      <3>2. CASE i \in DOMAIN media
        <4>1. media'[i] = media[i]
          BY <1>6, <3>2
        <4> QED
          BY <1>1, <3>2, <4>1 DEF DeletedIsWhole
      <3> QED
        BY <1>6, <3>1, <3>2
    <2> QED
      BY <2>1, <2>2, <2>3
  <1>11. ASSUME NEW q \in Uploaders PROVE FileAwaitsRow(q)' /\ PointsSomewhere(uploads[q])'
    <2>1. CASE q = r
      <3>1. u.token <= issued /\ 0 <= issued
        BY <1>1, <1>2 DEF PointsSomewhere
      <3> QED
        BY <1>2, <1>5, <1>7, <2>1, <3>1 DEF FileAwaitsRow, PointsSomewhere, Storing
    <2>2. CASE q # r
      <3>1. uploads'[q] = uploads[q]
        BY <1>7, <2>2
      <3>2. FileAwaitsRow(q)'
        <4> SUFFICES ASSUME uploads[q].stage = "row"
                     PROVE  FileAwaitsRow(q)'
          BY <3>1 DEF FileAwaitsRow
        <4>1. /\ uploads[q].file \in 1..named
              /\ storage = "local" => uploads[q].file \in files
              /\ \A i \in DOMAIN media : media[i].file # uploads[q].file
              /\ \A p \in Uploaders : uploads[p].stage = "row" /\ uploads[p].file = uploads[q].file => p = q
          BY <1>1 DEF FileAwaitsRow
        <4>2. u.file # uploads[q].file
          BY <1>2, <2>2, <4>1
        <4>3. \A i \in DOMAIN media' : media'[i].file # uploads[q].file
          BY <1>4, <1>6, <4>1, <4>2
        <4>4. \A p \in Uploaders : uploads'[p].stage = "row" /\ uploads'[p].file = uploads[q].file => p = q
          BY <1>5, <1>7, <4>1
        <4> QED
          BY <1>2, <3>1, <4>1, <4>3, <4>4 DEF FileAwaitsRow
      <3>3. PointsSomewhere(uploads[q])
        BY <1>1
      <3> QED
        BY <1>2, <1>6, <3>1, <3>2, <3>3 DEF PointsSomewhere
    <2> QED
      BY <2>1, <2>2
  <1>12. ASSUME NEW t \in 1..issued
         PROVE  /\ Cardinality(RowsOf(t)') + Cardinality(Using(t)') <= Cardinality(Uploaders)
                /\ Cardinality(RowsOf(t)) <= Cardinality(Spenders(t))
                     => Cardinality(RowsOf(t)') <= Cardinality(Spenders(t)')
    <2>1. /\ RowsOf(t)' = IF u.token = t THEN RowsOf(t) \cup {n} ELSE RowsOf(t)
          /\ n \notin RowsOf(t)
      BY <1>4, <1>6 DEF RowsOf
    <2>2. /\ Using(t)' = Using(t) \ {r}
          /\ Spenders(t)' = IF u.token = t THEN Spenders(t) \cup {r} ELSE Spenders(t) \ {r}
      <3>1. ~(Storing(to) /\ to.token = t)
        BY <1>5
      <3>2. to.stage = "spend" /\ to.token = t <=> u.token = t
        BY <1>5
      <3> QED
        BY <1>1, <1>2, <1>5, <3>1, <3>2, GoMovesOne
    <2>3. r \notin Spenders(t) /\ (r \in Using(t) <=> u.token = t)
      BY <1>2 DEF Spenders, Using, Storing
    <2>4. /\ IsFiniteSet(RowsOf(t)) /\ Cardinality(RowsOf(t)) \in Nat
          /\ IsFiniteSet(Using(t)) /\ Cardinality(Using(t)) \in Nat
          /\ IsFiniteSet(Spenders(t)) /\ Cardinality(Spenders(t)) \in Nat
          /\ Cardinality(Uploaders) \in Nat
      BY <1>1, UsesAreFinite
    <2>5. Cardinality(RowsOf(t)) + Cardinality(Using(t)) <= Cardinality(Uploaders)
      BY <1>1 DEF TokensAreCounted
    <2>6. CASE u.token = t
      <3>1. Cardinality(RowsOf(t)') = Cardinality(RowsOf(t)) + 1
        <4>1. RowsOf(t)' = RowsOf(t) \cup {n} /\ n \notin RowsOf(t)
          BY <2>1, <2>6
        <4> HIDE DEF u
        <4> QED
          BY <2>4, <4>1, FS_AddElement
      <3>2. Cardinality(Using(t)') = Cardinality(Using(t)) - 1
        <4>1. Using(t)' = Using(t) \ {r} /\ r \in Using(t)
          BY <2>2, <2>3, <2>6
        <4> HIDE DEF u
        <4> QED
          BY <2>4, <4>1, FS_RemoveElement
      <3>3. Cardinality(Spenders(t)') = Cardinality(Spenders(t)) + 1
        <4>1. Spenders(t)' = Spenders(t) \cup {r} /\ r \notin Spenders(t)
          BY <2>2, <2>3, <2>6
        <4> HIDE DEF u
        <4> QED
          BY <2>4, <4>1, FS_AddElement
      <3> QED
        BY <2>4, <2>5, <3>1, <3>2, <3>3
    <2>7. CASE u.token # t
      <3>1. Using(t)' = Using(t) /\ Spenders(t)' = Spenders(t) /\ RowsOf(t)' = RowsOf(t)
        BY <2>1, <2>2, <2>3, <2>7
      <3> QED
        BY <2>5, <3>1
    <2> QED
      BY <2>6, <2>7
  <1>13. TokensAreCounted'
    <2>1. u.token <= issued
      BY <1>1, <1>2 DEF PointsSomewhere
    <2>2. \A i \in DOMAIN media' : media'[i].token <= issued'
      BY <1>1, <1>2, <1>4, <1>6, <2>1 DEF TokensAreCounted
    <2>3. \A t \in tokens' : t.token \in 1..issued'
      BY <1>1, <1>2 DEF TokensAreCounted
    <2>4. \A t \in tokens' : Cardinality(RowsOf(t.token)') <= Cardinality(Spenders(t.token)')
      BY <1>1, <1>2, <1>12 DEF TokensAreCounted
    <2> QED
      BY <1>2, <1>12, <2>2, <2>3, <2>4 DEF TokensAreCounted
  <1> QED
    BY <1>1, <1>2, <1>8, <1>10, <1>11, <1>13 DEF FilesInv

(* A new token has no row and no request.                                  *)
LEMMA GeneratePresignUrlStep ==
  ASSUME IsFiniteSet(Uploaders), FilesInv, GeneratePresignUrl
  PROVE  FilesInv'
  <1> DEFINE x == [token |-> issued + 1, expiresAt |-> now + TokenLife]
  <1>1. /\ MediaTypeOK /\ issued \in Nat /\ now \in Nat /\ now # 0
        /\ \A q \in Uploaders : FileAwaitsRow(q) /\ PointsSomewhere(uploads[q])
        /\ RowsAreNamed /\ RowsHaveFiles /\ DeletedIsWhole /\ TokensAreCounted
    BY DEF FilesInv, MediaTypeOK
  <1>2. /\ issued' = issued + 1 /\ tokens' \subseteq tokens \cup {x}
        /\ UNCHANGED <<store, media, uploads, now>>
    BY DEF GeneratePresignUrl
  <1>3. x \in Token /\ x.token = issued + 1
    BY <1>1, MediaAssumption DEF Token
  <1> HIDE DEF x
  <1>4. MediaTypeOK'
    <2>1. tokens' \subseteq Token /\ issued' \in Nat
      BY <1>1, <1>2, <1>3 DEF MediaTypeOK
    <2> QED
      BY <1>1, <1>2, <2>1 DEF MediaTypeOK
  <1>5. RowsAreNamed' /\ RowsHaveFiles' /\ DeletedIsWhole'
    BY <1>1, <1>2 DEF RowsAreNamed, RowsHaveFiles, DeletedIsWhole
  <1>6. ASSUME NEW q \in Uploaders PROVE FileAwaitsRow(q)' /\ PointsSomewhere(uploads[q])'
    <2>1. FileAwaitsRow(q)'
      BY <1>1, <1>2 DEF FileAwaitsRow
    <2>2. uploads[q].stage \in {"store", "row", "spend"} => uploads[q].token \in Nat
      BY <1>1, StageTells DEF Uploading, Spending
    <2>3. PointsSomewhere(uploads[q])'
      BY <1>1, <1>2, <2>2 DEF PointsSomewhere
    <2> QED
      BY <2>1, <2>3
  <1>7. \A t : RowsOf(t)' = RowsOf(t) /\ Using(t)' = Using(t) /\ Spenders(t)' = Spenders(t)
    BY <1>2 DEF RowsOf, Using, Spenders
  <1>8. RowsOf(issued + 1) = {} /\ Using(issued + 1) = {}
    <2>1. \A i \in DOMAIN media : media[i].token <= issued /\ media[i].token \in Nat
      <3>1. \A i \in DOMAIN media : media[i] \in Row
        BY <1>1 DEF MediaTypeOK
      <3> QED
        BY <1>1, <3>1 DEF TokensAreCounted, Row
    <2>2. \A r \in Uploaders : Storing(uploads[r]) =>
             uploads[r].token <= issued /\ uploads[r].token \in Nat
      BY <1>1, StageTells DEF PointsSomewhere, Uploading, Storing
    <2> QED
      BY <1>1, <2>1, <2>2 DEF RowsOf, Using
  <1>9. ASSUME NEW t \in 1..issued'
        PROVE  Cardinality(RowsOf(t)) + Cardinality(Using(t)) <= Cardinality(Uploaders)
    <2>1. CASE t = issued + 1
      <3>1. Cardinality(RowsOf(t)) = 0 /\ Cardinality(Using(t)) = 0
        BY <1>8, <2>1, FS_EmptySet
      <3>2. Cardinality(Uploaders) \in Nat
        BY <1>1, UsesAreFinite
      <3> QED
        BY <3>1, <3>2
    <2>2. CASE t # issued + 1
      <3>1. t \in 1..issued
        BY <1>1, <1>2, <2>2
      <3> QED
        BY <1>1, <3>1 DEF TokensAreCounted
    <2> QED
      BY <2>1, <2>2
  <1>10. ASSUME NEW t \in tokens'
         PROVE  /\ t.token \in 1..issued'
                /\ Cardinality(RowsOf(t.token)) <= Cardinality(Spenders(t.token))
    <2>1. CASE t = x
      <3>1. Cardinality(RowsOf(issued + 1)) = 0
        BY <1>8, FS_EmptySet
      <3>2. Cardinality(Spenders(issued + 1)) \in Nat
        BY <1>1, UsesAreFinite
      <3> QED
        BY <1>1, <1>2, <1>3, <2>1, <3>1, <3>2
    <2>2. CASE t \in tokens
      BY <1>1, <1>2, <2>2 DEF TokensAreCounted
    <2> QED
      BY <1>2, <2>1, <2>2
  <1>11. \A i \in DOMAIN media' : media'[i].token <= issued'
    <2>1. \A i \in DOMAIN media : media[i].token \in Nat
      <3>1. \A i \in DOMAIN media : media[i] \in Row
        BY <1>1 DEF MediaTypeOK
      <3> QED
        BY <3>1 DEF Row
    <2> QED
      BY <1>1, <1>2, <2>1 DEF TokensAreCounted
  <1>12. TokensAreCounted'
    BY <1>7, <1>9, <1>10, <1>11 DEF TokensAreCounted
  <1> QED
    BY <1>1, <1>2, <1>4, <1>5, <1>6, <1>12 DEF FilesInv

(* A row is marked deleted or not in one statement.                        *)
LEMMA WriteRowStep ==
  ASSUME IsFiniteSet(Uploaders), FilesInv, NEW r \in Uploaders, WriteRow(r)
  PROVE  FilesInv'
  <1> DEFINE n == uploads[r].row
             row == IF UploaderAt(r, "delete") THEN Deleted(media[n]) ELSE Restored(media[n])
  <1>1. /\ MediaTypeOK /\ issued \in Nat /\ now \in Nat /\ now # 0
        /\ \A q \in Uploaders : FileAwaitsRow(q) /\ PointsSomewhere(uploads[q])
        /\ RowsAreNamed /\ RowsHaveFiles /\ DeletedIsWhole /\ TokensAreCounted
    BY DEF FilesInv, MediaTypeOK
  <1>2. /\ uploads[r].stage \in {"delete", "restore"} /\ Go(r, Free)
        /\ media' = [media EXCEPT ![n] = row]
        /\ UNCHANGED <<store, tokens, issued, now>>
    BY DEF WriteRow
  <1>3. n \in DOMAIN media /\ media \in Seq(Row) /\ media[n] \in Row
    BY <1>1, <1>2 DEF PointsSomewhere, MediaTypeOK
  <1>4. /\ row \in Row /\ row.file = media[n].file /\ row.token = media[n].token
        /\ \/ row.isDeleted = TRUE /\ row.isActive = FALSE /\ row.deletedAt # 0
           \/ row.isDeleted = FALSE /\ row.isActive = TRUE /\ row.deletedAt = 0
    <2> DEFINE x == media[n]
    <2>1. x \in Row
      BY <1>3
    <2> HIDE DEF x
    <2>2. /\ Deleted(x) \in Row /\ Deleted(x).file = x.file /\ Deleted(x).token = x.token
          /\ Deleted(x).isDeleted = TRUE /\ Deleted(x).isActive = FALSE /\ Deleted(x).deletedAt # 0
      BY <1>1, <2>1 DEF Deleted, Row
    <2>3. /\ Restored(x) \in Row /\ Restored(x).file = x.file /\ Restored(x).token = x.token
          /\ Restored(x).isDeleted = FALSE /\ Restored(x).isActive = TRUE /\ Restored(x).deletedAt = 0
      BY <2>1 DEF Restored, Row
    <2>4. row = Deleted(x) \/ row = Restored(x)
      BY DEF x
    <2>5. n \in DOMAIN media /\ x = media[n]
      BY <1>3 DEF x
    <2> HIDE DEF row
    <2> QED
      BY <2>2, <2>3, <2>4, <2>5
  <1> HIDE DEF row, n
  <1>5. /\ media' \in Seq(Row) /\ DOMAIN media' = DOMAIN media /\ media'[n] = row
        /\ \A i \in DOMAIN media : i # n => media'[i] = media[i]
    BY <1>2, <1>3, <1>4
  <1>6. /\ uploads' \in [Uploaders -> {Free} \cup Uploading \cup Spending \cup Writing]
        /\ uploads'[r] = Free
        /\ \A q \in Uploaders \ {r} : uploads'[q] = uploads[q]
    BY <1>1, <1>2, GoChangesOne
  <1>7. MediaTypeOK'
    BY <1>1, <1>2, <1>5, <1>6 DEF MediaTypeOK
  <1>8. /\ \A i \in DOMAIN media : media'[i].file = media[i].file
        /\ \A i \in DOMAIN media : media'[i].token = media[i].token
    BY <1>4, <1>5
  <1>9. RowsAreNamed' /\ RowsHaveFiles'
    BY <1>1, <1>2, <1>5, <1>8 DEF RowsAreNamed, RowsHaveFiles
  <1>10. DeletedIsWhole'
    <2> SUFFICES ASSUME NEW i \in DOMAIN media'
                 PROVE  /\ media'[i].isDeleted = ~media'[i].isActive
                        /\ media'[i].isDeleted = (media'[i].deletedAt # 0)
      BY DEF DeletedIsWhole
    <2>1. CASE i = n
      <3>1. media'[i] = row
        BY <1>5, <2>1
      <3>2. CASE row.isDeleted = TRUE /\ row.isActive = FALSE /\ row.deletedAt # 0
        BY <3>1, <3>2
      <3>3. CASE row.isDeleted = FALSE /\ row.isActive = TRUE /\ row.deletedAt = 0
        BY <3>1, <3>3
      <3> QED
        BY <1>4, <3>2, <3>3
    <2>2. CASE i # n
      <3>1. i \in DOMAIN media /\ media'[i] = media[i]
        BY <1>5, <2>2
      <3> QED
        BY <1>1, <3>1 DEF DeletedIsWhole
    <2> QED
      BY <2>1, <2>2
  <1>11. ASSUME NEW q \in Uploaders PROVE FileAwaitsRow(q)' /\ PointsSomewhere(uploads[q])'
    <2>1. Free.stage = "free"
      BY DEF Free
    <2>2. \A p \in Uploaders : uploads'[p].stage # "free" => uploads'[p] = uploads[p]
      BY <1>6, <2>1
    <2>3. FileAwaitsRow(q) /\ PointsSomewhere(uploads[q])
      BY <1>1
    <2>4. CASE uploads'[q].stage = "free"
      BY <2>4 DEF FileAwaitsRow, PointsSomewhere
    <2>5. CASE uploads'[q].stage # "free"
      <3>1. uploads'[q] = uploads[q]
        BY <2>2, <2>5
      <3>2. PointsSomewhere(uploads[q])'
        BY <1>2, <1>5, <2>3, <3>1 DEF PointsSomewhere
      <3>3. FileAwaitsRow(q)'
        BY <1>2, <1>5, <1>8, <2>2, <2>3, <3>1 DEF FileAwaitsRow
      <3> QED
        BY <3>2, <3>3
    <2> QED
      BY <2>4, <2>5
  <1>12. ASSUME NEW t PROVE RowsOf(t)' = RowsOf(t) /\ Using(t)' = Using(t) /\ Spenders(t)' = Spenders(t)
    <2>1. RowsOf(t)' = RowsOf(t)
      BY <1>5, <1>8 DEF RowsOf
    <2>2. r \notin Using(t) /\ r \notin Spenders(t)
      BY <1>2 DEF Using, Spenders, Storing
    <2>3. ~Storing(Free) /\ Free.stage # "spend"
      BY DEF Storing, Free
    <2> QED
      BY <1>1, <1>2, <2>1, <2>2, <2>3, GoMovesOne
  <1>13. TokensAreCounted'
    <2>1. \A i \in DOMAIN media' : media'[i].token <= issued
      BY <1>1, <1>5, <1>8 DEF TokensAreCounted
    <2> QED
      BY <1>2, <1>7, <1>12, <2>1, CountedStill
  <1> QED
    BY <1>1, <1>2, <1>7, <1>9, <1>10, <1>11, <1>13 DEF FilesInv

(* A restart frees the requests and forgets the tokens.                    *)
LEMMA MediaLostStep ==
  ASSUME IsFiniteSet(Uploaders), FilesInv, MediaLost, UNCHANGED <<store, media, issued, now>>
  PROVE  FilesInv'
  <1>1. /\ MediaTypeOK /\ issued \in Nat /\ now # 0
        /\ RowsAreNamed /\ RowsHaveFiles /\ DeletedIsWhole /\ TokensAreCounted
    BY DEF FilesInv, MediaTypeOK
  <1>2. tokens' = {} /\ \A r \in Uploaders : uploads'[r] = Free
    BY DEF MediaLost
  <1>3. Free.stage = "free"
    BY DEF Free
  <1>4. MediaTypeOK'
    BY <1>1 DEF MediaTypeOK, MediaLost
  <1>5. RowsAreNamed' /\ RowsHaveFiles' /\ DeletedIsWhole'
    BY <1>1 DEF RowsAreNamed, RowsHaveFiles, DeletedIsWhole
  <1>6. \A q \in Uploaders : FileAwaitsRow(q)' /\ PointsSomewhere(uploads[q])'
    BY <1>2, <1>3 DEF FileAwaitsRow, PointsSomewhere
  <1>7. \A t : RowsOf(t)' = RowsOf(t) /\ Using(t)' \subseteq Using(t)
    BY <1>2, <1>3 DEF RowsOf, Using, Storing
  <1>8. \A i \in DOMAIN media' : media'[i].token <= issued
    BY <1>1 DEF TokensAreCounted
  <1>9. TokensAreCounted'
    BY <1>2, <1>4, <1>7, <1>8, CountedStill
  <1> QED
    BY <1>1, <1>4, <1>5, <1>6, <1>9 DEF FilesInv

(* Every step of the system keeps the files' invariant.                    *)
LEMMA FilesStep ==
  ASSUME IsFiniteSet(Uploaders), FilesInv, [Next]_vars
  PROVE  FilesInv'
  <1>1. CASE UNCHANGED mediaVars
    BY <1>1 DEF mediaVars, FilesInv, MediaTypeOK, RowsAreNamed, RowsHaveFiles, DeletedIsWhole,
                FileAwaitsRow, PointsSomewhere, TokensAreCounted, RowsOf, Using, Spenders
  <1>2. CASE Tick
    <2>1. now \in Nat /\ now' = now + 1 /\ UNCHANGED <<store, media, tokens, issued, uploads>>
      BY <1>2 DEF Tick, FilesInv, MediaTypeOK
    <2>2. MediaTypeOK' /\ now' # 0
      BY <2>1 DEF FilesInv, MediaTypeOK
    <2>3. RowsAreNamed' /\ RowsHaveFiles' /\ DeletedIsWhole'
      BY <2>1 DEF FilesInv, RowsAreNamed, RowsHaveFiles, DeletedIsWhole
    <2>4. \A q \in Uploaders : FileAwaitsRow(q)' /\ PointsSomewhere(uploads[q])'
      BY <2>1 DEF FilesInv, FileAwaitsRow, PointsSomewhere
    <2>5. TokensAreCounted'
      BY <2>1 DEF FilesInv, TokensAreCounted, RowsOf, Using, Spenders
    <2> QED
      BY <2>2, <2>3, <2>4, <2>5 DEF FilesInv
  <1>3. CASE MediaNext
    BY <1>2, <1>3, WalksKeepFiles, StoreFileStep, CreateRowStep, ConfirmPresignUploadStep,
       WriteRowStep, GeneratePresignUrlStep DEF MediaNext
  <1>4. CASE Restart
    BY <1>4, MediaLostStep DEF Restart
  <1>5. [Next]_vars => UNCHANGED mediaVars \/ MediaNext \/ Restart
    BY DEF Next, vars
  <1> QED
    BY <1>1, <1>3, <1>4, <1>5

LEMMA FilesStart == ASSUME IsFiniteSet(Uploaders) PROVE MediaInit => FilesInv
  <1> SUFFICES ASSUME MediaInit PROVE FilesInv
    OBVIOUS
  <1>1. /\ named = 0 /\ storage \in {"local", "s3"} /\ files = {} /\ media = <<>> /\ tokens = {} /\ issued = 0 /\ now = 1
        /\ uploads = [r \in Uploaders |-> Free]
    BY DEF MediaInit
  <1>2. Free.stage = "free"
    BY DEF Free
  <1>3. MediaTypeOK
    BY <1>1 DEF MediaTypeOK
  <1>4. RowsAreNamed
    BY <1>1 DEF RowsAreNamed
  <1>5. RowsHaveFiles /\ DeletedIsWhole /\ TokensAreCounted
    BY <1>1 DEF RowsHaveFiles, DeletedIsWhole, TokensAreCounted
  <1>6. \A r \in Uploaders : FileAwaitsRow(r) /\ PointsSomewhere(uploads[r])
    BY <1>1, <1>2 DEF FileAwaitsRow, PointsSomewhere
  <1> QED
    BY <1>1, <1>3, <1>4, <1>5, <1>6 DEF FilesInv

(* Rows are of different files, which are on the disk where files are kept *)
(* there, deleted rows are wholly deleted, and a presigned token makes no  *)
(* more rows than there can be requests at once (media.service.ts),        *)
(* whatever overlaps, fails or restarts.                                   *)
THEOREM SoundFiles ==
  ASSUME IsFiniteSet(Uploaders)
  PROVE  Spec => []FilesAreSound
  <1>1. Init => FilesInv
    BY FilesStart DEF Init
  <1>2. FilesInv /\ [Next]_vars => FilesInv'
    BY FilesStep
  <1>3. FilesInv => FilesAreSound
    <2> SUFFICES ASSUME FilesInv PROVE FilesAreSound
      OBVIOUS
    <2>1. MediaTypeOK /\ RowsHaveFiles /\ DeletedIsWhole /\ TokensAreCounted
      BY DEF FilesInv
    <2>2. ASSUME NEW t \in 1..issued PROVE Cardinality(RowsOf(t)) <= Cardinality(Uploaders)
      <3>1. /\ Cardinality(RowsOf(t)) \in Nat /\ Cardinality(Using(t)) \in Nat
            /\ Cardinality(Uploaders) \in Nat
        BY <2>1, UsesAreFinite
      <3> QED
        BY <2>1, <3>1 DEF TokensAreCounted
    <2>3. TokenUsesAreBounded
      BY <2>2 DEF TokenUsesAreBounded, RowsOf
    <2> QED
      BY <2>1, <2>3 DEF FilesAreSound
  <1> QED
    BY <1>1, <1>2, <1>3, PTL DEF Spec

(***************************************************************************)
(* Rooms, messages and sockets.                                            *)
(***************************************************************************)
Underway == Opening \cup Sending \cup Reading

(* A request that writes receipts found messages of others, and has        *)
(* written one for each that it is not still to write. (table and written  *)
(* stand for the messages and the receipts, so that this can be said of a  *)
(* state and of the next.)                                                 *)
ReadsRightly(q, table, written) ==
  q.stage = "receipts" =>
    /\ q.left \subseteq q.found /\ q.found \subseteq DOMAIN table
    /\ \A m \in q.found :
         table[m].sender # q.user /\ (m \in q.left \/ <<m, q.user>> \in written)

ChatTypeOK ==
  /\ scene \in Scenes
  /\ assignee \in Users \cup {NoUser}
  /\ rooms \in Seq(Room)
  /\ messages \in Seq(Message)
  /\ receipts \subseteq (DOMAIN messages) \X Users
  /\ requests \in [Requests -> {Answered, Failed} \cup Underway]
  /\ sockets \in [Sockets -> Connected \cup {Closed}]
  /\ calls \in Nat

ChatInv ==
  /\ ChatTypeOK
  /\ SocketsListenToTheirOwn
  /\ \A r \in Requests : ReadsRightly(requests[r], messages, receipts)

LEMMA StagesOfRequests ==
  ASSUME ChatTypeOK, NEW r \in Requests
  PROVE  /\ requests[r].stage \in {"find", "create"} => requests[r] \in Opening
         /\ requests[r].stage = "announce" => requests[r] \in Sending
         /\ requests[r].stage = "receipts" => requests[r] \in Reading
         /\ requests[r] \in {Answered, Failed} <=> requests[r].stage \in {"answered", "failed"}
  <1>1. requests[r] \in {Answered, Failed} \cup Underway
    BY DEF ChatTypeOK
  <1> QED
    BY <1>1 DEF Underway, Answered, Failed, Opening, Sending, Reading

(* A step of a request, messages and receipts only being added to.         *)
LEMMA RequestMoved ==
  ASSUME ChatInv, NEW r \in Requests, NEW to \in {Answered, Failed} \cup Underway, Goes(r, to),
         DOMAIN messages \subseteq DOMAIN messages',
         \A m \in DOMAIN messages : messages'[m] = messages[m],
         receipts \subseteq receipts', ReadsRightly(to, messages', receipts')
  PROVE  /\ requests' \in [Requests -> {Answered, Failed} \cup Underway]
         /\ \A q \in Requests : ReadsRightly(requests'[q], messages', receipts')
  <1>1. /\ requests' \in [Requests -> {Answered, Failed} \cup Underway] /\ requests'[r] = to
        /\ \A q \in Requests \ {r} : requests'[q] = requests[q]
    BY DEF ChatInv, ChatTypeOK, Goes
  <1>2. ASSUME NEW q \in Requests \ {r} PROVE ReadsRightly(requests'[q], messages', receipts')
    <2>1. ReadsRightly(requests[q], messages, receipts) /\ requests'[q] = requests[q]
      BY <1>1 DEF ChatInv
    <2> QED
      BY <2>1 DEF ReadsRightly
  <1>3. ReadsRightly(requests'[r], messages', receipts')
    BY <1>1 DEF ReadsRightly
  <1> QED
    BY <1>1, <1>2, <1>3

(* ... of which most write no receipts.                                    *)
LEMMA OthersDoNotRead ==
  ASSUME NEW to, to \in {Answered, Failed} \cup Opening \cup Sending
  PROVE  /\ to \in {Answered, Failed} \cup Underway
         /\ ReadsRightly(to, messages', receipts')
  <1>1. to.stage # "receipts"
    BY DEF Answered, Failed, Opening, Sending
  <1> QED
    BY <1>1 DEF Underway, ReadsRightly

(* Sockets that did not change still listen to their own.                  *)
LEMMA SocketsStay ==
  ASSUME ChatInv, UNCHANGED sockets
  PROVE  SocketsListenToTheirOwn'
  BY DEF ChatInv, SocketsListenToTheirOwn

(* The steps of requests that leave rooms, messages, receipts and sockets. *)
LEMMA RequestsThatLook ==
  ASSUME ChatInv, NEW r \in Requests, UNCHANGED <<scene, mediaVars>>,
         OpenRoom(r) \/ FindPeople(r) \/ StatementFails(r) \/ MarkRead(r)
  PROVE  ChatInv'
  <1>1. ChatTypeOK /\ calls \in Nat
    BY DEF ChatInv, ChatTypeOK
  <1>2. PICK to : /\ to \in {Answered, Failed} \cup Underway /\ Goes(r, to) /\ ReadsRightly(to, messages', receipts')
                  /\ UNCHANGED <<assignee, rooms, messages, receipts, sockets>> /\ calls' \in Nat
    <2>1. CASE OpenRoom(r)
      <3>1. PICK topic \in Topics :
              Goes(r, IF RoomsOf(topic) # {} THEN Answered
                      ELSE [stage |-> "find", topic |-> topic, people |-> {}])
        BY <2>1 DEF OpenRoom
      <3> DEFINE to == IF RoomsOf(topic) # {} THEN Answered
                       ELSE [stage |-> "find", topic |-> topic, people |-> {}]
      <3>2. to \in {Answered, Failed} \cup Opening \cup Sending
        BY DEF Opening
      <3>3. Goes(r, to)
        BY <3>1
      <3> HIDE DEF to
      <3>4. UNCHANGED <<assignee, rooms, messages, receipts, sockets>> /\ calls' \in Nat
        BY <1>1, <2>1 DEF OpenRoom, Arrives
      <3> QED
        BY <3>2, <3>3, <3>4, OthersDoNotRead
    <2>2. CASE FindPeople(r)
      <3> DEFINE q == requests[r]
                 to == [q EXCEPT !.stage = "create", !.people = People(q.topic)]
      <3>1. q \in Opening
        BY <1>1, <2>2, StagesOfRequests DEF FindPeople, At
      <3>2. People(q.topic) \in SUBSET Users
        <4>1. q.topic \in {"TICKET"} \cup Agencies
          BY <3>1 DEF Opening, Topics
        <4> HIDE DEF q
        <4> QED
          BY <1>1, <4>1, ConversationsAssumption DEF People, ChatTypeOK
      <3>3. to \in Opening
        <4> HIDE DEF q
        <4> QED
          BY <3>1, <3>2 DEF Opening
      <3>4. Goes(r, to)
        BY <2>2 DEF FindPeople
      <3> HIDE DEF to
      <3>5. UNCHANGED <<assignee, rooms, messages, receipts, sockets>> /\ calls' \in Nat
        BY <1>1, <2>2 DEF FindPeople
      <3> QED
        BY <3>3, <3>4, <3>5, OthersDoNotRead
    <2>3. CASE StatementFails(r)
      BY <1>1, <2>3, OthersDoNotRead DEF StatementFails
    <2>4. CASE MarkRead(r)
      <3>1. PICK k \in DOMAIN rooms, u \in Users :
              Goes(r, [stage |-> "receipts", user |-> u, found |-> Others(k, u), left |-> Others(k, u)])
        BY <2>4 DEF MarkRead
      <3> DEFINE O == Others(k, u)
                 to == [stage |-> "receipts", user |-> u, found |-> O, left |-> O]
      <3>2. /\ O \subseteq DOMAIN messages /\ O \subseteq Nat
            /\ \A m \in O : messages[m].sender # u
        BY <1>1 DEF Others, ChatTypeOK
      <3>3. Goes(r, to)
        BY <3>1
      <3> HIDE DEF O
      <3>4. to \in Reading /\ to.user = u /\ to.found = O /\ to.left = O
        BY <3>2 DEF Reading
      <3> HIDE DEF to
      <3>5. UNCHANGED <<assignee, rooms, messages, receipts, sockets>> /\ calls' \in Nat
        BY <1>1, <2>4 DEF MarkRead, Arrives
      <3>6. ReadsRightly(to, messages', receipts')
        BY <3>2, <3>4, <3>5 DEF ReadsRightly
      <3> QED
        BY <3>3, <3>4, <3>5, <3>6 DEF Underway
    <2> QED
      BY <2>1, <2>2, <2>3, <2>4
  <1>3. /\ requests' \in [Requests -> {Answered, Failed} \cup Underway]
        /\ \A q \in Requests : ReadsRightly(requests'[q], messages', receipts')
    BY <1>2, RequestMoved
  <1>4. ChatTypeOK'
    BY <1>1, <1>2, <1>3 DEF ChatTypeOK
  <1> QED
    BY <1>2, <1>3, <1>4, SocketsStay DEF ChatInv

LEMMA CreateRoomStep ==
  ASSUME ChatInv, NEW r \in Requests, CreateRoom(r), UNCHANGED <<scene, mediaVars>>
  PROVE  ChatInv'
  <1> DEFINE q == requests[r]
             room == [topic |-> q.topic, participants |-> q.people]
  <1>1. ChatTypeOK /\ rooms \in Seq(Room)
    BY DEF ChatInv, ChatTypeOK
  <1>2. /\ q.stage = "create" /\ UNCHANGED <<assignee, messages, receipts, sockets, calls>>
        /\ \/ UNCHANGED rooms
           \/ rooms' = Append(rooms, room)
    BY DEF CreateRoom, At
  <1>3. PICK to \in {Answered, Failed} : Goes(r, to)
    BY DEF CreateRoom
  <1>4. q \in Opening
    BY <1>1, <1>2, StagesOfRequests
  <1>5. room \in Room
    BY <1>4 DEF Opening, Room
  <1> HIDE DEF room
  <1>6. /\ requests' \in [Requests -> {Answered, Failed} \cup Underway]
        /\ \A p \in Requests : ReadsRightly(requests'[p], messages', receipts')
    <2>1. to \in {Answered, Failed} \cup Underway /\ ReadsRightly(to, messages', receipts')
      BY <1>3, OthersDoNotRead
    <2> QED
      BY <1>2, <1>3, <2>1, RequestMoved
  <1>7. rooms' \in Seq(Room)
    BY <1>1, <1>2, <1>5
  <1>8. ChatTypeOK'
    BY <1>1, <1>2, <1>6, <1>7 DEF ChatTypeOK
  <1> QED
    BY <1>2, <1>6, <1>8, SocketsStay DEF ChatInv

LEMMA AddParticipantStep ==
  ASSUME ChatInv, NEW r \in Requests, AddParticipant(r), UNCHANGED <<scene, mediaVars>>
  PROVE  ChatInv'
  <1>1. ChatTypeOK /\ rooms \in Seq(Room) /\ calls \in Nat
    BY DEF ChatInv, ChatTypeOK
  <1>2. PICK to \in {Answered, Failed} : Goes(r, to)
    BY DEF AddParticipant
  <1>3. UNCHANGED <<assignee, messages, receipts, sockets>> /\ calls' \in Nat
    BY <1>1 DEF AddParticipant, Arrives
  <1>4. /\ requests' \in [Requests -> {Answered, Failed} \cup Underway]
        /\ \A p \in Requests : ReadsRightly(requests'[p], messages', receipts')
    <2>1. to \in {Answered, Failed} \cup Underway /\ ReadsRightly(to, messages', receipts')
      BY <1>2, OthersDoNotRead
    <2> QED
      BY <1>2, <1>3, <2>1, RequestMoved
  <1>5. rooms' \in Seq(Room) /\ DOMAIN rooms' = DOMAIN rooms
    <2>1. CASE UNCHANGED rooms
      BY <1>1, <2>1
    <2>2. ASSUME NEW k \in DOMAIN rooms, NEW u \in Users,
                 rooms' = [rooms EXCEPT ![k].participants = @ \cup {u}]
          PROVE  rooms' \in Seq(Room) /\ DOMAIN rooms' = DOMAIN rooms
      <3> DEFINE room == [rooms[k] EXCEPT !.participants = @ \cup {u}]
      <3>1. rooms[k] \in Room
        BY <1>1
      <3>2. room \in Room
        BY <3>1 DEF Room
      <3>3. rooms' = [rooms EXCEPT ![k] = room]
        BY <2>2
      <3> HIDE DEF room
      <3> QED
        BY <1>1, <3>2, <3>3
    <2> QED
      BY <2>1, <2>2 DEF AddParticipant
  <1>6. ChatTypeOK'
    BY <1>1, <1>3, <1>4, <1>5 DEF ChatTypeOK
  <1> QED
    BY <1>3, <1>4, <1>6, SocketsStay DEF ChatInv

LEMMA SendMessageStep ==
  ASSUME ChatInv, NEW r \in Requests, SendMessage(r), UNCHANGED <<scene, mediaVars>>
  PROVE  ChatInv'
  <1> DEFINE n == Len(messages) + 1
             to == [stage |-> "announce", message |-> n]
  <1>1. ChatTypeOK /\ messages \in Seq(Message) /\ calls \in Nat /\ rooms \in Seq(Room)
    BY DEF ChatInv, ChatTypeOK
  <1>2. PICK k \in DOMAIN rooms, u \in Users :
          messages' = Append(messages, [room |-> k, sender |-> u])
    BY DEF SendMessage
  <1> DEFINE text == [room |-> k, sender |-> u]
  <1>3. text \in Message
    BY <1>1 DEF Message
  <1> HIDE DEF text
  <1>4. /\ messages' \in Seq(Message) /\ n \in Nat /\ DOMAIN messages' = DOMAIN messages \cup {n}
        /\ \A m \in DOMAIN messages : messages'[m] = messages[m]
    <2>1. messages' = Append(messages, text)
      BY <1>2 DEF text
    <2> QED
      BY <1>1, <1>3, <2>1
  <1>5. /\ Goes(r, to) /\ UNCHANGED <<assignee, rooms, receipts, sockets>> /\ calls' \in Nat
    BY <1>1 DEF SendMessage, Arrives
  <1> HIDE DEF n
  <1>6. to \in Sending
    BY <1>4 DEF Sending
  <1> HIDE DEF to
  <1>7. /\ requests' \in [Requests -> {Answered, Failed} \cup Underway]
        /\ \A p \in Requests : ReadsRightly(requests'[p], messages', receipts')
    <2>1. to \in {Answered, Failed} \cup Underway /\ ReadsRightly(to, messages', receipts')
      BY <1>6, OthersDoNotRead
    <2> QED
      BY <1>4, <1>5, <2>1, RequestMoved
  <1>8. receipts' \subseteq (DOMAIN messages') \X Users
    BY <1>1, <1>4, <1>5 DEF ChatTypeOK
  <1>9. ChatTypeOK'
    BY <1>1, <1>4, <1>5, <1>7, <1>8 DEF ChatTypeOK
  <1> QED
    BY <1>5, <1>7, <1>9, SocketsStay DEF ChatInv

LEMMA AnnounceStep ==
  ASSUME ChatInv, NEW r \in Requests, Announce(r), UNCHANGED <<scene, mediaVars>>
  PROVE  ChatInv'
  <1> DEFINE m == requests[r].message
             heard(s) == [sockets[s] EXCEPT !.got = @ \cup {m}]
  <1>1. ChatTypeOK /\ sockets \in [Sockets -> Connected \cup {Closed}]
    BY DEF ChatInv, ChatTypeOK
  <1>2. /\ requests[r].stage = "announce" /\ Goes(r, Answered)
        /\ sockets' = [s \in Sockets |-> IF s \in Audience(messages[m].room) THEN heard(s) ELSE sockets[s]]
        /\ UNCHANGED <<assignee, rooms, messages, receipts, calls>>
    BY DEF Announce, At
  <1>3. m \in Nat
    BY <1>1, <1>2, StagesOfRequests DEF Sending
  <1> HIDE DEF m
  <1>4. ASSUME NEW s \in Sockets, sockets[s] # Closed
        PROVE  /\ heard(s) \in Connected /\ heard(s).client = sockets[s].client
               /\ heard(s).joined = sockets[s].joined /\ heard(s).subscribed = sockets[s].subscribed
    <2> DEFINE x == sockets[s]
    <2>1. x \in Connected
      BY <1>1, <1>4
    <2> HIDE DEF x
    <2>2. x.got \cup {m} \in SUBSET Nat
      BY <1>3, <2>1 DEF Connected
    <2>3. [x EXCEPT !.got = @ \cup {m}] \in Connected
      BY <2>1, <2>2 DEF Connected
    <2> QED
      BY <2>1, <2>3 DEF Connected, x
  <1>5. \A s \in Audience(messages[m].room) : s \in Sockets /\ sockets[s] # Closed
    BY DEF Audience
  <1>6. ASSUME NEW s \in Sockets
        PROVE  /\ sockets'[s] = sockets[s] \/ (sockets[s] # Closed /\ sockets'[s] = heard(s))
               /\ sockets'[s] \in Connected \cup {Closed}
    <2> HIDE DEF heard
    <2>1. sockets'[s] = IF s \in Audience(messages[m].room) THEN heard(s) ELSE sockets[s]
      BY <1>2
    <2> QED
      BY <1>1, <1>4, <1>5, <2>1
  <1> HIDE DEF heard
  <1>7. sockets' \in [Sockets -> Connected \cup {Closed}]
    BY <1>2, <1>6
  <1>8. SocketsListenToTheirOwn'
    <2> SUFFICES ASSUME NEW s \in Sockets, sockets'[s] # Closed
                 PROVE  LET c == sockets'[s].client IN
                        /\ \A a \in Agencies : <<"agency", a>> \in sockets'[s].joined => c.admin \/ c.agency = a
                        /\ sockets'[s].subscribed = sockets'[s].joined \ {<<"user", c.user>>}
      BY DEF SocketsListenToTheirOwn
    <2>1. /\ sockets[s] # Closed /\ sockets'[s].client = sockets[s].client
          /\ sockets'[s].joined = sockets[s].joined /\ sockets'[s].subscribed = sockets[s].subscribed
      BY <1>4, <1>6
    <2> QED
      BY <2>1 DEF ChatInv, SocketsListenToTheirOwn
  <1>9. /\ requests' \in [Requests -> {Answered, Failed} \cup Underway]
        /\ \A p \in Requests : ReadsRightly(requests'[p], messages', receipts')
    <2>1. Answered \in {Answered, Failed} \cup Underway /\ ReadsRightly(Answered, messages', receipts')
      BY OthersDoNotRead
    <2> QED
      BY <1>2, <2>1, RequestMoved
  <1>10. ChatTypeOK'
    BY <1>1, <1>2, <1>7, <1>9 DEF ChatTypeOK
  <1> QED
    BY <1>2, <1>8, <1>9, <1>10 DEF ChatInv

LEMMA WriteReceiptStep ==
  ASSUME ChatInv, NEW r \in Requests, WriteReceipt(r), UNCHANGED <<scene, mediaVars>>
  PROVE  ChatInv'
  <1> DEFINE q == requests[r]
  <1>1. ChatTypeOK /\ ReadsRightly(q, messages, receipts)
    BY DEF ChatInv
  <1>2. q.stage = "receipts" /\ UNCHANGED <<assignee, rooms, messages, sockets, calls>>
    BY DEF WriteReceipt, At
  <1>3. q \in Reading
    BY <1>1, <1>2, StagesOfRequests
  <1>4. PICK to : /\ Goes(r, to) /\ to \in {Answered, Failed} \cup Underway
                  /\ receipts \subseteq receipts' /\ receipts' \subseteq (DOMAIN messages) \X Users
                  /\ ReadsRightly(to, messages, receipts')
    <2>1. CASE q.left = {} /\ Goes(r, Answered) /\ UNCHANGED receipts
      BY <1>1, <2>1 DEF ChatTypeOK, ReadsRightly, Answered
    <2>2. ASSUME NEW m \in q.left, receipts' = receipts \cup {<<m, q.user>>},
                 Goes(r, [q EXCEPT !.left = Left(q, m)])
          PROVE  \E to : /\ Goes(r, to) /\ to \in {Answered, Failed} \cup Underway
                         /\ receipts \subseteq receipts' /\ receipts' \subseteq (DOMAIN messages) \X Users
                         /\ ReadsRightly(to, messages, receipts')
      <3> DEFINE L == Left(q, m)
                 to == [q EXCEPT !.left = L]
      <3>1. /\ L \subseteq q.left /\ L \in SUBSET Nat /\ q.user \in Users
            /\ \A k \in q.left : k = m \/ k \in L
        BY <1>3 DEF Left, Reading
      <3>2. Goes(r, to)
        BY <2>2
      <3> HIDE DEF L
      <3>3. /\ to \in Reading /\ to.left = L /\ to.found = q.found /\ to.user = q.user
        <4> HIDE DEF q
        <4> QED
          BY <1>3, <3>1 DEF Reading
      <3> HIDE DEF to
      <3>4. /\ q.left \subseteq q.found /\ q.found \subseteq DOMAIN messages
            /\ \A k \in q.found : messages[k].sender # q.user
                                   /\ (k \in q.left \/ <<k, q.user>> \in receipts)
        BY <1>1, <1>2 DEF ReadsRightly
      <3> HIDE DEF q
      <3>5. receipts' \subseteq (DOMAIN messages) \X Users
        BY <1>1, <2>2, <3>1, <3>4 DEF ChatTypeOK
      <3>6. ReadsRightly(to, messages, receipts')
        BY <2>2, <3>1, <3>3, <3>4 DEF ReadsRightly
      <3> QED
        BY <2>2, <3>2, <3>3, <3>5, <3>6 DEF Underway
    <2> QED
      BY <2>1, <2>2 DEF WriteReceipt
  <1>5. /\ requests' \in [Requests -> {Answered, Failed} \cup Underway]
        /\ \A p \in Requests : ReadsRightly(requests'[p], messages', receipts')
    BY <1>2, <1>4, RequestMoved
  <1>6. ChatTypeOK'
    BY <1>1, <1>2, <1>4, <1>5 DEF ChatTypeOK
  <1> QED
    BY <1>2, <1>5, <1>6, SocketsStay DEF ChatInv

(***************************************************************************)
(* Sockets.                                                                *)
(***************************************************************************)

(* What a connected socket keeps to.                                       *)
Listens(x) ==
  /\ \A a \in Agencies : <<"agency", a>> \in x.joined => x.client.admin \/ x.client.agency = a
  /\ x.subscribed = x.joined \ {<<"user", x.client.user>>}

(* A step of one socket.                                                   *)
LEMMA SocketMoved ==
  ASSUME ChatInv, NEW s \in Sockets, NEW x, sockets' = [sockets EXCEPT ![s] = x],
         x = Closed \/ (x \in Connected /\ Listens(x)),
         UNCHANGED <<assignee, rooms, messages, receipts, requests, calls, scene>>
  PROVE  ChatInv'
  <1>1. ChatTypeOK /\ sockets \in [Sockets -> Connected \cup {Closed}]
    BY DEF ChatInv, ChatTypeOK
  <1>2. /\ sockets' \in [Sockets -> Connected \cup {Closed}] /\ sockets'[s] = x
        /\ \A u \in Sockets \ {s} : sockets'[u] = sockets[u]
    BY <1>1
  <1>3. ChatTypeOK'
    BY <1>1, <1>2 DEF ChatTypeOK
  <1>4. \A u \in Sockets : sockets[u] # Closed => Listens(sockets[u])
    BY DEF ChatInv, SocketsListenToTheirOwn, Listens
  <1>5. \A u \in Sockets : sockets'[u] # Closed => Listens(sockets'[u])
    BY <1>2, <1>4
  <1>6. SocketsListenToTheirOwn'
    BY <1>5 DEF SocketsListenToTheirOwn, Listens
  <1>7. \A r \in Requests : ReadsRightly(requests'[r], messages', receipts')
    BY DEF ChatInv
  <1> QED
    BY <1>3, <1>6, <1>7 DEF ChatInv

(* Every channel has the kind that its first part says.                    *)
LEMMA ChannelKinds ==
  ASSUME NEW channel \in Channels
  PROVE  /\ \A u : channel = <<"user", u>> => channel[1] = "user"
         /\ \A a : channel = <<"agency", a>> => channel[1] = "agency" /\ channel[2] = a
  OBVIOUS

LEMMA HandleConnectionStep ==
  ASSUME ChatInv, NEW s \in Sockets, HandleConnection(s), UNCHANGED <<scene, mediaVars>>
  PROVE  ChatInv'
  <1>1. PICK c \in Clients :
          LET feed == {<<"agency", a>> : a \in {c.agency} \ {NoAgency}} IN
          sockets' = [sockets EXCEPT ![s] =
            [client |-> c, joined |-> {<<"user", c.user>>} \cup feed, subscribed |-> feed,
             got |-> {}, entered |-> {}]]
    BY DEF HandleConnection
  <1> DEFINE feed == {<<"agency", a>> : a \in {c.agency} \ {NoAgency}}
             user == <<"user", c.user>>
             x == [client |-> c, joined |-> {user} \cup feed, subscribed |-> feed, got |-> {},
                   entered |-> {}]
  <1>2. sockets' = [sockets EXCEPT ![s] = x]
    BY <1>1
  <1>3. c.user \in Users /\ c.agency \in Agencies \cup {NoAgency}
    BY ConversationsAssumption
  <1>4. feed \subseteq Channels /\ user \in Channels
    BY <1>3 DEF Channels
  <1>5. user \notin feed /\ \A a \in Agencies : <<"agency", a>> \in {user} \cup feed => c.agency = a
    <2>1. \A a : <<"agency", a>> # user
      OBVIOUS
    <2> QED
      BY <2>1
  <1> HIDE DEF feed, user
  <1>6. /\ x \in Connected /\ x.client = c /\ x.joined = {user} \cup feed /\ x.subscribed = feed
    BY <1>4 DEF Connected
  <1> HIDE DEF x
  <1>7. Listens(x)
    BY <1>5, <1>6 DEF Listens, user
  <1>8. UNCHANGED <<assignee, rooms, messages, receipts, requests, calls, scene>>
    BY DEF HandleConnection
  <1> QED
    BY <1>2, <1>6, <1>7, <1>8, SocketMoved

(* A socket joins no agency's channel that is not its own.                 *)
LEMMA HandleSubscribeStep ==
  ASSUME ChatInv, NEW s \in Sockets, HandleSubscribe(s), UNCHANGED <<scene, mediaVars>>
  PROVE  ChatInv'
  <1> DEFINE y == sockets[s]
  <1>1. PICK channel \in Channels :
          /\ IsValidChannel(channel, y.client)
          /\ sockets' = [sockets EXCEPT ![s].joined = @ \cup {channel},
                                        ![s].subscribed = @ \cup {channel},
                                        ![s].entered = @ \cup RoomsOn(channel)]
    BY DEF HandleSubscribe
  <1> DEFINE x == [y EXCEPT !.joined = @ \cup {channel}, !.subscribed = @ \cup {channel},
                            !.entered = @ \cup RoomsOn(channel)]
  <1>2. sockets' = [sockets EXCEPT ![s] = x]
    BY <1>1
  <1>3. y \in Connected /\ Listens(y)
    BY DEF ChatInv, ChatTypeOK, SocketsListenToTheirOwn, Listens, HandleSubscribe
  <1> HIDE DEF y
  <1>4. /\ y.joined \cup {channel} \in SUBSET Channels
        /\ y.subscribed \cup {channel} \in SUBSET Channels
        /\ y.entered \cup RoomsOn(channel) \in SUBSET Nat
    BY <1>3 DEF Connected, RoomsOn
  <1>5. /\ x \in Connected /\ x.client = y.client /\ x.joined = y.joined \cup {channel}
        /\ x.subscribed = y.subscribed \cup {channel}
    <2> HIDE DEF Channels
    <2> QED
      BY <1>3, <1>4 DEF Connected
  <1> HIDE DEF x
  <1>6. /\ channel # <<"user", y.client.user>>
        /\ \A a \in Agencies : channel = <<"agency", a>> => y.client.admin \/ y.client.agency = a
    BY <1>1, ChannelKinds DEF IsValidChannel
  <1>7. Listens(x)
    <2>1. \A a \in Agencies : <<"agency", a>> \in x.joined => y.client.admin \/ y.client.agency = a
      BY <1>3, <1>5, <1>6 DEF Listens
    <2>2. x.subscribed = x.joined \ {<<"user", y.client.user>>}
      BY <1>3, <1>5, <1>6 DEF Listens
    <2> QED
      BY <1>5, <2>1, <2>2 DEF Listens
  <1>8. UNCHANGED <<assignee, rooms, messages, receipts, requests, calls, scene>>
    BY DEF HandleSubscribe
  <1> QED
    BY <1>2, <1>5, <1>7, <1>8, SocketMoved

LEMMA HandleUnsubscribeStep ==
  ASSUME ChatInv, NEW s \in Sockets, HandleUnsubscribe(s), UNCHANGED <<scene, mediaVars>>
  PROVE  ChatInv'
  <1> DEFINE y == sockets[s]
  <1>1. PICK channel \in Channels :
          sockets' = [sockets EXCEPT ![s].joined = @ \ {channel},
                                     ![s].subscribed = @ \ {channel}]
    BY DEF HandleUnsubscribe
  <1> DEFINE x == [y EXCEPT !.joined = @ \ {channel}, !.subscribed = @ \ {channel}]
  <1>2. sockets' = [sockets EXCEPT ![s] = x]
    BY <1>1
  <1>3. y \in Connected /\ Listens(y)
    BY DEF ChatInv, ChatTypeOK, SocketsListenToTheirOwn, Listens, HandleUnsubscribe
  <1> HIDE DEF y
  <1>4. /\ y.joined \ {channel} \in SUBSET Channels /\ y.subscribed \ {channel} \in SUBSET Channels
    BY <1>3 DEF Connected
  <1>5. /\ x \in Connected /\ x.client = y.client /\ x.joined = y.joined \ {channel}
        /\ x.subscribed = y.subscribed \ {channel}
    BY <1>3, <1>4 DEF Connected
  <1> HIDE DEF x
  <1>6. Listens(x)
    BY <1>3, <1>5 DEF Listens
  <1>7. UNCHANGED <<assignee, rooms, messages, receipts, requests, calls, scene>>
    BY DEF HandleUnsubscribe
  <1> QED
    BY <1>2, <1>5, <1>6, <1>7, SocketMoved

LEMMA RestartStep ==
  ASSUME ChatInv, Restart
  PROVE  ChatInv'
  <1>1. /\ requests' = [r \in Requests |-> IF requests[r] = Answered THEN Answered ELSE Failed]
        /\ sockets' = [s \in Sockets |-> Closed]
        /\ UNCHANGED <<scene, assignee, rooms, messages, receipts, calls>>
    BY DEF Restart
  <1>2. ChatTypeOK'
    BY <1>1 DEF ChatInv, ChatTypeOK
  <1>3. SocketsListenToTheirOwn'
    BY <1>1 DEF SocketsListenToTheirOwn
  <1>4. \A r \in Requests : ReadsRightly(requests'[r], messages', receipts')
    BY <1>1 DEF ReadsRightly, Answered, Failed
  <1> QED
    BY <1>1, <1>2, <1>3, <1>4 DEF ChatInv

LEMMA ChatStep == ChatInv /\ [Next]_vars => ChatInv'
  <1> SUFFICES ASSUME ChatInv, [Next]_vars PROVE ChatInv'
    OBVIOUS
  <1>1. CASE UNCHANGED <<scene, chatVars>>
    BY <1>1 DEF chatVars, ChatInv, ChatTypeOK, SocketsListenToTheirOwn
  <1>2. ASSUME Reassign, UNCHANGED <<scene, mediaVars>> PROVE ChatInv'
    <2>1. assignee' \in Users /\ UNCHANGED <<rooms, messages, receipts, requests, sockets, calls>>
      BY <1>2 DEF Reassign
    <2>2. ChatTypeOK'
      BY <1>2, <2>1 DEF ChatInv, ChatTypeOK
    <2> QED
      BY <2>1, <2>2 DEF ChatInv, SocketsListenToTheirOwn
  <1>3. ASSUME RoomsStep, UNCHANGED <<scene, mediaVars>> PROVE ChatInv'
    BY <1>3, RequestsThatLook, CreateRoomStep DEF RoomsStep
  <1>4. ASSUME PeopleStep \/ MessagesStep \/ ReceiptsStep, UNCHANGED <<scene, mediaVars>>
        PROVE  ChatInv'
    BY <1>4, RequestsThatLook, AddParticipantStep, SendMessageStep, AnnounceStep, WriteReceiptStep
       DEF PeopleStep, MessagesStep, ReceiptsStep
  <1>5. ASSUME SocketsStep, UNCHANGED <<scene, mediaVars>> PROVE ChatInv'
    <2>1. PICK s \in Sockets :
            \/ HandleConnection(s) \/ HandleSubscribe(s)
            \/ HandleUnsubscribe(s) \/ HandleDisconnect(s)
      BY <1>5 DEF SocketsStep
    <2>2. CASE HandleDisconnect(s)
      BY <1>5, <2>2, SocketMoved DEF HandleDisconnect
    <2> QED
      BY <1>5, <2>1, <2>2, HandleConnectionStep, HandleSubscribeStep, HandleUnsubscribeStep
  <1> QED
    BY <1>1, <1>2, <1>3, <1>4, <1>5, RestartStep DEF Next, vars

LEMMA ChatStart == Init => ChatInv
  <1> SUFFICES ASSUME Init PROVE ChatInv
    OBVIOUS
  <1> USE DEF Init
  <1>1. ChatTypeOK
    BY DEF ChatTypeOK
  <1>3. SocketsListenToTheirOwn
    BY DEF SocketsListenToTheirOwn
  <1>4. \A r \in Requests : ReadsRightly(requests[r], messages, receipts)
    BY DEF ReadsRightly, Answered
  <1> QED
    BY <1>1, <1>3, <1>4 DEF ChatInv

(***************************************************************************)
(* The number of rooms.                                                    *)
(***************************************************************************)

(* The requests that found no room about a topic and have yet to make one. *)
Openers(topic) ==
  {r \in Requests : requests[r].stage \in {"find", "create"} /\ requests[r].topic = topic}

(* An agency's rooms and those still to be made have a request each, since *)
(* none looks in vain once there is a room.                                *)
RoomsAreFew ==
  /\ Cardinality(RoomsOf("TICKET")) <= 1
  /\ \A a \in Agencies :
       Cardinality(RoomsOf(a)) + Cardinality(Openers(a)) <= Cardinality(Requests)

LEMMA OpenersMoveOne ==
  ASSUME ChatTypeOK, NEW r \in Requests, NEW to, Goes(r, to), NEW t
  PROVE  Openers(t)' = IF to.stage \in {"find", "create"} /\ to.topic = t
                         THEN Openers(t) \cup {r} ELSE Openers(t) \ {r}
  <1>1. requests'[r] = to /\ \A q \in Requests \ {r} : requests'[q] = requests[q]
    BY DEF ChatTypeOK, Goes
  <1> QED
    BY <1>1 DEF Openers

(* Rooms and openers are finitely many.                                    *)
LEMMA RoomsAreFinite ==
  ASSUME IsFiniteSet(Requests), ChatTypeOK, NEW t
  PROVE  /\ IsFiniteSet(RoomsOf(t)) /\ Cardinality(RoomsOf(t)) \in Nat
         /\ IsFiniteSet(Openers(t)) /\ Cardinality(Openers(t)) \in Nat
         /\ Cardinality(Requests) \in Nat
  <1>1. Len(rooms) \in Nat /\ DOMAIN rooms = 1..Len(rooms)
    BY DEF ChatTypeOK
  <1>2. RoomsOf(t) \subseteq DOMAIN rooms /\ Openers(t) \subseteq Requests
    BY DEF RoomsOf, Openers
  <1>3. IsFiniteSet(DOMAIN rooms)
    BY <1>1, FS_Interval
  <1>4. IsFiniteSet(RoomsOf(t)) /\ IsFiniteSet(Openers(t))
    BY <1>2, <1>3, FS_Subset
  <1> QED
    BY <1>4, FS_CardinalityType

(* No rooms more and no openers more.                                      *)
LEMMA FewStill ==
  ASSUME IsFiniteSet(Requests), ChatTypeOK, RoomsAreFew,
         \A t : RoomsOf(t)' = RoomsOf(t), \A t : Openers(t)' \subseteq Openers(t)
  PROVE  RoomsAreFew'
  <1>1. ASSUME NEW a \in Agencies
        PROVE  Cardinality(RoomsOf(a)') + Cardinality(Openers(a)') <= Cardinality(Requests)
    <2>1. /\ Cardinality(RoomsOf(a)) \in Nat /\ Cardinality(Requests) \in Nat
          /\ IsFiniteSet(Openers(a)) /\ Cardinality(Openers(a)) \in Nat
          /\ Cardinality(RoomsOf(a)) + Cardinality(Openers(a)) <= Cardinality(Requests)
      BY RoomsAreFinite DEF RoomsAreFew
    <2>2. Openers(a)' \subseteq Openers(a) /\ RoomsOf(a)' = RoomsOf(a)
      OBVIOUS
    <2>3. IsFiniteSet(Openers(a)') /\ Cardinality(Openers(a)') <= Cardinality(Openers(a))
      BY <2>1, <2>2, FS_Subset
    <2>4. Cardinality(Openers(a)') \in Nat
      BY <2>3, FS_CardinalityType
    <2> QED
      BY <2>1, <2>2, <2>3, <2>4
  <1> QED
    BY <1>1 DEF RoomsAreFew

(* A request that looks in vain is one of those that may make a room.      *)
LEMMA OpenRoomCounts ==
  ASSUME IsFiniteSet(Requests), ChatTypeOK, RoomsAreFew, NEW r \in Requests, OpenRoom(r)
  PROVE  RoomsAreFew'
  <1>1. PICK topic \in Topics :
          Goes(r, IF RoomsOf(topic) # {} THEN Answered
                  ELSE [stage |-> "find", topic |-> topic, people |-> {}])
    BY DEF OpenRoom
  <1>2. \A t : RoomsOf(t)' = RoomsOf(t)
    BY DEF OpenRoom, RoomsOf
  <1>3. CASE RoomsOf(topic) # {}
    <2>1. Goes(r, Answered) /\ Answered.stage = "answered"
      BY <1>1, <1>3 DEF Answered
    <2>2. \A t : Openers(t)' \subseteq Openers(t)
      BY <2>1, OpenersMoveOne
    <2> QED
      BY <1>2, <2>2, FewStill
  <1>4. CASE RoomsOf(topic) = {}
    <2> DEFINE to == [stage |-> "find", topic |-> topic, people |-> {}]
    <2>1. Goes(r, to)
      BY <1>1, <1>4
    <2>2. \A t : Openers(t)' = IF topic = t THEN Openers(t) \cup {r} ELSE Openers(t) \ {r}
      BY <2>1, OpenersMoveOne
    <2>3. ASSUME NEW a \in Agencies
          PROVE  Cardinality(RoomsOf(a)') + Cardinality(Openers(a)') <= Cardinality(Requests)
      <3>1. /\ Cardinality(RoomsOf(a)) \in Nat /\ Cardinality(Requests) \in Nat
            /\ IsFiniteSet(Openers(a)) /\ Cardinality(Openers(a)) \in Nat
            /\ Cardinality(RoomsOf(a)) + Cardinality(Openers(a)) <= Cardinality(Requests)
        BY RoomsAreFinite DEF RoomsAreFew
      <3>2. Openers(a)' \subseteq Requests
        BY DEF Openers
      <3>3. IsFiniteSet(Openers(a)') /\ Cardinality(Openers(a)') <= Cardinality(Requests)
        BY <3>2, FS_Subset
      <3>4. Cardinality(Openers(a)') \in Nat
        BY <3>3, FS_CardinalityType
      <3>5. CASE a = topic
        <4>1. RoomsOf(a)' = {}
          BY <1>2, <1>4, <3>5
        <4>2. Cardinality(RoomsOf(a)') = 0
          BY <4>1, FS_EmptySet
        <4> QED
          BY <3>1, <3>3, <3>4, <4>2
      <3>6. CASE a # topic
        <4>1. Openers(a)' \subseteq Openers(a) /\ RoomsOf(a)' = RoomsOf(a)
          BY <1>2, <2>2, <3>6
        <4>2. Cardinality(Openers(a)') <= Cardinality(Openers(a))
          BY <3>1, <4>1, FS_Subset
        <4> QED
          BY <3>1, <3>4, <4>1, <4>2
      <3> QED
        BY <3>5, <3>6
    <2> QED
      BY <1>2, <2>3 DEF RoomsAreFew
  <1> QED
    BY <1>3, <1>4

(* A ticket's room is made where there is none; an agency's by one of      *)
(* those that looked in vain.                                              *)
LEMMA CreateRoomCounts ==
  ASSUME IsFiniteSet(Requests), ChatTypeOK, RoomsAreFew, NEW r \in Requests, CreateRoom(r)
  PROVE  RoomsAreFew'
  <1> DEFINE q == requests[r]
             room == [topic |-> q.topic, participants |-> q.people]
             n == Len(rooms) + 1
  <1>1. PICK to \in {Answered, Failed} : Goes(r, to)
    BY DEF CreateRoom
  <1>2. \A t : Openers(t)' = Openers(t) \ {r}
    BY <1>1, OpenersMoveOne DEF Answered, Failed
  <1>3. CASE UNCHANGED rooms
    BY <1>2, <1>3, FewStill DEF RoomsOf
  <1>4. CASE ~RoomRefused(q.topic) /\ rooms' = Append(rooms, room)
    <2>1. rooms \in Seq(Room) /\ q.stage = "create"
      BY DEF ChatTypeOK, CreateRoom, At
    <2>2. q \in Opening
      BY <2>1, StagesOfRequests
    <2>3. room \in Room /\ room.topic = q.topic
      BY <2>2 DEF Opening, Room
    <2> HIDE DEF room
    <2>4. /\ DOMAIN rooms' = DOMAIN rooms \cup {n} /\ n \notin DOMAIN rooms
          /\ rooms'[n] = room /\ \A k \in DOMAIN rooms : rooms'[k] = rooms[k]
      BY <1>4, <2>1, <2>3
    <2> HIDE DEF n
    <2>5. \A t : RoomsOf(t)' = IF t = q.topic THEN RoomsOf(t) \cup {n} ELSE RoomsOf(t)
      BY <2>3, <2>4 DEF RoomsOf
    <2>6. \A t : n \notin RoomsOf(t)
      BY <2>4 DEF RoomsOf
    <2>7. Cardinality(RoomsOf("TICKET")') <= 1
      <3>1. CASE q.topic = "TICKET"
        <4>1. RoomsOf("TICKET")' = {n}
          BY <1>4, <2>5, <3>1 DEF RoomRefused
        <4>2. Cardinality({n}) = 1
          BY FS_Singleton
        <4> QED
          BY <4>1, <4>2
      <3>2. CASE q.topic # "TICKET"
        BY <2>5, <3>2 DEF RoomsAreFew
      <3> QED
        BY <3>1, <3>2
    <2>8. ASSUME NEW a \in Agencies
          PROVE  Cardinality(RoomsOf(a)') + Cardinality(Openers(a)') <= Cardinality(Requests)
      <3>1. /\ IsFiniteSet(RoomsOf(a)) /\ Cardinality(RoomsOf(a)) \in Nat
            /\ IsFiniteSet(Openers(a)) /\ Cardinality(Openers(a)) \in Nat
            /\ Cardinality(Requests) \in Nat
            /\ Cardinality(RoomsOf(a)) + Cardinality(Openers(a)) <= Cardinality(Requests)
        BY RoomsAreFinite DEF RoomsAreFew
      <3>2. Openers(a)' = Openers(a) \ {r}
        BY <1>2
      <3>3. CASE a = q.topic
        <4>1. r \in Openers(a) /\ RoomsOf(a)' = RoomsOf(a) \cup {n} /\ n \notin RoomsOf(a)
          BY <2>1, <2>5, <2>6, <3>3 DEF Openers
        <4>2. Cardinality(RoomsOf(a)') = Cardinality(RoomsOf(a)) + 1
          BY <3>1, <4>1, FS_AddElement
        <4>3. Cardinality(Openers(a)') = Cardinality(Openers(a)) - 1
          BY <3>1, <3>2, <4>1, FS_RemoveElement
        <4> QED
          BY <3>1, <4>2, <4>3
      <3>4. CASE a # q.topic
        <4>1. RoomsOf(a)' = RoomsOf(a) /\ Openers(a)' \subseteq Openers(a)
          BY <2>5, <3>2, <3>4
        <4>2. IsFiniteSet(Openers(a)') /\ Cardinality(Openers(a)') <= Cardinality(Openers(a))
          BY <3>1, <4>1, FS_Subset
        <4>3. Cardinality(Openers(a)') \in Nat
          BY <4>2, FS_CardinalityType
        <4> QED
          BY <3>1, <4>1, <4>2, <4>3
      <3> QED
        BY <3>3, <3>4
    <2> QED
      BY <2>7, <2>8 DEF RoomsAreFew
  <1> QED
    BY <1>3, <1>4 DEF CreateRoom

(* The other steps make no room and no opener.                             *)
LEMMA OthersOpenNothing ==
  ASSUME ChatTypeOK, NEW r \in Requests,
         \/ FindPeople(r) \/ StatementFails(r) \/ AddParticipant(r)
         \/ SendMessage(r) \/ Announce(r) \/ MarkRead(r) \/ WriteReceipt(r)
  PROVE  \A t : RoomsOf(t)' = RoomsOf(t) /\ Openers(t)' \subseteq Openers(t)
  <1> DEFINE q == requests[r]
  <1>1. CASE FindPeople(r)
    <2> DEFINE to == [q EXCEPT !.stage = "create", !.people = People(q.topic)]
    <2>1. q.stage = "find" /\ Goes(r, to) /\ UNCHANGED rooms
      BY <1>1 DEF FindPeople, At
    <2>2. q \in Opening
      BY <2>1, StagesOfRequests
    <2>3. to.stage = "create" /\ to.topic = q.topic
      BY <2>2 DEF Opening
    <2> HIDE DEF to
    <2>4. \A t : Openers(t)' = IF q.topic = t THEN Openers(t) \cup {r} ELSE Openers(t) \ {r}
      BY <2>1, <2>3, OpenersMoveOne
    <2>5. r \in Openers(q.topic)
      BY <2>1 DEF Openers
    <2> QED
      BY <2>1, <2>4, <2>5 DEF RoomsOf
  <1>2. CASE AddParticipant(r)
    <2>1. PICK to \in {Answered, Failed} : Goes(r, to)
      BY <1>2 DEF AddParticipant
    <2>2. \A t : Openers(t)' \subseteq Openers(t)
      BY <2>1, OpenersMoveOne DEF Answered, Failed
    <2>3. rooms \in Seq(Room)
      BY DEF ChatTypeOK
    <2>4. DOMAIN rooms' = DOMAIN rooms /\ \A k \in DOMAIN rooms : rooms'[k].topic = rooms[k].topic
      <3>1. ASSUME NEW k \in DOMAIN rooms, NEW u \in Users,
                   rooms' = [rooms EXCEPT ![k].participants = @ \cup {u}]
            PROVE  /\ DOMAIN rooms' = DOMAIN rooms
                   /\ \A j \in DOMAIN rooms : rooms'[j].topic = rooms[j].topic
        <4> DEFINE room == [rooms[k] EXCEPT !.participants = @ \cup {u}]
        <4>1. room.topic = rooms[k].topic
          BY <2>3 DEF Room
        <4>2. rooms' = [rooms EXCEPT ![k] = room]
          BY <3>1
        <4> HIDE DEF room
        <4> QED
          BY <2>3, <4>1, <4>2
      <3> QED
        BY <1>2, <3>1 DEF AddParticipant
    <2> QED
      BY <2>2, <2>4 DEF RoomsOf
  <1>3. CASE StatementFails(r) \/ SendMessage(r) \/ Announce(r) \/ MarkRead(r) \/ WriteReceipt(r)
    <2>1. UNCHANGED rooms
      BY <1>3 DEF StatementFails, SendMessage, Announce, MarkRead, WriteReceipt
    <2>2. PICK to : Goes(r, to) /\ to.stage \notin {"find", "create"}
      <3>1. CASE WriteReceipt(r)
        <4>1. q.stage = "receipts"
          BY <3>1 DEF WriteReceipt, At
        <4>2. q \in Reading
          BY <4>1, StagesOfRequests
        <4> HIDE DEF q
        <4>3. \A L : [q EXCEPT !.left = L].stage = "receipts"
          BY <4>1, <4>2 DEF Reading
        <4>4. PICK to : Goes(r, to) /\ (to = Answered \/ \E L : to = [q EXCEPT !.left = L])
          BY <3>1 DEF WriteReceipt, q
        <4>5. CASE to = Answered
          BY <4>4, <4>5 DEF Answered
        <4>6. ASSUME NEW L, to = [q EXCEPT !.left = L] PROVE to.stage = "receipts"
          BY <4>3, <4>6
        <4> QED
          BY <4>4, <4>5, <4>6
      <3>2. CASE StatementFails(r) \/ Announce(r)
        BY <3>2 DEF StatementFails, Announce, Answered, Failed
      <3>3. CASE SendMessage(r)
        BY <3>3 DEF SendMessage
      <3>4. CASE MarkRead(r)
        <4>1. PICK k, u : Goes(r, [stage |-> "receipts", user |-> u, found |-> Others(k, u),
                                   left |-> Others(k, u)])
          BY <3>4 DEF MarkRead
        <4> QED
          BY <4>1
      <3> QED
        BY <1>3, <3>1, <3>2, <3>3, <3>4
    <2>3. \A t : Openers(t)' \subseteq Openers(t)
      BY <2>2, OpenersMoveOne
    <2> QED
      BY <2>1, <2>3 DEF RoomsOf
  <1> QED
    BY <1>1, <1>2, <1>3

LEMMA RoomsAreFewStep ==
  ASSUME IsFiniteSet(Requests), ChatTypeOK, RoomsAreFew, [Next]_vars
  PROVE  RoomsAreFew'
  <1>1. CASE UNCHANGED <<rooms, requests>>
    BY <1>1, FewStill DEF RoomsOf, Openers
  <1>2. CASE Restart
    <2>1. \A r \in Requests : requests'[r] \in {Answered, Failed} /\ UNCHANGED rooms
      BY <1>2 DEF Restart
    <2>2. \A t : RoomsOf(t)' = RoomsOf(t) /\ Openers(t)' \subseteq Openers(t)
      BY <1>2, <2>1 DEF Restart, RoomsOf, Openers, Answered, Failed
    <2> QED
      BY <2>2, FewStill
  <1>3. CASE RoomsStep \/ PeopleStep \/ MessagesStep \/ ReceiptsStep
    BY <1>3, OpenRoomCounts, CreateRoomCounts, OthersOpenNothing, FewStill
       DEF RoomsStep, PeopleStep, MessagesStep, ReceiptsStep
  <1>4. Reassign \/ SocketsStep => UNCHANGED <<rooms, requests>>
    BY DEF Reassign, SocketsStep, HandleConnection, HandleSubscribe, HandleUnsubscribe,
           HandleDisconnect
  <1> QED
    BY <1>1, <1>2, <1>3, <1>4 DEF Next, vars, chatVars

(***************************************************************************)
(* What sockets hear.                                                      *)
(***************************************************************************)
MessageIsStored(q, table) == q.stage = "announce" => q.message \in DOMAIN table

(* What a socket has heard are stored messages of rooms it entered, and it *)
(* has entered those whose channel it has joined.                          *)
Hears(x, table) ==
  /\ \A m \in x.got : m \in DOMAIN table /\ table[m].room \in x.entered
  /\ \A k \in 1..MaxRooms : <<"chat", k>> \in x.joined => k \in x.entered

HeardInv ==
  /\ \A r \in Requests : MessageIsStored(requests[r], messages)
  /\ \A s \in Sockets : sockets[s] # Closed => Hears(sockets[s], messages)

(* Messages only added to, a request moved, sockets as they were.          *)
LEMMA HeardStill ==
  ASSUME ChatTypeOK, HeardInv, NEW r \in Requests, NEW to, Goes(r, to), UNCHANGED sockets,
         DOMAIN messages \subseteq DOMAIN messages',
         \A m \in DOMAIN messages : messages'[m] = messages[m],
         MessageIsStored(to, messages')
  PROVE  HeardInv'
  <1>1. requests'[r] = to /\ \A q \in Requests \ {r} : requests'[q] = requests[q]
    BY DEF ChatTypeOK, Goes
  <1>2. \A q \in Requests : MessageIsStored(requests'[q], messages')
    BY <1>1 DEF HeardInv, MessageIsStored
  <1>3. \A s \in Sockets : sockets'[s] # Closed => Hears(sockets'[s], messages')
    BY DEF HeardInv, Hears
  <1> QED
    BY <1>2, <1>3 DEF HeardInv

LEMMA RequestsAreNotHeard ==
  ASSUME ChatTypeOK, HeardInv, NEW r \in Requests,
         \/ OpenRoom(r) \/ FindPeople(r) \/ CreateRoom(r) \/ StatementFails(r)
         \/ AddParticipant(r) \/ SendMessage(r) \/ MarkRead(r) \/ WriteReceipt(r)
  PROVE  HeardInv'
  <1> DEFINE q == requests[r]
  <1>1. CASE SendMessage(r)
    <2> DEFINE n == Len(messages) + 1
               to == [stage |-> "announce", message |-> n]
    <2>1. messages \in Seq(Message)
      BY DEF ChatTypeOK
    <2>2. PICK text : messages' = Append(messages, text)
      BY <1>1 DEF SendMessage
    <2>3. /\ DOMAIN messages' = DOMAIN messages \cup {n}
          /\ \A m \in DOMAIN messages : messages'[m] = messages[m]
      BY <2>1, <2>2
    <2>4. Goes(r, to) /\ UNCHANGED sockets
      BY <1>1 DEF SendMessage
    <2> HIDE DEF n
    <2>5. MessageIsStored(to, messages')
      BY <2>3 DEF MessageIsStored
    <2> QED
      BY <2>3, <2>4, <2>5, HeardStill
  <1>2. CASE ~SendMessage(r)
    <2>1. UNCHANGED <<messages, sockets>>
      BY <1>2 DEF OpenRoom, FindPeople, CreateRoom, StatementFails, AddParticipant, MarkRead,
                  WriteReceipt
    <2>2. PICK to : Goes(r, to) /\ to.stage # "announce"
      <3>1. CASE WriteReceipt(r)
        <4>1. q.stage = "receipts"
          BY <3>1 DEF WriteReceipt, At
        <4>2. q \in Reading
          BY <4>1, StagesOfRequests
        <4> HIDE DEF q
        <4>3. \A L : [q EXCEPT !.left = L].stage = "receipts"
          BY <4>1, <4>2 DEF Reading
        <4>4. PICK to : Goes(r, to) /\ (to = Answered \/ \E L : to = [q EXCEPT !.left = L])
          BY <3>1 DEF WriteReceipt, q
        <4>5. CASE to = Answered
          BY <4>4, <4>5 DEF Answered
        <4>6. ASSUME NEW L, to = [q EXCEPT !.left = L] PROVE to.stage = "receipts"
          BY <4>3, <4>6
        <4> QED
          BY <4>4, <4>5, <4>6
      <3>2. CASE FindPeople(r)
        <4>1. q \in Opening
          BY <3>2, StagesOfRequests DEF FindPeople, At
        <4>2. \A p : [q EXCEPT !.stage = "create", !.people = p].stage = "create"
          BY <4>1 DEF Opening
        <4> QED
          BY <3>2, <4>2 DEF FindPeople
      <3>3. CASE CreateRoom(r) \/ StatementFails(r) \/ AddParticipant(r)
        BY <3>3 DEF CreateRoom, StatementFails, AddParticipant, Answered, Failed
      <3>4. CASE OpenRoom(r)
        <4>1. PICK topic : Goes(r, IF RoomsOf(topic) # {} THEN Answered
                                   ELSE [stage |-> "find", topic |-> topic, people |-> {}])
          BY <3>4 DEF OpenRoom
        <4> QED
          BY <4>1 DEF Answered
      <3>5. CASE MarkRead(r)
        <4>1. PICK k, u : Goes(r, [stage |-> "receipts", user |-> u, found |-> Others(k, u),
                                   left |-> Others(k, u)])
          BY <3>5 DEF MarkRead
        <4> QED
          BY <4>1
      <3> QED
        BY <1>2, <3>1, <3>2, <3>3, <3>4, <3>5
    <2> QED
      BY <2>1, <2>2, HeardStill DEF MessageIsStored
  <1> QED
    BY <1>1, <1>2

(* A message is announced to those who have joined its room's channel.     *)
LEMMA AnnounceIsHeard ==
  ASSUME ChatTypeOK, HeardInv, NEW r \in Requests, Announce(r)
  PROVE  HeardInv'
  <1> DEFINE m == requests[r].message
             heard(s) == [sockets[s] EXCEPT !.got = @ \cup {m}]
  <1>1. /\ requests[r].stage = "announce" /\ Goes(r, Answered) /\ UNCHANGED messages
        /\ sockets' = [s \in Sockets |-> IF s \in Audience(messages[m].room) THEN heard(s) ELSE sockets[s]]
    BY DEF Announce, At
  <1>2. m \in DOMAIN messages
    BY <1>1 DEF HeardInv, MessageIsStored
  <1> HIDE DEF m
  <1>3. ASSUME NEW s \in Sockets, sockets'[s] # Closed PROVE Hears(sockets'[s], messages)
    <2>1. CASE s \in Audience(messages[m].room)
      <3> DEFINE x == sockets[s]
                 k == messages[m].room
      <3>1. x # Closed /\ <<"chat", k>> \in x.joined
        BY <2>1 DEF Audience
      <3>2. x \in Connected /\ Hears(x, messages)
        BY <3>1 DEF ChatTypeOK, HeardInv
      <3>3. sockets'[s] = [x EXCEPT !.got = @ \cup {m}]
        BY <1>1, <2>1
      <3> HIDE DEF x, k
      <3>4. /\ sockets'[s].got = x.got \cup {m} /\ sockets'[s].joined = x.joined
            /\ sockets'[s].entered = x.entered
        BY <3>2, <3>3 DEF Connected
      <3>5. k \in 1..MaxRooms
        <4>1. <<"chat", k>> \in Channels
          BY <3>1, <3>2 DEF Connected
        <4> QED
          BY <4>1 DEF Channels
      <3>6. k \in x.entered
        BY <3>1, <3>2, <3>5 DEF Hears
      <3> QED
        BY <1>2, <3>2, <3>4, <3>6 DEF Hears, k
    <2>2. CASE s \notin Audience(messages[m].room)
      <3>1. sockets'[s] = sockets[s]
        BY <1>1, <2>2
      <3> QED
        BY <1>3, <3>1 DEF HeardInv
    <2> QED
      BY <2>1, <2>2
  <1>4. \A q \in Requests : MessageIsStored(requests'[q], messages)
    BY <1>1 DEF HeardInv, MessageIsStored, Goes, ChatTypeOK, Answered
  <1> QED
    BY <1>1, <1>3, <1>4 DEF HeardInv

(* A socket that joins a chat's channel enters its room; one that has just *)
(* connected has heard nothing.                                            *)
LEMMA SocketsHear ==
  ASSUME ChatTypeOK, HeardInv, NEW s \in Sockets,
         \/ HandleConnection(s) \/ HandleSubscribe(s) \/ HandleUnsubscribe(s) \/ HandleDisconnect(s)
  PROVE  HeardInv'
  <1>1. UNCHANGED <<messages, requests>>
    BY DEF HandleConnection, HandleSubscribe, HandleUnsubscribe, HandleDisconnect
  <1>2. PICK x : /\ sockets' = [sockets EXCEPT ![s] = x]
                 /\ x # Closed => Hears(x, messages)
    <2> DEFINE y == sockets[s]
    <2>1. CASE HandleConnection(s)
      <3>1. PICK c \in Clients :
              sockets' = [sockets EXCEPT ![s] =
                [client |-> c,
                 joined |-> {<<"user", c.user>>} \cup {<<"agency", a>> : a \in {c.agency} \ {NoAgency}},
                 subscribed |-> {<<"agency", a>> : a \in {c.agency} \ {NoAgency}},
                 got |-> {}, entered |-> {}]]
        BY <2>1 DEF HandleConnection
      <3> DEFINE feed == {<<"agency", a>> : a \in {c.agency} \ {NoAgency}}
                 x == [client |-> c, joined |-> {<<"user", c.user>>} \cup feed,
                       subscribed |-> feed, got |-> {}, entered |-> {}]
      <3>2. \A k : <<"chat", k>> \notin feed /\ <<"chat", k>> # <<"user", c.user>>
        OBVIOUS
      <3>3. sockets' = [sockets EXCEPT ![s] = x]
        BY <3>1
      <3> HIDE DEF feed
      <3>4. Hears(x, messages)
        BY <3>2 DEF Hears
      <3> QED
        BY <3>3, <3>4
    <2>2. CASE HandleDisconnect(s)
      BY <2>2 DEF HandleDisconnect
    <2>3. ASSUME HandleSubscribe(s) \/ HandleUnsubscribe(s)
          PROVE  y \in Connected /\ Hears(y, messages)
      BY <2>3 DEF HandleSubscribe, HandleUnsubscribe, ChatTypeOK, HeardInv
    <2>4. CASE HandleSubscribe(s)
      <3>1. PICK channel \in Channels :
              sockets' = [sockets EXCEPT ![s].joined = @ \cup {channel},
                                         ![s].subscribed = @ \cup {channel},
                                         ![s].entered = @ \cup RoomsOn(channel)]
        BY <2>4 DEF HandleSubscribe
      <3> DEFINE x == [y EXCEPT !.joined = @ \cup {channel}, !.subscribed = @ \cup {channel},
                                !.entered = @ \cup RoomsOn(channel)]
      <3>2. sockets' = [sockets EXCEPT ![s] = x]
        BY <3>1
      <3>3. y \in Connected /\ Hears(y, messages)
        BY <2>3, <2>4
      <3> HIDE DEF y
      <3>4. /\ x.got = y.got /\ x.joined = y.joined \cup {channel}
            /\ x.entered = y.entered \cup RoomsOn(channel)
        BY <3>3 DEF Connected
      <3> HIDE DEF x
      <3>5. Hears(x, messages)
        BY <3>3, <3>4 DEF Hears, RoomsOn
      <3> QED
        BY <3>2, <3>5
    <2>5. CASE HandleUnsubscribe(s)
      <3>1. PICK channel \in Channels :
              sockets' = [sockets EXCEPT ![s].joined = @ \ {channel},
                                         ![s].subscribed = @ \ {channel}]
        BY <2>5 DEF HandleUnsubscribe
      <3> DEFINE x == [y EXCEPT !.joined = @ \ {channel}, !.subscribed = @ \ {channel}]
      <3>2. sockets' = [sockets EXCEPT ![s] = x]
        BY <3>1
      <3>3. y \in Connected /\ Hears(y, messages)
        BY <2>3, <2>5
      <3> HIDE DEF y
      <3>4. x.got = y.got /\ x.joined \subseteq y.joined /\ x.entered = y.entered
        BY <3>3 DEF Connected
      <3> HIDE DEF x
      <3>5. Hears(x, messages)
        BY <3>3, <3>4 DEF Hears
      <3> QED
        BY <3>2, <3>5
    <2> QED
      BY <2>1, <2>2, <2>4, <2>5
  <1>3. sockets'[s] = x /\ \A u \in Sockets \ {s} : sockets'[u] = sockets[u]
    BY <1>2 DEF ChatTypeOK
  <1> QED
    BY <1>1, <1>2, <1>3 DEF HeardInv

LEMMA HeardStep ==
  ASSUME ChatTypeOK, HeardInv, [Next]_vars
  PROVE  HeardInv'
  <1>1. CASE UNCHANGED <<messages, requests, sockets>>
    BY <1>1 DEF HeardInv
  <1>2. CASE Restart
    BY <1>2 DEF Restart, HeardInv, MessageIsStored, Answered, Failed
  <1>3. CASE RoomsStep \/ PeopleStep \/ MessagesStep \/ ReceiptsStep
    BY <1>3, RequestsAreNotHeard, AnnounceIsHeard
       DEF RoomsStep, PeopleStep, MessagesStep, ReceiptsStep
  <1>4. CASE SocketsStep
    BY <1>4, SocketsHear DEF SocketsStep
  <1>5. Reassign => UNCHANGED <<messages, requests, sockets>>
    BY DEF Reassign
  <1> QED
    BY <1>1, <1>2, <1>3, <1>4, <1>5 DEF Next, vars, chatVars

(***************************************************************************)
(* The theorems about chat.                                                *)
(***************************************************************************)

LEMMA RoomsStart == ASSUME IsFiniteSet(Requests) PROVE Init => RoomsAreFew /\ HeardInv
  <1> SUFFICES ASSUME Init PROVE RoomsAreFew /\ HeardInv
    OBVIOUS
  <1>1. /\ rooms = <<>> /\ \A r \in Requests : requests[r].stage = "answered"
        /\ \A s \in Sockets : sockets[s] = Closed
    BY DEF Init, Answered
  <1>2. \A t : RoomsOf(t) = {} /\ Openers(t) = {}
    BY <1>1 DEF RoomsOf, Openers
  <1>3. Cardinality({}) = 0 /\ Cardinality(Requests) \in Nat
    BY FS_EmptySet, FS_CardinalityType
  <1>4. \A t : Cardinality(RoomsOf(t)) = 0 /\ Cardinality(Openers(t)) = 0
    BY <1>2, <1>3
  <1>6. RoomsAreFew
    BY <1>3, <1>4 DEF RoomsAreFew
  <1>5. HeardInv
    BY <1>1 DEF HeardInv, MessageIsStored
  <1> QED
    BY <1>5, <1>6

(* However many requests and sockets there are, whatever they overlap with *)
(* and wherever they die, a ticket has one room at most and an agency no   *)
(* more than requests were under way at once (chat.service.ts:9-139), a    *)
(* socket listens to no agency but its own (websocket.gateway.ts), and the *)
(* messages it is sent are stored ones of rooms whose channel it joined.   *)
THEOREM SoundRooms ==
  ASSUME IsFiniteSet(Uploaders), IsFiniteSet(Requests)
  PROVE  Spec => []RoomsAreSound
  <1> DEFINE Sound == FilesInv /\ ChatInv /\ RoomsAreFew /\ HeardInv
  <1>1. Init => Sound
    BY FilesStart, ChatStart, RoomsStart DEF Init
  <1>2. Sound /\ [Next]_vars => Sound'
    BY FilesStep, ChatStep, RoomsAreFewStep, HeardStep DEF ChatInv
  <1>3. Sound => RoomsAreSound
    <2> SUFFICES ASSUME Sound PROVE RoomsAreSound
      OBVIOUS
    <2>1. TypeOK /\ SocketsListenToTheirOwn /\ ChatTypeOK
      BY DEF FilesInv, ChatInv, ChatTypeOK, TypeOK, Underway
    <2>2. FewRoomsPerTopic
      <3>1. ASSUME NEW a \in Agencies PROVE Cardinality(RoomsOf(a)) <= Cardinality(Requests)
        <4>1. /\ Cardinality(RoomsOf(a)) \in Nat /\ Cardinality(Openers(a)) \in Nat
              /\ Cardinality(Requests) \in Nat
          BY <2>1, RoomsAreFinite
        <4> QED
          BY <4>1 DEF RoomsAreFew
      <3> QED
        BY <3>1 DEF FewRoomsPerTopic, RoomsAreFew
    <2>3. MessagesStayInTheirRooms
      BY DEF HeardInv, Hears, MessagesStayInTheirRooms
    <2> QED
      BY <2>1, <2>2, <2>3 DEF RoomsAreSound
  <1> QED
    BY <1>1, <1>2, <1>3, PTL DEF Spec

(* Only its own last statement answers a mark-read, and then nothing is    *)
(* left to write.                                                          *)
LEMMA AnsweredWhenNothingIsLeft ==
  ASSUME ChatInv, [Next]_vars, NEW r \in Requests, At(r, "receipts"), requests'[r] = Answered
  PROVE  requests[r].left = {} /\ UNCHANGED receipts
  <1>1. ChatTypeOK /\ requests \in [Requests -> {Answered, Failed} \cup Underway]
    BY DEF ChatInv, ChatTypeOK
  <1>2. requests[r].stage = "receipts"
    BY DEF At
  <1>3. /\ requests[r] \notin {Answered, Failed} /\ requests[r] # Answered /\ Failed # Answered
        /\ requests'[r] # requests[r]
    BY <1>2 DEF Answered, Failed
  <1>4. ASSUME NEW q \in Requests, NEW to, Goes(q, to) PROVE q = r /\ to = Answered
    BY <1>1, <1>3, <1>4 DEF Goes
  <1>5. ~ \E q \in Requests : OpenRoom(q) \/ AddParticipant(q) \/ SendMessage(q) \/ MarkRead(q)
    BY <1>3, <1>4 DEF OpenRoom, AddParticipant, SendMessage, MarkRead, Arrives
  <1>6. ~ \E q \in Requests : FindPeople(q) \/ CreateRoom(q) \/ Announce(q)
    BY <1>2, <1>4 DEF FindPeople, CreateRoom, Announce, At
  <1>7. ~ \E q \in Requests : StatementFails(q)
    BY <1>3, <1>4 DEF StatementFails
  <1>8. ASSUME NEW q \in Requests, WriteReceipt(q)
        PROVE  requests[r].left = {} /\ UNCHANGED receipts
    <2>1. q = r
      BY <1>4, <1>8 DEF WriteReceipt
    <2>2. CASE requests[q].left = {} /\ UNCHANGED receipts
      BY <2>1, <2>2
    <2>3. ASSUME NEW m \in requests[q].left,
                 Goes(q, [requests[q] EXCEPT !.left = Left(requests[q], m)])
          PROVE  FALSE
      <3>1. requests[r] \in Reading
        BY <1>1, <1>2, StagesOfRequests
      <3>2. [requests[q] EXCEPT !.left = Left(requests[q], m)].stage = "receipts"
        BY <2>1, <3>1 DEF Reading
      <3>3. [requests[q] EXCEPT !.left = Left(requests[q], m)] = Answered
        BY <1>4, <2>3
      <3> QED
        BY <3>2, <3>3 DEF Answered
    <2> QED
      BY <1>8, <2>2, <2>3 DEF WriteReceipt
  <1>9. ~Restart
    BY <1>1, <1>3 DEF Restart
  <1>10. ~UNCHANGED requests
    BY <1>3
  <1>11. ~Reassign /\ ~SocketsStep
    BY <1>10 DEF Reassign, SocketsStep, HandleConnection, HandleSubscribe, HandleUnsubscribe,
                 HandleDisconnect
  <1> QED
    BY <1>5, <1>6, <1>7, <1>8, <1>9, <1>10, <1>11 
       DEF Next, vars, chatVars, RoomsStep, PeopleStep, MessagesStep, ReceiptsStep

(* A mark-read that is answered left a receipt for every message of others *)
(* that the room held when it began, and none for one's own                *)
(* (chat.service.ts:205-220).                                              *)
THEOREM ReadIsCovered == Spec => ReadCoversTheRoom
  <1> DEFINE Covered(r) ==
        At(r, "receipts") /\ requests'[r] = Answered =>
          \A m \in requests[r].found :
            <<m, requests[r].user>> \in receipts' /\ messages[m].sender # requests[r].user
  <1>1. Init => ChatInv
    BY ChatStart
  <1>2. ChatInv /\ [Next]_vars => ChatInv'
    BY ChatStep
  <1>3. ChatInv /\ [Next]_vars => \A r \in Requests : Covered(r)
    <2> SUFFICES ASSUME ChatInv, [Next]_vars, NEW r \in Requests,
                        At(r, "receipts"), requests'[r] = Answered
                 PROVE  \A m \in requests[r].found :
                          /\ <<m, requests[r].user>> \in receipts'
                          /\ messages[m].sender # requests[r].user
      OBVIOUS
    <2>1. requests[r].left = {} /\ UNCHANGED receipts
      BY AnsweredWhenNothingIsLeft
    <2>2. ReadsRightly(requests[r], messages, receipts) /\ requests[r].stage = "receipts"
      BY DEF ChatInv, At
    <2> QED
      BY <2>1, <2>2 DEF ReadsRightly
  <1>4. ChatInv /\ [Next]_vars
          => [\A r \in Requests :
                At(r, "receipts") /\ requests'[r] = Answered =>
                  \A m \in requests[r].found :
                    <<m, requests[r].user>> \in receipts' /\ messages[m].sender # requests[r].user]_vars
    BY <1>3
  <1> QED
    BY <1>1, <1>2, <1>4, PTL DEF Spec, ReadCoversTheRoom
=============================================================================
