------------------------------ MODULE MediaFiles -----------------------------
(***************************************************************************)
(* Uploaded files (media.service.ts): the bytes in the store, the rows     *)
(* that describe them, and the tokens that let a client upload later.      *)
(*                                                                         *)
(* A file is written before its row; the two are separate, so a failure or *)
(* a restart between them leaves a file without a row. With STORAGE_MODE   *)
(* s3 nothing is written at all: writeToS3 is a stub that makes an address *)
(* up, and its rows describe files that are nowhere. Rows are deleted      *)
(* softly and can be restored for a while. Tokens are kept in memory, and  *)
(* a token is looked up before the upload it allows and removed after it.  *)
(* permanentDelete, the only code that removes a file, has no caller.      *)
(***************************************************************************)
EXTENDS Integers, Sequences, FiniteSets

CONSTANTS
  Uploaders,     (* requests to the media controller handled at once        *)
  TokenLife,     (* 1 hour                                                  *)
  RestoreWindow, (* 30 days                                                 *)
  MaxFiles,      (* bound: files named                                      *)
  MaxBulk,       (* files in one bulk upload; 20 in the code                *)
  MaxTokens,     (* bound: tokens issued                                    *)
  MaxTime        (* bound: the clock                                        *)

ASSUME MediaAssumption ==
  {TokenLife, RestoreWindow, MaxFiles, MaxBulk, MaxTokens, MaxTime} \subseteq Nat

VARIABLES
  storage, (* STORAGE_MODE, read when the process starts                    *)
  named,   (* names made for files: UUIDs, numbered                         *)
  files,   (* those whose bytes are on the disk                             *)
  media,   (* the rows, in order of creation                                *)
  tokens,  (* presignTokens: a set of [token, expiresAt]                    *)
  issued,  (* tokens issued so far                                          *)
  uploads, (* per request: where its handler is                             *)
  now

store == <<storage, named, files>>
mediaVars == <<store, media, tokens, issued, uploads, now>>

(* deletedAt 0 and token 0 stand for none; the row's token is a history    *)
(* of how it was uploaded.                                                 *)
Row == [file : Nat, isDeleted : BOOLEAN, isActive : BOOLEAN, deletedAt : Nat, token : Nat]
Token == [token : Nat, expiresAt : Nat]

Free == [stage |-> "free"]
Uploading == [stage : {"store", "row"}, file : Nat, token : Nat, more : Nat]
Spending == [stage : {"spend"}, token : Nat]
Writing == [stage : {"delete", "restore"}, row : Nat]

MediaTypeOK ==
  /\ storage \in {"local", "s3"}
  /\ named \in Nat
  /\ files \subseteq 1..named
  /\ media \in Seq(Row)
  /\ tokens \subseteq Token
  /\ issued \in Nat
  /\ uploads \in [Uploaders -> {Free} \cup Uploading \cup Spending \cup Writing]
  /\ now \in Nat

MediaInit ==
  /\ storage \in {"local", "s3"}
  /\ named = 0 /\ files = {} /\ media = <<>>
  /\ tokens = {} /\ issued = 0
  /\ uploads = [r \in Uploaders |-> Free]
  /\ now = 1

UploaderAt(r, stage) == uploads[r].stage = stage
Go(r, to) == uploads' = [uploads EXCEPT ![r] = to]

(***************************************************************************)
(* Uploads.                                                                *)
(***************************************************************************)

ToStore(token, more) == [stage |-> "store", file |-> 0, token |-> token, more |-> more]

(* uploadFile, and uploadBulk with one file after another: a file that     *)
(* fails is reported and the next is tried.                                *)
UploadFiles(r) ==
  /\ UploaderAt(r, "free") /\ named < MaxFiles
  /\ \E n \in 1..MaxBulk : Go(r, ToStore(0, n - 1))
  /\ UNCHANGED <<store, media, tokens, issued, now>>

(* What follows a file of a request, uploaded or not.                      *)
AfterFile(u) == IF u.more = 0 THEN Free ELSE ToStore(u.token, u.more - 1)

(* storeFile, under a fresh name: writeToLocalDisk writes the bytes,       *)
(* writeToS3 only answers with an address. Then the row is made.           *)
Stored(file) == IF storage = "local" THEN files \cup {file} ELSE files

StoreFile(r) ==
  /\ UploaderAt(r, "store") /\ named < MaxFiles
  /\ named' = named + 1 /\ files' = Stored(named + 1)
  /\ Go(r, [uploads[r] EXCEPT !.stage = "row", !.file = named + 1])
  /\ UNCHANGED <<storage, media, tokens, issued, now>>

NewRow(u) == [file |-> u.file, isDeleted |-> FALSE, isActive |-> TRUE, deletedAt |-> 0,
              token |-> u.token]

CreateRow(r) ==
  LET u == uploads[r] IN
  /\ UploaderAt(r, "row")
  /\ media' = Append(media, NewRow(u))
  /\ Go(r, IF u.token = 0 THEN AfterFile(u) ELSE [stage |-> "spend", token |-> u.token])
  /\ UNCHANGED <<store, tokens, issued, now>>

(* The write of the bytes or of the row fails: that of an image, a video   *)
(* or a document always does on the disk, whose directories have other     *)
(* names than writeToLocalDisk looks for (images, not image).              *)
UploadFails(r) ==
  /\ uploads[r].stage \in {"store", "row"}
  /\ Go(r, AfterFile(uploads[r]))
  /\ UNCHANGED <<store, media, tokens, issued, now>>

(***************************************************************************)
(* Presigned uploads.                                                      *)
(***************************************************************************)

Expired(t) == now > t.expiresAt

(* generatePresignUrl stores a token and drops the expired ones.           *)
GeneratePresignUrl ==
  /\ issued < MaxTokens
  /\ issued' = issued + 1
  /\ tokens' = {t \in tokens : ~Expired(t)}
                 \cup {[token |-> issued + 1, expiresAt |-> now + TokenLife]}
  /\ UNCHANGED <<store, media, uploads, now>>

(* confirmPresignUpload looks the token up and starts the upload.          *)
ConfirmPresignUpload(r) ==
  /\ UploaderAt(r, "free") /\ named < MaxFiles
  /\ \E t \in tokens :
       \/ /\ Expired(t)
          /\ tokens' = tokens \ {t} /\ UNCHANGED uploads
       \/ /\ ~Expired(t)
          /\ Go(r, ToStore(t.token, 0)) /\ UNCHANGED tokens
  /\ UNCHANGED <<store, media, issued, now>>

(* ... and removes it when the upload is done.                             *)
Unspent_All(token) == tokens

Unspent(token) == {t \in tokens : t.token # token}

SpendToken(r) ==
  /\ UploaderAt(r, "spend")
  /\ tokens' = Unspent(uploads[r].token)
  /\ Go(r, Free)
  /\ UNCHANGED <<store, media, issued, now>>

(***************************************************************************)
(* Soft deletion and restoration, each a check and then an update.         *)
(***************************************************************************)

CheckRow(r, stage) ==
  /\ UploaderAt(r, "free")
  /\ \E i \in DOMAIN media :
       /\ media[i].isDeleted = (stage = "restore")
       /\ stage = "restore" => media[i].deletedAt >= now - RestoreWindow
       /\ Go(r, [stage |-> stage, row |-> i])
  /\ UNCHANGED <<store, media, tokens, issued, now>>

SoftDelete(r) == CheckRow(r, "delete")
Restore(r) == CheckRow(r, "restore")

Deleted(row) == [row EXCEPT !.isDeleted = TRUE, !.isActive = FALSE, !.deletedAt = now]

Restored(row) == [row EXCEPT !.isDeleted = FALSE, !.isActive = TRUE, !.deletedAt = 0]

WriteRow(r) ==
  /\ uploads[r].stage \in {"delete", "restore"}
  /\ media' = [media EXCEPT ![uploads[r].row] =
                 IF UploaderAt(r, "delete") THEN Deleted(@) ELSE Restored(@)]
  /\ Go(r, Free)
  /\ UNCHANGED <<store, tokens, issued, now>>

Tick ==
  /\ now < MaxTime
  /\ now' = now + 1
  /\ UNCHANGED <<store, media, tokens, issued, uploads>>

(* The process stops: the tokens and the requests under way are gone.      *)
MediaLost == tokens' = {} /\ uploads' = [r \in Uploaders |-> Free]

MediaNext ==
  \/ \E r \in Uploaders :
       \/ UploadFiles(r) \/ StoreFile(r) \/ CreateRow(r) \/ UploadFails(r)
       \/ ConfirmPresignUpload(r) \/ SpendToken(r)
       \/ SoftDelete(r) \/ Restore(r) \/ WriteRow(r)
  \/ GeneratePresignUrl
  \/ Tick

(***************************************************************************)
(* Properties.                                                             *)
(***************************************************************************)

(* Where files are kept on the disk, a row never describes one that is not *)
(* there: uploadFile writes the bytes before the row, and nothing that     *)
(* runs removes bytes. In either mode no two rows describe the same file   *)
(* (media.service.ts:141-155, 170-192).                                    *)
RowsHaveFiles ==
  /\ storage = "local" => \A i \in DOMAIN media : media[i].file \in files
  /\ \A i, j \in DOMAIN media : media[i].file = media[j].file => i = j

(* The three columns that say a row is deleted agree, however deletions    *)
(* and restorations of it overlap (media.service.ts:366-375, 410-421).     *)
DeletedIsWhole ==
  \A i \in DOMAIN media :
    media[i].isDeleted = ~media[i].isActive /\ media[i].isDeleted = (media[i].deletedAt # 0)

(* A token is not good for any number of files: at most for as many as     *)
(* there are requests under way at once, each having found it before the   *)
(* first removed it (media.service.ts:480-495).                            *)
TokenUsesAreBounded ==
  \A t \in 1..issued :
    Cardinality({i \in DOMAIN media : media[i].token = t}) <= Cardinality(Uploaders)

(* Files, rows and tokens at every moment, whatever overlapped or died.    *)
FilesAreSound == RowsHaveFiles /\ DeletedIsWhole /\ TokenUsesAreBounded
=============================================================================
