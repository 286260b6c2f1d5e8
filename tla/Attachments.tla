----------------------------- MODULE Attachments -----------------------------
(***************************************************************************)
(* Uploading and deleting files (cogria_agent/attachments).                *)
(*                                                                         *)
(* A file has a record in the database and its bytes on disk.  The record  *)
(* is per upload; the bytes are content-addressed, so that equal files of  *)
(* whatever user share one blob.  Nothing ties the two stores together: an *)
(* upload looks for a twin, writes the bytes in a worker thread, inserts   *)
(* the record, extracts the text and marks the record, each of them an     *)
(* await at which the other requests run.  A delete removes the record,    *)
(* counts the records that are left and unlinks the bytes.                 *)
(*                                                                         *)
(* An upload request u creates at most one record, whose id is u, and at   *)
(* most one file, which is named u too until it is renamed.                *)
(***************************************************************************)
EXTENDS Naturals, FiniteSets

CONSTANTS
  User,         \* JWT subjects
  Content,      \* contents of files; a content is its digest and storage key
  KindOf,       \* KindOf[c]: "image", "document", or "other" (refused)
  Vision,       \* a vision model is configured
  Upload,       \* POST /attachments requests, and the ids of their records
  Removal,      \* DELETE /attachments/{id} requests
  Offers,       \* Offers[u]: the pairs <<user, content>> that u may send
  Earlier,      \* the uploads of an earlier run of the server, with one pair each
  None,         \* Python's None
  MaxRestarts   \* bound: how often the server process is restarted

\* The mime allowlist and the vision policy.
Acceptable(c) == /\ KindOf[c] # "other"
                 /\ KindOf[c] = "image" => Vision

ASSUME AttachmentsAssumption ==
  /\ KindOf \in [Content -> {"image", "document", "other"}]
  /\ Vision \in BOOLEAN
  /\ Offers \in [Upload -> SUBSET (User \X Content)]
  /\ Earlier \subseteq Upload
  /\ \A u \in Earlier : \E offer \in Offers[u] : Offers[u] = {offer} /\ Acceptable(offer[2])
  /\ None \notin Upload \cup User \cup Content
  /\ MaxRestarts \in Nat

VARIABLES
  up,        \* up[u]: how far the handler of the upload u is
  by,        \* by[u]: the user who sent u
  data,      \* data[u]: the content that u sent
  answer,    \* answer[u]: the id in the response to u
  down,      \* down[d]: how far the handler of the delete d is
  which,     \* which[d]: the id in the path of d
  status,    \* the attachments table: "absent", "extracting", "ready",
             \* "failed" or "deleted"
  blob,      \* blob[c]: the file named by the storage key, or None
  part,      \* part[c]: the file named by the key and ".part", or None
  open,      \* open[u]: the file that the thread of u has open, or None
  whole,     \* whole[f]: file f holds all the bytes
  \* History variables, read by properties only:
  overlapped,\* the uploads during which a delete of the same bytes ran
  twins,     \* the contents that two uploads wrote at the same time
  restarts   \* how often the process was restarted

uploadVars == <<up, by, data, answer>>
removalVars == <<down, which>>
diskVars == <<blob, part, open, whole>>
history == <<overlapped, twins, restarts>>
fileVars == <<uploadVars, removalVars, status, diskVars, history>>

\* The records that the table holds.
Kept == {a \in Upload : status[a] \in {"extracting", "ready", "failed"}}

\* The records that get and get_many return to a user.
Owned(user) == {a \in Kept : by[a] = user}

\* An upload whose thread is past the test for the blob.
Writing == {u \in Upload : up[u] \in {"opening", "filling", "renaming"}}

\* An upload that is being handled; a delete that is.
Handled == {u \in Upload : up[u] \notin {"idle", "answered", "refused", "raised"}}
Removing(c) == \E d \in Removal : /\ down[d] \in {"found", "deleted", "unlinking"}
                                  /\ data[which[d]] = c

\* The server starts on the database and the disk of an earlier run.
Sent(u) == CHOOSE offer \in Offers[u] : TRUE
FilesInit ==
  /\ up = [u \in Upload |-> IF u \in Earlier THEN "answered" ELSE "idle"]
  /\ by = [u \in Upload |-> IF u \in Earlier THEN Sent(u)[1] ELSE None]
  /\ data = [u \in Upload |-> IF u \in Earlier THEN Sent(u)[2] ELSE None]
  /\ answer = [u \in Upload |-> IF u \in Earlier THEN u ELSE None]
  /\ down = [d \in Removal |-> "idle"]
  /\ which = [d \in Removal |-> None]
  /\ status = [u \in Upload |-> IF u \in Earlier THEN "ready" ELSE "absent"]
  /\ blob = [c \in Content |-> IF \E u \in Earlier : Sent(u)[2] = c
                               THEN CHOOSE u \in Earlier : Sent(u)[2] = c ELSE None]
  /\ part = [c \in Content |-> None]
  /\ open = [u \in Upload |-> None]
  /\ whole = [u \in Upload |-> u \in Earlier]
  /\ overlapped = {}
  /\ twins = {}
  /\ restarts = 0

-----------------------------------------------------------------------------
(***************************************************************************)
(* AttachmentService.upload.                                               *)
(***************************************************************************)

\* The checks that need nothing but the request.
Receive(u) ==
  /\ up[u] = "idle"
  /\ \E offer \in Offers[u] :
       /\ by' = [by EXCEPT ![u] = offer[1]]
       /\ data' = [data EXCEPT ![u] = offer[2]]
       /\ up' = [up EXCEPT ![u] = IF Acceptable(offer[2])
                                  THEN "received" ELSE "refused"]
  /\ overlapped' = IF Removing(data'[u]) THEN overlapped \cup {u} ELSE overlapped
  /\ UNCHANGED <<answer, removalVars, status, diskVars, twins, restarts>>

\* Mutant: find_by_sha256 without its test of the status.
ReusableAny(u) == {a \in Owned(by[u]) : data[a] = data[u]}

\* find_by_sha256: a record of the same user and bytes that is worth reusing.
Reusable(u) == {a \in Owned(by[u]) : data[a] = data[u] /\ status[a] = "ready"}

FindTwin(u) ==
  /\ up[u] = "received"
  /\ \/ /\ Reusable(u) = {}
        /\ up' = [up EXCEPT ![u] = "putting"]
        /\ UNCHANGED answer
     \/ /\ \E a \in Reusable(u) : answer' = [answer EXCEPT ![u] = a]
        /\ up' = [up EXCEPT ![u] = "answered"]
  /\ UNCHANGED <<by, data, removalVars, status, diskVars, history>>

\* LocalDiskAttachmentStore._write, in a thread: path.exists().
TestBlob(u) ==
  /\ up[u] = "putting"
  /\ up' = [up EXCEPT ![u] = IF blob[data[u]] # None THEN "stored" ELSE "opening"]
  /\ twins' = IF /\ up'[u] = "opening"
                 /\ \E v \in Writing : data[v] = data[u]
              THEN twins \cup {data[u]} ELSE twins
  /\ UNCHANGED <<by, data, answer, removalVars, status, diskVars, overlapped, restarts>>

\* Mutant: the bytes are written under the final name.
OpenInPlace(u) ==
  /\ up[u] = "opening"
  /\ part' = [part EXCEPT ![data[u]] = u]
  /\ blob' = [blob EXCEPT ![data[u]] = u]
  /\ open' = [open EXCEPT ![u] = u]
  /\ whole' = [whole EXCEPT ![u] = FALSE]
  /\ up' = [up EXCEPT ![u] = "filling"]
  /\ UNCHANGED <<by, data, answer, removalVars, status, history>>

\* tmp.write_bytes opens the .part file, an older one is truncated...
OpenPart(u) ==
  LET c == data[u] f == IF part[c] = None THEN u ELSE part[c] IN
  /\ up[u] = "opening"
  /\ part' = [part EXCEPT ![c] = f]
  /\ open' = [open EXCEPT ![u] = f]
  /\ whole' = [whole EXCEPT ![f] = FALSE]
  /\ up' = [up EXCEPT ![u] = "filling"]
  /\ UNCHANGED <<by, data, answer, removalVars, status, blob, history>>

\* ... and writes it, whatever its name is by then.
FillPart(u) ==
  /\ up[u] = "filling"
  /\ whole' = [whole EXCEPT ![open[u]] = TRUE]
  /\ open' = [open EXCEPT ![u] = None]
  /\ up' = [up EXCEPT ![u] = "renaming"]
  /\ UNCHANGED <<by, data, answer, removalVars, status, blob, part, history>>

\* tmp.replace(path): whatever has the .part name by then; an error if nothing.
RenamePart(u) ==
  LET c == data[u] IN
  /\ up[u] = "renaming"
  /\ \/ /\ part[c] = None
        /\ up' = [up EXCEPT ![u] = "raised"]
        /\ UNCHANGED <<blob, part>>
     \/ /\ part[c] # None
        /\ blob' = [blob EXCEPT ![c] = part[c]]
        /\ part' = [part EXCEPT ![c] = None]
        /\ up' = [up EXCEPT ![u] = "stored"]
  /\ UNCHANGED <<by, data, answer, removalVars, status, open, whole, history>>

\* repo.create.
CreateRecord(u) ==
  /\ up[u] = "stored"
  /\ status' = [status EXCEPT ![u] = "extracting"]
  /\ up' = [up EXCEPT ![u] = "extracting"]
  /\ UNCHANGED <<by, data, answer, removalVars, diskVars, history>>

\* mark_ready and mark_failed: the record is updated if it is still there.
MarkReady(u) == status' = IF u \in Kept THEN [status EXCEPT ![u] = "ready"] ELSE status
MarkFailed(u) == status' = IF u \in Kept THEN [status EXCEPT ![u] = "failed"] ELSE status

\* The extractor answers; an image has no text to fail at.
Extract(u) ==
  /\ up[u] = "extracting"
  /\ MarkReady(u) \/ (KindOf[data[u]] # "image" /\ MarkFailed(u))
  /\ up' = [up EXCEPT ![u] = "extracted"]
  /\ UNCHANGED <<by, data, answer, removalVars, diskVars, history>>

\* repo.get, and the response.
Answer(u) ==
  /\ up[u] = "extracted"
  /\ answer' = [answer EXCEPT ![u] = u]
  /\ up' = [up EXCEPT ![u] = "answered"]
  /\ UNCHANGED <<by, data, removalVars, status, diskVars, history>>

-----------------------------------------------------------------------------
(***************************************************************************)
(* AttachmentService.delete with SqlAttachmentRepository.delete, which     *)
(* reads the record in one transaction and deletes it in another.          *)
(***************************************************************************)

\* The user has the id from the response to an upload of his own.
FindRecord(d) ==
  /\ down[d] = "idle"
  /\ \E u \in Upload :
       /\ answer[u] # None
       /\ which' = [which EXCEPT ![d] = answer[u]]
       /\ down' = [down EXCEPT ![d] = IF answer[u] \in Owned(by[u])
                                      THEN "found" ELSE "unknown"]
       /\ overlapped' = IF down'[d] = "found"
                        THEN overlapped \cup {v \in Handled : data[v] = data[answer[u]]}
                        ELSE overlapped
  /\ UNCHANGED <<uploadVars, status, diskVars, twins, restarts>>

DeleteRecord(d) ==
  /\ down[d] = "found"
  /\ status' = [status EXCEPT ![which[d]] = "deleted"]
  /\ down' = [down EXCEPT ![d] = "deleted"]
  /\ UNCHANGED <<uploadVars, which, diskVars, history>>

\* Mutant: the records of the same user only.
SharingOfUser(a) == {b \in Owned(by[a]) : data[b] = data[a]}

\* count_by_storage_key: the records of every user that share the bytes.
Sharing(a) == {b \in Kept : data[b] = data[a]}

CountRecords(d) ==
  /\ down[d] = "deleted"
  /\ down' = [down EXCEPT ![d] = IF Sharing(which[d]) = {} THEN "unlinking" ELSE "done"]
  /\ UNCHANGED <<uploadVars, which, status, diskVars, history>>

Unlink(d) ==
  /\ down[d] = "unlinking"
  /\ blob' = [blob EXCEPT ![data[which[d]]] = None]
  /\ down' = [down EXCEPT ![d] = "done"]
  /\ UNCHANGED <<uploadVars, which, status, part, open, whole, history>>

-----------------------------------------------------------------------------
\* The process stops: the requests are gone, the table and the disk are not.
FilesRestart ==
  /\ restarts < MaxRestarts
  /\ restarts' = restarts + 1
  /\ up' = [u \in Upload |-> IF u \in Handled THEN "raised" ELSE up[u]]
  /\ down' = [d \in Removal |-> IF down[d] \in {"found", "deleted", "unlinking"}
                                THEN "done" ELSE down[d]]
  /\ open' = [u \in Upload |-> None]
  /\ UNCHANGED <<by, data, answer, which, status, blob, part, whole, overlapped, twins>>

UploadStep(u) ==
  \/ Receive(u)
  \/ FindTwin(u)
  \/ TestBlob(u)
  \/ OpenPart(u)
  \/ FillPart(u)
  \/ RenamePart(u)
  \/ CreateRecord(u)
  \/ Extract(u)
  \/ Answer(u)

RemovalStep(d) ==
  \/ FindRecord(d)
  \/ DeleteRecord(d)
  \/ CountRecords(d)
  \/ Unlink(d)

-----------------------------------------------------------------------------
(***************************************************************************)
(* Properties.                                                             *)
(***************************************************************************)

UploadPC == {"idle", "received", "putting", "opening", "filling", "renaming", "stored",
             "extracting", "extracted", "answered", "refused", "raised"}
RemovalPC == {"idle", "found", "deleted", "unlinking", "done", "unknown"}
Status == {"absent", "extracting", "ready", "failed", "deleted"}

\* The types.
FilesTypeOK ==
  /\ up \in [Upload -> UploadPC]
  /\ by \in [Upload -> User \cup {None}]
  /\ data \in [Upload -> Content \cup {None}]
  /\ answer \in [Upload -> Upload \cup {None}]
  /\ down \in [Removal -> RemovalPC]
  /\ which \in [Removal -> Upload \cup {None}]
  /\ status \in [Upload -> Status]
  /\ blob \in [Content -> Upload \cup {None}]
  /\ part \in [Content -> Upload \cup {None}]
  /\ open \in [Upload -> Upload \cup {None}]
  /\ whole \in [Upload -> BOOLEAN]
  /\ overlapped \subseteq Upload
  /\ twins \subseteq Content
  /\ restarts \in 0..MaxRestarts

\* "Only the last reference may take it with them" (service.py:147-149): a
\* record whose upload no delete of the same bytes overlapped keeps its bytes
\* for as long as it is there, whatever records of other users are deleted.
RecordsKeepBytes == \A a \in Kept \ overlapped : blob[data[a]] # None

\* "Write-then-rename so a crash can't leave a half-written blob"
\* (store.py:51): a blob that nobody has open is whole.
BlobsAreWhole ==
  \A c \in Content :
    blob[c] # None /\ (\A u \in Upload : open[u] # blob[c]) => whole[blob[c]]

\* The same for a content that two uploads never wrote at a time: its blob is
\* whole at every moment, also with a .part file left over from a crash.
LoneWriterIsWhole ==
  \A c \in Content \ twins : blob[c] # None => whole[blob[c]]

\* An id in a response never stands for a record whose text is still to come:
\* the turn that sends it, and an upload that is answered with the record of
\* an earlier one, would go without the text.
AnswersAreSettled ==
  \A u \in Upload : answer[u] # None => status[answer[u]] \in {"ready", "failed", "deleted"}

=============================================================================
