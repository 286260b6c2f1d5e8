--------------------------- MODULE AttachmentsProofs ---------------------------
(***************************************************************************)
(* Proofs about Attachments as a part of Replay, for any users, contents,  *)
(* uploads, deletes and restarts: a record keeps its bytes, a file that    *)
(* one upload at a time writes is whole, and an id in a response stands    *)
(* for a record that is settled.                                           *)
(***************************************************************************)
EXTENDS Replay, TLAPS

\* A delete that is past the look-up of its record.
Deleting == {"found", "deleted", "unlinking"}

\* Every request that is being handled has a content.
ContentInv ==
  /\ \A u \in Upload : IF up[u] = "idle" THEN data[u] = None ELSE data[u] \in Content
  /\ \A d \in Removal : down[d] \in Deleting => which[d] \in Upload /\ data[which[d]] \in Content
  /\ \A u \in Upload : answer[u] # None => data[answer[u]] \in Content

\* An upload is known to have overlapped the deletes of the same bytes that run
\* beside it; so is every record that a delete did not count before it unlinks.
OverlapInv ==
  \A d \in Removal :
    /\ down[d] \in Deleting =>
         \A u \in Handled : data[u] = data[which[d]] => u \in overlapped
    /\ down[d] = "unlinking" =>
         \A a \in Kept : data[a] = data[which[d]] => a \in overlapped

\* Bytes that were found or written are there, unless such a delete ran.
BytesInv ==
  \A u \in Upload \ overlapped :
    up[u] = "stored" \/ u \in Kept => up[u] # "idle" /\ blob[data[u]] # None

\* The progress of a record with its upload, the answers, and the deletes.
RecordInv ==
  /\ \A u \in Upload :
       /\ up[u] \in {"idle", "received", "putting", "opening", "filling", "renaming", "stored"}
            => status[u] = "absent"
       /\ up[u] = "extracting" => status[u] \in {"extracting", "deleted"}
       /\ up[u] = "extracted" => status[u] \in {"ready", "failed", "deleted"}
       /\ answer[u] # None => status[answer[u]] \in {"ready", "failed", "deleted"}
  /\ \A d \in Removal : down[d] = "found" => status[which[d]] # "absent"

\* An upload that has made no file so far.
Early == {"idle", "received", "putting", "opening"}

\* A file belongs to the content of the upload that made it, and no file has
\* two names.
FileInv ==
  \A c \in Content :
    /\ blob[c] # None => data[blob[c]] = c /\ up[blob[c]] \notin Early
    /\ part[c] # None => data[part[c]] = c /\ up[part[c]] \notin Early /\ part[c] # blob[c]

\* An upload that writes alone fills the file that has the .part name.
WriterInv ==
  \A u \in Writing : data[u] \notin twins =>
    /\ \A v \in Writing : data[v] = data[u] => v = u
    /\ up[u] = "filling" => open[u] = part[data[u]]
    /\ up[u] = "renaming" /\ part[data[u]] # None => whole[part[data[u]]]

IInv == /\ FilesTypeOK /\ ContentInv /\ OverlapInv /\ BytesInv /\ RecordInv
        /\ FileInv /\ WriterInv /\ LoneWriterIsWhole

-----------------------------------------------------------------------------
(***************************************************************************)
(* What a step does to the files.                                          *)
(***************************************************************************)
FilesStep ==
  \/ UNCHANGED fileVars
  \/ \E u \in Upload : UploadStep(u)
  \/ \E d \in Removal : RemovalStep(d)
  \/ FilesRestart

LEMMA StepOfFiles == [Next]_vars => FilesStep
<1> SUFFICES ASSUME [Next]_vars PROVE FilesStep
  OBVIOUS
<1>1. CASE UNCHANGED vars
  BY <1>1 DEF vars, FilesStep
<1>2. ASSUME NEW u \in Upload, UploadStep(u) PROVE FilesStep
  BY <1>2 DEF FilesStep
<1>3. ASSUME NEW d \in Removal, RemoveStep(d) PROVE FilesStep
  BY <1>3 DEF RemoveStep, RemovalStep, FilesStep
<1>4. ASSUME NEW t \in Turn, TurnStep(t) PROVE UNCHANGED fileVars
  BY <1>4 DEF TurnStep, Resolve, FetchPrior, Persist, DocumentBlock, ImagePlaceholder, LoadImage,
              GoOn, Hydrate, HydrateFails, Ask, Emit
<1>5. CASE Restart
  BY <1>5 DEF Restart, FilesStep
<1> QED
  BY <1>1, <1>2, <1>3, <1>4, <1>5 DEF Next, FilesStep

LEMMA FilesTypeStep == FilesTypeOK /\ ContentInv /\ FilesStep => FilesTypeOK' /\ ContentInv'
<1> SUFFICES ASSUME FilesTypeOK, ContentInv, FilesStep PROVE FilesTypeOK' /\ ContentInv'
  OBVIOUS
<1> USE AttachmentsAssumption DEF FilesTypeOK, ContentInv, UploadPC, RemovalPC, Status, Deleting,
                                  uploadVars, removalVars, diskVars, history
<1>1. CASE UNCHANGED fileVars
  BY <1>1 DEF fileVars
<1>2. ASSUME NEW u \in Upload, Receive(u) PROVE FilesTypeOK' /\ ContentInv'
  <2>1. PICK offer \in User \X Content :
          /\ by' = [by EXCEPT ![u] = offer[1]]
          /\ data' = [data EXCEPT ![u] = offer[2]]
          /\ up' = [up EXCEPT ![u] = IF Acceptable(offer[2]) THEN "received" ELSE "refused"]
    BY <1>2 DEF Receive
  <2> QED
    BY <1>2, <2>1 DEF Receive
<1>3. ASSUME NEW u \in Upload, FindTwin(u) PROVE FilesTypeOK' /\ ContentInv'
  <2>1. \A a \in Reusable(u) : a \in Upload /\ data[a] = data[u]
    BY DEF Reusable, Owned, Kept
  <2> QED
    BY <1>3, <2>1 DEF FindTwin
<1>4. ASSUME NEW u \in Upload, TestBlob(u) PROVE FilesTypeOK' /\ ContentInv'
  BY <1>4 DEF TestBlob
<1>5. ASSUME NEW u \in Upload, OpenPart(u) \/ FillPart(u) \/ RenamePart(u)
      PROVE  FilesTypeOK' /\ ContentInv'
  <2>1. data[u] \in Content
    BY <1>5 DEF OpenPart, FillPart, RenamePart
  <2>2. CASE OpenPart(u)
    BY <2>1, <2>2 DEF OpenPart
  <2>3. CASE FillPart(u)
    BY <2>1, <2>3 DEF FillPart
  <2>4. CASE RenamePart(u)
    BY <2>1, <2>4 DEF RenamePart
  <2> QED
    BY <1>5, <2>2, <2>3, <2>4
<1>6. ASSUME NEW u \in Upload, CreateRecord(u) \/ Extract(u) \/ Answer(u)
      PROVE  FilesTypeOK' /\ ContentInv'
  BY <1>6 DEF CreateRecord, Extract, MarkReady, MarkFailed, Answer
<1>7. ASSUME NEW d \in Removal, FindRecord(d) PROVE FilesTypeOK' /\ ContentInv'
  BY <1>7 DEF FindRecord, Handled
<1>8. ASSUME NEW d \in Removal, DeleteRecord(d) \/ CountRecords(d) \/ Unlink(d)
      PROVE  FilesTypeOK' /\ ContentInv'
  BY <1>8 DEF DeleteRecord, CountRecords, Unlink
<1>9. CASE FilesRestart
  BY <1>9 DEF FilesRestart, Handled
<1> QED
  BY <1>1, <1>2, <1>3, <1>4, <1>5, <1>6, <1>7, <1>8, <1>9 DEF FilesStep, UploadStep, RemovalStep

-----------------------------------------------------------------------------
(***************************************************************************)
(* Records and bytes.                                                      *)
(***************************************************************************)

\* Deletes and the uploads and records that they overlap.
LEMMA OverlapStep ==
  FilesTypeOK /\ ContentInv /\ RecordInv /\ OverlapInv /\ FilesStep => OverlapInv'
<1> SUFFICES ASSUME FilesTypeOK, ContentInv, RecordInv, OverlapInv, FilesStep PROVE OverlapInv'
  OBVIOUS
<1> USE AttachmentsAssumption
<1>1. ASSUME UNCHANGED <<data, removalVars, overlapped>>, Handled' \subseteq Handled, Kept' \subseteq Kept
      PROVE  OverlapInv'
  BY <1>1 DEF OverlapInv, removalVars
<1>2. CASE UNCHANGED fileVars
  BY <1>1, <1>2 DEF fileVars, uploadVars, removalVars, history, Handled, Kept
<1>3. ASSUME NEW u \in Upload, Receive(u) PROVE OverlapInv'
  <2>1. /\ UNCHANGED <<down, which, status>> /\ up[u] = "idle"
        /\ Handled' \subseteq Handled \cup {u}
        /\ \A v \in Upload \ {u} : data'[v] = data[v]
        /\ overlapped' = IF Removing(data'[u]) THEN overlapped \cup {u} ELSE overlapped
    BY <1>3 DEF Receive, FilesTypeOK, Handled, removalVars
  <2>2. Handled' \subseteq Upload /\ Kept' = Kept /\ u \notin Kept
    BY <2>1 DEF Handled, Kept, RecordInv
  <2>3. \A d \in Removal : down[d] \in Deleting =>
          which[d] \in Upload /\ which[d] # u /\ data'[which[d]] = data[which[d]]
    BY <2>1 DEF ContentInv
  <2>4. \A d \in Removal : down[d] \in Deleting /\ data[which[d]] = data'[u] => u \in overlapped'
    BY <2>1 DEF Removing, Deleting
  <2>5. \A d \in Removal, v \in Upload \ {u} :
          /\ down[d] \in Deleting /\ v \in Handled /\ data[v] = data[which[d]] => v \in overlapped'
          /\ down[d] = "unlinking" /\ v \in Kept /\ data[v] = data[which[d]] => v \in overlapped'
    BY <2>1 DEF OverlapInv
  <2>6. \A d \in Removal : down[d] = "unlinking" => down[d] \in Deleting
    BY DEF Deleting
  <2>7. Kept \subseteq Upload
    BY DEF Kept
  <2> QED
    BY <2>1, <2>2, <2>3, <2>4, <2>5, <2>6, <2>7 DEF OverlapInv
<1>4. ASSUME NEW u \in Upload, FindTwin(u) \/ TestBlob(u) \/ OpenPart(u) \/ FillPart(u) \/ RenamePart(u)
      PROVE  OverlapInv'
  <2>1. UNCHANGED <<data, removalVars, status, overlapped>> /\ Handled' \subseteq Handled
    BY <1>4 DEF FindTwin, TestBlob, OpenPart, FillPart, RenamePart, FilesTypeOK, Handled, history
  <2> QED
    BY <1>1, <2>1 DEF Kept
<1>5. ASSUME NEW u \in Upload, CreateRecord(u) \/ Extract(u) \/ Answer(u) PROVE OverlapInv'
  <2>1. /\ UNCHANGED <<data, down, which, overlapped>> /\ u \in Handled
        /\ Handled' \subseteq Handled /\ Kept' \subseteq Kept \cup {u}
    BY <1>5 DEF CreateRecord, Extract, MarkReady, MarkFailed, Answer, FilesTypeOK, Handled, Kept, history, removalVars
  <2> QED
    BY <2>1 DEF OverlapInv, Deleting
<1>6. ASSUME NEW d \in Removal, FindRecord(d) PROVE OverlapInv'
  <2>1. /\ UNCHANGED <<up, data, status>> /\ down'[d] \in {"found", "unknown"}
        /\ \A e \in Removal \ {d} : down'[e] = down[e] /\ which'[e] = which[e]
    BY <1>6 DEF FindRecord, FilesTypeOK, uploadVars
  <2>2. down'[d] = "found" =>
          overlapped' = overlapped \cup {v \in Handled : data[v] = data[which'[d]]}
    BY <1>6 DEF FindRecord, FilesTypeOK
  <2>3. overlapped \subseteq overlapped'
    BY <1>6 DEF FindRecord
  <2>4. Handled' = Handled /\ Kept' = Kept
    BY <2>1 DEF Handled, Kept
  <2> QED
    BY <2>1, <2>2, <2>3, <2>4 DEF OverlapInv, Deleting
<1>7. ASSUME NEW d \in Removal, DeleteRecord(d) \/ CountRecords(d) \/ Unlink(d) PROVE OverlapInv'
  <2>1. /\ UNCHANGED <<up, data, which, overlapped>> /\ Kept' \subseteq Kept
        /\ \A e \in Removal \ {d} : down'[e] = down[e]
        /\ down'[d] \in Deleting => down[d] \in Deleting
    BY <1>7 DEF DeleteRecord, CountRecords, Unlink, FilesTypeOK, uploadVars, history, Kept, Deleting
  <2>2. down'[d] = "unlinking" => Sharing(which[d]) = {}
    BY <1>7 DEF DeleteRecord, CountRecords, Unlink, FilesTypeOK
  <2>3. Handled' = Handled
    BY <2>1 DEF Handled
  <2> QED
    BY <2>1, <2>2, <2>3 DEF OverlapInv, Sharing
<1>8. CASE FilesRestart
  <2>1. /\ UNCHANGED <<data, which, status, overlapped>> /\ Handled' = {}
        /\ \A d \in Removal : down'[d] \notin Deleting
    BY <1>8 DEF FilesRestart, Handled, Deleting
  <2> QED
    BY <2>1 DEF OverlapInv, Deleting
<1> QED
  BY <1>2, <1>3, <1>4, <1>5, <1>6, <1>7, <1>8 DEF FilesStep, UploadStep, RemovalStep

\* Bytes go only by a delete that the records it leaves without them overlapped.
LEMMA BytesStep ==
  FilesTypeOK /\ ContentInv /\ OverlapInv /\ BytesInv /\ FilesStep => BytesInv'
<1> SUFFICES ASSUME FilesTypeOK, ContentInv, OverlapInv, BytesInv, FilesStep PROVE BytesInv'
  OBVIOUS
<1> USE AttachmentsAssumption
<1>1. ASSUME UNCHANGED <<data, blob>>, overlapped \subseteq overlapped', Kept' \subseteq Kept,
             \A u \in Upload : /\ up'[u] = "stored" => up[u] = "stored"
                               /\ up'[u] = "idle" => up[u] = "idle"
      PROVE  BytesInv'
  <2> SUFFICES ASSUME NEW u \in Upload \ overlapped', up'[u] = "stored" \/ u \in Kept'
               PROVE  up'[u] # "idle" /\ blob'[data'[u]] # None
    BY DEF BytesInv
  <2>1. u \in Upload /\ u \notin overlapped
    BY <1>1
  <2>2. CASE up'[u] = "stored"
    BY <1>1, <2>1, <2>2 DEF BytesInv
  <2>3. CASE u \in Kept'
    BY <1>1, <2>1, <2>3 DEF BytesInv
  <2> QED
    BY <2>2, <2>3
<1>2. CASE UNCHANGED fileVars
  BY <1>1, <1>2 DEF fileVars, uploadVars, diskVars, history, Kept
<1>3. ASSUME NEW u \in Upload, Receive(u) PROVE BytesInv'
  <2>1. /\ UNCHANGED <<status, blob>> /\ up[u] = "idle" /\ up'[u] \in {"received", "refused"}
        /\ \A v \in Upload \ {u} : data'[v] = data[v] /\ up'[v] = up[v]
        /\ overlapped \subseteq overlapped'
    BY <1>3 DEF Receive, FilesTypeOK, diskVars
  <2> QED
    BY <2>1 DEF BytesInv, Kept
<1>4. ASSUME NEW u \in Upload, FindTwin(u) \/ OpenPart(u) \/ FillPart(u) PROVE BytesInv'
  <2>1. /\ UNCHANGED <<data, status, blob, overlapped>> /\ up'[u] \notin {"stored", "idle"}
        /\ \A v \in Upload \ {u} : up'[v] = up[v]
    BY <1>4 DEF FindTwin, OpenPart, FillPart, FilesTypeOK, diskVars, history
  <2> QED
    BY <1>1, <2>1 DEF Kept
<1>5. ASSUME NEW u \in Upload, TestBlob(u) PROVE BytesInv'
  <2>1. /\ UNCHANGED <<data, status, blob, overlapped>>
        /\ up'[u] = IF blob[data[u]] # None THEN "stored" ELSE "opening"
        /\ \A v \in Upload \ {u} : up'[v] = up[v]
    BY <1>5 DEF TestBlob, FilesTypeOK, diskVars
  <2> QED
    BY <2>1 DEF BytesInv, Kept
<1>6. ASSUME NEW u \in Upload, RenamePart(u) PROVE BytesInv'
  <2>1. /\ UNCHANGED <<data, status, overlapped>> /\ data[u] \in Content
        /\ up'[u] \in {"raised", "stored"}
        /\ \A v \in Upload \ {u} : up'[v] = up[v]
    BY <1>6 DEF RenamePart, FilesTypeOK, ContentInv, history
  <2>2. CASE blob' = blob /\ up'[u] = "raised"
    BY <1>1, <2>1, <2>2 DEF Kept
  <2>3. CASE part[data[u]] # None /\ blob' = [blob EXCEPT ![data[u]] = part[data[u]]]
    <3>1. \A c \in Content : blob[c] # None => blob'[c] # None
      BY <2>3 DEF FilesTypeOK
    <3>2. blob'[data[u]] # None
      BY <2>1, <2>3 DEF FilesTypeOK
    <3> QED
      BY <2>1, <3>1, <3>2 DEF BytesInv, ContentInv, Kept
  <2> QED
    BY <1>6, <2>2, <2>3 DEF RenamePart, FilesTypeOK
<1>7. ASSUME NEW u \in Upload, CreateRecord(u) \/ Extract(u) \/ Answer(u) PROVE BytesInv'
  <2>1. /\ UNCHANGED <<data, blob, overlapped>> /\ up'[u] \notin {"stored", "idle"}
        /\ \A v \in Upload \ {u} : up'[v] = up[v]
    BY <1>7 DEF CreateRecord, Extract, MarkReady, MarkFailed, Answer, FilesTypeOK, diskVars, history
  <2>2. \/ Kept' \subseteq Kept
        \/ Kept' \subseteq Kept \cup {u} /\ up[u] = "stored"
    BY <1>7 DEF CreateRecord, Extract, MarkReady, MarkFailed, Answer, FilesTypeOK, Kept
  <2> QED
    BY <2>1, <2>2 DEF BytesInv
<1>8. ASSUME NEW d \in Removal, FindRecord(d) PROVE BytesInv'
  BY <1>1, <1>8 DEF FindRecord, uploadVars, diskVars, Kept
<1>9. ASSUME NEW d \in Removal, DeleteRecord(d) \/ CountRecords(d) PROVE BytesInv'
  <2>1. UNCHANGED <<up, data, blob, overlapped>> /\ Kept' \subseteq Kept
    BY <1>9 DEF DeleteRecord, CountRecords, FilesTypeOK, uploadVars, diskVars, history, Kept
  <2> QED
    BY <1>1, <2>1
<1>10. ASSUME NEW d \in Removal, Unlink(d) PROVE BytesInv'
  <2>1. /\ UNCHANGED <<up, data, status, overlapped>> /\ down[d] = "unlinking"
        /\ blob' = [blob EXCEPT ![data[which[d]]] = None]
    BY <1>10 DEF Unlink, uploadVars, history
  <2>2. ASSUME NEW u \in Upload \ overlapped, up[u] = "stored" \/ u \in Kept
        PROVE  data[u] # data[which[d]]
    BY <2>1, <2>2 DEF OverlapInv, Deleting, Handled
  <2> QED
    BY <2>1, <2>2 DEF BytesInv, Kept, FilesTypeOK
<1>11. CASE FilesRestart
  <2>1. UNCHANGED <<data, blob, status, overlapped>>
        /\ \A u \in Upload : up'[u] = up[u] \/ up'[u] = "raised"
    BY <1>11 DEF FilesRestart
  <2> QED
    BY <1>1, <2>1 DEF Kept
<1> QED
  BY <1>2, <1>3, <1>4, <1>5, <1>6, <1>7, <1>8, <1>9, <1>10, <1>11 DEF FilesStep, UploadStep, RemovalStep

\* Records and answers.
LEMMA RecordStep ==
  FilesTypeOK /\ ContentInv /\ RecordInv /\ FilesStep => RecordInv'
<1> SUFFICES ASSUME FilesTypeOK, ContentInv, RecordInv, FilesStep PROVE RecordInv'
  OBVIOUS
<1> USE AttachmentsAssumption
<1>6. \A d \in Removal : down[d] = "found" => which[d] \in Upload
  BY DEF ContentInv, Deleting
<1>1. CASE UNCHANGED fileVars
  BY <1>1 DEF fileVars, uploadVars, removalVars, RecordInv
<1>2. ASSUME NEW u \in Upload, Receive(u) \/ FindTwin(u) \/ TestBlob(u) \/ OpenPart(u) \/ FillPart(u) \/ RenamePart(u)
      PROVE  RecordInv'
  <2>1. /\ UNCHANGED <<status, down, which>>
        /\ \A v \in Upload \ {u} : up'[v] = up[v] /\ answer'[v] = answer[v]
        /\ up[u] \in {"idle", "received", "putting", "opening", "filling", "renaming"}
        /\ up'[u] \in UploadPC \ {"extracting", "extracted"}
    BY <1>2 DEF Receive, FindTwin, TestBlob, OpenPart, FillPart, RenamePart, UploadPC, FilesTypeOK,
                removalVars
  <2>2. answer'[u] = answer[u] \/ answer'[u] \in Reusable(u)
    BY <1>2 DEF Receive, FindTwin, TestBlob, OpenPart, FillPart, RenamePart, FilesTypeOK
  <2> QED
    BY <2>1, <2>2 DEF RecordInv, Reusable
<1>3. ASSUME NEW u \in Upload, CreateRecord(u) \/ Extract(u) \/ Answer(u) PROVE RecordInv'
  <2>1. /\ \A v \in Upload \ {u} : up'[v] = up[v] /\ status'[v] = status[v] /\ answer'[v] = answer[v]
        /\ \/ /\ up[u] = "stored" /\ up'[u] = "extracting"
              /\ status'[u] = "extracting" /\ answer'[u] = answer[u]
           \/ /\ up[u] = "extracting" /\ up'[u] = "extracted" /\ answer'[u] = answer[u]
              /\ IF u \in Kept THEN status'[u] \in {"ready", "failed"} ELSE status'[u] = status[u]
           \/ /\ up[u] = "extracted" /\ up'[u] = "answered"
              /\ status'[u] = status[u] /\ answer'[u] = u
    BY <1>3 DEF CreateRecord, Extract, MarkReady, MarkFailed, Answer, FilesTypeOK
  <2>2. \A v \in Upload : answer[v] # None /\ answer[v] = u => status[u] \in {"ready", "failed", "deleted"}
    BY DEF RecordInv
  <2>3. \A v \in Upload : answer[v] # None => answer[v] \in Upload
    BY DEF FilesTypeOK
  <2>4. status'[u] = status[u] \/ status[u] \in {"absent", "extracting"}
    BY <2>1 DEF RecordInv, Kept
  <2>5. /\ up'[u] = "extracting" => status'[u] = "extracting"
        /\ up'[u] \in {"extracted", "answered"} => status'[u] \in {"ready", "failed", "deleted"}
        /\ up'[u] \in {"extracting", "extracted", "answered"}
    BY <2>1 DEF RecordInv, Kept
  <2>6. \A v \in Upload : answer'[v] # None => status'[answer'[v]] \in {"ready", "failed", "deleted"}
    BY <2>1, <2>2, <2>3, <2>4, <2>5 DEF RecordInv
  <2>7. status'[u] # "absent" /\ UNCHANGED <<down, which>>
    BY <1>3, <2>1, <2>5 DEF CreateRecord, Extract, MarkReady, MarkFailed, Answer, removalVars
  <2>8. \A d \in Removal : down'[d] = "found" => status'[which'[d]] # "absent"
    BY <2>1, <2>7, <1>6 DEF RecordInv
  <2> QED
    BY <2>1, <2>5, <2>6, <2>8 DEF RecordInv
<1>4. ASSUME NEW d \in Removal, RemovalStep(d) PROVE RecordInv'
  <2>1. UNCHANGED <<up, answer>>
    BY <1>4 DEF RemovalStep, FindRecord, DeleteRecord, CountRecords, Unlink, uploadVars
  <2>2. \A a \in Upload : status'[a] = status[a] \/ (status'[a] = "deleted" /\ a = which[d] /\ down[d] = "found")
    BY <1>4 DEF RemovalStep, FindRecord, DeleteRecord, CountRecords, Unlink, FilesTypeOK
  <2>3. \A e \in Removal : down'[e] = "found" =>
          \/ down[e] = "found" /\ which'[e] = which[e]
          \/ which'[e] \in Kept
    BY <1>4 DEF RemovalStep, FindRecord, DeleteRecord, CountRecords, Unlink, FilesTypeOK, Owned
  <2>4. \A e \in Removal : down'[e] = "found" => which'[e] \in Upload /\ status[which'[e]] # "absent"
    BY <2>3, <1>6 DEF RecordInv, Kept
  <2>5. \A e \in Removal : down'[e] = "found" => status'[which'[e]] # "absent"
    BY <2>2, <2>4
  <2>6. \A v \in Upload : answer[v] # None => answer[v] \in Upload
    BY DEF FilesTypeOK
  <2>7. \A a \in Upload : status'[a] = status[a] \/ (status'[a] = "deleted" /\ status[a] # "absent")
    BY <2>2 DEF RecordInv
  <2> QED
    BY <2>1, <2>5, <2>6, <2>7 DEF RecordInv
<1>5. CASE FilesRestart
  BY <1>5 DEF FilesRestart, RecordInv
<1> QED
  BY <1>1, <1>2, <1>3, <1>4, <1>5 DEF FilesStep, UploadStep

\* Uploads that write alone leave whole files.
LEMMA WriterStep ==
  /\ FilesTypeOK /\ ContentInv /\ FileInv /\ WriterInv /\ LoneWriterIsWhole /\ FilesStep
  => FileInv' /\ WriterInv' /\ LoneWriterIsWhole'
<1> SUFFICES ASSUME FilesTypeOK, ContentInv, FileInv, WriterInv, LoneWriterIsWhole, FilesStep
             PROVE  FileInv' /\ WriterInv' /\ LoneWriterIsWhole'
  OBVIOUS
<1> USE AttachmentsAssumption
<1> DEFINE Goal == FileInv' /\ WriterInv' /\ LoneWriterIsWhole'
<1>1. ASSUME UNCHANGED <<part, whole, twins>>,
             Writing' \subseteq Writing,
             \A u \in Writing' : up'[u] = up[u] /\ open'[u] = open[u],
             \A u \in Upload : (up[u] # "idle" => data'[u] = data[u]) /\ (up[u] \notin Early => up'[u] \notin Early),
             \A c \in Content : blob'[c] = blob[c] \/ blob'[c] = None
      PROVE  Goal
  <2>1. FileInv'
    BY <1>1 DEF FileInv, Early, FilesTypeOK
  <2>2. WriterInv'
    <3>1. \A u \in Writing : u \in Upload /\ up[u] # "idle"
      BY DEF Writing
    <3> QED
      BY <1>1, <3>1 DEF WriterInv
  <2>3. LoneWriterIsWhole'
    BY <1>1 DEF LoneWriterIsWhole
  <2> QED
    BY <2>1, <2>2, <2>3
<1>2. CASE UNCHANGED fileVars
  BY <1>1, <1>2 DEF fileVars, uploadVars, diskVars, history, Writing, Early
<1>3. ASSUME NEW u \in Upload, Receive(u) \/ FindTwin(u) \/ CreateRecord(u) \/ Extract(u) \/ Answer(u)
      PROVE  Goal
  <2>1. /\ UNCHANGED <<diskVars, twins>>
        /\ up[u] \in {"idle", "received", "stored", "extracting", "extracted"}
        /\ up[u] # "idle" => data'[u] = data[u]
        /\ up'[u] \in UploadPC \ {"opening", "filling", "renaming"}
        /\ up[u] \notin Early => up'[u] \notin Early
        /\ \A v \in Upload \ {u} : up'[v] = up[v] /\ data'[v] = data[v]
    BY <1>3 DEF Receive, FindTwin, CreateRecord, Extract, MarkReady, MarkFailed, Answer, FilesTypeOK, UploadPC, history, Early
  <2>2. Writing' \subseteq Writing /\ (\A v \in Writing' : up'[v] = up[v])
    BY <2>1 DEF Writing
  <2> QED
    BY <1>1, <2>1, <2>2 DEF diskVars, Early
<1>4. ASSUME NEW u \in Upload, TestBlob(u) PROVE Goal
  <2>1. /\ UNCHANGED <<data, diskVars>> /\ up[u] = "putting"
        /\ up'[u] \in {"stored", "opening"}
        /\ \A v \in Upload \ {u} : up'[v] = up[v]
        /\ twins \subseteq twins'
        /\ up'[u] = "opening" => \A v \in Writing : data[v] = data[u] => data[u] \in twins'
    BY <1>4 DEF TestBlob, FilesTypeOK
  <2>2. Writing' \subseteq Writing \cup {u} /\ (u \in Writing' => up'[u] = "opening")
    BY <2>1 DEF Writing
  <2>3. FileInv'
    BY <2>1 DEF FileInv, Early, FilesTypeOK, diskVars
  <2>4. WriterInv'
    BY <2>1, <2>2 DEF WriterInv, Writing, diskVars
  <2>5. LoneWriterIsWhole'
    BY <2>1 DEF LoneWriterIsWhole, diskVars
  <2> QED
    BY <2>3, <2>4, <2>5
<1>5. ASSUME NEW u \in Upload, OpenPart(u) PROVE Goal
  <2> DEFINE c == data[u]
             f == IF part[c] = None THEN u ELSE part[c]
  <2>1. /\ c \in Content /\ f \in Upload /\ u \in Writing /\ up[u] = "opening"
        /\ data[f] = c
    BY <1>5 DEF OpenPart, FilesTypeOK, ContentInv, FileInv, Writing
  <2>2. /\ UNCHANGED <<data, blob, twins>>
        /\ part' = [part EXCEPT ![c] = f]
        /\ open' = [open EXCEPT ![u] = f]
        /\ whole' = [whole EXCEPT ![f] = FALSE]
        /\ up' = [up EXCEPT ![u] = "filling"]
    BY <1>5 DEF OpenPart, history
  <2>3. \A b \in Content : blob[b] # f
    BY <2>1 DEF FileInv, Early, FilesTypeOK
  <2> HIDE DEF f
  <2>4. f # None /\ (f = u \/ (up[f] \notin Early /\ f # u))
    BY <2>1 DEF f, FileInv, Early, FilesTypeOK
  <2>5. FileInv'
    <3>1. \A v \in Upload : up[v] \notin Early => up'[v] \notin Early
      BY <2>1, <2>2 DEF FilesTypeOK, Early
    <3>2. up'[f] \notin Early
      BY <2>1, <2>2, <2>4 DEF FilesTypeOK, Early
    <3> QED
      BY <2>1, <2>2, <2>3, <2>4, <3>1, <3>2 DEF FileInv, FilesTypeOK
  <2>6. WriterInv'
    <3> SUFFICES ASSUME NEW v \in Writing', data'[v] \notin twins'
                 PROVE  /\ \A w \in Writing' : data'[w] = data'[v] => w = v
                        /\ up'[v] = "filling" => open'[v] = part'[data'[v]]
                        /\ up'[v] = "renaming" /\ part'[data'[v]] # None => whole'[part'[data'[v]]]
      BY DEF WriterInv
    <3>1. Writing' = Writing /\ v \in Writing /\ v \in Upload /\ data[v] \notin twins
      BY <2>1, <2>2 DEF Writing, FilesTypeOK
    <3>2. \A w \in Writing : data[w] = data[v] => w = v
      BY <3>1 DEF WriterInv
    <3>3. CASE v = u
      BY <2>1, <2>2, <3>1, <3>2, <3>3 DEF FilesTypeOK
    <3>4. CASE v # u
      <4>1. data[v] # c /\ data[v] \in Content
        BY <2>1, <3>1, <3>2, <3>4 DEF ContentInv, Writing
      <4>2. part[data[v]] # None => part[data[v]] # f /\ part[data[v]] \in Upload
        BY <2>1, <4>1 DEF FileInv, FilesTypeOK
      <4> QED
        BY <2>1, <2>2, <3>1, <3>2, <3>4, <4>1, <4>2 DEF WriterInv, FilesTypeOK
    <3> QED
      BY <3>3, <3>4
  <2>7. LoneWriterIsWhole'
    BY <2>1, <2>2, <2>3 DEF LoneWriterIsWhole, FilesTypeOK
  <2> QED
    BY <2>5, <2>6, <2>7
<1>6. ASSUME NEW u \in Upload, FillPart(u) PROVE Goal
  <2>1. /\ UNCHANGED <<data, blob, part, twins>> /\ up[u] = "filling" /\ u \in Writing
        /\ whole' = [whole EXCEPT ![open[u]] = TRUE]
        /\ open' = [open EXCEPT ![u] = None]
        /\ up' = [up EXCEPT ![u] = "renaming"]
    BY <1>6 DEF FillPart, history, Writing
  <2>2. \A f \in Upload : whole'[f] = whole[f] \/ whole'[f]
    BY <2>1 DEF FilesTypeOK
  <2>3. FileInv'
    BY <2>1 DEF FileInv, Early, FilesTypeOK
  <2>4. WriterInv'
    <3>1. Writing' = Writing
      BY <2>1 DEF Writing, FilesTypeOK
    <3>2. \A v \in Writing : v \in Upload /\ data[v] \in Content
      BY DEF Writing, ContentInv
    <3>3. \A v \in Writing \ {u} : up'[v] = up[v] /\ open'[v] = open[v]
      BY <2>1, <3>2 DEF FilesTypeOK
    <3>4. data[u] \notin twins /\ part[data[u]] # None => whole'[part[data[u]]]
      BY <2>1, <3>2 DEF WriterInv, FilesTypeOK
    <3>5. \A v \in Writing : part[data[v]] # None /\ whole[part[data[v]]] => whole'[part[data[v]]]
      BY <2>2, <3>2 DEF FilesTypeOK
    <3>6. up'[u] = "renaming"
      BY <2>1 DEF FilesTypeOK
    <3> QED
      BY <2>1, <3>1, <3>3, <3>4, <3>5, <3>6 DEF WriterInv
  <2>5. LoneWriterIsWhole'
    BY <2>1, <2>2 DEF LoneWriterIsWhole, FilesTypeOK
  <2> QED
    BY <2>3, <2>4, <2>5
<1>7. ASSUME NEW u \in Upload, RenamePart(u) PROVE Goal
  <2>1. /\ UNCHANGED <<data, open, whole, twins>> /\ u \in Writing /\ data[u] \in Content
        /\ up[u] = "renaming" /\ up'[u] \in {"raised", "stored"}
        /\ \A v \in Upload \ {u} : up'[v] = up[v]
    BY <1>7 DEF RenamePart, history, FilesTypeOK, ContentInv, Writing
  <2>2. Writing' \subseteq Writing \ {u}
    BY <2>1 DEF Writing
  <2>3. \A v \in Upload : up[v] \notin Early => up'[v] \notin Early
    BY <2>1 DEF Early
  <2>4. CASE UNCHANGED <<blob, part>>
    <3>1. \A v \in Writing' : up'[v] = up[v]
      BY <2>1, <2>2 DEF Writing
    <3> QED
      BY <1>1, <2>1, <2>2, <2>3, <2>4, <3>1
  <2>5. CASE /\ part[data[u]] # None
             /\ blob' = [blob EXCEPT ![data[u]] = part[data[u]]]
             /\ part' = [part EXCEPT ![data[u]] = None]
    <3>1. FileInv'
      <4> SUFFICES ASSUME NEW c \in Content
                   PROVE  /\ blob'[c] # None => data'[blob'[c]] = c /\ up'[blob'[c]] \notin Early
                          /\ part'[c] # None => data'[part'[c]] = c /\ up'[part'[c]] \notin Early /\ part'[c] # blob'[c]
        BY DEF FileInv, Early
      <4>1. CASE c = data[u]
        <5>1. blob'[c] = part[c] /\ part'[c] = None /\ part[c] # None /\ part[c] \in Upload
          BY <2>5, <4>1 DEF FilesTypeOK
        <5> QED
          BY <2>1, <2>3, <5>1 DEF FileInv, Early
      <4>2. CASE c # data[u]
        <5>1. /\ blob'[c] = blob[c] /\ part'[c] = part[c]
              /\ blob[c] \in Upload \cup {None} /\ part[c] \in Upload \cup {None}
          BY <2>5, <4>2 DEF FilesTypeOK
        <5> QED
          BY <2>1, <2>3, <5>1 DEF FileInv, Early
      <4> QED
        BY <4>1, <4>2
    <3>2. WriterInv'
      <4> SUFFICES ASSUME NEW v \in Writing', data'[v] \notin twins'
                   PROVE  /\ \A w \in Writing' : data'[w] = data'[v] => w = v
                          /\ up'[v] = "filling" => open'[v] = part'[data'[v]]
                          /\ up'[v] = "renaming" /\ part'[data'[v]] # None => whole'[part'[data'[v]]]
        BY DEF WriterInv
      <4>1. v \in Writing /\ v # u /\ v \in Upload /\ data[v] \in Content /\ data[v] \notin twins
        BY <2>1, <2>2 DEF Writing, ContentInv
      <4>2. data[v] # data[u] /\ up'[v] = up[v]
        BY <2>1, <4>1 DEF WriterInv
      <4> QED
        BY <2>1, <2>2, <2>5, <4>1, <4>2 DEF WriterInv, FilesTypeOK
    <3>3. LoneWriterIsWhole'
      BY <2>1, <2>5 DEF WriterInv, LoneWriterIsWhole, FilesTypeOK
    <3> QED
      BY <3>1, <3>2, <3>3
  <2> QED
    BY <1>7, <2>4, <2>5 DEF RenamePart
<1>8. ASSUME NEW d \in Removal, RemovalStep(d) PROVE Goal
  <2>1. UNCHANGED <<up, data, part, open, whole, twins>>
    BY <1>8 DEF RemovalStep, FindRecord, DeleteRecord, CountRecords, Unlink, uploadVars, diskVars, history
  <2>2. \A c \in Content : blob'[c] = blob[c] \/ blob'[c] = None
    BY <1>8 DEF RemovalStep, FindRecord, DeleteRecord, CountRecords, Unlink, diskVars, FilesTypeOK
  <2> QED
    BY <1>1, <2>1, <2>2 DEF Writing, Early
<1>9. CASE FilesRestart
  <2>1. /\ UNCHANGED <<data, blob, part, whole, twins>>
        /\ \A u \in Upload : up'[u] = IF u \in Handled THEN "raised" ELSE up[u]
    BY <1>9 DEF FilesRestart
  <2>2. Writing' = {}
    BY <2>1 DEF Writing, Handled
  <2> QED
    BY <1>1, <2>1, <2>2 DEF Early
<1> QED
  BY <1>2, <1>3, <1>4, <1>5, <1>6, <1>7, <1>8, <1>9 DEF FilesStep, UploadStep

-----------------------------------------------------------------------------
(***************************************************************************)
(* The invariant and the theorems.                                         *)
(***************************************************************************)
LEMMA InitIInv == Init => IInv
<1> SUFFICES ASSUME FilesInit PROVE IInv
  BY DEF Init
<1> USE AttachmentsAssumption
<1>1. ASSUME NEW u \in Earlier
      PROVE  u \in Upload /\ u # None /\ Sent(u) \in User \X Content
  <2>1. PICK offer \in Offers[u] : Offers[u] = {offer}
    OBVIOUS
  <2>2. Offers[u] \in SUBSET (User \X Content)
    OBVIOUS
  <2>3. Sent(u) = offer
    BY <2>1 DEF Sent
  <2> QED
    BY <2>2, <2>3
<1>2. /\ \A u \in Earlier : Sent(u)[1] \in User /\ Sent(u)[2] \in Content
      /\ \A u \in Upload : u # None
  BY <1>1
<1>3. ASSUME NEW c \in Content
      PROVE  /\ blob[c] # None => blob[c] \in Earlier /\ Sent(blob[c])[2] = c
             /\ \A u \in Earlier : Sent(u)[2] = c => blob[c] # None
  <2> DEFINE Has(u) == u \in Earlier /\ Sent(u)[2] = c
  <2>1. CASE \E u \in Earlier : Sent(u)[2] = c
    <3>1. blob[c] = CHOOSE u \in Earlier : Sent(u)[2] = c
      BY <2>1 DEF FilesInit
    <3> QED
      BY <1>2, <2>1, <3>1
  <2>2. CASE ~(\E u \in Earlier : Sent(u)[2] = c)
    BY <2>2 DEF FilesInit
  <2> QED
    BY <2>1, <2>2
<1> HIDE DEF Sent
<1>4. blob \in [Content -> Upload \cup {None}]
  <2>1. \A c \in Content : blob[c] \in Upload \cup {None}
    BY <1>3
  <2>2. blob = [c \in Content |-> blob[c]]
    BY DEF FilesInit
  <2> QED
    BY <2>1, <2>2
<1>5. FilesTypeOK
  BY <1>2, <1>4 DEF FilesInit, FilesTypeOK, UploadPC, RemovalPC, Status
<1>6. ContentInv
  BY <1>2 DEF FilesInit, ContentInv, Deleting
<1>7. OverlapInv
  BY DEF FilesInit, OverlapInv, Deleting
<1>8. BytesInv
  <2>1. \A u \in Upload : up[u] = "stored" \/ u \in Kept => u \in Earlier
    BY DEF FilesInit, Kept
  <2>2. \A u \in Earlier : up[u] = "answered" /\ data[u] = Sent(u)[2]
    BY DEF FilesInit
  <2> QED
    BY <1>2, <1>3, <2>1, <2>2 DEF BytesInv
<1>9. RecordInv
  BY DEF FilesInit, RecordInv
<1>10. FileInv /\ WriterInv /\ LoneWriterIsWhole
  <2>1. \A u \in Earlier : up[u] = "answered" /\ data[u] = Sent(u)[2] /\ whole[u]
    BY DEF FilesInit
  <2>2. Writing = {} /\ (\A c \in Content : part[c] = None)
    BY DEF FilesInit, Writing
  <2> QED
    BY <1>3, <2>1, <2>2 DEF FileInv, WriterInv, LoneWriterIsWhole, Early
<1> QED
  BY <1>5, <1>6, <1>7, <1>8, <1>9, <1>10 DEF IInv

LEMMA IInvStep == IInv /\ [Next]_vars => IInv'
<1> SUFFICES ASSUME IInv, [Next]_vars PROVE IInv'
  OBVIOUS
<1>1. FilesStep
  BY StepOfFiles
<1> QED
  BY <1>1, FilesTypeStep, OverlapStep, BytesStep, RecordStep, WriterStep DEF IInv

LEMMA Invariance == Spec => []IInv
  BY InitIInv, IInvStep, PTL DEF Spec

\* The variables of the uploads, the deletes and the disk have their types.
THEOREM FilesTypeCorrect == Spec => []FilesTypeOK
<1>1. IInv => FilesTypeOK
  BY DEF IInv
<1> QED
  BY <1>1, Invariance, PTL

\* service.delete: a record that no delete of the same bytes overlapped keeps
\* its bytes for as long as it is there, whoever deletes what.
THEOREM RecordsKeep == Spec => []RecordsKeepBytes
<1>1. IInv => RecordsKeepBytes
  BY DEF IInv, BytesInv, RecordsKeepBytes, Kept
<1> QED
  BY <1>1, Invariance, PTL

\* LocalDiskAttachmentStore._write: the blob of a content that one upload at a
\* time writes is whole, whenever the process stops and restarts.
THEOREM LoneWriters == Spec => []LoneWriterIsWhole
<1>1. IInv => LoneWriterIsWhole
  BY DEF IInv
<1> QED
  BY <1>1, Invariance, PTL

\* service.upload and find_by_sha256: an id in a response is that of a record
\* whose text was extracted, or could not be, or that is deleted since.
THEOREM SettledAnswers == Spec => []AnswersAreSettled
<1>1. IInv => AnswersAreSettled
  BY DEF IInv, RecordInv, AnswersAreSettled
<1> QED
  BY <1>1, Invariance, PTL

=============================================================================
