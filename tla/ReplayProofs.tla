----------------------------- MODULE ReplayProofs -----------------------------
(***************************************************************************)
(* Proofs about Replay, for any conversations, turns, files, budgets and   *)
(* restarts: the tables stay in step with the messages, a turn fails for a *)
(* file only if that file was deleted, the budget takes the text of the    *)
(* oldest files first, the images of a request are those that the estimate *)
(* charges, and its text is not more than the estimate charges.            *)
(***************************************************************************)
EXTENDS AttachmentsProofs, PositionsProofs

(***************************************************************************)
(* The inductive invariant.                                                *)
(***************************************************************************)

Rec == [id : Upload, readable : BOOLEAN]

Stages == {"idle", "refused", "resolved", "fetched", "building", "asked", "raised", "killed"}

\* The ids of a list of records; a list that names no file twice.
IdsOf(s) == {s[k].id : k \in DOMAIN s}
Distinct(s) == \A k, l \in DOMAIN s : s[k].id = s[l].id => k = l

\* The types of all variables of Replay.
Shape ==
  /\ conv \in [Turn -> Conv \cup {None}]
  /\ pc \in [Turn -> Stages]
  /\ records \in [Turn -> Seq(Rec)]
  /\ msgs \in [Conv -> Seq(Seq(Upload))]
  /\ links \in [Conv -> Seq(SUBSET Upload)]
  /\ stamp \in [Upload -> Conv \cup {None}]
  /\ prior \in [Turn -> Nat]
  /\ at \in [Turn -> Nat]
  /\ todo \in [Turn -> Seq(Rec)]
  /\ showing \in [Turn -> BOOLEAN]
  /\ left \in [Turn -> 0..Total]
  /\ turnsLeft \in [Turn -> 0..ImageTurns]
  /\ missed \in [Turn -> Nat]
  /\ prompt \in [Turn -> SUBSET Elements]

\* The records that a response may name: their text was extracted, or could
\* not be, or they are deleted since.
Settled == {a \in Upload : status[a] \in {"ready", "failed", "deleted"}}

\* The files that the messages of a conversation refer to.
Mentioned(c) == UNION {Range(msgs[c][i]) : i \in DOMAIN msgs[c]}

\* Only such files are referred to, by a message or by a request.
RefInv ==
  /\ \A c \in Conv : Mentioned(c) \subseteq Settled
  /\ \A t \in Turn : \A i \in DOMAIN records[t] : records[t][i].id \in Settled

\* A turn that is handled has a conversation, and the files it has to put
\* into its request are those of some message of that conversation.
TurnOK(t) ==
  /\ pc[t] # "idle" => conv[t] \in Conv
  /\ pc[t] \in {"idle", "resolved"} => prior[t] = 0
  /\ pc[t] = "fetched" => prior[t] <= Len(msgs[conv[t]])
  /\ pc[t] = "building" =>
       /\ at[t] <= Len(msgs[conv[t]])
       /\ \A i \in DOMAIN todo[t] : todo[t][i].id \in Mentioned(conv[t])

\* The request is built from the newest message to the oldest; a document
\* whose text was cut below the cap has used up the budget.
TextOK(t) ==
  /\ pc[t] \in {"idle", "resolved", "fetched"} => prompt[t] = {}
  /\ \A e \in prompt[t] : e.msg >= at[t] /\ e.id \in Settled
  /\ \A e \in Texts(t) : e.chars = Full(e.id) \/ left[t] = 0

TurnInv == \A t \in Turn : TurnOK(t)
TextInv == \A t \in Turn : TextOK(t)

ReplayInv == /\ Shape /\ RefInv /\ LinksMirrorReferences /\ TurnInv /\ TextInv
             /\ UndisturbedTurnsAsk /\ OldestLoseText

-----------------------------------------------------------------------------
(***************************************************************************)
(* get_many.                                                               *)
(***************************************************************************)

\* The positions of the ids that get_many finds.
Hits(ids, user) == {i \in DOMAIN ids : ids[i] \in Owned(user)}

\* The k-th record that get_many returns is that of the k-th listed id that
\* is the user's.
LEMMA FoundIs ==
  ASSUME NEW ids \in Seq(Upload), NEW user
  PROVE  LET S == Hits(ids, user) IN
         /\ S \in SUBSET (1 .. Len(ids)) /\ Cardinality(S) \in Nat
         /\ DOMAIN GetMany(ids, user) = 1 .. Cardinality(S)
         /\ GetMany(ids, user) \in Seq(Rec)
         /\ \A k \in 1 .. Cardinality(S) :
              Place(S, k) \in S /\ GetMany(ids, user)[k].id = ids[Place(S, k)]
<1>0. PICK S : S = Hits(ids, user) /\ S = {i \in DOMAIN ids : ids[i] \in Owned(user)}
  BY DEF Hits
<1> DEFINE found == [k \in 1..Cardinality(S) |-> Record(ids[Place(S, k)])]
<1>1. Len(ids) \in Nat /\ DOMAIN ids = 1 .. Len(ids) /\ \A i \in DOMAIN ids : ids[i] \in Upload
  OBVIOUS
<1>2. S \in SUBSET (1 .. Len(ids)) /\ \A i \in S : ids[i] \in Owned(user)
  BY <1>0, <1>1
<1>3. Cardinality(S) \in Nat
  <2>1. IsFiniteSet(1 .. Len(ids))
    BY <1>1, FS_Interval
  <2> QED
    BY <1>2, <2>1, FS_Subset, FS_CardinalityType
<1>4. \A k \in 1 .. Cardinality(S) : Place(S, k) \in S
  BY <1>1, <1>2, PlaceExists
<1>5. ASSUME NEW a \in Upload PROVE Record(a) \in Rec /\ Record(a).id = a
  <2>1. (status[a] = "ready" /\ LengthOf[data[a]] > 0) \in BOOLEAN
    OBVIOUS
  <2> QED
    BY <2>1 DEF Record, Rec
<1>6. \A k \in 1 .. Cardinality(S) : found[k] \in Rec /\ found[k].id = ids[Place(S, k)]
  BY <1>1, <1>2, <1>4, <1>5
<1>7. DOMAIN found = 1 .. Cardinality(S) /\ found \in [1 .. Cardinality(S) -> Rec]
  BY <1>6
<1>8. GetMany(ids, user) = found
  BY <1>0 DEF GetMany
<1>9. found \in Seq(Rec)
  BY <1>3, <1>7
<1> HIDE DEF found
<1> QED
  BY <1>0, <1>2, <1>3, <1>4, <1>6, <1>7, <1>8, <1>9

\* Every record that get_many returns is that of a listed id and exists.
LEMMA FoundAreListed ==
  ASSUME NEW ids \in Seq(Upload), NEW user
  PROVE  /\ GetMany(ids, user) \in Seq(Rec)
         /\ \A k \in DOMAIN GetMany(ids, user) :
              \E i \in DOMAIN ids : /\ GetMany(ids, user)[k].id = ids[i]
                                    /\ ids[i] \in Kept
<1>0. LET H == Hits(ids, user) IN
      /\ H \in SUBSET (1 .. Len(ids)) /\ Cardinality(H) \in Nat
      /\ DOMAIN GetMany(ids, user) = 1 .. Cardinality(H)
      /\ GetMany(ids, user) \in Seq(Rec)
      /\ \A k \in 1 .. Cardinality(H) :
           Place(H, k) \in H /\ GetMany(ids, user)[k].id = ids[Place(H, k)]
  BY FoundIs
<1>1. PICK S : S = Hits(ids, user)
  OBVIOUS
<1>2. \A i \in S : i \in DOMAIN ids /\ ids[i] \in Kept
  BY <1>1 DEF Hits, Owned
<1>3. /\ DOMAIN GetMany(ids, user) = 1 .. Cardinality(S)
      /\ GetMany(ids, user) \in Seq(Rec)
      /\ \A k \in 1 .. Cardinality(S) :
           Place(S, k) \in S /\ GetMany(ids, user)[k].id = ids[Place(S, k)]
  BY <1>0, <1>1
<1> QED
  BY <1>2, <1>3

\* It returns those of all listed ids that are the user's, and none twice.
LEMMA FoundAreAll ==
  ASSUME NEW ids \in Seq(Upload), IsInjective(ids), NEW user
  PROVE  /\ Distinct(GetMany(ids, user))
         /\ \A a : a \in IdsOf(GetMany(ids, user)) <=> a \in Range(ids) /\ a \in Owned(user)
<1>0. LET H == Hits(ids, user) IN
      /\ H \in SUBSET (1 .. Len(ids)) /\ Cardinality(H) \in Nat
      /\ DOMAIN GetMany(ids, user) = 1 .. Cardinality(H)
      /\ GetMany(ids, user) \in Seq(Rec)
      /\ \A k \in 1 .. Cardinality(H) :
           Place(H, k) \in H /\ GetMany(ids, user)[k].id = ids[Place(H, k)]
  BY FoundIs
<1>1. PICK S : S = Hits(ids, user)
  OBVIOUS
<1>2. /\ S \in SUBSET (1 .. Len(ids)) /\ Len(ids) \in Nat /\ Cardinality(S) \in Nat
      /\ DOMAIN GetMany(ids, user) = 1 .. Cardinality(S)
      /\ \A k \in 1 .. Cardinality(S) :
           Place(S, k) \in S /\ GetMany(ids, user)[k].id = ids[Place(S, k)]
  BY <1>0, <1>1
<1>3. Distinct(GetMany(ids, user))
  <2> SUFFICES ASSUME NEW k \in 1 .. Cardinality(S), NEW l \in 1 .. Cardinality(S),
                      ids[Place(S, k)] = ids[Place(S, l)]
               PROVE  k = l
    BY <1>2 DEF Distinct
  <2>1. Place(S, k) = Place(S, l)
    BY <1>1, <1>2 DEF IsInjective, Hits
  <2>2. /\ Cardinality({j \in S : j < Place(S, k)}) = k - 1
        /\ Cardinality({j \in S : j < Place(S, l)}) = l - 1
    BY <1>2, PlaceExists
  <2>3. k - 1 = l - 1
    BY <2>1, <2>2
  <2> QED
    BY <1>2, <2>3
<1>4. ASSUME NEW a, a \in IdsOf(GetMany(ids, user)) PROVE a \in Range(ids) /\ a \in Owned(user)
  <2>1. PICK k \in 1 .. Cardinality(S) : a = ids[Place(S, k)]
    BY <1>2, <1>4 DEF IdsOf
  <2> QED
    BY <1>1, <1>2, <2>1 DEF Range, Hits
<1>5. ASSUME NEW a, a \in Range(ids), a \in Owned(user) PROVE a \in IdsOf(GetMany(ids, user))
  <2>1. PICK i \in S : ids[i] = a
    BY <1>1, <1>5 DEF Range, Hits
  <2>2. PICK k \in 1 .. Cardinality(S) : Place(S, k) = i
    BY <1>2, PlaceOnto
  <2> QED
    BY <1>2, <2>1, <2>2 DEF IdsOf
<1> QED
  BY <1>3, <1>4, <1>5

-----------------------------------------------------------------------------
(***************************************************************************)
(* What a step of the uploads and deletes does to a file that is referred  *)
(* to.                                                                     *)
(***************************************************************************)

\* All such steps but the delete of a record.
QuietStep ==
  \/ UNCHANGED fileVars
  \/ \E u \in Upload : UploadStep(u)
  \/ \E d \in Removal : FindRecord(d) \/ CountRecords(d) \/ Unlink(d)
  \/ FilesRestart

LEMMA QuietFiles ==
  ASSUME IInv, QuietStep, NEW a \in Settled
  PROVE  status'[a] = status[a] /\ data'[a] = data[a] /\ overlapped \subseteq overlapped'
<1> USE DEF uploadVars, removalVars, diskVars, history
<1>0. a \in Upload /\ status[a] \in {"ready", "failed", "deleted"}
  BY DEF Settled
<1>1. up[a] \notin {"idle", "received", "putting", "opening", "filling", "renaming", "stored"}
  BY <1>0 DEF IInv, RecordInv
<1>2. a \in Kept <=> status[a] # "deleted"
  BY <1>0 DEF Kept
<1>3. ASSUME NEW u \in Upload, UploadStep(u)
      PROVE  status'[a] = status[a] /\ data'[a] = data[a] /\ overlapped \subseteq overlapped'
  <2>1. CASE Receive(u)
    BY <1>0, <1>1, <2>1 DEF Receive, IInv, FilesTypeOK
  <2>2. CASE FindTwin(u) \/ TestBlob(u) \/ OpenPart(u) \/ FillPart(u) \/ RenamePart(u) \/ Answer(u)
    BY <2>2 DEF FindTwin, TestBlob, OpenPart, FillPart, RenamePart, Answer
  <2>3. CASE CreateRecord(u)
    BY <1>0, <1>1, <2>3 DEF CreateRecord, IInv, FilesTypeOK
  <2>4. CASE Extract(u)
    <3>1. u = a => status[a] = "deleted"
      BY <1>0, <2>4 DEF Extract, IInv, RecordInv
    <3> QED
      BY <1>0, <1>2, <2>4, <3>1 DEF Extract, MarkReady, MarkFailed, IInv, FilesTypeOK
  <2> QED
    BY <1>3, <2>1, <2>2, <2>3, <2>4 DEF UploadStep
<1>4. ASSUME NEW d \in Removal, FindRecord(d) \/ CountRecords(d) \/ Unlink(d)
      PROVE  status'[a] = status[a] /\ data'[a] = data[a] /\ overlapped \subseteq overlapped'
  BY <1>4 DEF FindRecord, CountRecords, Unlink
<1>5. CASE FilesRestart \/ UNCHANGED fileVars
  BY <1>5 DEF FilesRestart, fileVars
<1> QED
  BY <1>3, <1>4, <1>5 DEF QuietStep

\* A deleted record stays deleted, and no record changes its content.
LEMMA FilesStay ==
  ASSUME IInv, NEW a \in Settled,
         QuietStep \/ \E d \in Removal : DeleteRecord(d)
  PROVE  /\ a \in Settled' /\ data'[a] = data[a] /\ overlapped \subseteq overlapped'
         /\ status[a] = "deleted" => status'[a] = "deleted"
<1>1. CASE QuietStep
  BY <1>1, QuietFiles DEF Settled
<1>2. ASSUME NEW d \in Removal, DeleteRecord(d)
      PROVE  /\ a \in Settled' /\ data'[a] = data[a] /\ overlapped \subseteq overlapped'
             /\ status[a] = "deleted" => status'[a] = "deleted"
  BY <1>2 DEF DeleteRecord, Settled, IInv, FilesTypeOK, uploadVars, history
<1> QED
  BY <1>1, <1>2

-----------------------------------------------------------------------------
(***************************************************************************)
(* The steps of uploads, deletes and restarts.                             *)
(***************************************************************************)

LEMMA MentionedIs ==
  ASSUME NEW c, NEW a
  PROVE  a \in Mentioned(c) <=> \E i \in DOMAIN msgs[c] : \E j \in DOMAIN msgs[c][i] : msgs[c][i][j] = a
BY DEF Mentioned, Range

\* What a turn that failed is excused by.
Excuse(a) == status[a] = "deleted" \/ a \in overlapped

LEMMA AskedOrExcused ==
  UndisturbedTurnsAsk <=> \A t \in Turn : pc[t] = "raised" => \E a \in Mentioned(conv[t]) : Excuse(a)
BY DEF UndisturbedTurnsAsk, Mentioned, Excuse

LEMMA AskedOrExcusedPrimed ==
  UndisturbedTurnsAsk' <=> \A t \in Turn : pc'[t] = "raised" => \E a \in Mentioned(conv[t])' : Excuse(a)'
BY DEF UndisturbedTurnsAsk, Mentioned, Excuse

\* The requests do not move; the process may stop.
Halted == /\ pc' \in [Turn -> Stages]
          /\ \A t \in Turn : pc'[t] = pc[t] \/ pc'[t] = "killed"
          /\ \A t \in Turn : pc[t] = "idle" => pc'[t] = "idle"
StillRequests == Halted /\ UNCHANGED <<conv, records, msgs, stamp, requestVars>>

LEMMA FilesMove ==
  ASSUME IInv, Shape, RefInv, TurnInv, TextInv, UndisturbedTurnsAsk, OldestLoseText, StillRequests,
         QuietStep \/ \E d \in Removal : DeleteRecord(d)
  PROVE  RefInv' /\ TurnInv' /\ TextInv' /\ UndisturbedTurnsAsk' /\ OldestLoseText'
<1>0. UNCHANGED <<conv, records, msgs, prior, at, todo, left, prompt>>
  BY DEF StillRequests, requestVars
<1>1. /\ \A c : Mentioned(c)' = Mentioned(c)
      /\ \A t : Texts(t)' = Texts(t)
  BY <1>0 DEF Mentioned, Texts
<1>2. RefInv'
  BY <1>0, <1>1, FilesStay DEF RefInv
<1>3. TurnInv'
  BY <1>0, <1>1 DEF TurnInv, TurnOK, StillRequests, Halted
<1>4. \A a \in Settled : a \in Settled' /\ Full(a)' = Full(a)
  BY FilesStay DEF Full
<1>5. \A t \in Turn : \A e \in Texts(t) : e \in prompt[t] /\ e.id \in Settled
  BY DEF TextInv, TextOK, Texts
<1>6. TextInv'
  BY <1>0, <1>1, <1>4, <1>5 DEF TextInv, TextOK, StillRequests, Halted
<1>7. OldestLoseText'
  BY <1>1, <1>4, <1>5 DEF OldestLoseText
<1>8. UndisturbedTurnsAsk'
  <2> SUFFICES ASSUME NEW t \in Turn, pc'[t] = "raised"
               PROVE  \E a \in Mentioned(conv[t])' : Excuse(a)'
    BY AskedOrExcusedPrimed
  <2>1. pc[t] = "raised" /\ conv[t] \in Conv
    BY DEF StillRequests, Halted, TurnInv, TurnOK
  <2>2. PICK a \in Mentioned(conv[t]) : Excuse(a)
    BY <2>1, AskedOrExcused
  <2>3. a \in Settled
    BY <2>1, <2>2 DEF RefInv
  <2>4. Excuse(a)'
    BY <2>2, <2>3, FilesStay DEF Excuse
  <2>5. Mentioned(conv[t])' = Mentioned(conv[t])
    BY <1>0 DEF Mentioned
  <2> QED
    BY <2>2, <2>4, <2>5
<1> QED
  BY <1>2, <1>3, <1>6, <1>7, <1>8

LEMMA QuietMove ==
  ASSUME IInv, ReplayInv, QuietStep, StillRequests, UNCHANGED links
  PROVE  ReplayInv'
<1>1. Shape'
  BY DEF ReplayInv, Shape, StillRequests, Halted, requestVars
<1>2. RefInv' /\ TurnInv' /\ TextInv' /\ UndisturbedTurnsAsk' /\ OldestLoseText'
  BY FilesMove DEF ReplayInv
<1>3. \A a \in Settled : a \in Kept' <=> a \in Kept
  BY QuietFiles DEF Kept, Settled
<1>4. \A c \in Conv : \A i \in DOMAIN msgs[c] : Range(msgs[c][i]) \subseteq Settled
  BY DEF ReplayInv, RefInv, Mentioned
<1>5. \A c \in Conv : \A i \in DOMAIN msgs[c] :
        Range(msgs[c][i]) \cap Kept' = Range(msgs[c][i]) \cap Kept
  BY <1>3, <1>4
<1>6. UNCHANGED <<msgs, links, stamp>>
  BY DEF StillRequests
<1>7. LinksMirrorReferences'
  BY <1>5, <1>6 DEF ReplayInv, LinksMirrorReferences
<1> QED
  BY <1>1, <1>2, <1>7 DEF ReplayInv

LEMMA DeleteMove ==
  ASSUME IInv, ReplayInv, NEW d \in Removal, DeleteRecord(d), Cascade(which[d])
  PROVE  ReplayInv'
<1> DEFINE x == which[d]
<1>0. StillRequests
  BY DEF ReplayInv, Shape, StillRequests, Halted, Cascade
<1>1. /\ links' = [c \in Conv |-> [i \in DOMAIN links[c] |-> links[c][i] \ {x}]]
      /\ UNCHANGED <<msgs, stamp>>
  BY DEF Cascade
<1>2. RefInv' /\ TurnInv' /\ TextInv' /\ UndisturbedTurnsAsk' /\ OldestLoseText'
  BY <1>0, FilesMove DEF ReplayInv
<1>3. \A a \in Upload : a \in Kept' <=> a \in Kept /\ a # x
  BY DEF DeleteRecord, Kept, IInv, FilesTypeOK
<1> HIDE DEF x
<1>4. Shape'
  <2>1. ASSUME NEW c \in Conv
        PROVE  [i \in DOMAIN links[c] |-> links[c][i] \ {x}] \in Seq(SUBSET Upload)
    <3>1. /\ DOMAIN links[c] = 1 .. Len(links[c]) /\ Len(links[c]) \in Nat
          /\ \A i \in DOMAIN links[c] : links[c][i] \in SUBSET Upload
      BY DEF ReplayInv, Shape
    <3> QED
      BY <3>1
  <2>2. links' \in [Conv -> Seq(SUBSET Upload)]
    BY <1>1, <2>1
  <2> QED
    BY <1>0, <2>2 DEF ReplayInv, Shape, StillRequests, Halted, requestVars
<1>5. LinksMirrorReferences'
  <2>1. ASSUME NEW c \in Conv
        PROVE  /\ DOMAIN links'[c] = DOMAIN msgs[c]
               /\ \A i \in DOMAIN msgs[c] :
                    /\ links'[c][i] = Range(msgs[c][i]) \cap Kept'
                    /\ \A a \in links'[c][i] : stamp[a] # None
    <3>1. DOMAIN links'[c] = DOMAIN links[c] /\ DOMAIN links[c] = DOMAIN msgs[c]
      BY <1>1 DEF ReplayInv, LinksMirrorReferences
    <3>2. ASSUME NEW i \in DOMAIN msgs[c]
          PROVE  /\ links'[c][i] = Range(msgs[c][i]) \cap Kept'
                 /\ \A a \in links'[c][i] : stamp[a] # None
      <4>1. links'[c][i] = links[c][i] \ {x}
        BY <1>1, <3>1
      <4>2. links[c][i] = Range(msgs[c][i]) \cap Kept /\ \A a \in links[c][i] : stamp[a] # None
        BY DEF ReplayInv, LinksMirrorReferences
      <4>3. Kept' = Kept \ {x}
        BY <1>3 DEF Kept
      <4> QED
        BY <4>1, <4>2, <4>3
    <3> QED
      BY <3>1, <3>2
  <2>2. msgs' = msgs /\ stamp' = stamp
    BY <1>1
  <2>3. \A c \in Conv :
          /\ DOMAIN links'[c] = DOMAIN msgs'[c]
          /\ \A i \in DOMAIN msgs'[c] :
               /\ links'[c][i] = Range(msgs'[c][i]) \cap Kept'
               /\ \A a \in links'[c][i] : stamp'[a] # None
    BY <2>1, <2>2
  <2> QED
    BY <2>3 DEF LinksMirrorReferences
<1> QED
  BY <1>2, <1>4, <1>5 DEF ReplayInv

-----------------------------------------------------------------------------
(***************************************************************************)
(* The steps of turns.                                                     *)
(***************************************************************************)

\* What the invariant says of one turn.
Asked(t) == pc[t] = "raised" => \E a \in Mentioned(conv[t]) : Excuse(a)
Oldest(t) == \A old, new \in Texts(t) : old.msg < new.msg /\ old.chars > 0 => new.chars = Full(new.id)
Own(t) == TurnOK(t) /\ TextOK(t) /\ Asked(t) /\ Oldest(t)

LEMMA OwnIs ==
  /\ (\A t \in Turn : Own(t)) <=> TurnInv /\ TextInv /\ UndisturbedTurnsAsk /\ OldestLoseText
  /\ (\A t \in Turn : Own(t)') <=> TurnInv' /\ TextInv' /\ UndisturbedTurnsAsk' /\ OldestLoseText'
<1>1. (\A t \in Turn : Own(t)) <=> TurnInv /\ TextInv /\ UndisturbedTurnsAsk /\ OldestLoseText
  BY AskedOrExcused DEF Own, Asked, Oldest, TurnInv, TextInv, OldestLoseText
<1>2. (\A t \in Turn : Own(t)') <=> TurnInv' /\ TextInv' /\ UndisturbedTurnsAsk' /\ OldestLoseText'
  BY AskedOrExcusedPrimed DEF Own, Asked, Oldest, TurnInv, TextInv, OldestLoseText
<1> QED
  BY <1>1, <1>2

\* A turn is not disturbed by what other turns do: messages are only added.
GrowTables ==
  \A c \in Conv : /\ Len(msgs'[c]) \in Nat
                  /\ Len(msgs[c]) <= Len(msgs'[c])
                  /\ Mentioned(c) \subseteq Mentioned(c)'
Stays(t) == /\ conv'[t] = conv[t] /\ pc'[t] = pc[t] /\ prior'[t] = prior[t] /\ at'[t] = at[t]
            /\ todo'[t] = todo[t] /\ left'[t] = left[t] /\ prompt'[t] = prompt[t]

LEMMA SameFiles ==
  ASSUME UNCHANGED fileVars
  PROVE  /\ Kept' = Kept /\ Settled' = Settled
         /\ \A a : Full(a)' = Full(a)
         /\ \A a : Excuse(a)' <=> Excuse(a)
BY DEF fileVars, uploadVars, history, Kept, Settled, Full, Excuse

LEMMA OtherTurn ==
  ASSUME Shape, UNCHANGED fileVars, GrowTables, NEW t \in Turn, Own(t), Stays(t)
  PROVE  Own(t)'
<1>0. Texts(t)' = Texts(t)
  BY DEF Stays, Texts
<1>1. PICK c : c = conv[t]
  OBVIOUS
<1>2. c = conv'[t] /\ Mentioned(conv[t])' = Mentioned(c)'
  BY <1>1 DEF Stays
<1>3. TurnOK(t)'
  <2>1. pc[t] # "idle" => c \in Conv
    BY <1>1 DEF Own, TurnOK
  <2>2. c \in Conv => /\ Len(msgs[c]) \in Nat /\ Len(msgs'[c]) \in Nat
                      /\ Len(msgs[c]) <= Len(msgs'[c])
                      /\ Mentioned(c) \subseteq Mentioned(c)'
    BY DEF GrowTables, Shape
  <2>3. prior[t] \in Nat /\ at[t] \in Nat
    BY DEF Shape
  <2>4. /\ pc[t] \in {"idle", "resolved"} => prior[t] = 0
        /\ pc[t] = "fetched" => prior[t] <= Len(msgs'[c])
        /\ pc[t] = "building" => at[t] <= Len(msgs'[c])
    BY <1>1, <2>1, <2>2, <2>3 DEF Own, TurnOK
  <2>5. pc[t] = "building" => \A i \in DOMAIN todo[t] : todo[t][i].id \in Mentioned(c)'
    BY <1>1, <2>1, <2>2 DEF Own, TurnOK
  <2> QED
    BY <1>1, <1>2, <2>1, <2>4, <2>5 DEF TurnOK, Stays
<1>4. TextOK(t)'
  BY <1>0, SameFiles DEF Own, TextOK, Stays
<1>5. Asked(t)'
  <2>1. CASE pc[t] = "raised"
    <3>1. PICK a \in Mentioned(c) : Excuse(a)
      BY <1>1, <2>1 DEF Own, Asked
    <3>2. c \in Conv
      BY <1>1, <2>1 DEF Own, TurnOK
    <3>3. a \in Mentioned(c)' /\ Excuse(a)'
      BY <3>1, <3>2, SameFiles DEF GrowTables
    <3> QED
      BY <1>2, <3>3 DEF Asked
  <2>2. CASE pc[t] # "raised"
    BY <2>2 DEF Asked, Stays
  <2> QED
    BY <2>1, <2>2
<1>6. Oldest(t)'
  BY <1>0, SameFiles DEF Own, Oldest
<1> QED
  BY <1>3, <1>4, <1>5, <1>6 DEF Own

\* It is enough to look at the turn that moves.
LEMMA OneTurn ==
  ASSUME ReplayInv, UNCHANGED fileVars, GrowTables,
         NEW t \in Turn, \A u \in Turn : u # t => Stays(u), Own(t)',
         Shape', RefInv', LinksMirrorReferences'
  PROVE  ReplayInv'
<1>1. \A u \in Turn : Own(u)
  BY OwnIs DEF ReplayInv
<1>2. ASSUME NEW u \in Turn PROVE Own(u)'
  BY <1>1, OtherTurn DEF ReplayInv
<1> QED
  BY <1>2, OwnIs DEF ReplayInv

\* A step that stores nothing.
LEMMA QuietTables ==
  ASSUME Shape, RefInv, LinksMirrorReferences, UNCHANGED fileVars, UNCHANGED storeVars
  PROVE  /\ LinksMirrorReferences' /\ GrowTables
         /\ \A c : Mentioned(c)' = Mentioned(c)
         /\ \A c \in Conv : Mentioned(c)' \subseteq Settled'
<1>1. msgs' = msgs /\ links' = links /\ stamp' = stamp
  BY DEF storeVars
<1>2. \A c : Mentioned(c)' = Mentioned(c)
  BY <1>1 DEF Mentioned
<1>3. GrowTables
  <2>1. \A c \in Conv : Len(msgs[c]) \in Nat
    BY DEF Shape
  <2> QED
    BY <1>1, <1>2, <2>1 DEF GrowTables
<1>4. LinksMirrorReferences'
  BY <1>1, SameFiles DEF LinksMirrorReferences
<1> QED
  BY <1>2, <1>3, <1>4, SameFiles DEF RefInv

LEMMA KnownAreSettled == IInv => Known \subseteq Settled
BY DEF IInv, RecordInv, FilesTypeOK, Known, Settled

LEMMA ResolveMove ==
  ASSUME IInv, ReplayInv, NEW t \in Turn, Resolve(t)
  PROVE  ReplayInv'
<1>1. PICK c \in Conv, ids \in IdList :
        /\ conv' = [conv EXCEPT ![t] = c]
        /\ \/ pc' = [pc EXCEPT ![t] = "refused"] /\ UNCHANGED records
           \/ /\ pc' = [pc EXCEPT ![t] = "resolved"]
              /\ records' = [records EXCEPT ![t] = GetMany(ids, OwnerOf[c])]
  BY DEF Resolve
<1>2. pc[t] = "idle" /\ UNCHANGED fileVars /\ UNCHANGED storeVars
      /\ UNCHANGED <<prior, at, todo, showing, left, turnsLeft, missed, prompt>>
  BY DEF Resolve, requestVars
<1>3. ids \in Seq(Upload) /\ \A i \in DOMAIN ids : ids[i] \in Settled
  <2>1. PICK n \in 0..(MaxFiles + 1) : ids \in [1..n -> Known]
    BY DEF IdList
  <2>2. n \in Nat /\ Known \subseteq Settled /\ Settled \subseteq Upload
    BY ReplayAssumption, KnownAreSettled DEF Settled
  <2>3. ids \in [1..n -> Upload] /\ \A i \in 1..n : ids[i] \in Settled
    BY <2>1, <2>2
  <2> QED
    BY <2>2, <2>3
<1>4. /\ GetMany(ids, OwnerOf[c]) \in Seq(Rec)
      /\ \A k \in DOMAIN GetMany(ids, OwnerOf[c]) : GetMany(ids, OwnerOf[c])[k].id \in Settled
  BY <1>3, FoundAreListed
<1>5. Settled' = Settled
  BY <1>2, SameFiles
<1>6. Shape'
  <2>1. conv' \in [Turn -> Conv \cup {None}] /\ pc' \in [Turn -> Stages] /\ records' \in [Turn -> Seq(Rec)]
    BY <1>1, <1>4 DEF ReplayInv, Shape, Stages
  <2>2. UNCHANGED <<msgs, links, stamp>>
    BY <1>2 DEF storeVars
  <2> QED
    BY <1>2, <2>1, <2>2 DEF ReplayInv, Shape
<1>7. LinksMirrorReferences' /\ GrowTables /\ \A d \in Conv : Mentioned(d)' \subseteq Settled'
  BY <1>2, QuietTables DEF ReplayInv
<1>8. RefInv'
  <2>1. \A u \in Turn : \A i \in DOMAIN records'[u] : records'[u][i].id \in Settled
    BY <1>1, <1>4 DEF ReplayInv, RefInv, Shape
  <2> QED
    BY <1>5, <1>7, <2>1 DEF RefInv
<1>9. \A u \in Turn : u # t => Stays(u)
  BY <1>1, <1>2 DEF ReplayInv, Shape, Stays
<1>10. Own(t)'
  <2>1. conv'[t] = c /\ pc'[t] \in {"refused", "resolved"} /\ prior'[t] = prior[t] /\ prompt'[t] = prompt[t]
    BY <1>1, <1>2 DEF ReplayInv, Shape
  <2>2. prior[t] = 0 /\ prompt[t] = {}
    BY <1>2 DEF ReplayInv, TurnInv, TurnOK, TextInv, TextOK
  <2>3. Texts(t)' = {}
    BY <2>1, <2>2 DEF Texts
  <2> QED
    BY <2>1, <2>2, <2>3 DEF Own, TurnOK, TextOK, Asked, Oldest
<1> QED
  BY <1>2, <1>6, <1>7, <1>8, <1>9, <1>10, OneTurn

LEMMA FetchPriorMove ==
  ASSUME IInv, ReplayInv, NEW t \in Turn, FetchPrior(t)
  PROVE  ReplayInv'
<1>1. /\ pc[t] = "resolved" /\ UNCHANGED fileVars /\ UNCHANGED storeVars
      /\ pc' = [pc EXCEPT ![t] = "fetched"]
      /\ prior' = [prior EXCEPT ![t] = Len(msgs[conv[t]])]
      /\ UNCHANGED <<conv, records, at, todo, showing, left, turnsLeft, missed, prompt>>
  BY DEF FetchPrior
<1>2. conv[t] \in Conv /\ prompt[t] = {}
  BY <1>1 DEF ReplayInv, TurnInv, TurnOK, TextInv, TextOK
<1>3. Len(msgs[conv[t]]) \in Nat
  BY <1>2 DEF ReplayInv, Shape
<1>4. Shape'
  <2>1. prior' \in [Turn -> Nat] /\ pc' \in [Turn -> Stages]
    BY <1>1, <1>3 DEF ReplayInv, Shape, Stages
  <2>2. UNCHANGED <<msgs, links, stamp>>
    BY <1>1 DEF storeVars
  <2> QED
    BY <1>1, <2>1, <2>2 DEF ReplayInv, Shape
<1>5. LinksMirrorReferences' /\ GrowTables /\ \A d \in Conv : Mentioned(d)' \subseteq Settled'
  BY <1>1, QuietTables DEF ReplayInv
<1>6. RefInv'
  BY <1>1, <1>5, SameFiles DEF ReplayInv, RefInv
<1>7. \A u \in Turn : u # t => Stays(u)
  BY <1>1 DEF ReplayInv, Shape, Stays
<1>8. Own(t)'
  <2>1. /\ conv'[t] = conv[t] /\ pc'[t] = "fetched" /\ prior'[t] = Len(msgs[conv[t]])
        /\ prompt'[t] = {} /\ msgs' = msgs
    BY <1>1, <1>2 DEF ReplayInv, Shape, storeVars
  <2>2. Texts(t)' = {}
    BY <2>1 DEF Texts
  <2>3. prior'[t] <= Len(msgs'[conv'[t]])
    BY <1>3, <2>1
  <2> QED
    BY <1>2, <2>1, <2>2, <2>3 DEF Own, TurnOK, TextOK, Asked, Oldest
<1> QED
  BY <1>1, <1>4, <1>5, <1>6, <1>7, <1>8, OneTurn

LEMMA AskMove ==
  ASSUME IInv, ReplayInv, NEW t \in Turn, Ask(t)
  PROVE  ReplayInv'
<1>1. /\ pc[t] = "building" /\ pc' = [pc EXCEPT ![t] = "asked"]
      /\ UNCHANGED fileVars /\ UNCHANGED storeVars /\ UNCHANGED <<conv, records>>
      /\ UNCHANGED <<prior, at, todo, showing, left, turnsLeft, missed, prompt>>
  BY DEF Ask, requestVars
<1>2. Shape'
  <2>1. pc' \in [Turn -> Stages]
    BY <1>1 DEF ReplayInv, Shape, Stages
  <2>2. UNCHANGED <<msgs, links, stamp>>
    BY <1>1 DEF storeVars
  <2> QED
    BY <1>1, <2>1, <2>2 DEF ReplayInv, Shape
<1>3. LinksMirrorReferences' /\ GrowTables /\ \A d \in Conv : Mentioned(d)' \subseteq Settled'
  BY <1>1, QuietTables DEF ReplayInv
<1>4. RefInv'
  BY <1>1, <1>3, SameFiles DEF ReplayInv, RefInv
<1>5. \A u \in Turn : u # t => Stays(u)
  BY <1>1 DEF ReplayInv, Shape, Stays
<1>6. Own(t)'
  <2>1. /\ pc'[t] = "asked" /\ conv[t] \in Conv
        /\ UNCHANGED <<conv, at, left, prompt>>
    BY <1>1 DEF ReplayInv, Shape, TurnInv, TurnOK
  <2>2. Texts(t)' = Texts(t)
    BY <2>1 DEF Texts
  <2>3. TextOK(t) /\ Oldest(t)
    BY OwnIs DEF ReplayInv, Own
  <2>4. TextOK(t)' /\ Oldest(t)'
    BY <1>1, <2>1, <2>2, <2>3, SameFiles DEF TextOK, Oldest
  <2> QED
    BY <2>1, <2>4 DEF Own, TurnOK, Asked
<1> QED
  BY <1>1, <1>2, <1>3, <1>4, <1>5, <1>6, OneTurn

\* The next file of a message that a turn is at.
LEMMA NextFile ==
  ASSUME IInv, ReplayInv, NEW t \in Turn, pc[t] = "building", todo[t] # <<>>
  PROVE  /\ conv[t] \in Conv
         /\ Head(todo[t]).id \in Mentioned(conv[t]) /\ Head(todo[t]).id \in Settled
         /\ data[Head(todo[t]).id] \in Content
         /\ todo[t] \in Seq(Rec) /\ 1 \in DOMAIN todo[t]
<1>1. conv[t] \in Conv /\ \A i \in DOMAIN todo[t] : todo[t][i].id \in Mentioned(conv[t])
  BY DEF ReplayInv, TurnInv, TurnOK
<1>2. todo[t] \in Seq(Rec) /\ 1 \in DOMAIN todo[t] /\ Head(todo[t]) = todo[t][1]
  BY DEF ReplayInv, Shape
<1>3. Head(todo[t]).id \in Mentioned(conv[t])
  BY <1>1, <1>2
<1>4. Head(todo[t]).id \in Settled
  BY <1>1, <1>3 DEF ReplayInv, RefInv
<1>5. data[Head(todo[t]).id] \in Content
  <2> DEFINE a == Head(todo[t]).id
  <2>1. a \in Upload /\ status[a] # "absent"
    BY <1>4 DEF Settled
  <2> HIDE DEF a
  <2>2. up[a] # "idle"
    BY <2>1 DEF IInv, RecordInv
  <2>3. data[a] \in Content
    BY <2>1, <2>2 DEF IInv, ContentInv
  <2> QED
    BY <2>3 DEF a
<1> QED
  BY <1>1, <1>2, <1>3, <1>4, <1>5

\* Budget.take: not more than is left; all that the cap of one document
\* allows, or all that is left.
LEMMA TakenIsBounded ==
  ASSUME NEW r \in 0..Total, NEW a, LengthOf[data[a]] \in Nat
  PROVE  LET n == Taken(r, LengthOf[data[a]]) IN
         n \in 0..r /\ (n = Full(a) \/ n = r)
<1>1. PerDoc \in Nat /\ r \in Nat /\ LengthOf[data[a]] \in Nat
  BY ReplayAssumption
<1> QED
  BY <1>1 DEF Taken, Full

\* An element is added to the request.
LEMMA EmitMove ==
  ASSUME IInv, ReplayInv, NEW t \in Turn, pc[t] = "building", todo[t] # <<>>,
         NEW form \in {"text", "unreadable", "image", "placeholder"},
         NEW chars \in 0..left[t], Emit(t, form, chars),
         form = "text" => chars = Full(Head(todo[t]).id) \/ chars = left[t]
  PROVE  ReplayInv'
<1> DEFINE new == [msg |-> at[t], id |-> Head(todo[t]).id, form |-> form, chars |-> chars]
<1>1. /\ prompt' = [prompt EXCEPT ![t] = @ \cup {new}]
      /\ left' = [left EXCEPT ![t] = @ - chars]
      /\ todo' = [todo EXCEPT ![t] = Tail(@)]
      /\ UNCHANGED fileVars /\ UNCHANGED storeVars
      /\ UNCHANGED <<conv, pc, records, prior, at, showing, turnsLeft, missed>>
  BY DEF Emit
<1>2. /\ conv[t] \in Conv /\ Head(todo[t]).id \in Settled
      /\ todo[t] \in Seq(Rec)
  BY NextFile
<1>3. at[t] \in Nat /\ left[t] \in 0..Total /\ Total \in Nat
  BY ReplayAssumption DEF ReplayInv, Shape
<1>4. new \in Elements
  <2>1. Head(todo[t]).id \in Upload /\ chars \in 0..Total
    BY <1>2, <1>3 DEF Settled
  <2> QED
    BY <1>3, <2>1 DEF Elements
<1>5. left[t] - chars \in 0..Total /\ (chars = left[t] => left[t] - chars = 0)
      /\ (left[t] = 0 => left[t] - chars = 0)
  BY <1>3
<1>6. new.msg = at[t] /\ new.id = Head(todo[t]).id /\ new.form = form /\ new.chars = chars
  OBVIOUS
<1> HIDE DEF new
<1>7. /\ prompt'[t] = prompt[t] \cup {new} /\ left'[t] = left[t] - chars /\ todo'[t] = Tail(todo[t])
      /\ conv'[t] = conv[t] /\ pc'[t] = "building" /\ at'[t] = at[t] /\ prior'[t] = prior[t]
      /\ msgs' = msgs
  BY <1>1 DEF ReplayInv, Shape, storeVars
<1>8. Shape'
  <2>1. Tail(todo[t]) \in Seq(Rec)
    BY <1>2
  <2>2. todo' \in [Turn -> Seq(Rec)] /\ left' \in [Turn -> 0..Total]
    BY <1>1, <1>5, <2>1 DEF ReplayInv, Shape
  <2>3. prompt' \in [Turn -> SUBSET Elements]
    BY <1>1, <1>4 DEF ReplayInv, Shape
  <2>4. UNCHANGED <<msgs, links, stamp>>
    BY <1>1 DEF storeVars
  <2> QED
    BY <1>1, <2>2, <2>3, <2>4 DEF ReplayInv, Shape
<1>9. LinksMirrorReferences' /\ GrowTables /\ \A d \in Conv : Mentioned(d)' \subseteq Settled'
  BY <1>1, QuietTables DEF ReplayInv
<1>10. RefInv'
  BY <1>1, <1>9, SameFiles DEF ReplayInv, RefInv
<1>11. \A u \in Turn : u # t => Stays(u)
  BY <1>1 DEF ReplayInv, Shape, Stays
<1>12. TurnOK(t) /\ TextOK(t) /\ Oldest(t)
  BY OwnIs DEF ReplayInv, Own
<1>13. TurnOK(t)'
  <2>1. \A i \in DOMAIN Tail(todo[t]) : i + 1 \in DOMAIN todo[t] /\ Tail(todo[t])[i] = todo[t][i + 1]
    BY <1>2
  <2>2. \A i \in DOMAIN Tail(todo[t]) : Tail(todo[t])[i].id \in Mentioned(conv[t])
    BY <1>12, <2>1 DEF TurnOK
  <2>3. Mentioned(conv[t])' = Mentioned(conv[t])
    BY <1>1, <1>7 DEF Mentioned
  <2>4. at[t] <= Len(msgs[conv[t]])
    BY <1>12 DEF TurnOK
  <2> QED
    BY <1>2, <1>7, <2>2, <2>3, <2>4 DEF TurnOK
<1>14. \A e \in Texts(t)' : e \in Texts(t) \/ (e = new /\ form = "text")
  BY <1>6, <1>7 DEF Texts
<1>15. \A e \in Texts(t) : e \in prompt[t] /\ e.msg \in Nat
  BY DEF Texts, ReplayInv, Shape, Elements
<1>16. TextOK(t)'
  <2>1. \A e \in prompt'[t] : e.msg >= at'[t] /\ e.id \in Settled'
    BY <1>1, <1>2, <1>3, <1>6, <1>7, <1>12, SameFiles DEF TextOK
  <2>2. \A e \in Texts(t)' : e.chars = Full(e.id) \/ left'[t] = 0
    BY <1>5, <1>6, <1>7, <1>12, <1>14 DEF TextOK
  <2>3. \A a : Full(a)' = Full(a)
    BY <1>1, SameFiles
  <2> QED
    BY <1>7, <2>1, <2>2, <2>3 DEF TextOK
<1>17. Oldest(t)'
  <2> SUFFICES ASSUME NEW old \in Texts(t)', NEW younger \in Texts(t)',
                      old.msg < younger.msg, old.chars > 0
               PROVE  younger.chars = Full(younger.id)
    BY <1>1, SameFiles DEF Oldest
  <2>1. CASE old \in Texts(t) /\ younger \in Texts(t)
    BY <1>12, <2>1 DEF Oldest
  <2>2. CASE old = new /\ younger \in Texts(t)
    <3>1. left[t] # 0
      BY <1>3, <1>6, <2>2
    <3> QED
      BY <1>12, <2>2, <3>1 DEF TextOK
  <2>3. CASE younger = new
    <3>1. CASE old = new
      BY <1>3, <1>6, <2>3, <3>1
    <3>2. CASE old \in Texts(t)
      <4>1. old.msg \in Nat /\ old.msg >= at[t]
        BY <1>12, <1>15, <3>2 DEF TextOK
      <4> QED
        BY <1>3, <1>6, <2>3, <4>1
    <3> QED
      BY <1>14, <3>1, <3>2
  <2> QED
    BY <1>14, <2>1, <2>2, <2>3
<1>18. Asked(t)'
  BY <1>7 DEF Asked
<1> QED
  BY <1>1, <1>8, <1>9, <1>10, <1>11, <1>13, <1>16, <1>17, <1>18, OneTurn DEF Own

LEMMA BlockMove ==
  ASSUME IInv, ReplayInv, NEW t \in Turn,
         \/ DocumentBlock(t) \/ ImagePlaceholder(t)
         \/ LoadImage(t) /\ blob[data[Head(todo[t]).id]] # None
  PROVE  ReplayInv'
<1>1. pc[t] = "building" /\ todo[t] # <<>>
  BY DEF DocumentBlock, ImagePlaceholder, LoadImage, NextIs
<1>2. left[t] \in 0..Total /\ 0 \in 0..left[t]
  <2>1. left[t] \in 0..Total /\ Total \in Nat
    BY ReplayAssumption DEF ReplayInv, Shape
  <2> QED
    BY <2>1
<1>3. \/ Emit(t, "text", Taken(left[t], LengthOf[data[Head(todo[t]).id]]))
      \/ \E form \in {"unreadable", "placeholder", "image"} : Emit(t, form, 0)
  BY DEF DocumentBlock, ImagePlaceholder, LoadImage
<1>4. CASE \E form \in {"unreadable", "placeholder", "image"} : Emit(t, form, 0)
  BY <1>1, <1>2, <1>4, EmitMove
<1>5. CASE Emit(t, "text", Taken(left[t], LengthOf[data[Head(todo[t]).id]]))
  <2> DEFINE n == Taken(left[t], LengthOf[data[Head(todo[t]).id]])
  <2>1. LengthOf[data[Head(todo[t]).id]] \in Nat
    BY <1>1, NextFile, ReplayAssumption
  <2>2. n \in 0..left[t] /\ (n = Full(Head(todo[t]).id) \/ n = left[t])
    BY <1>2, <2>1, TakenIsBounded
  <2> HIDE DEF n
  <2>3. Emit(t, "text", n)
    BY <1>5 DEF n
  <2> QED
    BY <1>1, <2>2, <2>3, EmitMove
<1> QED
  BY <1>3, <1>4, <1>5

\* load_bytes raises: the file was deleted, or uploaded beside a delete.
LEMMA RaiseMove ==
  ASSUME IInv, ReplayInv, NEW t \in Turn, LoadImage(t), blob[data[Head(todo[t]).id]] = None
  PROVE  ReplayInv'
<1>0. pc[t] = "building" /\ todo[t] # <<>>
  BY DEF LoadImage, NextIs
<1>1. PICK a : a = Head(todo[t]).id
  OBVIOUS
<1>2. conv[t] \in Conv /\ a \in Mentioned(conv[t]) /\ a \in Settled /\ data[a] \in Content
  BY <1>0, <1>1, NextFile
<1>3. Excuse(a)
  <2>1. a \in Upload /\ status[a] \in {"ready", "failed", "deleted"}
    BY <1>2 DEF Settled
  <2>2. a \in Kept => a \in overlapped
    BY <1>1, <2>1 DEF IInv, BytesInv
  <2> QED
    BY <2>1, <2>2 DEF Excuse, Kept
<1>4. CASE Emit(t, "image", 0) /\ blob[data[a]] # None
  BY <1>1, <1>4
<1>5. CASE /\ pc' = [pc EXCEPT ![t] = "raised"]
           /\ UNCHANGED <<fileVars, conv, records, storeVars, requestVars>>
  <2>1. /\ UNCHANGED fileVars /\ UNCHANGED storeVars /\ UNCHANGED <<conv, records>>
        /\ UNCHANGED <<prior, at, todo, showing, left, turnsLeft, missed, prompt>>
    BY <1>5 DEF requestVars
  <2>2. Shape'
    <3>1. pc' \in [Turn -> Stages]
      BY <1>5 DEF ReplayInv, Shape, Stages
    <3>2. UNCHANGED <<msgs, links, stamp>>
      BY <2>1 DEF storeVars
    <3> QED
      BY <2>1, <3>1, <3>2 DEF ReplayInv, Shape
  <2>3. LinksMirrorReferences' /\ GrowTables /\ \A d \in Conv : Mentioned(d)' \subseteq Settled'
    BY <2>1, QuietTables DEF ReplayInv
  <2>4. RefInv'
    BY <2>1, <2>3, SameFiles DEF ReplayInv, RefInv
  <2>5. \A u \in Turn : u # t => Stays(u)
    BY <1>5, <2>1 DEF ReplayInv, Shape, Stays
  <2>6. Own(t)'
    <3>1. pc'[t] = "raised" /\ UNCHANGED <<conv, at, left, prompt, msgs>>
      BY <1>5, <2>1 DEF ReplayInv, Shape, storeVars
    <3>2. Texts(t)' = Texts(t) /\ Mentioned(conv[t])' = Mentioned(conv[t])
      BY <3>1 DEF Texts, Mentioned
    <3>3. TextOK(t) /\ Oldest(t)
      BY OwnIs DEF ReplayInv, Own
    <3>4. TextOK(t)' /\ Oldest(t)'
      BY <2>1, <3>1, <3>2, <3>3, SameFiles DEF TextOK, Oldest
    <3>5. Asked(t)'
      BY <1>2, <1>3, <2>1, <3>2, SameFiles DEF Asked
    <3> QED
      BY <1>2, <3>1, <3>4, <3>5 DEF Own, TurnOK
  <2> QED
    BY <2>1, <2>2, <2>3, <2>4, <2>5, <2>6, OneTurn
<1> QED
  BY <1>1, <1>4, <1>5 DEF LoadImage

\* The turn goes on to an older message, whether its records were found or not.
LEMMA GoesOn ==
  ASSUME ReplayInv, NEW t \in Turn, Hydrate(t) \/ HydrateFails(t)
  PROVE  /\ pc[t] = "building" /\ todo[t] = <<>> /\ at[t] > 1
         /\ at' = [at EXCEPT ![t] = @ - 1]
         /\ UNCHANGED fileVars /\ UNCHANGED storeVars
         /\ UNCHANGED <<conv, pc, records, prior, left, prompt>>
         /\ \/ todo' = [todo EXCEPT ![t] = GetMany(msgs[conv[t]][at[t] - 1], UserOf(t))]
            \/ todo' = [todo EXCEPT ![t] = <<>>]
         /\ showing' \in [Turn -> BOOLEAN] /\ turnsLeft' \in [Turn -> 0..ImageTurns]
         /\ missed' \in [Turn -> Nat]
         /\ \A u \in Turn : u # t => /\ showing'[u] = showing[u] /\ turnsLeft'[u] = turnsLeft[u]
                                     /\ missed'[u] = missed[u]
<1>1. GoOn(t)
  BY DEF Hydrate, HydrateFails
<1>2. /\ showing \in [Turn -> BOOLEAN] /\ turnsLeft \in [Turn -> 0..ImageTurns]
      /\ missed \in [Turn -> Nat] /\ ImageTurns \in Nat /\ at[t] \in Nat
  BY ReplayAssumption DEF ReplayInv, Shape
<1>3. CASE Hydrate(t)
  <2>1. PICK send \in BOOLEAN :
          /\ send => turnsLeft[t] > 0
          /\ showing' = [showing EXCEPT ![t] = send]
          /\ turnsLeft' = [turnsLeft EXCEPT ![t] = IF send THEN @ - 1 ELSE @]
    BY <1>3 DEF Hydrate
  <2>2. turnsLeft[t] \in 0..ImageTurns
    BY <1>2
  <2>3. (IF send THEN turnsLeft[t] - 1 ELSE turnsLeft[t]) \in 0..ImageTurns
    BY <1>2, <2>1, <2>2
  <2>4. /\ todo' = [todo EXCEPT ![t] = GetMany(msgs[conv[t]][at[t] - 1], UserOf(t))]
        /\ missed' = missed
    BY <1>3 DEF Hydrate
  <2> QED
    BY <1>1, <1>2, <2>1, <2>3, <2>4 DEF GoOn
<1>4. CASE HydrateFails(t)
  <2>1. /\ missed' = [missed EXCEPT ![t] = IF @ < at[t] - 1 THEN at[t] - 1 ELSE @]
        /\ UNCHANGED <<todo, showing, turnsLeft>>
    BY <1>4 DEF HydrateFails
  <2>2. (IF missed[t] < at[t] - 1 THEN at[t] - 1 ELSE missed[t]) \in Nat
    BY <1>1, <1>2 DEF GoOn
  <2>3. todo' = [todo EXCEPT ![t] = <<>>]
    BY <1>1, <2>1 DEF GoOn, ReplayInv, Shape
  <2> QED
    BY <1>1, <1>2, <2>1, <2>2, <2>3 DEF GoOn
<1> QED
  BY <1>3, <1>4

LEMMA HydrateMove ==
  ASSUME IInv, ReplayInv, NEW t \in Turn, Hydrate(t) \/ HydrateFails(t)
  PROVE  ReplayInv'
<1>0. PICK found : /\ \/ found = GetMany(msgs[conv[t]][at[t] - 1], UserOf(t))
                      \/ found = <<>>
                   /\ todo' = [todo EXCEPT ![t] = found]
  BY GoesOn
<1>1. /\ pc[t] = "building" /\ todo[t] = <<>> /\ at[t] > 1
      /\ at' = [at EXCEPT ![t] = @ - 1]
      /\ todo' = [todo EXCEPT ![t] = found]
      /\ UNCHANGED fileVars /\ UNCHANGED storeVars
      /\ UNCHANGED <<conv, pc, records, prior, left, prompt>>
  BY <1>0, GoesOn
<1>2. conv[t] \in Conv /\ at[t] \in Nat /\ at[t] <= Len(msgs[conv[t]])
  BY <1>1 DEF ReplayInv, Shape, TurnInv, TurnOK
<1>3. msgs[conv[t]] \in Seq(Seq(Upload)) /\ Len(msgs[conv[t]]) \in Nat
  BY <1>2 DEF ReplayInv, Shape
<1>4. PICK i \in DOMAIN msgs[conv[t]] : i = at[t] - 1 /\ i \in Nat /\ i <= at[t]
  <2>1. DOMAIN msgs[conv[t]] = 1 .. Len(msgs[conv[t]])
    BY <1>3
  <2>2. PICK m : m = Len(msgs[conv[t]])
    OBVIOUS
  <2>3. PICK k : k = at[t]
    OBVIOUS
  <2>4. k \in Nat /\ m \in Nat /\ k > 1 /\ k <= m
    BY <1>1, <1>2, <1>3, <2>2, <2>3
  <2>5. k - 1 \in 1 .. m /\ k - 1 \in Nat /\ k - 1 <= k
    BY <2>4
  <2> QED
    BY <2>1, <2>2, <2>3, <2>5
<1>5. msgs[conv[t]][i] \in Seq(Upload)
  BY <1>3, <1>4
<1>6. found = GetMany(msgs[conv[t]][i], UserOf(t)) \/ found = <<>>
  BY <1>0, <1>4
<1>7. /\ found \in Seq(Rec)
      /\ \A k \in DOMAIN found : \E j \in DOMAIN msgs[conv[t]][i] : found[k].id = msgs[conv[t]][i][j]
  <2>1. CASE found = GetMany(msgs[conv[t]][i], UserOf(t))
    BY <1>5, <2>1, FoundAreListed
  <2>2. CASE found = <<>>
    BY <2>2
  <2> QED
    BY <1>6, <2>1, <2>2
<1>8. \A k \in DOMAIN found : found[k].id \in Mentioned(conv[t])
  BY <1>4, <1>7, MentionedIs
<1>9. /\ conv'[t] = conv[t] /\ pc'[t] = "building" /\ at'[t] = i /\ prior'[t] = prior[t]
      /\ todo'[t] = found /\ left'[t] = left[t] /\ prompt'[t] = prompt[t] /\ msgs' = msgs
  BY <1>1, <1>4 DEF ReplayInv, Shape, storeVars
<1>10. Shape'
  <2>1. at' \in [Turn -> Nat] /\ todo' \in [Turn -> Seq(Rec)]
    BY <1>1, <1>4, <1>7 DEF ReplayInv, Shape
  <2>2. /\ showing' \in [Turn -> BOOLEAN] /\ turnsLeft' \in [Turn -> 0..ImageTurns]
        /\ missed' \in [Turn -> Nat]
    BY GoesOn
  <2>3. UNCHANGED <<msgs, links, stamp>>
    BY <1>1 DEF storeVars
  <2> QED
    BY <1>1, <2>1, <2>2, <2>3 DEF ReplayInv, Shape
<1>11. LinksMirrorReferences' /\ GrowTables /\ \A d \in Conv : Mentioned(d)' \subseteq Settled'
  BY <1>1, QuietTables DEF ReplayInv
<1>12. RefInv'
  BY <1>1, <1>11, SameFiles DEF ReplayInv, RefInv
<1>13. \A u \in Turn : u # t => Stays(u)
  BY <1>1 DEF ReplayInv, Shape, Stays
<1>14. TextOK(t) /\ Oldest(t)
  BY OwnIs DEF ReplayInv, Own
<1>15. Texts(t)' = Texts(t) /\ Mentioned(conv[t])' = Mentioned(conv[t])
  BY <1>1, <1>9 DEF Texts, Mentioned
<1>16. TextOK(t)'
  <2>1. \A e \in prompt[t] : e.msg \in Nat /\ e.msg >= at[t]
    BY <1>14 DEF ReplayInv, Shape, Elements, TextOK
  <2>2. \A e \in prompt[t] : e.msg >= i
    BY <1>2, <1>4, <2>1
  <2> QED
    BY <1>1, <1>9, <1>14, <1>15, <2>2, SameFiles DEF TextOK
<1>17. TurnOK(t)'
  <2>1. i <= Len(msgs[conv[t]])
    BY <1>2, <1>3, <1>4
  <2> QED
    BY <1>2, <1>8, <1>9, <1>15, <2>1 DEF TurnOK
<1>18. Oldest(t)' /\ Asked(t)'
  BY <1>1, <1>9, <1>14, <1>15, SameFiles DEF Oldest, Asked
<1> QED
  BY <1>1, <1>10, <1>11, <1>12, <1>13, <1>16, <1>17, <1>18, OneTurn DEF Own

\* create_conversation and append_messages: the message and its links.
LEMMA PersistMove ==
  ASSUME IInv, ReplayInv, NEW t \in Turn, Persist(t)
  PROVE  ReplayInv'
<1> DEFINE ids == [i \in DOMAIN records[t] |-> records[t][i].id]
           known == Range(ids) \cap Kept
<1>1. PICK c : c = conv[t]
  OBVIOUS
<1>2. /\ pc[t] = "fetched" \/ (pc[t] = "resolved" /\ msgs[c] = <<>>)
      /\ msgs' = [msgs EXCEPT ![c] = Append(@, ids)]
      /\ links' = [links EXCEPT ![c] = Append(@, known)]
      /\ stamp' = [a \in Upload |-> IF a \in known /\ stamp[a] = None THEN c ELSE stamp[a]]
      /\ at' = [at EXCEPT ![t] = prior[t] + 1]
      /\ todo' = [todo EXCEPT ![t] = records[t]]
      /\ showing' = [showing EXCEPT ![t] = Vision]
      /\ pc' = [pc EXCEPT ![t] = "building"]
      /\ UNCHANGED fileVars /\ UNCHANGED <<conv, records, prior, left, turnsLeft, missed, prompt>>
  BY <1>1 DEF Persist
<1>3. /\ c \in Conv /\ prompt[t] = {} /\ prior[t] \in Nat
      /\ prior[t] = 0 \/ prior[t] <= Len(msgs[c])
  BY <1>1, <1>2 DEF ReplayInv, Shape, TurnInv, TurnOK, TextInv, TextOK
<1>4. records[t] \in Seq(Rec) /\ \A i \in DOMAIN records[t] : records[t][i].id \in Settled
  BY DEF ReplayInv, Shape, RefInv
<1>5. /\ ids \in Seq(Upload) /\ \A a \in Range(ids) : a \in Settled
      /\ \A i \in DOMAIN records[t] : records[t][i].id \in Range(ids)
  <2>1. DOMAIN records[t] = 1 .. Len(records[t]) /\ Len(records[t]) \in Nat
        /\ \A i \in DOMAIN records[t] : records[t][i].id \in Upload
    <3>1. DOMAIN records[t] = 1 .. Len(records[t]) /\ Len(records[t]) \in Nat
          /\ \A i \in DOMAIN records[t] : records[t][i] \in Rec
      BY <1>4
    <3>2. ASSUME NEW r \in Rec PROVE r.id \in Upload
      BY DEF Rec
    <3> QED
      BY <3>1, <3>2
  <2>2. PICK n \in Nat : n = Len(records[t])
    BY <2>1
  <2>3. PICK D : D = DOMAIN records[t]
    OBVIOUS
  <2>4. ids \in [1 .. n -> Upload]
    BY <2>1, <2>2
  <2>5. ids \in Seq(Upload)
    BY <2>4
  <2>6. DOMAIN ids = D /\ \A i \in D : ids[i] = records[t][i].id
    BY <2>3
  <2> HIDE DEF ids
  <2>7. \A i \in D : records[t][i].id \in Settled
    BY <1>4, <2>3
  <2>8. \A a \in Range(ids) : \E i \in D : a = ids[i]
    BY <2>6 DEF Range
  <2>9. \A i \in D : ids[i] \in Range(ids)
    BY <2>6 DEF Range
  <2> QED
    BY <2>3, <2>5, <2>6, <2>7, <2>8, <2>9
<1>6. known \in SUBSET Upload /\ known = Range(ids) \cap Kept
  <2>1. Kept \in SUBSET Upload
    BY DEF Kept
  <2> QED
    BY <2>1
<1> HIDE DEF ids, known
<1>7. /\ msgs[c] \in Seq(Seq(Upload)) /\ links[c] \in Seq(SUBSET Upload)
      /\ DOMAIN links[c] = DOMAIN msgs[c]
  BY <1>3 DEF ReplayInv, Shape, LinksMirrorReferences
<1>8. /\ Len(msgs[c]) \in Nat /\ Len(links[c]) = Len(msgs[c])
      /\ DOMAIN msgs[c] = 1 .. Len(msgs[c])
  BY <1>7
<1>9. /\ msgs'[c] \in Seq(Seq(Upload)) /\ links'[c] \in Seq(SUBSET Upload)
      /\ Len(msgs'[c]) = Len(msgs[c]) + 1
      /\ DOMAIN msgs'[c] = 1 .. Len(msgs[c]) + 1 /\ DOMAIN links'[c] = DOMAIN msgs'[c]
      /\ msgs'[c][Len(msgs[c]) + 1] = ids /\ links'[c][Len(msgs[c]) + 1] = known
      /\ \A i \in DOMAIN msgs[c] : msgs'[c][i] = msgs[c][i] /\ links'[c][i] = links[c][i]
  <2>1. msgs'[c] = Append(msgs[c], ids) /\ links'[c] = Append(links[c], known)
    BY <1>2, <1>3 DEF ReplayInv, Shape
  <2> QED
    BY <1>5, <1>6, <1>7, <1>8, <2>1
<1>10. \A d \in Conv : d # c => msgs'[d] = msgs[d] /\ links'[d] = links[d]
  BY <1>2 DEF ReplayInv, Shape
<1>11. Mentioned(c)' = Mentioned(c) \cup Range(ids)
  <2>1. \A i \in DOMAIN msgs'[c] : i \in DOMAIN msgs[c] \/ i = Len(msgs[c]) + 1
    BY <1>8, <1>9
  <2>2. \A i \in DOMAIN msgs[c] : i \in DOMAIN msgs'[c]
    BY <1>8, <1>9
  <2>3. Len(msgs[c]) + 1 \in DOMAIN msgs'[c]
    BY <1>8, <1>9
  <2>4. \A a : a \in Mentioned(c)' <=> \E i \in DOMAIN msgs'[c] : a \in Range(msgs'[c][i])
    BY DEF Mentioned
  <2>5. \A a : a \in Mentioned(c) <=> \E i \in DOMAIN msgs[c] : a \in Range(msgs[c][i])
    BY DEF Mentioned
  <2>6. \A a : a \in Mentioned(c)' <=> a \in Mentioned(c) \/ a \in Range(ids)
    BY <1>9, <2>1, <2>2, <2>3, <2>4, <2>5
  <2> QED
    BY <2>6
<1>12. \A d \in Conv : d # c => Mentioned(d)' = Mentioned(d)
  BY <1>10 DEF Mentioned
<1>13. GrowTables
  <2>1. \A d \in Conv : Len(msgs[d]) \in Nat
    BY DEF ReplayInv, Shape
  <2>2. ASSUME NEW d \in Conv
        PROVE  /\ Len(msgs'[d]) \in Nat /\ Len(msgs[d]) <= Len(msgs'[d])
               /\ Mentioned(d) \subseteq Mentioned(d)'
    <3>1. CASE d = c
      BY <1>8, <1>9, <1>11, <3>1
    <3>2. CASE d # c
      BY <1>10, <1>12, <2>1, <3>2
    <3> QED
      BY <3>1, <3>2
  <2> QED
    BY <2>2 DEF GrowTables
<1>14. Shape'
  <2>1. msgs' \in [Conv -> Seq(Seq(Upload))] /\ links' \in [Conv -> Seq(SUBSET Upload)]
    <3>1. ASSUME NEW S, NEW f \in [Conv -> S], NEW v \in S PROVE [f EXCEPT ![c] = v] \in [Conv -> S]
      OBVIOUS
    <3>2. msgs \in [Conv -> Seq(Seq(Upload))] /\ links \in [Conv -> Seq(SUBSET Upload)]
      BY DEF ReplayInv, Shape
    <3>3. /\ msgs' = [msgs EXCEPT ![c] = Append(msgs[c], ids)]
          /\ links' = [links EXCEPT ![c] = Append(links[c], known)]
      BY <1>2
    <3>4. Append(msgs[c], ids) \in Seq(Seq(Upload)) /\ Append(links[c], known) \in Seq(SUBSET Upload)
      BY <1>5, <1>6, <1>7
    <3> QED
      BY <3>1, <3>2, <3>3, <3>4
  <2>2. stamp' \in [Upload -> Conv \cup {None}]
    BY <1>2, <1>3 DEF ReplayInv, Shape
  <2>3. at' \in [Turn -> Nat] /\ todo' \in [Turn -> Seq(Rec)] /\ pc' \in [Turn -> Stages]
    <3>1. prior[t] + 1 \in Nat
      BY <1>3
    <3>2. at' \in [Turn -> Nat]
      BY <1>2, <3>1 DEF ReplayInv, Shape
    <3>3. todo' \in [Turn -> Seq(Rec)]
      BY <1>2, <1>4 DEF ReplayInv, Shape
    <3>4. pc' \in [Turn -> Stages]
      BY <1>2 DEF ReplayInv, Shape, Stages
    <3> QED
      BY <3>2, <3>3, <3>4
  <2>4. showing' \in [Turn -> BOOLEAN]
    BY <1>2, AttachmentsAssumption DEF ReplayInv, Shape
  <2> QED
    BY <1>2, <2>1, <2>2, <2>3, <2>4 DEF ReplayInv, Shape
<1>15. RefInv'
  <2>1. \A d \in Conv : Mentioned(d)' \subseteq Settled
    BY <1>5, <1>11, <1>12 DEF ReplayInv, RefInv
  <2> QED
    BY <1>2, <2>1, SameFiles DEF ReplayInv, RefInv
<1>16. LinksMirrorReferences'
  <2>1. \A a \in Upload : (stamp[a] # None => stamp'[a] # None) /\ (a \in known => stamp'[a] # None)
    BY <1>2, <1>3, ReplayAssumption
  <2>2. \A d \in Conv : \A i \in DOMAIN links[d] : links[d][i] \subseteq Upload
    BY DEF ReplayInv, Shape
  <2>3. Kept' = Kept
    BY <1>2, SameFiles
  <2>4. ASSUME NEW d \in Conv
        PROVE  /\ DOMAIN links'[d] = DOMAIN msgs'[d]
               /\ \A i \in DOMAIN msgs'[d] :
                    /\ links'[d][i] = Range(msgs'[d][i]) \cap Kept
                    /\ \A a \in links'[d][i] : stamp'[a] # None
    <3>1. /\ DOMAIN links[d] = DOMAIN msgs[d]
          /\ \A i \in DOMAIN msgs[d] :
               /\ links[d][i] = Range(msgs[d][i]) \cap Kept
               /\ \A a \in links[d][i] : stamp'[a] # None
      BY <2>1, <2>2 DEF ReplayInv, LinksMirrorReferences
    <3>2. CASE d # c
      BY <1>10, <3>1, <3>2
    <3>3. CASE d = c
      <4>1. \A i \in DOMAIN msgs'[c] : i \in DOMAIN msgs[c] \/ i = Len(msgs[c]) + 1
        BY <1>8, <1>9
      <4>2. \A a \in known : stamp'[a] # None
        BY <1>6, <2>1
      <4> QED
        BY <1>6, <1>9, <3>1, <3>3, <4>1, <4>2
    <3> QED
      BY <3>2, <3>3
  <2> QED
    BY <2>3, <2>4 DEF LinksMirrorReferences
<1>17. \A u \in Turn : u # t => Stays(u)
  BY <1>2 DEF ReplayInv, Shape, Stays
<1>18. Own(t)'
  <2>1. /\ pc'[t] = "building" /\ conv'[t] = c /\ prompt'[t] = {}
        /\ at'[t] = prior[t] + 1 /\ todo'[t] = records[t]
    BY <1>1, <1>2, <1>3 DEF ReplayInv, Shape
  <2>2. Texts(t)' = {}
    BY <2>1 DEF Texts
  <2>3. prior[t] + 1 <= Len(msgs'[c])
    BY <1>3, <1>8, <1>9
  <2>4. \A i \in DOMAIN records[t] : records[t][i].id \in Mentioned(c)'
    BY <1>5, <1>11
  <2>5. Mentioned(conv[t])' = Mentioned(c)'
    BY <2>1
  <2> QED
    BY <1>3, <2>1, <2>2, <2>3, <2>4, <2>5 DEF Own, TurnOK, TextOK, Asked, Oldest
<1> QED
  BY <1>2, <1>13, <1>14, <1>15, <1>16, <1>17, <1>18, OneTurn

-----------------------------------------------------------------------------
(***************************************************************************)
(* The invariant and the theorems.                                         *)
(***************************************************************************)

LEMMA InitReplay == Init => ReplayInv
<1> SUFFICES ASSUME Init PROVE ReplayInv
  OBVIOUS
<1> USE ReplayAssumption, AttachmentsAssumption
<1>0. /\ Said \in [Conv -> Seq(Seq(Upload))]
      /\ \A c \in Conv : \A i \in DOMAIN Said[c] : Range(Said[c][i]) \subseteq Earlier
  <2>1. ASSUME NEW c \in Conv
        PROVE  /\ Said[c] \in Seq(Seq(Upload))
               /\ \A i \in DOMAIN Said[c] : Range(Said[c][i]) \subseteq Earlier
    <3>1. /\ Len(Said[c]) \in Nat /\ DOMAIN Said[c] = 1 .. Len(Said[c])
          /\ \A i \in DOMAIN Said[c] : Said[c][i] \in Seq(Earlier)
          /\ Said[c] \in Seq(Seq(Earlier))
      OBVIOUS
    <3>2. ASSUME NEW s \in Seq(Earlier) PROVE s \in Seq(Upload) /\ Range(s) \subseteq Earlier
      BY DEF Range
    <3>3. \A i \in DOMAIN Said[c] : Said[c][i] \in Seq(Upload) /\ Range(Said[c][i]) \subseteq Earlier
      BY <3>1, <3>2
    <3>4. Said[c] \in [1 .. Len(Said[c]) -> Seq(Upload)]
      BY <3>1, <3>3
    <3> QED
      BY <3>1, <3>3, <3>4
  <2> QED
    BY <2>1
<1>1. /\ msgs = Said
      /\ links = [c \in Conv |-> [i \in DOMAIN Said[c] |-> Range(Said[c][i])]]
      /\ stamp \in [Upload -> Conv \cup {None}]
      /\ \A t \in Turn : /\ pc[t] = "idle" /\ records[t] = <<>> /\ prior[t] = 0
                         /\ prompt[t] = {}
  BY DEF Init
<1>2. \A u \in Upload : IF u \in Earlier THEN status[u] = "ready" ELSE status[u] = "absent"
  BY DEF Init, FilesInit
<1>3. Kept = Earlier /\ Settled = Earlier
  BY <1>2 DEF Kept, Settled
<1>4. Shape
  <2>1. ASSUME NEW c \in Conv
        PROVE  [i \in DOMAIN Said[c] |-> Range(Said[c][i])] \in Seq(SUBSET Upload)
    <3>1. Len(Said[c]) \in Nat /\ DOMAIN Said[c] = 1 .. Len(Said[c])
      BY <1>0
    <3>2. \A i \in DOMAIN Said[c] : Range(Said[c][i]) \in SUBSET Upload
      BY <1>0
    <3> QED
      BY <3>1, <3>2
  <2>2. links \in [Conv -> Seq(SUBSET Upload)]
    BY <1>1, <2>1
  <2>3. msgs \in [Conv -> Seq(Seq(Upload))]
    BY <1>0, <1>1
  <2>4. /\ conv \in [Turn -> Conv \cup {None}]
        /\ pc \in [Turn -> Stages]
        /\ records \in [Turn -> Seq(Rec)]
        /\ prior \in [Turn -> Nat] /\ at \in [Turn -> Nat]
        /\ todo \in [Turn -> Seq(Rec)]
    <3>1. <<>> \in Seq(Rec) /\ "idle" \in Stages
      BY DEF Stages
    <3> QED
      BY <3>1 DEF Init
  <2>5. showing \in [Turn -> BOOLEAN] /\ missed \in [Turn -> Nat] /\ prompt \in [Turn -> SUBSET Elements]
    BY DEF Init
  <2>6. left \in [Turn -> 0..Total]
    BY DEF Init
  <2>7. turnsLeft \in [Turn -> 0..ImageTurns]
    <3>1. (IF Vision THEN ImageTurns ELSE 0) \in 0..ImageTurns
      OBVIOUS
    <3> QED
      BY <3>1 DEF Init
  <2> QED
    BY <1>1, <2>2, <2>3, <2>4, <2>5, <2>6, <2>7 DEF Shape
<1>5. RefInv
  BY <1>0, <1>1, <1>3 DEF RefInv, Mentioned
<1>6. LinksMirrorReferences
  <2>1. ASSUME NEW c \in Conv, NEW i \in DOMAIN Said[c], NEW a \in Range(Said[c][i])
        PROVE  stamp[a] # None
    <3>1. a \in Upload /\ a \in Linked(c)
      BY <1>0, <1>1, <2>1 DEF Linked
    <3>2. stamp[a] \in {d \in Conv : a \in Linked(d)}
      BY <3>1 DEF Init
    <3> QED
      BY <3>2
  <2> QED
    BY <1>0, <1>1, <1>3, <2>1 DEF LinksMirrorReferences
<1>7. TurnInv /\ TextInv /\ UndisturbedTurnsAsk /\ OldestLoseText
  BY <1>1 DEF TurnInv, TurnOK, TextInv, TextOK, Texts, UndisturbedTurnsAsk, OldestLoseText
<1> QED
  BY <1>4, <1>5, <1>6, <1>7 DEF ReplayInv

LEMMA ReplayStep == IInv /\ ReplayInv /\ [Next]_vars => ReplayInv'
<1> SUFFICES ASSUME IInv, ReplayInv, [Next]_vars PROVE ReplayInv'
  OBVIOUS
<1>1. ASSUME UNCHANGED turnVars, QuietStep PROVE ReplayInv'
  <2>1. StillRequests /\ UNCHANGED links
    BY <1>1 DEF turnVars, storeVars, ReplayInv, Shape, StillRequests, Halted
  <2> QED
    BY <1>1, <2>1, QuietMove
<1>2. CASE UNCHANGED vars
  BY <1>1, <1>2 DEF vars, QuietStep
<1>3. ASSUME NEW u \in Upload, UploadStep(u), UNCHANGED turnVars PROVE ReplayInv'
  BY <1>1, <1>3 DEF QuietStep
<1>4. ASSUME NEW d \in Removal, RemoveStep(d) PROVE ReplayInv'
  BY <1>1, <1>4, DeleteMove DEF RemoveStep, QuietStep
<1>5. ASSUME NEW t \in Turn, TurnStep(t) PROVE ReplayInv'
  BY <1>5, ResolveMove, FetchPriorMove, PersistMove, BlockMove, RaiseMove, HydrateMove, AskMove
     DEF TurnStep
<1>6. CASE Restart
  <2>1. StillRequests /\ UNCHANGED links /\ QuietStep
    BY <1>6 DEF Restart, storeVars, ReplayInv, Shape, Stages, StillRequests, Halted, QuietStep
  <2> QED
    BY <2>1, QuietMove
<1> QED
  BY <1>2, <1>3, <1>4, <1>5, <1>6 DEF Next

LEMMA ReplayInvariance == Spec => []ReplayInv
<1>1. Init => ReplayInv
  BY InitReplay
<1>2. IInv /\ ReplayInv /\ [Next]_vars => ReplayInv'
  BY ReplayStep
<1> QED
  BY <1>1, <1>2, Invariance, PTL DEF Spec

\* The tables and the requests keep their shape: a budget is never overdrawn,
\* and the link table says of each message which of its files still exist,
\* whatever is deleted between the look-up of a file and its use.
THEOREM ReplayTypeCorrect == Spec => []TypeOK
<1>1. IInv /\ ReplayInv => TypeOK
  <2> SUFFICES ASSUME IInv, ReplayInv PROVE TypeOK
    OBVIOUS
  <2>1. \A t \in Turn : \A i \in DOMAIN records[t] : records[t][i] \in Rec
    BY DEF ReplayInv, Shape
  <2>2. \A c \in Conv : \A i \in DOMAIN msgs[c] : msgs[c][i] \in Seq(Upload)
    BY DEF ReplayInv, Shape
  <2>3. \A c \in Conv : \A i \in DOMAIN msgs[c] : \A j \in DOMAIN msgs[c][i] :
          msgs[c][i][j] \in Upload
    BY <2>2
  <2> QED
    BY <2>1, <2>3 DEF IInv, ReplayInv, Shape, TypeOK, Stages, Rec
<1> QED
  BY <1>1, Invariance, ReplayInvariance, PTL

\* load_bytes: a turn that ends with an error for a file has a message that
\* refers to one that was deleted, or uploaded beside a delete of its bytes.
THEOREM UndisturbedTurns == Spec => []UndisturbedTurnsAsk
<1>1. ReplayInv => UndisturbedTurnsAsk
  BY DEF ReplayInv
<1> QED
  BY <1>1, ReplayInvariance, PTL

\* hydrate_history and Budget.take: for any budget and any history, the text
\* that a request leaves out is that of the oldest documents.
THEOREM OldestLose == Spec => []OldestLoseText
<1>1. ReplayInv => OldestLoseText
  BY DEF ReplayInv
<1> QED
  BY <1>1, ReplayInvariance, PTL

-----------------------------------------------------------------------------
(***************************************************************************)
(* The images of a request.  What the estimate charges depends on the      *)
(* references alone; the request takes the images from the records.  They  *)
(* agree because a record that is referred to keeps its user and content,  *)
(* and because the image turns are counted in the order of the charge.     *)
(***************************************************************************)

\* The images that a message refers to; the messages i..n that refer to one.
ImagesOf(c, i) == {msgs[c][i][j] : j \in Refs(c, i, "image")}
WithImages(c, i, n) == {k \in i..n : Refs(c, k, "image") # {}}

\* The images of message i are among those that the estimate charges.
Sends(c, i, n) == Vision /\ Cardinality(WithImages(c, i + 1, n)) < ImageTurns

\* The images of message i that the request holds.
Shown(t, i) == {e.id : e \in {x \in prompt[t] : x.msg = i /\ x.form = "image"}}

\* Of the messages from i on, in the history that t fetched, no look-up failed
\* and no image was deleted.
Intact(t, i) ==
  /\ missed[t] < i
  /\ \A k \in i..prior[t] : \A a \in ImagesOf(conv[t], k) : status[a] # "deleted"

\* The files of message i that are still to be put into the request.
Pending(t, i) == IF i = at[t] THEN IdsOf(todo[t]) ELSE {}

\* A message names each of its files once; they are the conversation's user's.
MsgInv ==
  \A c \in Conv : \A i \in DOMAIN msgs[c] :
    /\ IsInjective(msgs[c][i])
    /\ \A a \in Range(msgs[c][i]) : by[a] = OwnerOf[c]

\* The same of the files that a message is going to have.
ReadyOK(t) ==
  pc[t] \in {"resolved", "fetched"} =>
    /\ Distinct(records[t])
    /\ \A k \in DOMAIN records[t] : by[records[t][k].id] = OwnerOf[conv[t]]

\* The turn is at a message of the history or at its own.
PlaceOK(t) ==
  /\ pc[t] \in {"building", "asked"} =>
       prior[t] <= Len(msgs[conv[t]]) /\ at[t] \in 1..(prior[t] + 1)
  /\ pc[t] = "asked" => at[t] = 1 /\ todo[t] = <<>>
  /\ pc[t] = "building" /\ at[t] <= prior[t] =>
       Distinct(todo[t]) /\ IdsOf(todo[t]) \subseteq Range(msgs[conv[t]][at[t]])
  /\ \A e \in prompt[t] : e.form = "image" => e.chars = 0

\* The image turns that are left after the messages i..n.
TurnsAfter(c, i, n) ==
  IF Vision /\ Cardinality(WithImages(c, i, n)) < ImageTurns
  THEN ImageTurns - Cardinality(WithImages(c, i, n)) ELSE 0

\* The messages at[t]..prior[t] have the images that the estimate charges
\* to them, but for those that are still to come; a failed look-up or a delete
\* disturbs only the messages before it.
ImagesOK(t) ==
  /\ pc[t] \in {"idle", "resolved", "fetched"} => turnsLeft[t] = IF Vision THEN ImageTurns ELSE 0
  /\ pc[t] \in {"building", "asked"} =>
       /\ Intact(t, at[t]) =>
            /\ turnsLeft[t] = TurnsAfter(conv[t], at[t], prior[t])
            /\ at[t] <= prior[t] =>
                 (showing[t] <=> Sends(conv[t], at[t], prior[t]) /\ ImagesOf(conv[t], at[t]) # {})
       /\ \A i \in at[t]..prior[t] : Intact(t, i) =>
            Shown(t, i) = IF Sends(conv[t], i, prior[t])
                          THEN ImagesOf(conv[t], i) \ Pending(t, i) ELSE {}

ImageTurn(t) == ReadyOK(t) /\ PlaceOK(t) /\ ImagesOK(t)
ImageInv == MsgInv /\ \A t \in Turn : ImageTurn(t)

\* What uploads, deletes and restarts leave of the files that are referred to.
KeepFiles ==
  \A a \in Settled : /\ data'[a] = data[a] /\ by'[a] = by[a]
                     /\ status[a] = "deleted" => status'[a] = "deleted"

\* Messages are only added.
AddMessages ==
  \A c \in Conv : /\ Len(msgs'[c]) \in Nat
                  /\ Len(msgs[c]) <= Len(msgs'[c])
                  /\ \A i \in DOMAIN msgs[c] : i \in DOMAIN msgs'[c] /\ msgs'[c][i] = msgs[c][i]

\* The request of a turn does not move; the process may stop.
Rests(t) ==
  /\ pc'[t] = pc[t] \/ pc'[t] = "killed"
  /\ conv'[t] = conv[t] /\ records'[t] = records[t] /\ prior'[t] = prior[t] /\ at'[t] = at[t]
  /\ todo'[t] = todo[t] /\ showing'[t] = showing[t] /\ turnsLeft'[t] = turnsLeft[t]
  /\ missed'[t] = missed[t] /\ prompt'[t] = prompt[t]

LEMMA FilesAreKept ==
  ASSUME IInv, QuietStep \/ \E d \in Removal : DeleteRecord(d)
  PROVE  KeepFiles
<1> SUFFICES ASSUME NEW a \in Settled PROVE by'[a] = by[a]
  BY FilesStay DEF KeepFiles
<1>1. a \in Upload /\ up[a] # "idle"
  BY DEF Settled, IInv, RecordInv
<1>2. ASSUME NEW u \in Upload, UploadStep(u) PROVE by'[a] = by[a]
  <2>1. CASE Receive(u)
    BY <1>1, <2>1 DEF Receive, IInv, FilesTypeOK
  <2> QED
    BY <1>2, <2>1 DEF UploadStep, FindTwin, TestBlob, OpenPart, FillPart, RenamePart,
                      CreateRecord, Extract, Answer
<1>3. ASSUME NEW d \in Removal, FindRecord(d) \/ CountRecords(d) \/ Unlink(d) \/ DeleteRecord(d)
      PROVE  by'[a] = by[a]
  BY <1>3 DEF FindRecord, CountRecords, Unlink, DeleteRecord, uploadVars
<1>4. CASE FilesRestart \/ UNCHANGED fileVars
  BY <1>4 DEF FilesRestart, fileVars, uploadVars
<1> QED
  BY <1>2, <1>3, <1>4 DEF QuietStep

\* The charge for a stored message does not change.
LEMMA SameCharge ==
  ASSUME ReplayInv, KeepFiles, AddMessages, NEW c \in Conv,
         NEW n \in Nat, n <= Len(msgs[c])
  PROVE  /\ \A i \in 1..n : /\ Refs(c, i, "image")' = Refs(c, i, "image")
                            /\ ImagesOf(c, i)' = ImagesOf(c, i)
         /\ \A i \in 1..(n + 1) : /\ WithImages(c, i, n)' = WithImages(c, i, n)
                                  /\ TurnsAfter(c, i, n)' = TurnsAfter(c, i, n)
         /\ \A i \in 1..n : Sends(c, i, n)' <=> Sends(c, i, n)
<1>1. msgs[c] \in Seq(Seq(Upload)) /\ DOMAIN msgs[c] = 1 .. Len(msgs[c]) /\ Len(msgs[c]) \in Nat
  BY DEF ReplayInv, Shape
<1>2. \A i \in 1..n : i \in DOMAIN msgs[c] /\ msgs'[c][i] = msgs[c][i]
  BY <1>1 DEF AddMessages
<1>3. \A i \in 1..n : \A j \in DOMAIN msgs[c][i] : msgs[c][i][j] \in Settled
  BY <1>2 DEF ReplayInv, RefInv, Mentioned, Range
<1>4. \A i \in 1..n : Refs(c, i, "image")' = Refs(c, i, "image")
  BY <1>2, <1>3 DEF Refs, KeepFiles
<1>5. \A i \in 1..n : ImagesOf(c, i)' = ImagesOf(c, i)
  <2> SUFFICES ASSUME NEW i \in 1..n PROVE ImagesOf(c, i)' = ImagesOf(c, i)
    OBVIOUS
  <2>1. msgs'[c][i] = msgs[c][i] /\ Refs(c, i, "image")' = Refs(c, i, "image")
    BY <1>2, <1>4
  <2> QED
    BY <2>1 DEF ImagesOf
<1>6. ASSUME NEW i \in 1..(n + 1) PROVE WithImages(c, i, n)' = WithImages(c, i, n)
  <2>1. \A k \in i..n : k \in 1..n
    OBVIOUS
  <2> QED
    BY <1>4, <2>1 DEF WithImages
<1>7. ASSUME NEW i \in 1..(n + 1) PROVE TurnsAfter(c, i, n)' = TurnsAfter(c, i, n)
  BY <1>6 DEF TurnsAfter
<1>8. ASSUME NEW i \in 1..n PROVE Sends(c, i, n)' <=> Sends(c, i, n)
  <2>1. i + 1 \in 1..(n + 1)
    OBVIOUS
  <2> QED
    BY <1>6, <2>1 DEF Sends
<1> QED
  BY <1>4, <1>5, <1>6, <1>7, <1>8

\* A turn that rests keeps what the invariant says of it.
LEMMA RestingTurn ==
  ASSUME ReplayInv, KeepFiles, AddMessages, NEW t \in Turn, ImageTurn(t), Rests(t)
  PROVE  ImageTurn(t)'
<1>1. PICK c : c = conv[t]
  OBVIOUS
<1>2. PICK n : n = prior[t]
  OBVIOUS
<1>3. pc[t] # "idle" => c \in Conv
  BY <1>1 DEF ReplayInv, TurnInv, TurnOK
<1>4. n \in Nat /\ at[t] \in Nat
  BY <1>2 DEF ReplayInv, Shape
<1>5. ReadyOK(t)'
  <2>1. \A k \in DOMAIN records[t] : records[t][k].id \in Settled
    BY DEF ReplayInv, RefInv
  <2>2. \A k \in DOMAIN records[t] : by'[records[t][k].id] = by[records[t][k].id]
    BY <2>1 DEF KeepFiles
  <2>3. Distinct(records[t])' <=> Distinct(records[t])
    BY DEF Distinct, Rests
  <2>4. records'[t] = records[t] /\ conv'[t] = conv[t]
        /\ (pc'[t] \in {"resolved", "fetched"} => pc[t] \in {"resolved", "fetched"})
    BY DEF Rests
  <2> QED
    BY <2>2, <2>3, <2>4 DEF ReadyOK, ImageTurn
<1>6. CASE pc'[t] \in {"building", "asked"}
  <2>1. /\ pc[t] = pc'[t] /\ c \in Conv /\ n <= Len(msgs[c]) /\ at[t] \in 1..(n + 1)
        /\ n <= Len(msgs'[c])
    <3>1. pc[t] = pc'[t] /\ c \in Conv /\ n <= Len(msgs[c]) /\ at[t] \in 1..(n + 1)
      BY <1>1, <1>2, <1>3, <1>6 DEF Rests, ImageTurn, PlaceOK
    <3>2. Len(msgs[c]) \in Nat /\ Len(msgs'[c]) \in Nat /\ Len(msgs[c]) <= Len(msgs'[c])
      BY <3>1 DEF AddMessages, ReplayInv, Shape
    <3> QED
      BY <1>4, <3>1, <3>2
  <2>2. /\ \A i \in 1..n : /\ Refs(c, i, "image")' = Refs(c, i, "image")
                           /\ ImagesOf(c, i)' = ImagesOf(c, i)
        /\ \A i \in 1..(n + 1) : TurnsAfter(c, i, n)' = TurnsAfter(c, i, n)
        /\ \A i \in 1..n : Sends(c, i, n)' <=> Sends(c, i, n)
    BY <1>4, <2>1, SameCharge
  <2>3. /\ conv'[t] = c /\ prior'[t] = n /\ at'[t] = at[t] /\ todo'[t] = todo[t]
        /\ showing'[t] = showing[t] /\ turnsLeft'[t] = turnsLeft[t] /\ prompt'[t] = prompt[t]
        /\ missed'[t] = missed[t]
    BY <1>1, <1>2 DEF Rests
  <2>4. \A i \in 1..n : i \in DOMAIN msgs[c] /\ msgs'[c][i] = msgs[c][i]
    <3>1. DOMAIN msgs[c] = 1 .. Len(msgs[c]) /\ Len(msgs[c]) \in Nat
      BY <2>1 DEF ReplayInv, Shape
    <3> QED
      BY <1>4, <2>1, <3>1 DEF AddMessages
  <2>5. PlaceOK(t)'
    <3>1. Distinct(todo[t])' <=> Distinct(todo[t])
      BY <2>3 DEF Distinct
    <3>2. IdsOf(todo[t])' = IdsOf(todo[t])
      BY <2>3 DEF IdsOf
    <3>3. at[t] <= n => at[t] \in 1..n
      BY <1>4, <2>1
    <3>4. at[t] <= n => msgs'[c][at[t]] = msgs[c][at[t]]
      BY <2>4, <3>3
    <3>5. PlaceOK(t)
      BY DEF ImageTurn
    <3>6. pc[t] = "building" /\ at[t] <= n =>
            Distinct(todo[t])' /\ IdsOf(todo[t])' \subseteq Range(msgs'[c][at[t]])
      BY <1>1, <1>2, <3>1, <3>2, <3>4, <3>5 DEF PlaceOK
    <3> QED
      BY <1>1, <1>2, <2>1, <2>3, <3>5, <3>6 DEF PlaceOK
  <2>6. ASSUME NEW i \in 1..(n + 1), Intact(t, i)' PROVE Intact(t, i)
    <3> SUFFICES ASSUME NEW k \in i..n, NEW a \in ImagesOf(c, k) PROVE status[a] # "deleted"
      BY <1>1, <1>2, <2>3, <2>6 DEF Intact
    <3>1. k \in 1..n
      BY <1>4
    <3>2. a \in ImagesOf(c, k)'
      BY <2>2, <3>1
    <3>3. status'[a] # "deleted"
      BY <2>3, <2>6, <3>2 DEF Intact
    <3>4. a \in Settled
      BY <2>1, <2>4, <3>1 DEF ImagesOf, Refs, ReplayInv, RefInv, Mentioned, Range
    <3> QED
      BY <3>3, <3>4 DEF KeepFiles
  <2>7. ImagesOK(t)'
    <3>1. /\ Intact(t, at[t]) =>
               /\ turnsLeft[t] = TurnsAfter(c, at[t], n)
               /\ at[t] <= n => (showing[t] <=> Sends(c, at[t], n) /\ ImagesOf(c, at[t]) # {})
          /\ \A i \in at[t]..n : Intact(t, i) =>
               Shown(t, i) = IF Sends(c, i, n) THEN ImagesOf(c, i) \ Pending(t, i) ELSE {}
      BY <1>1, <1>2, <2>1, <1>6 DEF ImageTurn, ImagesOK
    <3>2. \A i : Shown(t, i)' = Shown(t, i) /\ Pending(t, i)' = Pending(t, i)
      BY <2>3 DEF Shown, Pending, IdsOf
    <3>3. PICK k : k = at[t]
      OBVIOUS
    <3>4. Intact(t, k)' =>
            /\ turnsLeft'[t] = TurnsAfter(c, k, n)'
            /\ k <= n => (showing'[t] <=> Sends(c, k, n)' /\ ImagesOf(c, k)' # {})
      <4>1. k \in 1..(n + 1) /\ (k <= n => k \in 1..n)
        BY <1>4, <2>1, <3>3
      <4> QED
        BY <2>2, <2>3, <2>6, <3>1, <3>3, <4>1
    <3>5. ASSUME NEW i \in k..n, Intact(t, i)'
          PROVE  Shown(t, i)' = IF Sends(c, i, n)' THEN ImagesOf(c, i)' \ Pending(t, i)' ELSE {}
      <4>1. i \in 1..n /\ i \in 1..(n + 1)
        BY <1>4, <2>1, <3>3
      <4>2. Intact(t, i)
        BY <2>6, <3>5, <4>1
      <4> QED
        BY <2>2, <3>1, <3>2, <3>3, <4>1, <4>2
    <3>6. pc'[t] \notin {"idle", "resolved", "fetched"} /\ at'[t] = k
      BY <1>6, <2>3, <3>3
    <3> QED
      BY <2>3, <3>4, <3>5, <3>6 DEF ImagesOK
  <2> QED
    BY <1>5, <2>5, <2>7 DEF ImageTurn
<1>7. CASE pc'[t] \notin {"building", "asked"}
  <2>1. pc'[t] \in {"idle", "resolved", "fetched"} => pc'[t] = pc[t]
    BY DEF Rests
  <2>2. PlaceOK(t)'
    BY <1>7 DEF PlaceOK, ImageTurn, Rests
  <2>3. ImagesOK(t)'
    BY <1>7, <2>1 DEF ImagesOK, ImageTurn, Rests
  <2> QED
    BY <1>5, <2>2, <2>3 DEF ImageTurn
<1> QED
  BY <1>6, <1>7

\* It is enough to look at the turn that moves.
LEMMA OneImageTurn ==
  ASSUME ReplayInv, ImageInv, KeepFiles, AddMessages, MsgInv',
         NEW t \in Turn, \A u \in Turn : u # t => Rests(u), ImageTurn(t)'
  PROVE  ImageInv'
<1>1. ASSUME NEW u \in Turn, u # t PROVE ImageTurn(u)'
  BY <1>1, RestingTurn DEF ImageInv
<1> QED
  BY <1>1 DEF ImageInv

\* A step that stores nothing.
LEMMA StoresNothing ==
  ASSUME ReplayInv, ImageInv, UNCHANGED fileVars, UNCHANGED storeVars
  PROVE  /\ KeepFiles /\ AddMessages /\ MsgInv'
         /\ \A c, i : /\ ImagesOf(c, i)' = ImagesOf(c, i)
                      /\ Refs(c, i, "image")' = Refs(c, i, "image")
         /\ \A c, i, n : /\ TurnsAfter(c, i, n)' = TurnsAfter(c, i, n)
                         /\ Sends(c, i, n)' <=> Sends(c, i, n)
<1>1. msgs' = msgs /\ data' = data /\ by' = by /\ status' = status
  BY DEF fileVars, uploadVars, storeVars
<1>2. KeepFiles
  BY <1>1 DEF KeepFiles
<1>3. AddMessages
  <2>1. \A c \in Conv : Len(msgs[c]) \in Nat
    BY DEF ReplayInv, Shape
  <2> QED
    BY <1>1, <2>1 DEF AddMessages
<1>4. MsgInv'
  BY <1>1 DEF ImageInv, MsgInv
<1>5. \A c, i : Refs(c, i, "image")' = Refs(c, i, "image")
  BY <1>1 DEF Refs
<1>6. \A c, i : ImagesOf(c, i)' = ImagesOf(c, i)
  BY <1>1, <1>5 DEF ImagesOf
<1>7. \A c, i, n : WithImages(c, i, n)' = WithImages(c, i, n)
  BY <1>5 DEF WithImages
<1>8. \A c, i, n : TurnsAfter(c, i, n)' = TurnsAfter(c, i, n)
  BY <1>7 DEF TurnsAfter
<1>9. \A c, i, n : Sends(c, i, n)' <=> Sends(c, i, n)
  BY <1>7 DEF Sends
<1> QED
  BY <1>2, <1>3, <1>4, <1>5, <1>6, <1>8, <1>9

LEMMA ResolveImages ==
  ASSUME IInv, ReplayInv, ImageInv, NEW t \in Turn, Resolve(t)
  PROVE  ImageInv'
<1>1. PICK c \in Conv, ids \in IdList :
        /\ conv' = [conv EXCEPT ![t] = c]
        /\ \/ pc' = [pc EXCEPT ![t] = "refused"] /\ UNCHANGED records
           \/ /\ pc' = [pc EXCEPT ![t] = "resolved"]
              /\ records' = [records EXCEPT ![t] = GetMany(ids, OwnerOf[c])]
  BY DEF Resolve
<1>2. pc[t] = "idle" /\ UNCHANGED fileVars /\ UNCHANGED storeVars
      /\ UNCHANGED <<prior, at, todo, showing, left, turnsLeft, missed, prompt>>
  BY DEF Resolve, requestVars
<1>3. ids \in Seq(Upload) /\ IsInjective(ids)
  <2>1. PICK n \in 0..(MaxFiles + 1) :
          ids \in [1..n -> Known] /\ \A i, j \in 1..n : ids[i] = ids[j] => i = j
    BY DEF IdList
  <2>2. n \in Nat /\ Known \subseteq Upload
    BY ReplayAssumption, KnownAreSettled DEF Settled
  <2>3. ids \in [1..n -> Upload] /\ DOMAIN ids = 1..n
    BY <2>1, <2>2
  <2> QED
    BY <2>1, <2>2, <2>3 DEF IsInjective
<1>4. PICK found : found = GetMany(ids, OwnerOf[c])
  OBVIOUS
<1>5. Distinct(found) /\ \A k \in DOMAIN found : by[found[k].id] = OwnerOf[c]
  <2>1. Distinct(found) /\ \A a : a \in IdsOf(found) => a \in Owned(OwnerOf[c])
    BY <1>3, <1>4, FoundAreAll
  <2>2. \A k \in DOMAIN found : found[k].id \in IdsOf(found)
    BY DEF IdsOf
  <2> QED
    BY <2>1, <2>2 DEF Owned
<1>6. \A u \in Turn : u # t => Rests(u)
  BY <1>1, <1>2 DEF ReplayInv, Shape, Rests
<1>7. ImageTurn(t)'
  <2>1. /\ conv'[t] = c /\ turnsLeft'[t] = turnsLeft[t] /\ prompt'[t] = prompt[t] /\ by' = by
        /\ \/ pc'[t] = "refused"
           \/ pc'[t] = "resolved" /\ records'[t] = found
    BY <1>1, <1>2, <1>4 DEF ReplayInv, Shape, fileVars, uploadVars
  <2>2. ReadyOK(t)'
    <3>1. CASE pc'[t] = "refused"
      BY <3>1 DEF ReadyOK
    <3>2. CASE records'[t] = found
      <4>1. Distinct(records[t])'
        BY <1>5, <3>2 DEF Distinct
      <4>2. \A k \in DOMAIN records'[t] : by'[records'[t][k].id] = OwnerOf[conv'[t]]
        BY <1>5, <2>1, <3>2
      <4> QED
        BY <4>1, <4>2 DEF ReadyOK
    <3> QED
      BY <2>1, <3>1, <3>2
  <2>3. PlaceOK(t)'
    BY <2>1 DEF PlaceOK, ImageInv, ImageTurn
  <2>4. ImagesOK(t)'
    BY <1>2, <2>1 DEF ImagesOK, ImageInv, ImageTurn
  <2> QED
    BY <2>2, <2>3, <2>4 DEF ImageTurn
<1> QED
  BY <1>2, <1>6, <1>7, StoresNothing, OneImageTurn

LEMMA FetchPriorImages ==
  ASSUME IInv, ReplayInv, ImageInv, NEW t \in Turn, FetchPrior(t)
  PROVE  ImageInv'
<1>1. /\ pc[t] = "resolved" /\ UNCHANGED fileVars /\ UNCHANGED storeVars
      /\ pc' = [pc EXCEPT ![t] = "fetched"]
      /\ prior' = [prior EXCEPT ![t] = Len(msgs[conv[t]])]
      /\ UNCHANGED <<conv, records, at, todo, showing, left, turnsLeft, missed, prompt>>
  BY DEF FetchPrior
<1>2. \A u \in Turn : u # t => Rests(u)
  BY <1>1 DEF ReplayInv, Shape, Rests
<1>3. /\ pc'[t] = "fetched" /\ UNCHANGED <<conv, records, turnsLeft, prompt>> /\ by' = by
  BY <1>1 DEF ReplayInv, Shape, fileVars, uploadVars
<1>4. ImageTurn(t)'
  <2>1. ReadyOK(t)'
    <3>1. Distinct(records[t])' <=> Distinct(records[t])
      BY <1>3 DEF Distinct
    <3> QED
      BY <1>1, <1>3, <3>1 DEF ReadyOK, ImageInv, ImageTurn
  <2>2. PlaceOK(t)' /\ ImagesOK(t)'
    BY <1>1, <1>3 DEF PlaceOK, ImagesOK, ImageInv, ImageTurn
  <2> QED
    BY <2>1, <2>2 DEF ImageTurn
<1> QED
  BY <1>1, <1>2, <1>4, StoresNothing, OneImageTurn

\* load_bytes raises.
LEMMA RaiseImages ==
  ASSUME IInv, ReplayInv, ImageInv, NEW t \in Turn,
         pc' = [pc EXCEPT ![t] = "raised"],
         UNCHANGED <<fileVars, conv, records, storeVars, requestVars>>
  PROVE  ImageInv'
<1>1. /\ UNCHANGED fileVars /\ UNCHANGED storeVars
      /\ UNCHANGED <<conv, records, prior, at, todo, showing, left, turnsLeft, missed, prompt>>
  BY DEF requestVars
<1>2. \A u \in Turn : u # t => Rests(u)
  BY <1>1 DEF ReplayInv, Shape, Rests
<1>3. pc'[t] = "raised"
  BY DEF ReplayInv, Shape
<1>4. ImageTurn(t)'
  BY <1>1, <1>3 DEF ImageTurn, ReadyOK, PlaceOK, ImagesOK, ImageInv
<1> QED
  BY <1>1, <1>2, <1>4, StoresNothing, OneImageTurn

LEMMA AskImages ==
  ASSUME IInv, ReplayInv, ImageInv, NEW t \in Turn, Ask(t)
  PROVE  ImageInv'
<1>1. /\ pc[t] = "building" /\ todo[t] = <<>> /\ at[t] <= 1
      /\ pc' = [pc EXCEPT ![t] = "asked"] /\ UNCHANGED fileVars /\ UNCHANGED storeVars
      /\ UNCHANGED <<conv, records, prior, at, todo, showing, left, turnsLeft, missed, prompt>>
  BY DEF Ask, requestVars
<1>2. \A u \in Turn : u # t => Rests(u)
  BY <1>1 DEF ReplayInv, Shape, Rests
<1>3. PICK c, n : c = conv[t] /\ n = prior[t]
  OBVIOUS
<1>4. /\ pc'[t] = "asked" /\ conv'[t] = c /\ prior'[t] = n /\ msgs' = msgs /\ status' = status
      /\ UNCHANGED <<conv, records, prior, at, todo, showing, left, turnsLeft, missed, prompt>>
  BY <1>1, <1>3 DEF ReplayInv, Shape, storeVars, fileVars
<1>5. /\ \A i : ImagesOf(c, i)' = ImagesOf(c, i)
      /\ \A i : TurnsAfter(c, i, n)' = TurnsAfter(c, i, n) /\ (Sends(c, i, n)' <=> Sends(c, i, n))
  BY <1>1, StoresNothing
<1>6. PlaceOK(t)'
  <2>1. n <= Len(msgs[c]) /\ at[t] \in 1..(n + 1) /\ n \in Nat
    BY <1>1, <1>3 DEF ImageInv, ImageTurn, PlaceOK, ReplayInv, Shape
  <2>2. at[t] = 1
    BY <1>1, <2>1
  <2> QED
    BY <1>1, <1>4, <2>1, <2>2 DEF PlaceOK, ImageInv, ImageTurn
<1>7. ImagesOK(t)'
  <2>1. \A i : Intact(t, i)' <=> Intact(t, i)
    BY <1>3, <1>4, <1>5 DEF Intact
  <2>2. \A i : Shown(t, i)' = Shown(t, i) /\ Pending(t, i)' = Pending(t, i)
    BY <1>4 DEF Shown, Pending, IdsOf
  <2>3. PICK k : k = at[t]
    OBVIOUS
  <2>4. at'[t] = k
    BY <1>4, <2>3
  <2>5. /\ Intact(t, k) =>
             /\ turnsLeft[t] = TurnsAfter(c, k, n)
             /\ k <= n => (showing[t] <=> Sends(c, k, n) /\ ImagesOf(c, k) # {})
        /\ \A i \in k..n : Intact(t, i) =>
             Shown(t, i) = IF Sends(c, i, n) THEN ImagesOf(c, i) \ Pending(t, i) ELSE {}
    BY <1>1, <1>3, <2>3 DEF ImageInv, ImageTurn, ImagesOK
  <2>6. /\ Intact(t, k)' =>
             /\ turnsLeft'[t] = TurnsAfter(c, k, n)'
             /\ k <= n => (showing'[t] <=> Sends(c, k, n)' /\ ImagesOf(c, k)' # {})
        /\ \A i \in k..n : Intact(t, i)' =>
             Shown(t, i)' = IF Sends(c, i, n)' THEN ImagesOf(c, i)' \ Pending(t, i)' ELSE {}
    BY <1>4, <1>5, <2>1, <2>2, <2>5
  <2> QED
    BY <1>4, <2>4, <2>6 DEF ImagesOK
<1>8. ReadyOK(t)'
  BY <1>4 DEF ReadyOK
<1> QED
  BY <1>1, <1>2, <1>6, <1>7, <1>8, StoresNothing, OneImageTurn DEF ImageTurn

\* The files that are left when the first one is done.
LEMMA TailIds ==
  ASSUME NEW s \in Seq(Rec), s # <<>>
  PROVE  /\ IdsOf(s) = IdsOf(Tail(s)) \cup {Head(s).id}
         /\ Distinct(s) => Distinct(Tail(s)) /\ Head(s).id \notin IdsOf(Tail(s))
<1>1. /\ Len(s) \in Nat /\ 1 \in DOMAIN s /\ Head(s) = s[1] /\ DOMAIN s = 1 .. Len(s)
      /\ DOMAIN Tail(s) = 1 .. (Len(s) - 1)
      /\ \A k \in DOMAIN Tail(s) : Tail(s)[k] = s[k + 1]
  OBVIOUS
<1>2. \A k \in DOMAIN Tail(s) : k + 1 \in DOMAIN s /\ k + 1 # 1 /\ k \in Nat
  BY <1>1
<1>3. \A k \in DOMAIN s : k = 1 \/ (k - 1 \in DOMAIN Tail(s) /\ (k - 1) + 1 = k)
  BY <1>1
<1>4. IdsOf(s) \subseteq IdsOf(Tail(s)) \cup {Head(s).id}
  <2> SUFFICES ASSUME NEW k \in DOMAIN s, k # 1 PROVE s[k].id \in IdsOf(Tail(s))
    BY <1>1 DEF IdsOf
  <2>1. PICK l \in DOMAIN Tail(s) : l + 1 = k
    BY <1>3
  <2> QED
    BY <1>1, <2>1 DEF IdsOf
<1>5. IdsOf(Tail(s)) \cup {Head(s).id} \subseteq IdsOf(s)
  BY <1>1, <1>2 DEF IdsOf
<1>6. ASSUME Distinct(s) PROVE Distinct(Tail(s))
  <2> SUFFICES ASSUME NEW k \in DOMAIN Tail(s), NEW l \in DOMAIN Tail(s),
                      Tail(s)[k].id = Tail(s)[l].id
               PROVE  k = l
    BY DEF Distinct
  <2>1. k + 1 = l + 1
    BY <1>1, <1>2, <1>6 DEF Distinct
  <2> QED
    BY <1>2, <2>1
<1>7. ASSUME Distinct(s) PROVE Head(s).id \notin IdsOf(Tail(s))
  BY <1>1, <1>2, <1>7 DEF Distinct, IdsOf
<1> QED
  BY <1>4, <1>5, <1>6, <1>7

\* The images of a message are its files that are images.
LEMMA ImagesAre ==
  ASSUME NEW c, NEW i, NEW a
  PROVE  /\ a \in ImagesOf(c, i) <=> a \in Range(msgs[c][i]) /\ KindOf[data[a]] = "image"
         /\ ImagesOf(c, i) # {} <=> Refs(c, i, "image") # {}
BY DEF ImagesOf, Refs, Range

\* An element is added to the request.
LEMMA EmitImages ==
  ASSUME IInv, ReplayInv, ImageInv, NEW t \in Turn, pc[t] = "building", todo[t] # <<>>,
         NEW form, NEW chars, Emit(t, form, chars),
         NEW a, a = Head(todo[t]).id,
         form = "image" => chars = 0 /\ showing[t] /\ KindOf[data[a]] = "image",
         form # "image" => KindOf[data[a]] # "image" \/ ~showing[t]
  PROVE  ImageInv'
<1> DEFINE new == [msg |-> at[t], id |-> a, form |-> form, chars |-> chars]
<1>1. /\ prompt' = [prompt EXCEPT ![t] = @ \cup {new}]
      /\ todo' = [todo EXCEPT ![t] = Tail(@)]
      /\ UNCHANGED fileVars /\ UNCHANGED storeVars
      /\ UNCHANGED <<conv, pc, records, prior, at, showing, turnsLeft, missed>>
  BY DEF Emit
<1>2. new.msg = at[t] /\ new.id = a /\ new.form = form /\ new.chars = chars
  OBVIOUS
<1> HIDE DEF new
<1>3. \A u \in Turn : u # t => Rests(u)
  BY <1>1 DEF ReplayInv, Shape, Rests
<1>4. PICK c, n, k : c = conv[t] /\ n = prior[t] /\ k = at[t]
  OBVIOUS
<1>5. /\ prompt'[t] = prompt[t] \cup {new} /\ todo'[t] = Tail(todo[t]) /\ msgs' = msgs
      /\ status' = status /\ conv'[t] = c /\ prior'[t] = n /\ at'[t] = k
      /\ pc'[t] = "building" /\ showing'[t] = showing[t] /\ turnsLeft'[t] = turnsLeft[t]
      /\ missed'[t] = missed[t]
  BY <1>1, <1>4 DEF ReplayInv, Shape, storeVars, fileVars
<1>6. /\ \A i : ImagesOf(c, i)' = ImagesOf(c, i)
      /\ \A i : TurnsAfter(c, i, n)' = TurnsAfter(c, i, n) /\ (Sends(c, i, n)' <=> Sends(c, i, n))
  BY <1>1, StoresNothing
<1>7. /\ IdsOf(todo[t]) = IdsOf(Tail(todo[t])) \cup {a}
      /\ Distinct(todo[t]) => Distinct(Tail(todo[t])) /\ a \notin IdsOf(Tail(todo[t]))
  <2>1. todo[t] \in Seq(Rec)
    BY DEF ReplayInv, Shape
  <2> QED
    BY <2>1, TailIds
<1>8. /\ IdsOf(todo[t])' = IdsOf(Tail(todo[t]))
      /\ Distinct(todo[t])' <=> Distinct(Tail(todo[t]))
  BY <1>5 DEF IdsOf, Distinct
<1>9. k <= n => Distinct(todo[t]) /\ IdsOf(todo[t]) \subseteq Range(msgs[c][k])
  BY <1>4 DEF ImageInv, ImageTurn, PlaceOK
<1>10. PlaceOK(t)'
  <2>1. k <= n => Distinct(todo[t])' /\ IdsOf(todo[t])' \subseteq Range(msgs[c][k])
    BY <1>7, <1>8, <1>9
  <2>2. n <= Len(msgs[c]) /\ k \in 1..(n + 1)
    BY <1>4 DEF ImageInv, ImageTurn, PlaceOK
  <2>3. \A e \in prompt'[t] : e.form = "image" => e.chars = 0
    BY <1>2, <1>5 DEF ImageInv, ImageTurn, PlaceOK
  <2> QED
    BY <1>5, <2>1, <2>2, <2>3 DEF PlaceOK
<1>11. ImagesOK(t)'
  <2>1. \A i : Intact(t, i)' <=> Intact(t, i)
    BY <1>4, <1>5, <1>6 DEF Intact
  <2>2. /\ Intact(t, k) =>
             /\ turnsLeft[t] = TurnsAfter(c, k, n)
             /\ k <= n => (showing[t] <=> Sends(c, k, n) /\ ImagesOf(c, k) # {})
        /\ \A i \in k..n : Intact(t, i) =>
             Shown(t, i) = IF Sends(c, i, n) THEN ImagesOf(c, i) \ Pending(t, i) ELSE {}
    BY <1>4 DEF ImageInv, ImageTurn, ImagesOK
  <2>3. \A i : /\ i = k /\ form = "image" => Shown(t, i)' = Shown(t, i) \cup {a}
               /\ ~(i = k /\ form = "image") => Shown(t, i)' = Shown(t, i)
    <3>1. \A e : e \in prompt'[t] <=> e \in prompt[t] \/ e = new
      BY <1>5
    <3> QED
      BY <1>2, <1>4, <3>1 DEF Shown
  <2>4. \A i : /\ i = k => Pending(t, i) = IdsOf(todo[t]) /\ Pending(t, i)' = IdsOf(Tail(todo[t]))
               /\ i # k => Pending(t, i) = {} /\ Pending(t, i)' = {}
    BY <1>4, <1>5, <1>8 DEF Pending
  <2>5. ASSUME NEW i \in k..n, Intact(t, i)
        PROVE  Shown(t, i)' = IF Sends(c, i, n) THEN ImagesOf(c, i) \ Pending(t, i)' ELSE {}
    <3>1. CASE i # k
      BY <2>2, <2>3, <2>4, <2>5, <3>1
    <3>2. CASE i = k
      <4>1. k <= n /\ a \in Range(msgs[c][k])
        <5>1. n \in Nat /\ k \in Nat
          BY <1>4 DEF ReplayInv, Shape
        <5>2. k <= n
          BY <3>2, <5>1
        <5> QED
          BY <1>7, <1>9, <5>2
      <4>2. a \in ImagesOf(c, k) <=> KindOf[data[a]] = "image"
        BY <4>1, ImagesAre
      <4>3. Shown(t, k) = IF Sends(c, k, n) THEN ImagesOf(c, k) \ IdsOf(todo[t]) ELSE {}
        BY <2>2, <2>4, <2>5, <3>2
      <4>4. showing[t] <=> Sends(c, k, n) /\ ImagesOf(c, k) # {}
        BY <2>2, <2>5, <3>2, <4>1
      <4>5. a \notin IdsOf(Tail(todo[t]))
        BY <1>7, <1>9, <4>1
      <4>6. CASE form = "image"
        <5>1. Sends(c, k, n) /\ a \in ImagesOf(c, k)
          BY <4>2, <4>4, <4>6
        <5>2. Shown(t, k)' = (ImagesOf(c, k) \ IdsOf(todo[t])) \cup {a}
          BY <2>3, <4>3, <4>6, <5>1
        <5>3. Shown(t, k)' = ImagesOf(c, k) \ IdsOf(Tail(todo[t]))
          BY <1>7, <4>5, <5>1, <5>2
        <5> QED
          BY <2>4, <3>2, <5>1, <5>3
      <4>7. CASE form # "image"
        <5>1. Shown(t, k)' = Shown(t, k)
          BY <2>3, <4>7
        <5>2. Sends(c, k, n) => a \notin ImagesOf(c, k)
          BY <4>2, <4>4, <4>7
        <5>3. Sends(c, k, n) => ImagesOf(c, k) \ IdsOf(todo[t]) = ImagesOf(c, k) \ IdsOf(Tail(todo[t]))
          BY <1>7, <5>2
        <5> QED
          BY <2>4, <3>2, <4>3, <5>1, <5>3
      <4> QED
        BY <4>6, <4>7
    <3> QED
      BY <3>1, <3>2
  <2>6. /\ Intact(t, k)' =>
             /\ turnsLeft'[t] = TurnsAfter(c, k, n)'
             /\ k <= n => (showing'[t] <=> Sends(c, k, n)' /\ ImagesOf(c, k)' # {})
        /\ \A i \in k..n : Intact(t, i)' =>
             Shown(t, i)' = IF Sends(c, i, n)' THEN ImagesOf(c, i)' \ Pending(t, i)' ELSE {}
    BY <1>5, <1>6, <2>1, <2>2, <2>5
  <2> QED
    BY <1>5, <2>6 DEF ImagesOK
<1>12. ReadyOK(t)'
  BY <1>5 DEF ReadyOK
<1> QED
  BY <1>1, <1>3, <1>10, <1>11, <1>12, StoresNothing, OneImageTurn DEF ImageTurn

LEMMA BlockImages ==
  ASSUME IInv, ReplayInv, ImageInv, NEW t \in Turn,
         DocumentBlock(t) \/ ImagePlaceholder(t) \/ LoadImage(t)
  PROVE  ImageInv'
<1>1. PICK a : a = Head(todo[t]).id
  OBVIOUS
<1>2. pc[t] = "building" /\ todo[t] # <<>>
  BY DEF DocumentBlock, ImagePlaceholder, LoadImage, NextIs
<1>3. \/ /\ KindOf[data[a]] # "image"
         /\ Emit(t, "text", Taken(left[t], LengthOf[data[a]])) \/ Emit(t, "unreadable", 0)
      \/ ~showing[t] /\ Emit(t, "placeholder", 0)
      \/ KindOf[data[a]] = "image" /\ showing[t] /\ Emit(t, "image", 0)
      \/ /\ pc' = [pc EXCEPT ![t] = "raised"]
         /\ UNCHANGED <<fileVars, conv, records, storeVars, requestVars>>
  BY <1>1 DEF DocumentBlock, ImagePlaceholder, LoadImage, NextIs
<1>4. ASSUME KindOf[data[a]] # "image",
             Emit(t, "text", Taken(left[t], LengthOf[data[a]])) \/ Emit(t, "unreadable", 0)
      PROVE  ImageInv'
  BY <1>1, <1>2, <1>4, EmitImages
<1>5. ASSUME ~showing[t], Emit(t, "placeholder", 0) PROVE ImageInv'
  BY <1>1, <1>2, <1>5, EmitImages
<1>6. ASSUME KindOf[data[a]] = "image", showing[t], Emit(t, "image", 0) PROVE ImageInv'
  BY <1>1, <1>2, <1>6, EmitImages
<1> QED
  BY <1>3, <1>4, <1>5, <1>6, RaiseImages

\* The next message takes one of the image turns if it has an image.
LEMMA TurnsTaken ==
  ASSUME NEW c, NEW n \in Nat, NEW i \in 1..n, ImageTurns \in Nat
  PROVE  /\ TurnsAfter(c, i + 1, n) > 0 <=> Sends(c, i, n)
         /\ TurnsAfter(c, i, n) = IF Refs(c, i, "image") # {} /\ Sends(c, i, n)
                                  THEN TurnsAfter(c, i + 1, n) - 1 ELSE TurnsAfter(c, i + 1, n)
<1> DEFINE W == WithImages(c, i + 1, n)
<1>1. \A k : k \in i..n <=> k = i \/ k \in (i + 1)..n
  OBVIOUS
<1>2. i \notin W /\ W \subseteq 1..n
  BY DEF WithImages
<1>3. WithImages(c, i, n) = IF Refs(c, i, "image") # {} THEN W \cup {i} ELSE W
  BY <1>1 DEF WithImages
<1> HIDE DEF W
<1>4. IsFiniteSet(W) /\ Cardinality(W) \in Nat
  <2>1. IsFiniteSet(1..n)
    BY FS_Interval
  <2> QED
    BY <1>2, <2>1, FS_Subset, FS_CardinalityType
<1>5. Cardinality(W \cup {i}) = Cardinality(W) + 1
  BY <1>2, <1>4, FS_AddElement
<1>6. PICK w \in Nat : w = Cardinality(W)
  BY <1>4
<1>7. TurnsAfter(c, i + 1, n) = IF Vision /\ w < ImageTurns THEN ImageTurns - w ELSE 0
  BY <1>6 DEF TurnsAfter, W
<1>8. Sends(c, i, n) <=> Vision /\ w < ImageTurns
  BY <1>6 DEF Sends, W
<1>9. CASE Refs(c, i, "image") # {}
  <2>1. TurnsAfter(c, i, n) = IF Vision /\ w + 1 < ImageTurns THEN ImageTurns - (w + 1) ELSE 0
    BY <1>3, <1>5, <1>6, <1>9 DEF TurnsAfter
  <2> QED
    BY <1>6, <1>7, <1>8, <1>9, <2>1
<1>10. CASE Refs(c, i, "image") = {}
  <2>1. TurnsAfter(c, i, n) = TurnsAfter(c, i + 1, n)
    BY <1>3, <1>10 DEF TurnsAfter, W
  <2> QED
    BY <1>6, <1>7, <1>8, <1>10, <2>1
<1> QED
  BY <1>9, <1>10

LEMMA HydrateImages ==
  ASSUME IInv, ReplayInv, ImageInv, NEW t \in Turn, Hydrate(t)
  PROVE  ImageInv'
<1>1. PICK c, n, k : c = conv[t] /\ n = prior[t] /\ k = at[t]
  OBVIOUS
<1>2. PICK found : found = GetMany(msgs[c][k - 1], UserOf(t))
  OBVIOUS
<1>3. PICK send \in BOOLEAN :
        send <=> (\E i \in DOMAIN found : KindOf[data[found[i].id]] = "image") /\ turnsLeft[t] > 0
  OBVIOUS
<1>4. /\ pc[t] = "building" /\ todo[t] = <<>> /\ at[t] > 1
      /\ at' = [at EXCEPT ![t] = @ - 1]
      /\ todo' = [todo EXCEPT ![t] = found]
      /\ showing' = [showing EXCEPT ![t] = send]
      /\ turnsLeft' = [turnsLeft EXCEPT ![t] = IF send THEN @ - 1 ELSE @]
      /\ UNCHANGED fileVars /\ UNCHANGED storeVars
      /\ UNCHANGED <<conv, pc, records, prior, left, missed, prompt>>
  BY <1>1, <1>2, <1>3 DEF Hydrate, GoOn
<1>5. c \in Conv /\ n \in Nat /\ k \in 1..(n + 1) /\ k > 1 /\ n <= Len(msgs[c])
  BY <1>1, <1>4 DEF ReplayInv, Shape, TurnInv, TurnOK, ImageInv, ImageTurn, PlaceOK
<1>6. PICK i \in 1..n : i = k - 1 /\ i + 1 = k
  BY <1>5
<1>7. i \in DOMAIN msgs[c] /\ msgs[c][i] \in Seq(Upload)
  <2>1. msgs[c] \in Seq(Seq(Upload)) /\ DOMAIN msgs[c] = 1 .. Len(msgs[c]) /\ Len(msgs[c]) \in Nat
    BY <1>5 DEF ReplayInv, Shape
  <2>2. i \in DOMAIN msgs[c]
    BY <1>5, <2>1
  <2> QED
    BY <2>1, <2>2
<1>8. IsInjective(msgs[c][i]) /\ \A a \in Range(msgs[c][i]) : by[a] = OwnerOf[c] /\ a \in Settled
  BY <1>5, <1>7 DEF ImageInv, MsgInv, ReplayInv, RefInv, Mentioned
<1>9. /\ Distinct(found)
      /\ \A a : a \in IdsOf(found) <=> a \in Range(msgs[c][i]) /\ a \in Owned(OwnerOf[c])
  <2>1. found = GetMany(msgs[c][i], OwnerOf[c])
    BY <1>1, <1>2, <1>6 DEF UserOf
  <2> QED
    BY <1>7, <1>8, <2>1, FoundAreAll
<1>10. /\ pc'[t] = "building" /\ conv'[t] = c /\ prior'[t] = n /\ at'[t] = i /\ todo'[t] = found
       /\ showing'[t] = send /\ turnsLeft'[t] = IF send THEN turnsLeft[t] - 1 ELSE turnsLeft[t]
       /\ prompt'[t] = prompt[t] /\ missed'[t] = missed[t] /\ msgs' = msgs /\ status' = status
  BY <1>1, <1>4, <1>6 DEF ReplayInv, Shape, storeVars, fileVars
<1>11. /\ \A j : ImagesOf(c, j)' = ImagesOf(c, j)
       /\ \A j : TurnsAfter(c, j, n)' = TurnsAfter(c, j, n) /\ (Sends(c, j, n)' <=> Sends(c, j, n))
  BY <1>4, StoresNothing
<1>12. \A u \in Turn : u # t => Rests(u)
  BY <1>4 DEF ReplayInv, Shape, Rests
<1>13. PlaceOK(t)'
  <2>1. Distinct(todo[t])' /\ IdsOf(todo[t])' = IdsOf(found)
    BY <1>9, <1>10 DEF Distinct, IdsOf
  <2>2. IdsOf(found) \subseteq Range(msgs[c][i])
    BY <1>9
  <2>3. i \in 1..(n + 1)
    BY <1>5
  <2>4. \A e \in prompt[t] : e.form = "image" => e.chars = 0
    BY DEF ImageInv, ImageTurn, PlaceOK
  <2> QED
    BY <1>5, <1>10, <2>1, <2>2, <2>3, <2>4 DEF PlaceOK
<1>14. /\ \A j : Intact(t, j)' <=> Intact(t, j)
       /\ \A j : Shown(t, j)' = Shown(t, j)
       /\ \A j : j # i => Pending(t, j)' = {}
       /\ Pending(t, i)' = IdsOf(found)
  BY <1>1, <1>10, <1>11 DEF Intact, Shown, Pending, IdsOf
<1>15. /\ Intact(t, k) => turnsLeft[t] = TurnsAfter(c, k, n)
       /\ \A j \in k..n : Intact(t, j) =>
            Shown(t, j) = IF Sends(c, j, n) THEN ImagesOf(c, j) ELSE {}
  <2>1. \A j : Pending(t, j) = {}
    BY <1>4 DEF Pending, IdsOf
  <2> QED
    BY <1>1, <1>4, <2>1 DEF ImageInv, ImageTurn, ImagesOK
<1>16. ASSUME Intact(t, i)
       PROVE  /\ turnsLeft'[t] = TurnsAfter(c, i, n)
              /\ send <=> Sends(c, i, n) /\ ImagesOf(c, i) # {}
              /\ Shown(t, i)' = IF Sends(c, i, n) THEN ImagesOf(c, i) \ Pending(t, i)' ELSE {}
  <2>1. Intact(t, k)
    <3>1. missed[t] < k /\ \A j \in k..n : j \in i..n
      BY <1>5, <1>6, <1>16 DEF Intact, ReplayInv, Shape
    <3> QED
      BY <1>1, <1>16, <3>1 DEF Intact
  <2>2. turnsLeft[t] = TurnsAfter(c, k, n)
    BY <1>15, <2>1
  <2>3. ImagesOf(c, i) \subseteq IdsOf(found)
    <3> SUFFICES ASSUME NEW a \in ImagesOf(c, i) PROVE a \in IdsOf(found)
      OBVIOUS
    <3>1. a \in Range(msgs[c][i]) /\ status[a] # "deleted"
      BY <1>1, <1>5, <1>6, <1>16, ImagesAre DEF Intact
    <3>2. a \in Owned(OwnerOf[c])
      BY <1>8, <3>1 DEF Settled, Owned, Kept
    <3> QED
      BY <1>9, <3>1, <3>2
  <2>4. (\E j \in DOMAIN found : KindOf[data[found[j].id]] = "image") <=> ImagesOf(c, i) # {}
    <3>1. ASSUME NEW j \in DOMAIN found, KindOf[data[found[j].id]] = "image"
          PROVE  found[j].id \in ImagesOf(c, i)
      <4>1. found[j].id \in IdsOf(found)
        BY DEF IdsOf
      <4> QED
        BY <1>9, <3>1, <4>1, ImagesAre
    <3>2. ASSUME NEW a \in ImagesOf(c, i)
          PROVE  \E j \in DOMAIN found : KindOf[data[found[j].id]] = "image"
      <4>1. PICK j \in DOMAIN found : found[j].id = a
        BY <2>3 DEF IdsOf
      <4> QED
        BY <4>1, ImagesAre
    <3> QED
      BY <3>1, <3>2
  <2>5. /\ turnsLeft[t] > 0 <=> Sends(c, i, n)
        /\ TurnsAfter(c, i, n) = IF ImagesOf(c, i) # {} /\ Sends(c, i, n)
                                 THEN turnsLeft[t] - 1 ELSE turnsLeft[t]
    <3>1. ImageTurns \in Nat
      BY ReplayAssumption
    <3>2. ImagesOf(c, i) # {} <=> Refs(c, i, "image") # {}
      BY ImagesAre
    <3> QED
      BY <1>5, <1>6, <2>2, <3>1, <3>2, TurnsTaken
  <2>6. send <=> Sends(c, i, n) /\ ImagesOf(c, i) # {}
    BY <1>3, <2>4, <2>5
  <2>7. turnsLeft'[t] = TurnsAfter(c, i, n)
    BY <1>10, <2>5, <2>6
  <2>8. Shown(t, i) = {}
    <3>1. \A e \in prompt[t] : e.msg \in Nat /\ e.msg >= k
      BY <1>1 DEF ReplayInv, Shape, Elements, TextInv, TextOK
    <3>2. \A e \in prompt[t] : e.msg # i
      BY <1>5, <1>6, <3>1
    <3> QED
      BY <3>2 DEF Shown
  <2>9. ImagesOf(c, i) \ Pending(t, i)' = {}
    BY <1>14, <2>3
  <2> QED
    BY <1>14, <2>6, <2>7, <2>8, <2>9
<1>17. ImagesOK(t)'
  <2>1. ASSUME NEW j \in i..n, Intact(t, j)'
        PROVE  Shown(t, j)' = IF Sends(c, j, n) THEN ImagesOf(c, j) \ Pending(t, j)' ELSE {}
    <3>1. j = i \/ (j \in k..n /\ j # i)
      BY <1>6
    <3> QED
      BY <1>14, <1>15, <1>16, <2>1, <3>1
  <2> QED
    BY <1>10, <1>11, <1>16, <1>14, <2>1 DEF ImagesOK
<1>18. ReadyOK(t)'
  BY <1>10 DEF ReadyOK
<1> QED
  BY <1>4, <1>12, <1>13, <1>17, <1>18, StoresNothing, OneImageTurn DEF ImageTurn

\* A failed look-up disturbs that message and the older ones.
LEMMA HydrateFailsImages ==
  ASSUME IInv, ReplayInv, ImageInv, NEW t \in Turn, HydrateFails(t)
  PROVE  ImageInv'
<1>1. PICK c, n, k : c = conv[t] /\ n = prior[t] /\ k = at[t]
  OBVIOUS
<1>2. /\ pc[t] = "building" /\ todo[t] = <<>> /\ at[t] > 1
      /\ at' = [at EXCEPT ![t] = @ - 1]
      /\ missed' = [missed EXCEPT ![t] = IF @ < at[t] - 1 THEN at[t] - 1 ELSE @]
      /\ UNCHANGED fileVars /\ UNCHANGED storeVars
      /\ UNCHANGED <<conv, pc, records, prior, todo, showing, left, turnsLeft, prompt>>
  BY DEF HydrateFails, GoOn
<1>3. c \in Conv /\ n \in Nat /\ k \in 1..(n + 1) /\ k > 1 /\ n <= Len(msgs[c]) /\ missed[t] \in Nat
  BY <1>1, <1>2 DEF ReplayInv, Shape, TurnInv, TurnOK, ImageInv, ImageTurn, PlaceOK
<1>4. PICK i \in 1..n : i = k - 1 /\ i + 1 = k
  BY <1>3
<1>5. /\ pc'[t] = "building" /\ conv'[t] = c /\ prior'[t] = n /\ at'[t] = i /\ todo'[t] = <<>>
      /\ turnsLeft'[t] = turnsLeft[t] /\ prompt'[t] = prompt[t] /\ msgs' = msgs /\ status' = status
      /\ missed'[t] = IF missed[t] < i THEN i ELSE missed[t]
  BY <1>1, <1>2, <1>4 DEF ReplayInv, Shape, storeVars, fileVars
<1>6. \A j : ImagesOf(c, j)' = ImagesOf(c, j) /\ (Sends(c, j, n)' <=> Sends(c, j, n))
  BY <1>2, StoresNothing
<1>7. \A u \in Turn : u # t => Rests(u)
  BY <1>2 DEF ReplayInv, Shape, Rests
<1>8. PlaceOK(t)'
  <2>1. Distinct(todo[t])' /\ IdsOf(todo[t])' = {}
    BY <1>5 DEF Distinct, IdsOf
  <2>2. i \in 1..(n + 1)
    BY <1>3
  <2>3. \A e \in prompt[t] : e.form = "image" => e.chars = 0
    BY DEF ImageInv, ImageTurn, PlaceOK
  <2> QED
    BY <1>3, <1>5, <2>1, <2>2, <2>3 DEF PlaceOK
<1>9. ImagesOK(t)'
  <2>1. ~Intact(t, i)'
    BY <1>3, <1>5 DEF Intact
  <2>2. ASSUME NEW j \in i..n, Intact(t, j)'
        PROVE  Shown(t, j)' = IF Sends(c, j, n) THEN ImagesOf(c, j) \ Pending(t, j)' ELSE {}
    <3>1. j \in k..n
      BY <1>4, <2>1, <2>2
    <3>2. Intact(t, j)
      <4>1. missed[t] < j
        BY <1>3, <1>5, <2>2 DEF Intact
      <4> QED
        BY <1>1, <1>5, <1>6, <2>2, <4>1 DEF Intact
    <3>3. /\ Shown(t, j)' = Shown(t, j)
          /\ Pending(t, j) = {} /\ Pending(t, j)' = {}
      BY <1>2, <1>5 DEF Shown, Pending, IdsOf
    <3>4. Shown(t, j) = IF Sends(c, j, n) THEN ImagesOf(c, j) \ Pending(t, j) ELSE {}
      BY <1>1, <1>2, <3>1, <3>2 DEF ImageInv, ImageTurn, ImagesOK
    <3> QED
      BY <3>3, <3>4
  <2> QED
    BY <1>5, <1>6, <2>1, <2>2 DEF ImagesOK
<1>10. ReadyOK(t)'
  BY <1>5 DEF ReadyOK
<1> QED
  BY <1>2, <1>7, <1>8, <1>9, <1>10, StoresNothing, OneImageTurn DEF ImageTurn

LEMMA PersistImages ==
  ASSUME IInv, ReplayInv, ImageInv, NEW t \in Turn, Persist(t)
  PROVE  KeepFiles /\ AddMessages /\ ImageInv'
<1> DEFINE ids == [i \in DOMAIN records[t] |-> records[t][i].id]
<1>1. PICK c, n : c = conv[t] /\ n = prior[t]
  OBVIOUS
<1>2. /\ pc[t] = "fetched" \/ (pc[t] = "resolved" /\ msgs[c] = <<>>)
      /\ msgs' = [msgs EXCEPT ![c] = Append(@, ids)]
      /\ at' = [at EXCEPT ![t] = prior[t] + 1]
      /\ todo' = [todo EXCEPT ![t] = records[t]]
      /\ showing' = [showing EXCEPT ![t] = Vision]
      /\ pc' = [pc EXCEPT ![t] = "building"]
      /\ UNCHANGED fileVars /\ UNCHANGED <<conv, records, prior, left, turnsLeft, missed, prompt>>
  BY <1>1 DEF Persist
<1>3. c \in Conv /\ prompt[t] = {} /\ n \in Nat /\ (n = 0 \/ n <= Len(msgs[c]))
  BY <1>1, <1>2 DEF ReplayInv, Shape, TurnInv, TurnOK, TextInv, TextOK
<1>4. /\ IsInjective(ids) /\ \A a \in Range(ids) : by[a] = OwnerOf[c]
  <2>1. /\ Distinct(records[t])
        /\ \A k \in DOMAIN records[t] : by[records[t][k].id] = OwnerOf[c]
    BY <1>1, <1>2 DEF ImageInv, ImageTurn, ReadyOK
  <2> QED
    BY <2>1 DEF Distinct, IsInjective, Range
<1> HIDE DEF ids
<1>5. \A d \in Conv : /\ Len(msgs[d]) \in Nat /\ DOMAIN msgs[d] = 1 .. Len(msgs[d])
                      /\ msgs[d] \in Seq(Seq(Upload))
  BY DEF ReplayInv, Shape
<1>6. /\ Len(msgs'[c]) = Len(msgs[c]) + 1 /\ DOMAIN msgs'[c] = 1 .. (Len(msgs[c]) + 1)
      /\ msgs'[c][Len(msgs[c]) + 1] = ids
      /\ \A i \in DOMAIN msgs[c] : msgs'[c][i] = msgs[c][i]
      /\ \A d \in Conv : d # c => msgs'[d] = msgs[d]
  <2>1. msgs'[c] = Append(msgs[c], ids) /\ \A d \in Conv : d # c => msgs'[d] = msgs[d]
    BY <1>2, <1>3 DEF ReplayInv, Shape
  <2>2. msgs[c] \in Seq(Seq(Upload)) /\ Len(msgs[c]) \in Nat
    BY <1>3, <1>5
  <2> QED
    BY <2>1, <2>2
<1>7. AddMessages
  <2> SUFFICES ASSUME NEW d \in Conv
               PROVE  /\ Len(msgs'[d]) \in Nat
                      /\ Len(msgs[d]) <= Len(msgs'[d])
                      /\ \A i \in DOMAIN msgs[d] : i \in DOMAIN msgs'[d] /\ msgs'[d][i] = msgs[d][i]
    BY DEF AddMessages
  <2>1. CASE d = c
    BY <1>5, <1>6, <2>1
  <2>2. CASE d # c
    BY <1>5, <1>6, <2>2
  <2> QED
    BY <2>1, <2>2
<1>8. KeepFiles
  BY <1>2 DEF KeepFiles, fileVars, uploadVars
<1>9. MsgInv'
  <2>1. by' = by
    BY <1>2 DEF fileVars, uploadVars
  <2> SUFFICES ASSUME NEW d \in Conv, NEW i \in DOMAIN msgs'[d]
               PROVE  /\ IsInjective(msgs'[d][i])
                      /\ \A a \in Range(msgs'[d][i]) : by[a] = OwnerOf[d]
    BY <2>1 DEF MsgInv
  <2>2. CASE i \in DOMAIN msgs[d]
    <3>1. msgs'[d][i] = msgs[d][i]
      BY <2>2, <1>7 DEF AddMessages
    <3> QED
      BY <2>2, <3>1 DEF ImageInv, MsgInv
  <2>3. CASE i \notin DOMAIN msgs[d]
    <3>1. d = c
      BY <1>6, <2>3
    <3>2. i = Len(msgs[c]) + 1
      BY <1>3, <1>5, <1>6, <2>3, <3>1
    <3> QED
      BY <1>4, <1>6, <3>1, <3>2
  <2> QED
    BY <2>2, <2>3
<1>10. \A u \in Turn : u # t => Rests(u)
  BY <1>2 DEF ReplayInv, Shape, Rests
<1>11. /\ pc'[t] = "building" /\ conv'[t] = c /\ prior'[t] = n /\ at'[t] = n + 1
       /\ turnsLeft'[t] = turnsLeft[t] /\ prompt'[t] = {}
  BY <1>1, <1>2, <1>3 DEF ReplayInv, Shape
<1>12. n <= Len(msgs'[c]) /\ n + 1 \in 1..(n + 1) /\ ~(n + 1 <= n)
  BY <1>3, <1>5, <1>6
<1>13. PlaceOK(t)'
  BY <1>11, <1>12 DEF PlaceOK
<1>14. ImagesOK(t)'
  <2>1. turnsLeft[t] = IF Vision THEN ImageTurns ELSE 0
    BY <1>2 DEF ImageInv, ImageTurn, ImagesOK
  <2>2. WithImages(c, n + 1, n)' = {}
    <3>1. (n + 1)..n = {}
      BY <1>3
    <3> QED
      BY <3>1 DEF WithImages
  <2>3. TurnsAfter(c, n + 1, n)' = IF Vision THEN ImageTurns ELSE 0
    <3>1. Cardinality({}) = 0 /\ ImageTurns \in Nat
      BY FS_EmptySet, ReplayAssumption
    <3>2. TurnsAfter(c, n + 1, n)' = IF Vision /\ 0 < ImageTurns THEN ImageTurns - 0 ELSE 0
      BY <2>2, <3>1 DEF TurnsAfter
    <3> QED
      BY <3>1, <3>2
  <2>4. (n + 1)..n = {}
    BY <1>3
  <2> QED
    BY <1>11, <1>12, <2>1, <2>3, <2>4 DEF ImagesOK
<1>15. ReadyOK(t)'
  BY <1>11 DEF ReadyOK
<1> QED
  BY <1>7, <1>8, <1>9, <1>10, <1>13, <1>14, <1>15, OneImageTurn DEF ImageTurn

LEMMA InitImages == Init => ImageInv
<1> SUFFICES ASSUME Init PROVE ImageInv
  OBVIOUS
<1>1. msgs = Said /\ by = [u \in Upload |-> IF u \in Earlier THEN Sent(u)[1] ELSE None]
  BY DEF Init, FilesInit
<1>2. ASSUME NEW c \in Conv, NEW i \in DOMAIN Said[c], NEW a \in Range(Said[c][i])
      PROVE  by[a] = OwnerOf[c]
  <2>1. a \in Earlier
    <3>1. Said[c] \in Seq(Seq(Earlier))
      BY ReplayAssumption
    <3>2. Said[c][i] \in Seq(Earlier)
      BY <3>1
    <3> QED
      BY <3>2 DEF Range
  <2>2. a \in Upload /\ Sent(a) \in Offers[a]
    BY <2>1, AttachmentsAssumption DEF Sent
  <2>3. Sent(a)[1] = OwnerOf[c]
    BY <2>2, ReplayAssumption
  <2> QED
    BY <1>1, <2>1, <2>2, <2>3
<1>3. MsgInv
  BY <1>1, <1>2, ReplayAssumption DEF MsgInv
<1>4. \A t \in Turn : /\ pc[t] = "idle" /\ prompt[t] = {}
                      /\ turnsLeft[t] = IF Vision THEN ImageTurns ELSE 0
  BY DEF Init
<1>5. \A t \in Turn : ImageTurn(t)
  BY <1>4 DEF ImageTurn, ReadyOK, PlaceOK, ImagesOK
<1> QED
  BY <1>3, <1>5 DEF ImageInv

\* Uploads, deletes and restarts.
LEMMA FilesImages ==
  ASSUME IInv, ReplayInv, ImageInv, QuietStep \/ \E d \in Removal : DeleteRecord(d),
         StillRequests
  PROVE  ImageInv'
<1>1. KeepFiles
  BY FilesAreKept
<1>2. msgs' = msgs
  BY DEF StillRequests
<1>3. AddMessages
  <2>1. \A c \in Conv : Len(msgs[c]) \in Nat
    BY DEF ReplayInv, Shape
  <2> QED
    BY <1>2, <2>1 DEF AddMessages
<1>4. MsgInv'
  <2> SUFFICES ASSUME NEW c \in Conv, NEW i \in DOMAIN msgs[c], NEW a \in Range(msgs[c][i])
               PROVE  by'[a] = OwnerOf[c]
    BY <1>2 DEF MsgInv, ImageInv
  <2>1. a \in Settled
    BY DEF ReplayInv, RefInv, Mentioned
  <2> QED
    BY <1>1, <2>1 DEF KeepFiles, ImageInv, MsgInv
<1>5. \A t \in Turn : Rests(t)
  BY DEF StillRequests, Halted, requestVars, Rests
<1>6. \A t \in Turn : ImageTurn(t)'
  BY <1>1, <1>3, <1>5, RestingTurn DEF ImageInv
<1> QED
  BY <1>4, <1>6 DEF ImageInv

LEMMA ImageStep == IInv /\ ReplayInv /\ ImageInv /\ [Next]_vars => ImageInv'
<1> SUFFICES ASSUME IInv, ReplayInv, ImageInv, [Next]_vars PROVE ImageInv'
  OBVIOUS
<1>1. ASSUME UNCHANGED turnVars, QuietStep PROVE ImageInv'
  <2>1. StillRequests
    BY <1>1 DEF turnVars, storeVars, ReplayInv, Shape, StillRequests, Halted
  <2> QED
    BY <1>1, <2>1, FilesImages
<1>2. CASE UNCHANGED vars
  BY <1>1, <1>2 DEF vars, QuietStep
<1>3. ASSUME NEW u \in Upload, UploadStep(u), UNCHANGED turnVars PROVE ImageInv'
  BY <1>1, <1>3 DEF QuietStep
<1>4. ASSUME NEW d \in Removal, DeleteRecord(d), Cascade(which[d]) PROVE ImageInv'
  <2>1. StillRequests
    BY <1>4 DEF ReplayInv, Shape, StillRequests, Halted, Cascade
  <2> QED
    BY <1>4, <2>1, FilesImages
<1>5. ASSUME NEW d \in Removal, RemoveStep(d) PROVE ImageInv'
  BY <1>1, <1>4, <1>5 DEF RemoveStep, QuietStep
<1>6. ASSUME NEW t \in Turn, TurnStep(t) PROVE ImageInv'
  BY <1>6, ResolveImages, FetchPriorImages, PersistImages, BlockImages, HydrateImages,
     HydrateFailsImages, AskImages DEF TurnStep
<1>7. CASE Restart
  <2>1. StillRequests /\ QuietStep
    BY <1>7 DEF Restart, storeVars, ReplayInv, Shape, Stages, StillRequests, Halted, QuietStep
  <2> QED
    BY <2>1, FilesImages
<1> QED
  BY <1>2, <1>3, <1>5, <1>6, <1>7 DEF Next

\* The elements of a request that are images of one message are as many as
\* the references that are shown.
LEMMA ImagesCounted ==
  ASSUME ReplayInv, ImageInv, NEW t \in Turn, NEW c \in Conv, NEW i \in DOMAIN msgs[c],
         NEW E, E = {e \in prompt[t] : e.msg = i /\ e.form = "image"},
         Shown(t, i) = ImagesOf(c, i)
  PROVE  Cardinality(E) = Cardinality(Refs(c, i, "image"))
<1> DEFINE R == Refs(c, i, "image")
           element(a) == [msg |-> i, id |-> a, form |-> "image", chars |-> 0]
           f == [j \in R |-> element(msgs[c][i][j])]
<1>1. R \subseteq DOMAIN msgs[c][i] /\ IsFiniteSet(R)
  <2>1. msgs[c][i] \in Seq(Upload)
    BY DEF ReplayInv, Shape
  <2>2. IsFiniteSet(1 .. Len(msgs[c][i])) /\ DOMAIN msgs[c][i] = 1 .. Len(msgs[c][i])
    BY <2>1, FS_Interval
  <2>3. R \subseteq DOMAIN msgs[c][i]
    BY DEF Refs
  <2> QED
    BY <2>2, <2>3, FS_Subset
<1>2. ASSUME NEW e \in E PROVE e = element(e.id) /\ e.id \in ImagesOf(c, i)
  <2>1. e \in Elements /\ e.msg = i /\ e.form = "image" /\ e.chars = 0
    BY DEF ReplayInv, Shape, ImageInv, ImageTurn, PlaceOK
  <2>2. e.id \in Shown(t, i)
    BY DEF Shown
  <2> QED
    BY <2>1, <2>2 DEF Elements
<1>3. ASSUME NEW a \in ImagesOf(c, i) PROVE element(a) \in E
  <2>1. a \in Shown(t, i)
    BY <1>3
  <2>2. PICK e \in E : e.id = a
    BY <2>1 DEF Shown
  <2> QED
    BY <1>2, <2>2
<1>4. \A a : element(a).id = a
  OBVIOUS
<1> HIDE DEF element
<1>5. f \in [R -> E]
  <2>1. \A j \in R : msgs[c][i][j] \in ImagesOf(c, i)
    BY DEF ImagesOf
  <2> QED
    BY <1>3, <2>1
<1>6. \A j, k \in R : f[j] = f[k] => j = k
  <2> SUFFICES ASSUME NEW j \in R, NEW k \in R, f[j] = f[k] PROVE j = k
    OBVIOUS
  <2>1. msgs[c][i][j] = msgs[c][i][k]
    BY <1>4
  <2> QED
    BY <1>1, <2>1 DEF ImageInv, MsgInv, IsInjective
<1>7. \A e \in E : \E j \in R : f[j] = e
  <2> SUFFICES ASSUME NEW e \in E PROVE \E j \in R : f[j] = e
    OBVIOUS
  <2>1. PICK j \in R : msgs[c][i][j] = e.id
    BY <1>2 DEF ImagesOf
  <2> QED
    BY <1>2, <2>1
<1> HIDE DEF f
<1>8. f \in Bijection(R, E)
  BY <1>5, <1>6, <1>7 DEF Bijection, Injection, Surjection, IsInjective
<1>9. ExistsBijection(R, E)
  BY <1>8 DEF ExistsBijection
<1> QED
  BY <1>1, <1>9, FS_Bijection

\* "Images are priced exactly" (estimate.py): for any history, any number of
\* image turns and whatever else happens meanwhile, a request sends of each
\* earlier message the images that the estimate charges for it, unless for
\* that message or a newer one the look-up failed or an image was deleted.
THEOREM ImagesArePriced == Spec => []ImagesPricedExactly
<1>1. ReplayInv /\ ImageInv => ImagesPricedExactly
  <2> SUFFICES ASSUME ReplayInv, ImageInv, NEW t \in Turn, pc[t] = "asked",
                      NEW c, c = conv[t], NEW n, n = prior[t],
                      NEW i \in 1..n, missed[t] < i,
                      ~ \E k \in i..n : \E j \in Refs(c, k, "image") : status[msgs[c][k][j]] = "deleted"
               PROVE  Cardinality({e \in prompt[t] : e.msg = i /\ e.form = "image"})
                        = PricedImages(c, i, n)
    BY DEF ImagesPricedExactly
  <2> DEFINE E == {e \in prompt[t] : e.msg = i /\ e.form = "image"}
  <2>1. c \in Conv /\ n \in Nat /\ n <= Len(msgs[c]) /\ at[t] = 1 /\ todo[t] = <<>>
    BY DEF ReplayInv, Shape, TurnInv, TurnOK, ImageInv, ImageTurn, PlaceOK
  <2>2. i \in DOMAIN msgs[c] /\ i \in at[t]..n
    <3>1. msgs[c] \in Seq(Seq(Upload))
      BY <2>1 DEF ReplayInv, Shape
    <3>2. DOMAIN msgs[c] = 1 .. Len(msgs[c]) /\ Len(msgs[c]) \in Nat
      BY <3>1
    <3> QED
      BY <2>1, <3>2
  <2>3. Intact(t, i)
    BY DEF Intact, ImagesOf
  <2>4. Pending(t, i) = {}
    BY <2>1 DEF Pending, IdsOf
  <2>5. Shown(t, i) = IF Sends(c, i, n) THEN ImagesOf(c, i) ELSE {}
    BY <2>2, <2>3, <2>4 DEF ImageInv, ImageTurn, ImagesOK
  <2>6. PricedImages(c, i, n) = IF Sends(c, i, n) THEN Cardinality(Refs(c, i, "image")) ELSE 0
    BY DEF PricedImages, Sends, WithImages
  <2>7. CASE Sends(c, i, n)
    <3>1. Cardinality(E) = Cardinality(Refs(c, i, "image"))
      BY <2>1, <2>2, <2>5, <2>7, ImagesCounted
    <3> QED
      BY <2>6, <2>7, <3>1
  <2>8. CASE ~Sends(c, i, n)
    <3>1. E = {}
      BY <2>5, <2>8 DEF Shown
    <3>2. Cardinality(E) = 0
      BY <3>1, FS_EmptySet
    <3> QED
      BY <2>6, <2>8, <3>2
  <2> QED
    BY <2>7, <2>8
<1>2. Init => ImageInv
  BY InitImages
<1>3. IInv /\ ReplayInv /\ ImageInv /\ [Next]_vars => ImageInv'
  BY ImageStep
<1> QED
  BY <1>1, <1>2, <1>3, Invariance, ReplayInvariance, PTL DEF Spec

-----------------------------------------------------------------------------
(***************************************************************************)
(* Sums over a finite set of elements, whatever the order of summation.    *)
(***************************************************************************)

\* The element that the sum of a set takes first.
Pick(s) == CHOOSE x \in s : TRUE

\* f sums the characters of each subset of S.
Adds(f, S) ==
  f = [s \in SUBSET S |->
         IF s = {} THEN 0 ELSE Pick(s).chars + f[s \ {Pick(s)}]]

\* The characters of a set of elements together.
CharsOf(S) == (CHOOSE f : Adds(f, S))[S]

LEMMA SumIsCharsOf ==
  ASSUME NEW S
  PROVE  MapThenSumSet(LAMBDA e : e.chars, S) = CharsOf(S)
BY DEF MapThenSumSet, MapThenFoldSet, CharsOf, Adds, Pick

\* Of the subsets of a finite set with some property there is one that has no
\* smaller one in it.
LEMMA Smallest ==
  ASSUME NEW S, IsFiniteSet(S), NEW F \in SUBSET SUBSET S, F # {}
  PROVE  \E s \in F : \A r \in SUBSET s : r # s => r \notin F
<1> DEFINE Sizes == {n \in Nat : \E s \in F : Cardinality(s) = n}
<1>1. \A s \in F : s \in SUBSET S /\ IsFiniteSet(s) /\ Cardinality(s) \in Nat
  BY FS_Subset, FS_CardinalityType
<1>2. Sizes \subseteq Nat /\ Sizes # {}
  BY <1>1
<1>3. PICK m \in Sizes : \A n \in Sizes : m <= n
  <2> HIDE DEF Sizes
  <2> QED
    BY <1>2, Least
<1>4. PICK s \in F : Cardinality(s) = m
  BY <1>3
<1>5. ASSUME NEW r \in SUBSET s, r # s, r \in F PROVE FALSE
  <2>1. Cardinality(r) <= m /\ Cardinality(r) # m
    BY <1>1, <1>4, <1>5, FS_Subset
  <2>2. Cardinality(r) \in Sizes
    BY <1>1, <1>5
  <2>3. m \in Nat /\ Cardinality(r) \in Nat
    BY <1>1, <1>3, <1>5
  <2> QED
    BY <1>3, <2>1, <2>2, <2>3
<1> QED
  BY <1>4, <1>5

LEMMA PickIs ==
  ASSUME NEW s, s # {}
  PROVE  Pick(s) \in s /\ s \ {Pick(s)} \in SUBSET s /\ s \ {Pick(s)} # s
BY DEF Pick

LEMMA AddsAll ==
  ASSUME NEW S, NEW f, Adds(f, S), NEW s \in SUBSET S
  PROVE  /\ s = {} => f[s] = 0
         /\ s # {} => f[s] = Pick(s).chars + f[s \ {Pick(s)}]
BY DEF Adds

\* Two ways to sum agree on the subsets that they share.
LEMMA AddsAgree ==
  ASSUME NEW S, IsFiniteSet(S), NEW T, NEW f, Adds(f, S), NEW g, Adds(g, T),
         NEW r \in SUBSET S, r \in SUBSET T
  PROVE  f[r] = g[r]
<1> DEFINE F == {s \in SUBSET S : s \in SUBSET T /\ f[s] # g[s]}
<1>1. CASE F = {}
  BY <1>1
<1>2. CASE F # {}
  <2>1. F \in SUBSET SUBSET S
    OBVIOUS
  <2> HIDE DEF F
  <2>2. PICK s \in F : \A q \in SUBSET s : q # s => q \notin F
    BY <1>2, <2>1, Smallest
  <2>3. s \in SUBSET S /\ s \in SUBSET T /\ f[s] # g[s]
    BY <2>2 DEF F
  <2>4. s # {}
    BY <2>3, AddsAll
  <2>5. s \ {Pick(s)} \notin F
    BY <2>2, <2>4, PickIs
  <2>6. f[s \ {Pick(s)}] = g[s \ {Pick(s)}]
    BY <2>3, <2>4, <2>5, PickIs DEF F
  <2>7. f[s] = Pick(s).chars + f[s \ {Pick(s)}] /\ g[s] = Pick(s).chars + g[s \ {Pick(s)}]
    BY <2>3, <2>4, AddsAll
  <2> QED
    BY <2>3, <2>6, <2>7
<1> QED
  BY <1>1, <1>2

\* There is a sum of each finite set.
LEMMA AddsExists ==
  ASSUME NEW S, IsFiniteSet(S)
  PROVE  \E f : Adds(f, S)
<1> DEFINE F == {s \in SUBSET S : ~ \E f : Adds(f, s)}
<1> SUFFICES ASSUME F # {} PROVE FALSE
  BY DEF F
<1>1. F \in SUBSET SUBSET S
  OBVIOUS
<1> HIDE DEF F
<1>2. PICK s \in F : \A q \in SUBSET s : q # s => q \notin F
  BY <1>1, Smallest
<1>3. s \in SUBSET S /\ (\A f : ~Adds(f, s)) /\ IsFiniteSet(s)
  BY <1>2, FS_Subset DEF F
<1>4. \A q \in SUBSET s : q # s => \E f : Adds(f, q)
  BY <1>2, <1>3 DEF F
<1> DEFINE sum(q) == CHOOSE f : Adds(f, q)
<1>5. \A q \in SUBSET s : q # s => Adds(sum(q), q)
  BY <1>4
<1> HIDE DEF sum
<1> DEFINE all == [r \in SUBSET s |-> IF r = {} THEN 0
                                      ELSE Pick(r).chars + sum(r \ {Pick(r)})[r \ {Pick(r)}]]
<1>6. ASSUME NEW r \in SUBSET s, r # {}
      PROVE  all[r \ {Pick(r)}] = sum(r \ {Pick(r)})[r \ {Pick(r)}]
  <2>1. PICK q : q = r \ {Pick(r)}
    OBVIOUS
  <2>2. q \in SUBSET s /\ q # s /\ IsFiniteSet(q)
    BY <1>3, <1>6, <2>1, PickIs, FS_Subset
  <2>3. Adds(sum(q), q)
    BY <1>5, <2>2
  <2>4. CASE q = {}
    <3>1. all[q] = 0 /\ sum(q)[q] = 0
      BY <2>2, <2>3, <2>4, AddsAll
    <3> QED
      BY <2>1, <3>1
  <2>5. CASE q # {}
    <3>1. PICK p : p = q \ {Pick(q)}
      OBVIOUS
    <3>2. p \in SUBSET q /\ p \in SUBSET s /\ p # s /\ IsFiniteSet(p)
      BY <2>2, <2>5, <3>1, PickIs, FS_Subset
    <3>3. Adds(sum(p), p)
      BY <1>5, <3>2
    <3>4. sum(p)[p] = sum(q)[p]
      BY <2>2, <2>3, <3>2, <3>3, AddsAgree
    <3>5. sum(q)[q] = Pick(q).chars + sum(q)[p]
      BY <2>2, <2>3, <2>5, <3>1, AddsAll
    <3>6. all[q] = Pick(q).chars + sum(p)[p]
      BY <2>2, <2>5, <3>1
    <3> QED
      BY <2>1, <3>4, <3>5, <3>6
  <2> QED
    BY <2>4, <2>5
<1>7. Adds(all, s)
  <2>1. all = [r \in SUBSET s |-> IF r = {} THEN 0
                                  ELSE Pick(r).chars + all[r \ {Pick(r)}]]
    BY <1>6
  <2> HIDE DEF all
  <2> QED
    BY <2>1 DEF Adds
<1> HIDE DEF all
<1> QED
  BY <1>3, <1>7

\* The sum of a set and of the set without any one of its elements.
LEMMA SumWithout ==
  ASSUME NEW S, IsFiniteSet(S), \A e \in S : e.chars \in Nat
  PROVE  /\ CharsOf({}) = 0
         /\ \A s \in SUBSET S : CharsOf(s) \in Nat
         /\ \A s \in SUBSET S : \A x \in s : CharsOf(s) = x.chars + CharsOf(s \ {x})
<1>1. PICK g : Adds(g, S)
  BY AddsExists
<1>2. \A s \in SUBSET S : CharsOf(s) = g[s]
  <2> SUFFICES ASSUME NEW s \in SUBSET S PROVE CharsOf(s) = g[s]
    OBVIOUS
  <2>1. IsFiniteSet(s)
    BY FS_Subset
  <2>2. PICK f : f = CHOOSE h : Adds(h, s)
    OBVIOUS
  <2>3. Adds(f, s)
    BY <2>1, <2>2, AddsExists
  <2>4. s \in SUBSET s /\ s \in SUBSET S
    OBVIOUS
  <2>5. f[s] = g[s]
    BY ONLY <1>1, <2>1, <2>3, <2>4, AddsAgree
  <2> QED
    BY <2>2, <2>5 DEF CharsOf
<1>3. g[{}] = 0
  BY <1>1, AddsAll
<1>4. \A s \in SUBSET S : g[s] \in Nat
  <2> DEFINE F == {s \in SUBSET S : g[s] \notin Nat}
  <2> SUFFICES ASSUME F # {} PROVE FALSE
    BY DEF F
  <2>1. F \in SUBSET SUBSET S
    OBVIOUS
  <2> HIDE DEF F
  <2>2. PICK s \in F : \A q \in SUBSET s : q # s => q \notin F
    BY <2>1, Smallest
  <2>3. s \in SUBSET S /\ g[s] \notin Nat
    BY <2>2 DEF F
  <2>4. s # {}
    BY <1>3, <2>3
  <2>5. Pick(s) \in S /\ g[s \ {Pick(s)}] \in Nat
    BY <2>2, <2>3, <2>4, PickIs DEF F
  <2>6. g[s] = Pick(s).chars + g[s \ {Pick(s)}]
    BY <1>1, <2>3, <2>4, AddsAll
  <2>7. Pick(s).chars \in Nat
    BY <2>5
  <2> QED
    BY <2>3, <2>5, <2>6, <2>7
<1>5. \A s \in SUBSET S : \A x \in s : g[s] = x.chars + g[s \ {x}]
  <2> DEFINE F == {s \in SUBSET S : \E x \in s : g[s] # x.chars + g[s \ {x}]}
  <2> SUFFICES ASSUME F # {} PROVE FALSE
    BY DEF F
  <2>1. F \in SUBSET SUBSET S
    OBVIOUS
  <2> HIDE DEF F
  <2>2. PICK s \in F : \A q \in SUBSET s : q # s => q \notin F
    BY <2>1, Smallest
  <2>3. PICK x \in s : g[s] # x.chars + g[s \ {x}]
    BY <2>2 DEF F
  <2>4. PICK y : y = Pick(s)
    OBVIOUS
  <2>5. s \in SUBSET S /\ y \in s /\ g[s] = y.chars + g[s \ {y}]
    <3>1. s \in SUBSET S /\ s # {}
      BY <2>2, <2>3 DEF F
    <3>2. y \in s
      BY <2>4, <3>1, PickIs
    <3>3. g[s] = Pick(s).chars + g[s \ {Pick(s)}]
      BY <1>1, <3>1, AddsAll
    <3> QED
      BY <2>4, <3>1, <3>2, <3>3
  <2>6. x # y
    BY <2>3, <2>5
  <2>7. g[s \ {y}] = x.chars + g[(s \ {y}) \ {x}]
    <3>1. s \ {y} \in SUBSET s /\ s \ {y} # s /\ x \in s \ {y}
      BY <2>5, <2>6
    <3> QED
      BY <2>2, <2>5, <3>1 DEF F
  <2>8. g[s \ {x}] = y.chars + g[(s \ {x}) \ {y}]
    <3>1. s \ {x} \in SUBSET s /\ s \ {x} # s /\ y \in s \ {x}
      BY <2>5, <2>6
    <3> QED
      BY <2>2, <2>5, <3>1 DEF F
  <2>9. PICK r : r = (s \ {x}) \ {y} /\ r = (s \ {y}) \ {x} /\ r \in SUBSET S
    BY <2>5
  <2>10. x.chars \in Nat /\ y.chars \in Nat /\ g[r] \in Nat
    BY <1>4, <2>5, <2>9
  <2>11. g[s \ {y}] = x.chars + g[r] /\ g[s \ {x}] = y.chars + g[r]
    BY <2>7, <2>8, <2>9
  <2>12. g[s] = y.chars + (x.chars + g[r]) /\ g[s] # x.chars + (y.chars + g[r])
    BY <2>3, <2>5, <2>11
  <2> QED
    BY <2>10, <2>12
<1> QED
  BY <1>2, <1>3, <1>4, <1>5

\* A set of elements has not fewer characters than a part of it.
LEMMA SumOfPart ==
  ASSUME NEW S, IsFiniteSet(S), \A e \in S : e.chars \in Nat, NEW r \in SUBSET S
  PROVE  CharsOf(r) <= CharsOf(S)
<1> DEFINE F == {s \in SUBSET S : r \subseteq s /\ ~(CharsOf(r) <= CharsOf(s))}
<1> SUFFICES ASSUME F # {} PROVE FALSE
  BY DEF F
<1>1. F \in SUBSET SUBSET S
  OBVIOUS
<1> HIDE DEF F
<1>2. PICK s \in F : \A q \in SUBSET s : q # s => q \notin F
  BY <1>1, Smallest
<1>3. s \in SUBSET S /\ r \subseteq s /\ ~(CharsOf(r) <= CharsOf(s))
  BY <1>2 DEF F
<1>4. CharsOf(r) \in Nat /\ CharsOf(s) \in Nat
  BY <1>3, SumWithout
<1>5. r # s
  BY <1>3, <1>4
<1>6. PICK x \in s : x \notin r
  BY <1>3, <1>5
<1>7. PICK q : q = s \ {x}
  OBVIOUS
<1>8. q \in SUBSET s /\ q # s /\ q \in SUBSET S /\ r \subseteq q
  BY <1>3, <1>6, <1>7
<1>9. CharsOf(r) <= CharsOf(q)
  BY <1>2, <1>8 DEF F
<1>10. CharsOf(s) = x.chars + CharsOf(q) /\ CharsOf(q) \in Nat /\ x.chars \in Nat
  BY <1>3, <1>6, <1>7, <1>8, SumWithout
<1> QED
  BY <1>3, <1>4, <1>9, <1>10

\* One more element adds its characters, if it was not there.
LEMMA SumWithOneMore ==
  ASSUME NEW S, IsFiniteSet(S), \A e \in S : e.chars \in Nat, NEW x, x.chars \in Nat
  PROVE  CharsOf(S \cup {x}) <= CharsOf(S) + x.chars
<1>0. CharsOf(S) \in Nat
  BY SumWithout
<1> SUFFICES ASSUME NEW T, T = S \cup {x} PROVE CharsOf(T) <= CharsOf(S) + x.chars
  OBVIOUS
<1>1. CASE x \in S
  <2>1. T = S
    BY <1>1
  <2>2. CharsOf(T) = CharsOf(S)
    BY <2>1
  <2>3. CharsOf(S) <= CharsOf(S) + x.chars
    BY <1>0
  <2> QED
    BY <2>2, <2>3
<1>2. CASE x \notin S
  <2>2. IsFiniteSet(T) /\ (\A e \in T : e.chars \in Nat) /\ x \in T /\ T \ {x} = S
    BY <1>2, FS_AddElement
  <2>3. CharsOf(T) = x.chars + CharsOf(T \ {x})
    BY <2>2, SumWithout
  <2>4. CharsOf(T) = x.chars + CharsOf(S)
    BY <2>2, <2>3
  <2> QED
    BY <1>0, <2>4
<1> QED
  BY <1>1, <1>2

-----------------------------------------------------------------------------
(***************************************************************************)
(* The text of a request.  The estimate charges each document reference    *)
(* the cap of one document while the budget lasts; the request takes the   *)
(* text of the records that are found, each reference at most once.        *)
(***************************************************************************)

\* doc_chars_left: each document takes its cap, the last ones what is left.
LEMMA CharsLeftIs ==
  /\ CharsLeft[0] = Total
  /\ \A k \in Nat : CharsLeft[k + 1] = CharsLeft[k] - Taken(CharsLeft[k], PerDoc)
<1>1. PerDoc \in Nat /\ Total \in Nat
  BY ReplayAssumption
<1> DEFINE g == [k \in Nat |-> IF k * PerDoc <= Total THEN Total - k * PerDoc ELSE 0]
           Is(f) == f = [k \in Nat |-> IF k = 0 THEN Total
                                       ELSE f[k - 1] - Taken(f[k - 1], PerDoc)]
<1>2. ASSUME NEW k \in Nat PROVE g[k] = IF k = 0 THEN Total ELSE g[k - 1] - Taken(g[k - 1], PerDoc)
  <2>1. CASE k = 0
    BY <1>1, <2>1
  <2>2. CASE k # 0
    <3>1. PICK b : b = (k - 1) * PerDoc
      OBVIOUS
    <3>2. k - 1 \in Nat /\ b \in Nat /\ k * PerDoc = b + PerDoc
      BY <1>1, <2>2, <3>1
    <3>3. g[k - 1] = IF b <= Total THEN Total - b ELSE 0
      BY <3>1, <3>2
    <3>4. g[k] = IF b + PerDoc <= Total THEN Total - (b + PerDoc) ELSE 0
      BY <3>2
    <3> HIDE DEF g
    <3> QED
      BY <1>1, <2>2, <3>2, <3>3, <3>4 DEF Taken
  <2> QED
    BY <2>1, <2>2
<1>3. Is(g)
  <2>1. g = [k \in Nat |-> IF k = 0 THEN Total ELSE g[k - 1] - Taken(g[k - 1], PerDoc)]
    BY <1>2
  <2> HIDE DEF g
  <2> QED
    BY <2>1
<1>4. CharsLeft = CHOOSE f : Is(f)
  BY DEF CharsLeft
<1> HIDE DEF g
<1>5. Is(CharsLeft)
  <2> HIDE DEF Is
  <2> QED
    BY <1>3, <1>4
<1> QED
  BY <1>5

LEMMA CharsLeftStep ==
  ASSUME NEW k \in Nat, CharsLeft[k] \in 0..Total
  PROVE  CharsLeft[k + 1] = IF CharsLeft[k] <= PerDoc THEN 0 ELSE CharsLeft[k] - PerDoc
<1>1. PerDoc \in Nat /\ Total \in Nat
  BY ReplayAssumption
<1> QED
  BY <1>1, CharsLeftIs DEF Taken

\* It stays within the budget, and more documents leave less.
LEMMA CharsLeftShrinks ==
  /\ \A k \in Nat : CharsLeft[k] \in 0..Total
  /\ \A k \in Nat : \A l \in Nat : l <= k => CharsLeft[k] <= CharsLeft[l]
<1>0. PerDoc \in Nat /\ Total \in Nat
  BY ReplayAssumption
<1>1. \A k \in Nat : CharsLeft[k] \in 0..Total
  <2> DEFINE T == {k \in Nat : CharsLeft[k] \notin 0..Total}
  <2> SUFFICES ASSUME T # {} PROVE FALSE
    BY DEF T
  <2>1. T \subseteq Nat
    OBVIOUS
  <2> HIDE DEF T
  <2>2. PICK k \in T : \A l \in T : k <= l
    BY <2>1, Least
  <2>3. k \in Nat /\ CharsLeft[k] \notin 0..Total
    BY <2>2 DEF T
  <2>4. k # 0
    BY <1>0, <2>3, CharsLeftIs
  <2>5. PICK m \in Nat : k = m + 1
    <3>1. k - 1 \in Nat /\ k = (k - 1) + 1
      BY <2>3, <2>4
    <3> QED
      BY <3>1
  <2>6. CharsLeft[m] \in 0..Total
    <3>1. m \notin T
      BY <2>2, <2>5
    <3> QED
      BY <3>1 DEF T
  <2> QED
    BY <1>0, <2>3, <2>5, <2>6, CharsLeftStep
<1>2. ASSUME NEW l \in Nat PROVE \A k \in Nat : l <= k => CharsLeft[k] <= CharsLeft[l]
  <2> DEFINE T == {k \in Nat : l <= k /\ ~(CharsLeft[k] <= CharsLeft[l])}
  <2> SUFFICES ASSUME T # {} PROVE FALSE
    BY DEF T
  <2>1. T \subseteq Nat
    OBVIOUS
  <2> HIDE DEF T
  <2>2. PICK k \in T : \A j \in T : k <= j
    BY <2>1, Least
  <2>3. k \in Nat /\ l <= k /\ ~(CharsLeft[k] <= CharsLeft[l])
    BY <2>2 DEF T
  <2>4. CharsLeft[k] \in 0..Total /\ CharsLeft[l] \in 0..Total
    BY <1>1, <2>3
  <2>5. k # l
    BY <1>0, <2>3, <2>4
  <2>6. PICK m \in Nat : k = m + 1
    <3>1. k - 1 \in Nat /\ k = (k - 1) + 1
      BY <2>3, <2>5
    <3> QED
      BY <3>1
  <2>7. CharsLeft[m] <= CharsLeft[l]
    <3>1. m \notin T /\ l <= m
      BY <2>2, <2>3, <2>5, <2>6
    <3> QED
      BY <3>1 DEF T
  <2>8. CharsLeft[m] \in 0..Total
    BY <1>1
  <2>9. CharsLeft[k] <= CharsLeft[m]
    BY <1>0, <2>6, <2>8, CharsLeftStep
  <2> QED
    BY <1>0, <2>3, <2>4, <2>7, <2>8, <2>9
<1> QED
  BY <1>1, <1>2

\* Texts within the cap and the budget have not more characters than the
\* estimate charges as many documents.
LEMMA TextsArePriced ==
  ASSUME NEW S, IsFiniteSet(S), \A e \in S : e.chars \in 0..PerDoc, CharsOf(S) <= Total
  PROVE  CharsOf(S) <= Total - CharsLeft[Cardinality(S)]
<1>0. PerDoc \in Nat /\ Total \in Nat /\ \A e \in S : e.chars \in Nat /\ e.chars <= PerDoc
  BY ReplayAssumption
<1> DEFINE F == {s \in SUBSET S : ~(CharsOf(s) <= Total - CharsLeft[Cardinality(s)])}
<1> SUFFICES ASSUME F # {} PROVE FALSE
  BY DEF F
<1>1. F \in SUBSET SUBSET S
  OBVIOUS
<1> HIDE DEF F
<1>2. PICK s \in F : \A q \in SUBSET s : q # s => q \notin F
  BY <1>1, Smallest
<1>3. s \in SUBSET S /\ IsFiniteSet(s) /\ ~(CharsOf(s) <= Total - CharsLeft[Cardinality(s)])
  BY <1>2, FS_Subset DEF F
<1>4. CharsOf(s) <= Total /\ CharsOf(s) \in Nat
  <2>1. CharsOf(s) <= CharsOf(S) /\ CharsOf(s) \in Nat /\ CharsOf(S) \in Nat
    BY <1>0, <1>3, SumOfPart, SumWithout
  <2> QED
    BY <1>0, <2>1
<1>5. s # {}
  <2>1. s = {} => CharsOf(s) = 0 /\ Cardinality(s) = 0 /\ CharsLeft[0] = Total
    BY <1>0, SumWithout, FS_EmptySet, CharsLeftIs
  <2> QED
    BY <1>0, <1>3, <2>1
<1>6. PICK x, q : x \in s /\ q = s \ {x}
  BY <1>5
<1>7. q \in SUBSET s /\ q # s /\ q \in SUBSET S /\ IsFiniteSet(q)
  BY <1>3, <1>6, FS_Subset
<1>8. PICK m \in Nat : m = Cardinality(q) /\ Cardinality(s) = m + 1
  <2>1. Cardinality(q) = Cardinality(s) - 1 /\ Cardinality(s) \in Nat /\ Cardinality(q) \in Nat
    BY <1>3, <1>6, <1>7, FS_RemoveElement, FS_CardinalityType
  <2> QED
    BY <2>1
<1>9. CharsOf(q) <= Total - CharsLeft[m]
  BY <1>2, <1>7, <1>8 DEF F
<1>10. CharsOf(s) = x.chars + CharsOf(q) /\ CharsOf(q) \in Nat /\ x.chars \in Nat /\ x.chars <= PerDoc
  BY <1>0, <1>3, <1>6, <1>7, SumWithout
<1>11. CharsLeft[m] \in 0..Total
  BY CharsLeftShrinks
<1>12. ~(CharsOf(s) <= Total - CharsLeft[m + 1])
  BY <1>3, <1>8
<1> QED
  BY <1>0, <1>4, <1>9, <1>10, <1>11, <1>12, CharsLeftStep

\* The document references of some messages are finitely many.
LEMMA DocumentsAreFinite ==
  ASSUME ReplayInv, NEW c \in Conv, NEW i \in Nat, NEW n \in Nat, 1 <= i, n <= Len(msgs[c])
  PROVE  IsFiniteSet(Documents(c, i, n))
<1> DEFINE places == [k \in i..n |-> DOMAIN msgs[c][k]]
           J == {places[k] : k \in i..n}
<1>1. msgs[c] \in Seq(Seq(Upload)) /\ DOMAIN msgs[c] = 1 .. Len(msgs[c]) /\ Len(msgs[c]) \in Nat
  BY DEF ReplayInv, Shape
<1>2. \A k \in i..n : k \in DOMAIN msgs[c] /\ msgs[c][k] \in Seq(Upload)
  BY <1>1
<1>3. \A k \in i..n : IsFiniteSet(places[k])
  <2> SUFFICES ASSUME NEW k \in i..n PROVE IsFiniteSet(DOMAIN msgs[c][k])
    OBVIOUS
  <2>1. DOMAIN msgs[c][k] = 1 .. Len(msgs[c][k]) /\ Len(msgs[c][k]) \in Nat
    BY <1>2
  <2>2. IsFiniteSet(1 .. Len(msgs[c][k]))
    BY <2>1, FS_Interval
  <2> QED
    BY <2>1, <2>2
<1>4. IsFiniteSet(i..n)
  BY FS_Interval
<1>5. IsFiniteSet(J)
  <2>1. places \in Surjection(i..n, J)
    BY DEF Surjection
  <2> QED
    BY <1>4, <2>1, FS_Surjection
<1>6. IsFiniteSet(UNION J)
  <2>1. \A T \in J : IsFiniteSet(T)
    BY <1>3
  <2> HIDE DEF J
  <2> QED
    BY <1>5, <2>1, FS_UNION
<1>7. IsFiniteSet((i..n) \X UNION J)
  BY <1>4, <1>6, FS_Product
<1>8. Documents(c, i, n) \in SUBSET ((i..n) \X UNION J)
  <2> SUFFICES ASSUME NEW p \in Documents(c, i, n) PROVE p \in (i..n) \X UNION J
    OBVIOUS
  <2>1. PICK k \in i..n : p \in {k} \X Refs(c, k, "document")
    BY DEF Documents
  <2>2. Refs(c, k, "document") \subseteq places[k] /\ places[k] \in J
    BY DEF Refs
  <2> HIDE DEF places, J
  <2> QED
    BY <2>1, <2>2
<1> QED
  BY <1>7, <1>8, FS_Subset

\* What the text in a request has taken from the budget.
PaidOK(t) ==
  /\ IsFiniteSet(prompt[t])
  /\ \A e \in Texts(t) : e.chars \in 0..PerDoc
  /\ CharsOf(Texts(t)) + left[t] <= Total

\* Each text of an earlier message is that of a document it refers to, once;
\* the documents that are still to come have none yet.
ListedOK(t) ==
  /\ pc[t] \in {"building", "asked"} =>
       \A e \in Texts(t) : e.msg <= prior[t] =>
         /\ e.id \in Range(msgs[conv[t]][e.msg])
         /\ KindOf[data[e.id]] = "document"
         /\ \A f \in Texts(t) : f.msg = e.msg /\ f.id = e.id => f = e
  /\ pc[t] = "building" /\ at[t] <= prior[t] =>
       \A e \in Texts(t) : e.msg = at[t] => e.id \notin IdsOf(todo[t])

CostInv == \A t \in Turn : PaidOK(t) /\ ListedOK(t)

\* A turn whose request does not grow.
Saves(t) == prompt'[t] = prompt[t] /\ left'[t] = left[t]

LEMMA SavingTurn ==
  ASSUME NEW t \in Turn, PaidOK(t), Saves(t)
  PROVE  PaidOK(t)' /\ Texts(t)' = Texts(t)
<1>1. Texts(t)' = Texts(t)
  BY DEF Saves, Texts
<1>2. CharsOf(Texts(t))' = CharsOf(Texts(t))
  BY <1>1 DEF CharsOf, Adds, Pick
<1> QED
  BY <1>1, <1>2 DEF PaidOK, Saves

LEMMA RestingCost ==
  ASSUME ReplayInv, ImageInv, CostInv, KeepFiles, AddMessages, NEW t \in Turn, Rests(t), Saves(t)
  PROVE  (PaidOK(t) /\ ListedOK(t))'
<1>1. PaidOK(t)' /\ Texts(t)' = Texts(t)
  BY SavingTurn DEF CostInv
<1>2. ListedOK(t) /\ PlaceOK(t)
  BY DEF CostInv, ImageInv, ImageTurn
<1>3. CASE pc'[t] \in {"building", "asked"}
  <2>1. PICK c, n : c = conv[t] /\ n = prior[t]
    OBVIOUS
  <2>2. /\ pc'[t] = pc[t] /\ conv'[t] = c /\ prior'[t] = n /\ at'[t] = at[t] /\ todo'[t] = todo[t]
    BY <1>3, <2>1 DEF Rests
  <2>3. c \in Conv /\ n \in Nat /\ n <= Len(msgs[c]) /\ at[t] \in 1..(n + 1)
    BY <1>2, <1>3, <2>1, <2>2 DEF PlaceOK, ReplayInv, Shape, TurnInv, TurnOK
  <2>4. DOMAIN msgs[c] = 1 .. Len(msgs[c]) /\ Len(msgs[c]) \in Nat
    BY <2>3 DEF ReplayInv, Shape
  <2>5. \A e \in Texts(t) : e \in prompt[t] /\ e.msg \in Nat /\ e.msg >= at[t] /\ e.id \in Settled
    BY DEF Texts, ReplayInv, Shape, Elements, TextInv, TextOK
  <2>6. \A e \in Texts(t) : e.msg <= n => e.msg \in DOMAIN msgs[c]
    BY <2>3, <2>4, <2>5
  <2>7. \A e \in Texts(t) : e.msg <= n =>
          msgs'[c][e.msg] = msgs[c][e.msg] /\ data'[e.id] = data[e.id]
    BY <2>3, <2>5, <2>6 DEF AddMessages, KeepFiles
  <2>8. \A e \in Texts(t) : e.msg <= n =>
          /\ e.id \in Range(msgs'[c][e.msg])
          /\ KindOf[data'[e.id]] = "document"
          /\ \A f \in Texts(t) : f.msg = e.msg /\ f.id = e.id => f = e
    BY <1>2, <1>3, <2>1, <2>2, <2>7 DEF ListedOK
  <2>9. IdsOf(todo[t])' = IdsOf(todo[t])
    BY <2>2 DEF IdsOf
  <2>10. pc[t] = "building" /\ at[t] <= n =>
           \A e \in Texts(t) : e.msg = at[t] => e.id \notin IdsOf(todo[t])'
    BY <1>2, <2>1, <2>9 DEF ListedOK
  <2>11. ListedOK(t)'
    BY <1>1, <2>2, <2>8, <2>10 DEF ListedOK
  <2> QED
    BY <1>1, <2>11
<1>4. CASE pc'[t] \notin {"building", "asked"}
  BY <1>1, <1>4 DEF ListedOK
<1> QED
  BY <1>3, <1>4

\* It is enough to look at the turn that moves.
LEMMA OneCost ==
  ASSUME ReplayInv, ImageInv, CostInv, KeepFiles, AddMessages,
         NEW t \in Turn, \A u \in Turn : u # t => Rests(u) /\ Saves(u),
         (PaidOK(t) /\ ListedOK(t))'
  PROVE  CostInv'
<1>1. ASSUME NEW u \in Turn, u # t PROVE (PaidOK(u) /\ ListedOK(u))'
  BY <1>1, RestingCost
<1> QED
  BY <1>1 DEF CostInv

\* Steps of a turn that stay out of its request.
LEMMA ResolveCost ==
  ASSUME ReplayInv, ImageInv, CostInv, NEW t \in Turn, Resolve(t) \/ FetchPrior(t)
  PROVE  CostInv'
<1>1. /\ UNCHANGED fileVars /\ UNCHANGED storeVars
      /\ UNCHANGED <<at, todo, showing, left, turnsLeft, missed, prompt>>
      /\ \A u \in Turn : u # t => /\ conv'[u] = conv[u] /\ pc'[u] = pc[u]
                                  /\ records'[u] = records[u] /\ prior'[u] = prior[u]
  BY DEF Resolve, FetchPrior, requestVars, ReplayInv, Shape
<1>2. pc'[t] \in {"refused", "resolved", "fetched"}
  BY DEF Resolve, FetchPrior, ReplayInv, Shape
<1>3. \A u \in Turn : Saves(u)
  BY <1>1 DEF Saves
<1>4. \A u \in Turn : u # t => Rests(u)
  BY <1>1 DEF Rests
<1>5. PaidOK(t)'
  BY <1>3, SavingTurn DEF CostInv
<1>6. ListedOK(t)'
  BY <1>2 DEF ListedOK
<1> QED
  BY <1>1, <1>3, <1>4, <1>5, <1>6, StoresNothing, OneCost

LEMMA PersistCost ==
  ASSUME ReplayInv, ImageInv, CostInv, NEW t \in Turn, Persist(t), KeepFiles, AddMessages
  PROVE  CostInv'
<1>1. /\ pc[t] = "fetched" \/ pc[t] = "resolved"
      /\ UNCHANGED <<conv, records, prior, left, turnsLeft, missed, prompt>>
      /\ \A u \in Turn : u # t => /\ pc'[u] = pc[u] /\ at'[u] = at[u] /\ todo'[u] = todo[u]
                                  /\ showing'[u] = showing[u]
  BY DEF Persist, ReplayInv, Shape
<1>2. \A u \in Turn : Saves(u)
  BY <1>1 DEF Saves
<1>3. \A u \in Turn : u # t => Rests(u)
  BY <1>1 DEF Rests
<1>4. PaidOK(t)' /\ Texts(t)' = Texts(t)
  BY <1>2, SavingTurn DEF CostInv
<1>5. Texts(t) = {}
  BY <1>1 DEF ReplayInv, TextInv, TextOK, Texts
<1>6. ListedOK(t)'
  BY <1>4, <1>5 DEF ListedOK
<1> QED
  BY <1>2, <1>3, <1>4, <1>6, OneCost

\* The request is complete, or fails.
LEMMA EndCost ==
  ASSUME ReplayInv, ImageInv, CostInv, NEW t \in Turn, pc[t] = "building",
         NEW end \in {"asked", "raised"}, pc' = [pc EXCEPT ![t] = end],
         UNCHANGED <<fileVars, conv, records, storeVars, requestVars>>
  PROVE  CostInv'
<1>1. /\ UNCHANGED fileVars /\ UNCHANGED storeVars
      /\ UNCHANGED <<conv, records, prior, at, todo, showing, left, turnsLeft, missed, prompt>>
  BY DEF requestVars
<1>2. \A u \in Turn : u # t => Rests(u)
  BY <1>1 DEF ReplayInv, Shape, Rests
<1>3. \A u \in Turn : Saves(u)
  BY <1>1 DEF Saves
<1>4. PaidOK(t)' /\ Texts(t)' = Texts(t)
  BY <1>3, SavingTurn DEF CostInv
<1>5. pc'[t] = end /\ data' = data /\ msgs' = msgs
  BY <1>1 DEF ReplayInv, Shape, fileVars, uploadVars, storeVars
<1>6. ListedOK(t)'
  BY <1>1, <1>4, <1>5 DEF ListedOK, CostInv
<1> QED
  BY <1>1, <1>2, <1>3, <1>4, <1>6, StoresNothing, OneCost

\* The turn goes on to an older message: it has no text of that one yet.
LEMMA HydrateCost ==
  ASSUME ReplayInv, ImageInv, CostInv, NEW t \in Turn, Hydrate(t) \/ HydrateFails(t)
  PROVE  CostInv'
<1>1. /\ pc[t] = "building" /\ at[t] > 1 /\ at' = [at EXCEPT ![t] = @ - 1]
      /\ UNCHANGED fileVars /\ UNCHANGED storeVars
      /\ UNCHANGED <<conv, pc, records, prior, left, prompt>>
      /\ \A u \in Turn : u # t => /\ todo'[u] = todo[u] /\ showing'[u] = showing[u]
                                  /\ turnsLeft'[u] = turnsLeft[u] /\ missed'[u] = missed[u]
  <2>1. todo \in [Turn -> Seq(Rec)] /\ \E listed : todo' = [todo EXCEPT ![t] = listed]
    BY GoesOn DEF ReplayInv, Shape
  <2>2. \A u \in Turn : u # t => todo'[u] = todo[u]
    BY <2>1
  <2> QED
    BY <2>2, GoesOn
<1>2. at[t] \in Nat /\ at'[t] = at[t] - 1 /\ \A u \in Turn : u # t => at'[u] = at[u]
  BY <1>1 DEF ReplayInv, Shape
<1>3. \A u \in Turn : u # t => Rests(u)
  BY <1>1, <1>2 DEF Rests
<1>4. \A u \in Turn : Saves(u)
  BY <1>1 DEF Saves
<1>5. PaidOK(t)' /\ Texts(t)' = Texts(t)
  BY <1>4, SavingTurn DEF CostInv
<1>6. \A e \in Texts(t) : e.msg # at'[t]
  <2>1. \A e \in Texts(t) : e.msg \in Nat /\ e.msg >= at[t]
    BY DEF Texts, ReplayInv, Shape, Elements, TextInv, TextOK
  <2> QED
    BY <1>2, <2>1
<1>7. data' = data /\ msgs' = msgs
  BY <1>1 DEF fileVars, uploadVars, storeVars
<1>8. ListedOK(t)'
  BY <1>1, <1>5, <1>6, <1>7 DEF ListedOK, CostInv
<1> QED
  BY <1>1, <1>3, <1>4, <1>5, <1>8, StoresNothing, OneCost

\* One more element: a text pays for its characters.
LEMMA EmitCost ==
  ASSUME ReplayInv, ImageInv, CostInv, NEW t \in Turn, pc[t] = "building", todo[t] # <<>>,
         NEW form, NEW chars, Emit(t, form, chars), chars \in 0..left[t],
         NEW a, a = Head(todo[t]).id,
         form = "text" => chars \in 0..PerDoc /\ KindOf[data[a]] = "document"
  PROVE  CostInv'
<1> DEFINE new == [msg |-> at[t], id |-> a, form |-> form, chars |-> chars]
<1>0. PerDoc \in Nat /\ Total \in Nat /\ left[t] \in Nat /\ chars \in Nat /\ chars <= left[t]
  BY ReplayAssumption DEF ReplayInv, Shape
<1>1. /\ prompt' = [prompt EXCEPT ![t] = @ \cup {new}]
      /\ left' = [left EXCEPT ![t] = @ - chars]
      /\ todo' = [todo EXCEPT ![t] = Tail(@)]
      /\ UNCHANGED fileVars /\ UNCHANGED storeVars
      /\ UNCHANGED <<conv, pc, records, prior, at, showing, turnsLeft, missed>>
  BY DEF Emit
<1>2. new.msg = at[t] /\ new.id = a /\ new.form = form /\ new.chars = chars
  OBVIOUS
<1> HIDE DEF new
<1>3. \A u \in Turn : u # t => Rests(u) /\ Saves(u)
  BY <1>1 DEF ReplayInv, Shape, Rests, Saves
<1>4. PICK c, n, k : c = conv[t] /\ n = prior[t] /\ k = at[t]
  OBVIOUS
<1>5. /\ prompt'[t] = prompt[t] \cup {new} /\ left'[t] = left[t] - chars /\ todo'[t] = Tail(todo[t])
      /\ conv'[t] = c /\ prior'[t] = n /\ at'[t] = k /\ pc'[t] = "building"
      /\ data' = data /\ msgs' = msgs
  BY <1>1, <1>4 DEF ReplayInv, Shape, fileVars, uploadVars, storeVars
<1>6. PaidOK(t) /\ ListedOK(t) /\ PlaceOK(t)
  BY DEF CostInv, ImageInv, ImageTurn
<1>7. Texts(t)' = IF form = "text" THEN Texts(t) \cup {new} ELSE Texts(t)
  BY <1>2, <1>5 DEF Texts
<1>8. PaidOK(t)'
  <2>1. IsFiniteSet(prompt'[t])
    <3>1. IsFiniteSet(prompt[t])
      BY <1>6 DEF PaidOK
    <3>2. IsFiniteSet(prompt[t] \cup {new})
      BY ONLY <3>1, FS_AddElement
    <3> QED
      BY <1>5, <3>2
  <2>2. \A e \in Texts(t)' : e.chars \in 0..PerDoc
    BY <1>2, <1>6, <1>7 DEF PaidOK
  <2>3. PICK P : P = Texts(t)
    OBVIOUS
  <2>4. IsFiniteSet(P) /\ (\A e \in P : e.chars \in Nat) /\ CharsOf(P) \in Nat
        /\ CharsOf(P) + left[t] <= Total
    <3>1. P \in SUBSET prompt[t] /\ \A e \in P : e.chars \in Nat
      BY <1>0, <1>6, <2>3 DEF PaidOK, Texts
    <3>2. IsFiniteSet(P)
      BY <1>6, <3>1, FS_Subset DEF PaidOK
    <3>3. CharsOf(P) \in Nat
      BY <3>1, <3>2, SumWithout
    <3> QED
      BY <1>6, <2>3, <3>1, <3>2, <3>3 DEF PaidOK
  <2>5. CharsOf(Texts(t)') + left'[t] <= Total
    <3>1. CASE form = "text"
      <4>1. CharsOf(P \cup {new}) <= CharsOf(P) + chars
        BY <1>0, <1>2, <2>4, SumWithOneMore
      <4>2. PICK Q : Q = P \cup {new} /\ Q = Texts(t)'
        BY <1>7, <2>3, <3>1
      <4>3. CharsOf(Q) \in Nat
        <5>1. IsFiniteSet(Q) /\ \A e \in Q : e.chars \in Nat
          BY <1>0, <1>2, <2>4, <4>2, FS_AddElement
        <5> QED
          BY <5>1, SumWithout
      <4>4. CharsOf(Q) <= CharsOf(P) + chars
        BY <4>1, <4>2
      <4>5. CharsOf(Q) + (left[t] - chars) <= Total
        BY <1>0, <2>4, <4>3, <4>4
      <4> QED
        BY <1>5, <4>2, <4>5
    <3>2. CASE form # "text"
      <4>1. Texts(t)' = P
        BY <1>7, <2>3, <3>2
      <4>2. CharsOf(P) + (left[t] - chars) <= Total
        BY <1>0, <2>4
      <4> QED
        BY <1>5, <4>1, <4>2
    <3> QED
      BY <3>1, <3>2
  <2>6. CharsOf(Texts(t))' = CharsOf(Texts(t)')
    BY DEF CharsOf, Adds, Pick
  <2> QED
    BY <2>1, <2>2, <2>5, <2>6 DEF PaidOK
<1>9. ListedOK(t)'
  <2>1. IdsOf(todo[t]) = IdsOf(Tail(todo[t])) \cup {a}
        /\ (Distinct(todo[t]) => a \notin IdsOf(Tail(todo[t])))
    <3>1. todo[t] \in Seq(Rec)
      BY DEF ReplayInv, Shape
    <3> QED
      BY <3>1, TailIds
  <2>2. IdsOf(todo[t])' = IdsOf(Tail(todo[t]))
    BY <1>5 DEF IdsOf
  <2>3. k <= n => Distinct(todo[t]) /\ IdsOf(todo[t]) \subseteq Range(msgs[c][k])
    BY <1>4, <1>6 DEF PlaceOK
  <2>4. k <= n => \A e \in Texts(t) : e.msg = k => e.id \notin IdsOf(todo[t])
    BY <1>4, <1>6 DEF ListedOK
  <2>5. \A e \in Texts(t) : e.msg <= n =>
          /\ e.id \in Range(msgs[c][e.msg]) /\ KindOf[data[e.id]] = "document"
          /\ \A f \in Texts(t) : f.msg = e.msg /\ f.id = e.id => f = e
    BY <1>4, <1>6 DEF ListedOK
  <2>6. ASSUME form = "text", k <= n
        PROVE  /\ a \in Range(msgs[c][k]) /\ KindOf[data[a]] = "document"
               /\ \A e \in Texts(t) : e.msg = k => e.id # a
    BY <2>1, <2>3, <2>4, <2>6
  <2>7. ASSUME NEW e \in Texts(t)', e.msg <= n
        PROVE  /\ e.id \in Range(msgs[c][e.msg]) /\ KindOf[data[e.id]] = "document"
               /\ \A f \in Texts(t)' : f.msg = e.msg /\ f.id = e.id => f = e
    <3>1. CASE e \in Texts(t)
      <4>1. \A f \in Texts(t)' : f.msg = e.msg /\ f.id = e.id => f = e
        BY <1>2, <1>4, <1>7, <2>5, <2>6, <2>7, <3>1
      <4> QED
        BY <2>5, <2>7, <3>1, <4>1
    <3>2. CASE form = "text" /\ e = new
      BY <1>2, <1>4, <1>7, <2>6, <2>7, <3>2
    <3> QED
      BY <1>7, <3>1, <3>2
  <2>8. ASSUME k <= n, NEW e \in Texts(t)', e.msg = k PROVE e.id \notin IdsOf(Tail(todo[t]))
    BY <1>2, <1>7, <2>1, <2>3, <2>4, <2>8
  <2> QED
    BY <1>5, <2>2, <2>7, <2>8 DEF ListedOK
<1> QED
  BY <1>1, <1>3, <1>8, <1>9, StoresNothing, OneCost

LEMMA BlockCost ==
  ASSUME IInv, ReplayInv, ImageInv, CostInv, NEW t \in Turn,
         DocumentBlock(t) \/ ImagePlaceholder(t) \/ LoadImage(t)
  PROVE  CostInv'
<1>1. PICK a : a = Head(todo[t]).id
  OBVIOUS
<1>2. pc[t] = "building" /\ todo[t] # <<>>
  BY DEF DocumentBlock, ImagePlaceholder, LoadImage, NextIs
<1>3. /\ left[t] \in 0..Total /\ 0 \in 0..left[t]
      /\ LengthOf[data[a]] \in Nat /\ PerDoc \in Nat /\ Total \in Nat
  <2>1. data[a] \in Content
    BY <1>1, <1>2, NextFile
  <2> QED
    BY <2>1, ReplayAssumption DEF ReplayInv, Shape
<1>4. CASE \E form \in {"unreadable", "placeholder", "image"} : Emit(t, form, 0)
  BY <1>1, <1>2, <1>3, <1>4, EmitCost
<1>5. ASSUME NextIs(t, "document"), Emit(t, "text", Taken(left[t], LengthOf[data[a]]))
      PROVE  CostInv'
  <2>1. PICK n : n = Taken(left[t], LengthOf[data[a]])
    OBVIOUS
  <2>2. n \in 0..left[t] /\ n \in 0..PerDoc
    BY <1>3, <2>1 DEF Taken
  <2>3. KindOf[data[a]] = "document"
    BY <1>1, <1>5 DEF NextIs
  <2> QED
    BY <1>1, <1>2, <1>5, <2>1, <2>2, <2>3, EmitCost
<1>6. CASE /\ pc' = [pc EXCEPT ![t] = "raised"]
           /\ UNCHANGED <<fileVars, conv, records, storeVars, requestVars>>
  BY <1>2, <1>6, EndCost
<1> QED
  BY <1>1, <1>4, <1>5, <1>6 DEF DocumentBlock, ImagePlaceholder, LoadImage

LEMMA InitCost == Init => CostInv
<1> SUFFICES ASSUME Init, NEW t \in Turn PROVE PaidOK(t) /\ ListedOK(t)
  BY DEF CostInv
<1>1. prompt[t] = {} /\ left[t] = Total /\ pc[t] = "idle"
  BY DEF Init
<1>2. Texts(t) = {}
  BY <1>1 DEF Texts
<1>3. CharsOf({}) = 0 /\ Total \in Nat
  BY FS_EmptySet, SumWithout, ReplayAssumption
<1>4. IsFiniteSet(prompt[t])
  BY <1>1, FS_EmptySet
<1> QED
  BY <1>1, <1>2, <1>3, <1>4 DEF PaidOK, ListedOK

\* Uploads, deletes and restarts.
LEMMA FilesCost ==
  ASSUME IInv, ReplayInv, ImageInv, CostInv, QuietStep \/ \E d \in Removal : DeleteRecord(d),
         StillRequests
  PROVE  CostInv'
<1>1. KeepFiles
  BY FilesAreKept
<1>2. AddMessages
  <2>1. msgs' = msgs /\ \A c \in Conv : Len(msgs[c]) \in Nat
    BY DEF StillRequests, ReplayInv, Shape
  <2> QED
    BY <2>1 DEF AddMessages
<1>3. \A t \in Turn : Rests(t) /\ Saves(t)
  BY DEF StillRequests, Halted, requestVars, Rests, Saves
<1> QED
  BY <1>1, <1>2, <1>3, RestingCost DEF CostInv

LEMMA CostStep == IInv /\ ReplayInv /\ ImageInv /\ CostInv /\ [Next]_vars => CostInv'
<1> SUFFICES ASSUME IInv, ReplayInv, ImageInv, CostInv, [Next]_vars PROVE CostInv'
  OBVIOUS
<1>1. ASSUME UNCHANGED turnVars, QuietStep PROVE CostInv'
  <2>1. StillRequests
    BY <1>1 DEF turnVars, storeVars, ReplayInv, Shape, StillRequests, Halted
  <2> QED
    BY <1>1, <2>1, FilesCost
<1>2. CASE UNCHANGED vars
  BY <1>1, <1>2 DEF vars, QuietStep
<1>3. ASSUME NEW u \in Upload, UploadStep(u), UNCHANGED turnVars PROVE CostInv'
  BY <1>1, <1>3 DEF QuietStep
<1>4. ASSUME NEW d \in Removal, DeleteRecord(d), Cascade(which[d]) PROVE CostInv'
  <2>1. StillRequests
    BY <1>4 DEF ReplayInv, Shape, StillRequests, Halted, Cascade
  <2> QED
    BY <1>4, <2>1, FilesCost
<1>5. ASSUME NEW d \in Removal, RemoveStep(d) PROVE CostInv'
  BY <1>1, <1>4, <1>5 DEF RemoveStep, QuietStep
<1>6. ASSUME NEW t \in Turn, TurnStep(t) PROVE CostInv'
  <2>1. CASE Persist(t)
    BY <2>1, PersistImages, PersistCost
  <2>2. CASE Ask(t)
    BY <2>2, EndCost DEF Ask
  <2> QED
    BY <1>6, <2>1, <2>2, ResolveCost, BlockCost, HydrateCost DEF TurnStep
<1>7. CASE Restart
  <2>1. StillRequests /\ QuietStep
    BY <1>7 DEF Restart, storeVars, ReplayInv, Shape, Stages, StillRequests, Halted, QuietStep
  <2> QED
    BY <2>1, FilesCost
<1> QED
  BY <1>2, <1>3, <1>5, <1>6, <1>7 DEF Next

\* The texts of some earlier messages are not more than their documents.
LEMMA TextsAreDocuments ==
  ASSUME ReplayInv, ImageInv, CostInv, NEW t \in Turn, pc[t] \in {"building", "asked"},
         NEW c, c = conv[t], NEW n, n = prior[t], NEW i \in at[t]..n,
         NEW E, E = {e \in Texts(t) : e.msg \in i..n}
  PROVE  Cardinality(E) <= Cardinality(Documents(c, i, n))
<1> DEFINE place(e) == CHOOSE j \in Refs(c, e.msg, "document") : msgs[c][e.msg][j] = e.id
           f == [e \in E |-> <<e.msg, place(e)>>]
<1>1. /\ c \in Conv /\ n \in Nat /\ n <= Len(msgs[c]) /\ i \in Nat /\ 1 <= i
  <2>1. c \in Conv /\ n \in Nat /\ n <= Len(msgs[c]) /\ at[t] \in 1..(n + 1)
    BY DEF ReplayInv, Shape, TurnInv, TurnOK, ImageInv, ImageTurn, PlaceOK
  <2> QED
    BY <2>1
<1>2. ASSUME NEW e \in E
      PROVE  /\ e.msg \in i..n
             /\ place(e) \in Refs(c, e.msg, "document") /\ msgs[c][e.msg][place(e)] = e.id
  <2>1. e \in Texts(t) /\ e.msg \in i..n /\ e.msg <= n
    BY <1>1
  <2>2. e.id \in Range(msgs[c][e.msg]) /\ KindOf[data[e.id]] = "document"
    BY <2>1 DEF CostInv, ListedOK
  <2>3. \E j \in Refs(c, e.msg, "document") : msgs[c][e.msg][j] = e.id
    BY <2>2 DEF Range, Refs
  <2> QED
    BY <2>1, <2>3
<1> HIDE DEF place
<1>3. f \in [E -> Documents(c, i, n)]
  <2> SUFFICES ASSUME NEW e \in E PROVE <<e.msg, place(e)>> \in Documents(c, i, n)
    OBVIOUS
  <2>1. <<e.msg, place(e)>> \in {e.msg} \X Refs(c, e.msg, "document")
    BY <1>2
  <2> QED
    BY <1>2, <2>1 DEF Documents
<1>4. ASSUME NEW e \in E, NEW g \in E, f[e] = f[g] PROVE e = g
  <2>1. e.msg = g.msg /\ place(e) = place(g)
    BY <1>4
  <2>2. e.id = g.id
    BY <1>2, <2>1
  <2>3. e \in Texts(t) /\ g \in Texts(t) /\ e.msg <= n
    BY <1>1
  <2> QED
    BY <2>1, <2>2, <2>3 DEF CostInv, ListedOK
<1>5. f \in Injection(E, Documents(c, i, n))
  <2> HIDE DEF f
  <2> QED
    BY <1>3, <1>4 DEF Injection, IsInjective
<1>6. IsFiniteSet(Documents(c, i, n))
  BY <1>1, DocumentsAreFinite
<1> QED
  BY <1>5, <1>6, FS_Injection

\* "The allowance is a true upper bound" (estimate.py): for any history, any
\* caps and whatever is deleted meanwhile, the newest messages of a request
\* hold no more text than the estimate charges to them.
THEOREM AllowanceCovers == Spec => []AllowanceCoversText
<1>1. ReplayInv /\ ImageInv /\ CostInv => AllowanceCoversText
  <2> SUFFICES ASSUME ReplayInv, ImageInv, CostInv, NEW t \in Turn, pc[t] \in {"building", "asked"},
                      NEW i \in at[t]..prior[t],
                      NEW E, E = {e \in Texts(t) : e.msg \in i..prior[t]}
               PROVE  MapThenSumSet(LAMBDA e : e.chars, E) <= PricedChars(conv[t], i, prior[t])
    BY DEF AllowanceCoversText
  <2>1. PICK D : D = Documents(conv[t], i, prior[t])
    OBVIOUS
  <2>2. Cardinality(E) <= Cardinality(D)
    BY <2>1, TextsAreDocuments
  <2>3. IsFiniteSet(D)
    <3>1. conv[t] \in Conv /\ prior[t] \in Nat /\ prior[t] <= Len(msgs[conv[t]]) /\ at[t] \in 1..(prior[t] + 1)
      BY DEF ReplayInv, Shape, TurnInv, TurnOK, ImageInv, ImageTurn, PlaceOK
    <3>2. i \in Nat /\ 1 <= i
      BY <3>1
    <3> QED
      BY <2>1, <3>1, <3>2, DocumentsAreFinite
  <2>4. PICK T : T = Texts(t) /\ IsFiniteSet(T) /\ E \in SUBSET T
    <3>1. Texts(t) \in SUBSET prompt[t] /\ IsFiniteSet(prompt[t])
      BY DEF Texts, CostInv, PaidOK
    <3> QED
      BY <3>1, FS_Subset
  <2>5. PerDoc \in Nat /\ Total \in Nat /\ left[t] \in Nat
        /\ (\A e \in T : e.chars \in 0..PerDoc /\ e.chars \in Nat)
        /\ CharsOf(T) + left[t] <= Total
    BY <2>4, ReplayAssumption DEF ReplayInv, Shape, CostInv, PaidOK
  <2>6. IsFiniteSet(E) /\ CharsOf(E) <= CharsOf(T) /\ CharsOf(E) \in Nat /\ CharsOf(T) \in Nat
    BY <2>4, <2>5, SumOfPart, SumWithout, FS_Subset
  <2>7. CharsOf(E) <= Total
    BY <2>5, <2>6
  <2>8. CharsOf(E) <= Total - CharsLeft[Cardinality(E)]
    BY <2>4, <2>5, <2>6, <2>7, TextsArePriced
  <2>9. CharsLeft[Cardinality(D)] <= CharsLeft[Cardinality(E)]
        /\ CharsLeft[Cardinality(D)] \in 0..Total /\ CharsLeft[Cardinality(E)] \in 0..Total
    BY <2>2, <2>3, <2>6, FS_CardinalityType, CharsLeftShrinks
  <2>10. CharsOf(E) <= Total - CharsLeft[Cardinality(D)]
    BY <2>5, <2>6, <2>8, <2>9
  <2>11. MapThenSumSet(LAMBDA e : e.chars, E) = CharsOf(E)
    BY SumIsCharsOf
  <2> QED
    BY <2>1, <2>10, <2>11 DEF PricedChars
<1>2. Init => ImageInv /\ CostInv
  BY InitImages, InitCost
<1>3. IInv /\ ReplayInv /\ ImageInv /\ CostInv /\ [Next]_vars => ImageInv' /\ CostInv'
  BY ImageStep, CostStep
<1> QED
  BY <1>1, <1>2, <1>3, Invariance, ReplayInvariance, PTL DEF Spec

=============================================================================
