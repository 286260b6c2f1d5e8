-------------------------------- MODULE Replay --------------------------------
(***************************************************************************)
(* A turn with files (server.py, attachments/inject.py, sqlbackend.py      *)
(* _link_attachments, estimate.py), on top of Attachments.                 *)
(*                                                                         *)
(* POST /chat resolves the ids of the message to records, stores the       *)
(* message with a reference to each, and then builds the request to the    *)
(* model: the files of this message first, then those of the earlier       *)
(* messages, newest first.  The text of documents is cut to one budget of  *)
(* characters for the request; images are sent again for the last          *)
(* ImageTurns messages that had any.  Every look-up of records and every   *)
(* read of an image is an await, so uploads, deletes and other turns run   *)
(* in between.  estimate.py predicts from the stored references alone what *)
(* all this adds to a request.                                             *)
(***************************************************************************)
EXTENDS Attachments, Positions, FiniteSetsExt, Functions

CONSTANTS
  Conv,        \* conversation ids
  OwnerOf,     \* OwnerOf[c]: the user of conversation c
  Turn,        \* POST /chat requests with a message of the user
  Said,        \* Said[c]: the references in the messages of an earlier run
  LengthOf,    \* LengthOf[c]: characters of text in a document
  PerDoc,      \* config: max_chars_per_doc
  Total,       \* config: max_chars_total
  ImageTurns,  \* config: image_history_turns
  MaxFiles     \* config: max_files_per_turn

ASSUME ReplayAssumption ==
  /\ None \notin Conv
  /\ OwnerOf \in [Conv -> User]
  /\ Said \in [Conv -> Seq(Seq(Earlier))]
  /\ \A c \in Conv : \A i \in DOMAIN Said[c] :   \* resolve saw to it
       /\ IsInjective(Said[c][i])
       /\ \A a \in Range(Said[c][i]) : \A offer \in Offers[a] : offer[1] = OwnerOf[c]
  /\ LengthOf \in [Content -> Nat]
  /\ PerDoc \in Nat /\ Total \in Nat /\ ImageTurns \in Nat /\ MaxFiles \in Nat

VARIABLES
  conv,       \* conv[t]: the conversation of t, or None
  pc,         \* pc[t]: how far the handler of t is
  records,    \* records[t]: the records that t resolved its ids to
  msgs,       \* msgs[c]: the references in each user message of c
  links,      \* links[c]: the message_attachments rows of each message of c
  stamp,      \* stamp[a]: attachments.conversation_id
  prior,      \* prior[t]: the length of the history that t fetched
  at,         \* at[t]: the message whose files t is preparing
  todo,       \* todo[t]: the records of that message that are left
  showing,    \* showing[t]: its images are sent as images
  left,       \* left[t]: Budget.remaining
  turnsLeft,  \* turnsLeft[t]: image_turns_left
  missed,     \* missed[t]: the newest message whose look-up failed, or 0 (history)
  prompt      \* prompt[t]: the <attachment> elements and image blocks so far

requestVars == <<prior, at, todo, showing, left, turnsLeft, missed, prompt>>
storeVars == <<msgs, links, stamp>>
turnVars == <<conv, pc, records, storeVars, requestVars>>
vars == <<fileVars, turnVars>>

UserOf(t) == OwnerOf[conv[t]]

\* The records that the messages of a conversation link.
Linked(c) == UNION {links[c][i] : i \in DOMAIN links[c]}

Init ==
  /\ FilesInit
  /\ conv = [t \in Turn |-> None]
  /\ pc = [t \in Turn |-> "idle"]
  /\ records = [t \in Turn |-> <<>>]
  /\ msgs = Said
  /\ links = [c \in Conv |-> [i \in DOMAIN Said[c] |-> Range(Said[c][i])]]
  /\ stamp \in [Upload -> Conv \cup {None}]
  /\ \A a \in Upload : LET first == {c \in Conv : a \in Linked(c)} IN
       IF first = {} THEN stamp[a] = None ELSE stamp[a] \in first
  /\ prior = [t \in Turn |-> 0]
  /\ at = [t \in Turn |-> 0]
  /\ todo = [t \in Turn |-> <<>>]
  /\ showing = [t \in Turn |-> FALSE]
  /\ left = [t \in Turn |-> Total]
  /\ turnsLeft = [t \in Turn |-> IF Vision THEN ImageTurns ELSE 0]
  /\ missed = [t \in Turn |-> 0]
  /\ prompt = [t \in Turn |-> {}]

-----------------------------------------------------------------------------
\* A record as get_many returns it: what the row says at that moment.
Record(a) == [id |-> a,
              readable |-> status[a] = "ready" /\ LengthOf[data[a]] > 0]

\* get_many: the records of the user, in the order of the ids.
GetMany(ids, user) ==
  LET found == {i \in DOMAIN ids : ids[i] \in Owned(user)}
  IN  [k \in 1..Cardinality(found) |-> Record(ids[Place(found, k)])]

\* The ids that some client was given; a list that dict.fromkeys leaves alone.
Known == {answer[u] : u \in Upload} \ {None}
IdList == UNION {{s \in [1..n -> Known] : \A i, j \in 1..n : s[i] = s[j] => i = j} :
                 n \in 0..(MaxFiles + 1)}

\* A conversation gets its id with its first message: until then
\* one turn only.
MayPost(c) == msgs[c] # <<>> \/ \A t \in Turn : conv[t] = c => pc[t] = "refused"

\* AttachmentService.resolve: 422, 403, or a record for every id.
Resolve(t) ==
  /\ pc[t] = "idle"
  /\ \E c \in Conv, ids \in IdList :
       LET found == GetMany(ids, OwnerOf[c]) IN
       /\ MayPost(c)
       /\ conv' = [conv EXCEPT ![t] = c]
       /\ IF Len(ids) > MaxFiles \/ Len(found) # Len(ids)
          THEN /\ pc' = [pc EXCEPT ![t] = "refused"]
               /\ UNCHANGED records
          ELSE /\ pc' = [pc EXCEPT ![t] = "resolved"]
               /\ records' = [records EXCEPT ![t] = found]
  /\ UNCHANGED <<fileVars, storeVars, requestVars>>

\* fetch_history of a continuation.
FetchPrior(t) ==
  /\ pc[t] = "resolved"
  /\ msgs[conv[t]] # <<>>
  /\ prior' = [prior EXCEPT ![t] = Len(msgs[conv[t]])]
  /\ pc' = [pc EXCEPT ![t] = "fetched"]
  /\ UNCHANGED <<fileVars, conv, records, storeVars, at, todo, showing, left, turnsLeft, missed, prompt>>

\* create_conversation or append_messages, with _link_attachments: links to
\* the records that are still there, and the stamp of their first message.
Persist(t) ==
  LET c == conv[t]
      ids == [i \in DOMAIN records[t] |-> records[t][i].id]
      known == Range(ids) \cap Kept
  IN
  /\ \/ pc[t] = "fetched"
     \/ pc[t] = "resolved" /\ msgs[c] = <<>>
  /\ msgs' = [msgs EXCEPT ![c] = Append(@, ids)]
  /\ links' = [links EXCEPT ![c] = Append(@, known)]
  /\ stamp' = [a \in Upload |-> IF a \in known /\ stamp[a] = None THEN c ELSE stamp[a]]
  /\ at' = [at EXCEPT ![t] = prior[t] + 1]
  /\ todo' = [todo EXCEPT ![t] = records[t]]
  /\ showing' = [showing EXCEPT ![t] = Vision]
  /\ pc' = [pc EXCEPT ![t] = "building"]
  /\ UNCHANGED <<fileVars, conv, records, prior, left, turnsLeft, missed, prompt>>

\* Mutant: the cap of one document only.
TakenPerDoc(remaining, length) == IF length <= PerDoc THEN length ELSE PerDoc

\* Mutant: the budget of the request only.
TakenTotal(remaining, length) == IF length <= remaining THEN length ELSE remaining

\* Mutant: at most half of what is left.
TakenHalf(remaining, length) ==
  LET allowance == IF PerDoc < remaining \div 2 THEN PerDoc ELSE remaining \div 2
  IN  IF length <= allowance THEN length ELSE allowance

\* Budget.take.
Taken(remaining, length) ==
  LET allowance == IF PerDoc < remaining THEN PerDoc ELSE remaining
  IN  IF length <= allowance THEN length ELSE allowance

\* One element of the request: the next record of the message is done.
Emit(t, form, chars) ==
  /\ prompt' = [prompt EXCEPT ![t] = @ \cup
       {[msg |-> at[t], id |-> Head(todo[t]).id, form |-> form, chars |-> chars]}]
  /\ left' = [left EXCEPT ![t] = @ - chars]
  /\ todo' = [todo EXCEPT ![t] = Tail(@)]
  /\ UNCHANGED <<fileVars, conv, pc, records, storeVars, prior, at, showing, turnsLeft, missed>>

NextIs(t, kind) == /\ pc[t] = "building"
                  /\ todo[t] # <<>>
                  /\ KindOf[data[Head(todo[t]).id]] = kind

\* document_block.
DocumentBlock(t) ==
  /\ NextIs(t, "document")
  /\ \/ /\ Head(todo[t]).readable
        /\ Emit(t, "text", Taken(left[t], LengthOf[data[Head(todo[t]).id]]))
     \/ /\ ~Head(todo[t]).readable
        /\ Emit(t, "unreadable", 0)

ImagePlaceholder(t) ==
  /\ NextIs(t, "image")
  /\ ~showing[t]
  /\ Emit(t, "placeholder", 0)

\* load_bytes is not guarded: a file that is gone ends the request.
LoadImage(t) ==
  /\ NextIs(t, "image")
  /\ showing[t]
  /\ \/ /\ blob[data[Head(todo[t]).id]] # None
        /\ Emit(t, "image", 0)
     \/ /\ blob[data[Head(todo[t]).id]] = None
        /\ pc' = [pc EXCEPT ![t] = "raised"]
        /\ UNCHANGED <<fileVars, conv, records, storeVars, requestVars>>

\* hydrate_history goes on to the message before.
GoOn(t) ==
  /\ pc[t] = "building"
  /\ todo[t] = <<>>
  /\ at[t] > 1
  /\ at' = [at EXCEPT ![t] = @ - 1]
  /\ UNCHANGED <<fileVars, conv, pc, records, storeVars, prior, left, prompt>>

\* Mutant: a message with images takes none of the image turns.
HydrateAllImages(t) ==
  /\ GoOn(t)
  /\ todo' = [todo EXCEPT ![t] = GetMany(msgs[conv[t]][at[t] - 1], UserOf(t))]
  /\ showing' = [showing EXCEPT ![t] = turnsLeft[t] > 0]
  /\ UNCHANGED <<turnsLeft, missed>>

\* The records of the message are looked up, and it takes one of the image
\* turns if one of them is an image.
Hydrate(t) ==
  LET found == GetMany(msgs[conv[t]][at[t] - 1], UserOf(t))
      images == \E i \in DOMAIN found : KindOf[data[found[i].id]] = "image"
      send == images /\ turnsLeft[t] > 0
  IN
  /\ GoOn(t)
  /\ todo' = [todo EXCEPT ![t] = found]
  /\ showing' = [showing EXCEPT ![t] = send]
  /\ turnsLeft' = [turnsLeft EXCEPT ![t] = IF send THEN @ - 1 ELSE @]
  /\ UNCHANGED missed

\* get_many raises: the message stays as it is stored and takes no image turn.
HydrateFails(t) ==
  /\ GoOn(t)
  /\ msgs[conv[t]][at[t] - 1] # <<>>
  /\ missed' = [missed EXCEPT ![t] = IF @ < at[t] - 1 THEN at[t] - 1 ELSE @]
  /\ UNCHANGED <<todo, showing, turnsLeft>>

\* The request is complete; the model is asked.
Ask(t) ==
  /\ pc[t] = "building"
  /\ todo[t] = <<>>
  /\ at[t] <= 1
  /\ pc' = [pc EXCEPT ![t] = "asked"]
  /\ UNCHANGED <<fileVars, conv, records, storeVars, requestVars>>

TurnStep(t) ==
  \/ Resolve(t)
  \/ FetchPrior(t)
  \/ Persist(t)
  \/ DocumentBlock(t)
  \/ ImagePlaceholder(t)
  \/ LoadImage(t)
  \/ Hydrate(t)
  \/ HydrateFails(t)
  \/ Ask(t)

-----------------------------------------------------------------------------
\* Mutant: the links stay (SQLite without PRAGMA foreign_keys).
KeepLinks(a) == UNCHANGED turnVars

\* Deleting a record deletes its links (ON DELETE CASCADE); the references in
\* the messages stay.
Cascade(a) ==
  /\ links' = [c \in Conv |-> [i \in DOMAIN links[c] |-> links[c][i] \ {a}]]
  /\ UNCHANGED <<conv, pc, records, msgs, stamp, requestVars>>

RemoveStep(d) ==
  \/ DeleteRecord(d) /\ Cascade(which[d])
  \/ (FindRecord(d) \/ CountRecords(d) \/ Unlink(d)) /\ UNCHANGED turnVars

Restart ==
  /\ FilesRestart
  /\ pc' = [t \in Turn |-> IF pc[t] \in {"resolved", "fetched", "building"}
                           THEN "killed" ELSE pc[t]]
  /\ UNCHANGED <<conv, records, storeVars, requestVars>>

Next ==
  \/ \E u \in Upload : UploadStep(u) /\ UNCHANGED turnVars
  \/ \E d \in Removal : RemoveStep(d)
  \/ \E t \in Turn : TurnStep(t)
  \/ Restart

Spec == Init /\ [][Next]_vars

-----------------------------------------------------------------------------
(***************************************************************************)
(* estimate.py: what the references of messages 1..n will cost.            *)
(***************************************************************************)

Refs(c, i, kind) == {j \in DOMAIN msgs[c][i] : KindOf[data[msgs[c][i][j]]] = kind}

\* Document references in messages i..n, the newest ones of the replay set.
Documents(c, i, n) == UNION {{k} \X Refs(c, k, "document") : k \in i..n}

\* doc_chars_left after k documents, each charged its allowance.
CharsLeft[k \in Nat] ==
  IF k = 0 THEN Total
  ELSE CharsLeft[k - 1] - Taken(CharsLeft[k - 1], PerDoc)

\* The characters charged to messages i..n together.
PricedChars(c, i, n) == Total - CharsLeft[Cardinality(Documents(c, i, n))]

\* The images charged to message i: those of the last ImageTurns messages
\* that refer to an image.
PricedImages(c, i, n) ==
  LET newer == {k \in (i + 1)..n : Refs(c, k, "image") # {}}
  IN  IF Vision /\ Cardinality(newer) < ImageTurns
      THEN Cardinality(Refs(c, i, "image")) ELSE 0

-----------------------------------------------------------------------------
(***************************************************************************)
(* Properties.                                                             *)
(***************************************************************************)

Elements == [msg : Nat, id : Upload, form : {"text", "unreadable", "image", "placeholder"},
             chars : 0..Total]

\* The link table says of every message which of its files still exist, and
\* those have the stamp of a conversation ("gives referential integrity").
LinksMirrorReferences ==
  \A c \in Conv :
    /\ DOMAIN links[c] = DOMAIN msgs[c]
    /\ \A i \in DOMAIN msgs[c] :
         /\ links[c][i] = Range(msgs[c][i]) \cap Kept
         /\ \A a \in links[c][i] : stamp[a] # None

\* The types, and what the schema says of its tables.
TypeOK ==
  /\ FilesTypeOK
  /\ conv \in [Turn -> Conv \cup {None}]
  /\ pc \in [Turn -> {"idle", "refused", "resolved", "fetched", "building", "asked",
                      "raised", "killed"}]
  /\ \A t \in Turn : \A i \in DOMAIN records[t] :
       records[t][i] \in [id : Upload, readable : BOOLEAN]
  /\ \A c \in Conv : \A i \in DOMAIN msgs[c] : \A j \in DOMAIN msgs[c][i] :
       msgs[c][i][j] \in Upload
  /\ LinksMirrorReferences
  /\ stamp \in [Upload -> Conv \cup {None}]
  /\ prior \in [Turn -> Nat]
  /\ at \in [Turn -> Nat]
  /\ showing \in [Turn -> BOOLEAN]
  /\ left \in [Turn -> 0..Total]
  /\ turnsLeft \in [Turn -> 0..ImageTurns]
  /\ missed \in [Turn -> Nat]
  /\ \A t \in Turn : prompt[t] \subseteq Elements

\* A turn ends with an error, its message stored, only if a file of its
\* conversation was deleted or uploaded during the delete of the same bytes:
\* what other users delete does not reach it.
UndisturbedTurnsAsk ==
  \A t \in Turn : pc[t] = "raised" =>
    \E i \in DOMAIN msgs[conv[t]] : \E a \in Range(msgs[conv[t]][i]) :
      status[a] = "deleted" \/ a \in overlapped

\* All the text of a document that one request can show.
Full(id) == IF LengthOf[data[id]] < PerDoc THEN LengthOf[data[id]] ELSE PerDoc

Texts(t) == {e \in prompt[t] : e.form = "text"}

\* "When the budget runs out it's the oldest attachments that lose their
\* text" (inject.py:145-146): a document gets text only if each document of a
\* newer message got all that the cap of one document allows.
OldestLoseText ==
  \A t \in Turn : \A old, new \in Texts(t) :
    old.msg < new.msg /\ old.chars > 0
      => new.chars = Full(new.id)

\* "The allowance is a true upper bound" (estimate.py:238-239): for the newest
\* messages of the history, however many, the text that a request replays is
\* not more than what the estimate charges to them.
AllowanceCoversText ==
  \A t \in Turn : pc[t] \in {"building", "asked"} => \A i \in at[t]..prior[t] :
    MapThenSumSet(LAMBDA e : e.chars, {e \in Texts(t) : e.msg \in i..prior[t]})
      <= PricedChars(conv[t], i, prior[t])

\* "Images are priced exactly" (estimate.py:230-233): the images of a message
\* that a request sends again are those the estimate charged to it, as long as
\* of that message and the newer ones no look-up failed (inject.py:165-170) and
\* no image was deleted.
ImagesPricedExactly ==
  \A t \in Turn :
    LET c == conv[t]
        Deleted(i) == \E j \in Refs(c, i, "image") : status[msgs[c][i][j]] = "deleted"
    IN  pc[t] = "asked" =>
          \A i \in 1..prior[t] :
            missed[t] < i /\ ~(\E k \in i..prior[t] : Deleted(k)) =>
              Cardinality({e \in prompt[t] : e.msg = i /\ e.form = "image"})
                = PricedImages(c, i, prior[t])

=============================================================================
