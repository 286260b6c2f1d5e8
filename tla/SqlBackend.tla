------------------------------ MODULE SqlBackend ------------------------------
(***************************************************************************)
(* The ConversationBackend on a database (sqlbackend.py, sqlschema.py).    *)
(*                                                                         *)
(* Any number of server processes share the tables.  Within a process a    *)
(* lock serialises the transactions that store messages; nothing does      *)
(* between processes, so that what a transaction has read may be outdated  *)
(* when it writes.  A transaction is therefore two steps here, its reads   *)
(* and its writes with the commit, at which the constraints of the schema  *)
(* are enforced.  Readers take no lock, and fetch_history reads twice.     *)
(***************************************************************************)
EXTENDS Naturals, Sequences, FiniteSets

CONSTANTS
  Conv, Op, ConvOf, Creates, RowsOf, TokensOf,  \* as in InMemoryBackend
  Server,       \* server processes
  ServerOf,     \* ServerOf[o]: the process that the call o is made in
  Reader,       \* calls of fetch_history(for_llm=True) and fetch_meta
  Saver,        \* calls of save_summary
  None,         \* Python's None
  MaxCut,       \* bound: how many messages a summary folds
  MaxRestarts   \* bound: how often a server process is restarted

ASSUME SqlAssumption ==
  /\ ConvOf \in [Op -> Conv]
  /\ Creates \subseteq Op
  /\ \A o, p \in Creates : ConvOf[o] = ConvOf[p] => o = p   \* uuid4
  /\ RowsOf \in [Op -> Nat]
  /\ \A o \in Creates : RowsOf[o] = 1
  /\ TokensOf \in [Op -> Nat]
  /\ ServerOf \in [Op -> Server]
  /\ None \notin Op \cup Conv
  /\ MaxCut \in Nat
  /\ MaxRestarts \in Nat

VARIABLES
  conv,      \* the conversations table: "absent", "kept" or "erased"
  deleted,   \* deleted[c]: deleted_at is set
  renamed,   \* renamed[c]: title is set
  summary,   \* summary[c]: the number of messages the checkpoint was made of
  cursor,    \* cursor[c]: summarized_count
  tokens,    \* tokens[c]: total_input_tokens + total_output_tokens
  rows,      \* rows[c]: the messages table, a set of [seq, op, part]
  lock,      \* lock[s]: the call that holds _write_lock in s, or None
  tx,        \* tx[o]: "idle", "begun", "stored", "failed" or "killed"
  next,      \* next[o]: next_seq, computed from MAX(seq)
  head,      \* head[r]: the conversation row that the reader r got, or None
  count,     \* count[k]: what the call k of save_summary writes, once it has
             \* counted the rows, or None
  restarts   \* how often a process was restarted

convVars == <<conv, deleted, renamed, summary, cursor, tokens, rows>>
txVars == <<lock, tx, next>>
sqlVars == <<convVars, txVars, head, count, restarts>>

SqlInit ==
  /\ conv = [c \in Conv |-> "absent"]
  /\ deleted = [c \in Conv |-> FALSE]
  /\ renamed = [c \in Conv |-> FALSE]
  /\ summary = [c \in Conv |-> 0]
  /\ cursor = [c \in Conv |-> 0]
  /\ tokens = [c \in Conv |-> 0]
  /\ rows = [c \in Conv |-> {}]
  /\ lock = [s \in Server |-> None]
  /\ tx = [o \in Op |-> "idle"]
  /\ next = [o \in Op |-> 0]
  /\ head = [r \in Reader |-> None]
  /\ count = [k \in Saver |-> None]
  /\ restarts = 0

-----------------------------------------------------------------------------
\* The lock is taken before the transaction and released after it.
Free(o) == lock[ServerOf[o]] = None
Locked(o) == [lock EXCEPT ![ServerOf[o]] = o]
Unlocked(o) == [lock EXCEPT ![ServerOf[o]] = None]

\* create_conversation: the conversation and its first message; the id is new,
\* so that nothing read before can matter.
CreateConversation(o) ==
  LET c == ConvOf[o] IN
  /\ o \in Creates
  /\ tx[o] = "idle"
  /\ Free(o)
  /\ \/ /\ conv' = [conv EXCEPT ![c] = "kept"]
        /\ rows' = [rows EXCEPT ![c] = {[seq |-> 0, op |-> o, part |-> 1]}]
        /\ tx' = [tx EXCEPT ![o] = "stored"]
     \/ /\ tx' = [tx EXCEPT ![o] = "failed"]
        /\ UNCHANGED <<conv, rows>>
  /\ UNCHANGED <<deleted, renamed, summary, cursor, tokens, lock, next,
                 head, count, restarts>>

\* append_messages up to the reads: the conversation's key and MAX(seq).
NextSeq(c) == IF rows[c] = {} THEN 0
              ELSE 1 + (CHOOSE n \in {r.seq : r \in rows[c]} : \A r \in rows[c] : r.seq <= n)

BeginAppend(o) ==
  LET c == ConvOf[o] IN
  /\ o \notin Creates
  /\ tx[o] = "idle"
  /\ Free(o)
  /\ IF conv[c] = "kept"
     THEN /\ lock' = Locked(o)
          /\ tx' = [tx EXCEPT ![o] = "begun"]
          /\ next' = [next EXCEPT ![o] = NextSeq(c)]
     ELSE /\ tx' = [tx EXCEPT ![o] = "failed"]    \* KeyError
          /\ UNCHANGED <<lock, next>>
  /\ UNCHANGED <<convVars, head, count, restarts>>

\* The rows of the call, in order from next_seq.
Batch(o) == {[seq |-> next[o] + i - 1, op |-> o, part |-> i] : i \in 1..RowsOf[o]}

\* Mutant: the table has an index on (conversation, seq), not a
\* unique constraint.
AcceptsAny(o) == conv[ConvOf[o]] = "kept"

\* What the schema demands: the foreign key and uq_messages_conv_seq.
Accepts(o) == /\ conv[ConvOf[o]] = "kept"
              /\ \A r \in rows[ConvOf[o]], b \in Batch(o) : r.seq # b.seq

\* Mutant: each row commits by itself, and an error leaves the
\* first.
CommitByRow(o) ==
  LET c == ConvOf[o] IN
  /\ tx[o] = "begun"
  /\ lock' = Unlocked(o)
  /\ next' = [next EXCEPT ![o] = 0]
  /\ Accepts(o)
  /\ \/ /\ rows' = [rows EXCEPT ![c] = @ \cup Batch(o)]
        /\ tokens' = [tokens EXCEPT ![c] = @ + TokensOf[o]]
        /\ tx' = [tx EXCEPT ![o] = "stored"]
     \/ /\ rows' = [rows EXCEPT ![c] = @ \cup {b \in Batch(o) : b.part = 1}]
        /\ tx' = [tx EXCEPT ![o] = "failed"]
        /\ UNCHANGED tokens
  /\ UNCHANGED <<conv, deleted, renamed, summary, cursor, head, count, restarts>>

\* The inserts and the totals.  A violated constraint, or whatever else the
\* database raises, rolls all of it back.
CommitAppend(o) ==
  LET c == ConvOf[o] IN
  /\ tx[o] = "begun"
  /\ lock' = Unlocked(o)
  /\ next' = [next EXCEPT ![o] = 0]
  /\ \/ /\ Accepts(o)
        /\ rows' = [rows EXCEPT ![c] = @ \cup Batch(o)]
        /\ tokens' = [tokens EXCEPT ![c] = @ + TokensOf[o]]
        /\ tx' = [tx EXCEPT ![o] = "stored"]
     \/ /\ tx' = [tx EXCEPT ![o] = "failed"]
        /\ UNCHANGED <<rows, tokens>>
  /\ UNCHANGED <<conv, deleted, renamed, summary, cursor, head, count, restarts>>

\* save_summary for a cut that its caller found in the rows: the rows are
\* counted, then the conversation row is updated, if it is still there.
Clamped(through, c) ==
  IF through < Cardinality(rows[c]) THEN through ELSE Cardinality(rows[c])

CountRows(k) ==
  /\ count[k] = None
  /\ \E c \in Conv : \E through \in 1..MaxCut :
       /\ through <= Cardinality(rows[c])
       /\ count' = [count EXCEPT ![k] = [conv |-> c, through |-> through,
                                         folded |-> Clamped(through, c)]]
  /\ UNCHANGED <<convVars, txVars, head, restarts>>

UpdateSummary(k) ==
  LET c == count[k].conv IN
  /\ count[k] # None
  /\ count' = [count EXCEPT ![k] = None]
  /\ IF conv[c] = "kept"
     THEN /\ summary' = [summary EXCEPT ![c] = count[k].through]
          /\ cursor' = [cursor EXCEPT ![c] = count[k].folded]
     ELSE UNCHANGED <<summary, cursor>>
  /\ UNCHANGED <<conv, deleted, renamed, tokens, rows, txVars, head, restarts>>

\* fetch_history(for_llm=True) and fetch_meta: the conversation row...
ReadHead(r) ==
  /\ head[r] = None
  /\ \E c \in Conv :
       /\ conv[c] = "kept"
       /\ head' = [head EXCEPT ![r] = [conv |-> c, summary |-> summary[c], from |-> cursor[c],
                                      given |-> renamed[c]]]
  /\ UNCHANGED <<convVars, txVars, count, restarts>>

\* Mutant: the cursor is taken as the last folded message.
FetchedAfter(r) == {m \in rows[head[r].conv] : head[r].summary > 0 => m.seq > head[r].from}

\* ... and for fetch_history in a second statement the messages, from its
\* cursor on if there is a summary, with which the call returns.
Fetched(r) == {m \in rows[head[r].conv] : head[r].summary > 0 => m.seq >= head[r].from}

\* fetch_meta counts the messages, and takes the title of a conversation that
\* has none from the first one.  Its other columns are those of the row.
Titled(given, c) == [given |-> given,
                     opening |-> IF given THEN {}
                                 ELSE {<<m.op, m.part>> : m \in {q \in rows[c] : q.seq = 0}}]

Meta(r) == [title |-> Titled(head[r].given, head[r].conv), count |-> Cardinality(rows[head[r].conv]),
            summary |-> head[r].summary, folded |-> head[r].from]

\* list_conversations, a single statement.
Listing == {[conv |-> c, title |-> Titled(renamed[c], c), count |-> Cardinality(rows[c])] :
              c \in {k \in Conv : conv[k] = "kept" /\ ~deleted[k]}}

ReadRows(r) ==
  /\ head[r] # None
  /\ head' = [head EXCEPT ![r] = None]
  /\ UNCHANGED <<convVars, txVars, count, restarts>>

SoftDelete(c) ==
  /\ conv[c] = "kept"
  /\ deleted' = [deleted EXCEPT ![c] = TRUE]
  /\ UNCHANGED <<conv, renamed, summary, cursor, tokens, rows, txVars, head, count, restarts>>

Rename(c) ==
  /\ conv[c] = "kept"
  /\ \E given \in BOOLEAN : renamed' = [renamed EXCEPT ![c] = given]
  /\ UNCHANGED <<conv, deleted, summary, cursor, tokens, rows, txVars, head, count, restarts>>

\* delete_conversation: the messages go with the row (ON DELETE CASCADE).
Erase(c) ==
  /\ conv[c] = "kept"
  /\ conv' = [conv EXCEPT ![c] = "erased"]
  /\ rows' = [rows EXCEPT ![c] = {}]
  /\ deleted' = [deleted EXCEPT ![c] = FALSE]
  /\ renamed' = [renamed EXCEPT ![c] = FALSE]
  /\ summary' = [summary EXCEPT ![c] = 0]
  /\ cursor' = [cursor EXCEPT ![c] = 0]
  /\ tokens' = [tokens EXCEPT ![c] = 0]
  /\ UNCHANGED <<txVars, head, count, restarts>>

\* A server process stops: its open transaction is rolled back.
SqlRestart(s) ==
  /\ restarts < MaxRestarts
  /\ restarts' = restarts + 1
  /\ tx' = [o \in Op |-> IF ServerOf[o] = s /\ tx[o] = "begun" THEN "killed" ELSE tx[o]]
  /\ lock' = [lock EXCEPT ![s] = None]
  /\ next' = [o \in Op |-> IF ServerOf[o] = s THEN 0 ELSE next[o]]
  /\ UNCHANGED <<convVars, head, count>>

-----------------------------------------------------------------------------
(***************************************************************************)
(* The abstract backend that this one implements: a conversation's rows in *)
(* the order of seq are its messages, and a call whose transaction is open *)
(* has not happened yet.                                                   *)
(***************************************************************************)
Nth(S, i) == CHOOSE r \in S : Cardinality({q \in S : q.seq < r.seq}) = i - 1

Messages(c) == [i \in 1..Cardinality(rows[c]) |->
                  LET r == Nth(rows[c], i) IN <<r.op, r.part>>]

Outcome(o) == CASE tx[o] \in {"idle", "begun"} -> "pending"
                [] tx[o] = "stored"            -> "stored"
                [] tx[o] \in {"failed", "killed"} -> "failed"

Backend == INSTANCE InMemoryBackend WITH kept <- [c \in Conv |-> conv[c] = "kept"],
                                         messages <- [c \in Conv |-> Messages(c)],
                                         done <- [o \in Op |-> Outcome(o)]

-----------------------------------------------------------------------------
(***************************************************************************)
(* Properties.                                                             *)
(***************************************************************************)

\* The types.
SqlTypeOK ==
  /\ conv \in [Conv -> {"absent", "kept", "erased"}]
  /\ deleted \in [Conv -> BOOLEAN]
  /\ renamed \in [Conv -> BOOLEAN]
  /\ summary \in [Conv -> Nat]
  /\ cursor \in [Conv -> Nat]
  /\ tokens \in [Conv -> Nat]
  /\ rows \in [Conv -> SUBSET [seq : Nat, op : Op, part : Nat]]
  /\ lock \in [Server -> Op \cup {None}]
  /\ tx \in [Op -> {"idle", "begun", "stored", "failed", "killed"}]
  /\ next \in [Op -> Nat]
  /\ head \in [Reader -> [conv : Conv, summary : Nat, from : Nat, given : BOOLEAN] \cup {None}]
  /\ count \in [Saver -> [conv : Conv, through : Nat, folded : Nat] \cup {None}]
  /\ restarts \in 0..MaxRestarts

\* No seq is used twice or left out.
Dense(S) == /\ \A r, q \in S : r.seq = q.seq => r = q
            /\ \A r \in S : \A n \in 0..r.seq : \E q \in S : q.seq = n

\* "Dense 0-based position within the conversation" (sqlschema.py:100-101):
\* the cursor of a summary and the index of a cut count messages by it, in
\* whichever processes the blocks were numbered and whatever failed between.
SeqIsDense == \A c \in Conv : Dense(rows[c])

\* A read of several statements leaves no message out, whatever is appended or
\* folded in between: what the summary that fetch_history was given does not
\* fold is among its rows, in one piece, and fetch_meta counts what its cursor
\* folds.  "Both endpoints agree on what this conversation is called": the
\* title and the listing are those of the backend of a single process.
ReadsAgree ==
  /\ \A r \in Reader : head[r] # None =>
       LET c == head[r].conv IN
       conv[c] = "kept" =>
         /\ {m.seq : m \in Fetched(r)} = head[r].summary..(Cardinality(rows[c]) - 1)
         /\ Meta(r).folded <= Meta(r).count
         /\ head[r].given = renamed[c] => Meta(r).title = Backend!Title(c)
  /\ Listing = Backend!Listing

\* Processes that share the tables, with transactions that overlap and roll
\* back and processes that die in one, are the backend of a single process:
\* a block of messages is stored whole, once and in order, with its tokens,
\* and a summary and its cursor change together.
ImplementsBackend == Backend!Spec

=============================================================================
