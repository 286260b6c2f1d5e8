---------------------------- MODULE InMemoryBackend ----------------------------
(***************************************************************************)
(* The ConversationBackend of a single process (inmemory.py): every        *)
(* operation is one step on a dictionary of conversations.  It is what the *)
(* kernel is tested with and what the SQL backend promises to behave like  *)
(* ("the same protocol", sqlbackend.py:3-16).                              *)
(*                                                                         *)
(* A call of create_conversation or append_messages is an element of Op.   *)
(***************************************************************************)
EXTENDS Naturals, Sequences

CONSTANTS
  Conv,      \* conversation ids
  Op,        \* calls that store messages
  ConvOf,    \* ConvOf[o]: the conversation of the call o
  Creates,   \* the calls of create_conversation
  RowsOf,    \* RowsOf[o]: the number of messages of the call
  TokensOf   \* TokensOf[o]: the tokens in its usage, 0 if it has none

VARIABLES
  kept,      \* kept[c]: the conversation is in _store
  messages,  \* messages[c]: its messages, a sequence of <<call, number>>
  summary,   \* summary[c]: the number of messages that the checkpoint was made of
  cursor,    \* cursor[c]: summarized_count
  tokens,    \* tokens[c]: input_tokens + output_tokens
  deleted,   \* deleted[c]: deleted_at is set
  renamed,   \* renamed[c]: title is set
  done       \* done[o]: the outcome of the call: "pending", "stored" or "failed"

folds == <<summary, cursor>>
marks == <<deleted, renamed>>
vars == <<done, kept, folds, tokens, marks, messages>>

Init ==
  /\ kept = [c \in Conv |-> FALSE]
  /\ messages = [c \in Conv |-> <<>>]
  /\ summary = [c \in Conv |-> 0]
  /\ cursor = [c \in Conv |-> 0]
  /\ tokens = [c \in Conv |-> 0]
  /\ deleted = [c \in Conv |-> FALSE]
  /\ renamed = [c \in Conv |-> FALSE]
  /\ done = [o \in Op |-> "pending"]

\* A call ends once.
Ends(o, outcome) == /\ done[o] = "pending"
                    /\ done' = [done EXCEPT ![o] = outcome]

\* The messages of a call, in order.
Batch(o) == [i \in 1..RowsOf[o] |-> <<o, i>>]

Create(o) ==
  LET c == ConvOf[o] IN
  /\ o \in Creates
  /\ Ends(o, "stored")
  /\ kept' = [kept EXCEPT ![c] = TRUE]
  /\ messages' = [messages EXCEPT ![c] = Batch(o)]
  /\ UNCHANGED <<folds, tokens, marks>>

Extend(o) ==
  LET c == ConvOf[o] IN
  /\ o \notin Creates
  /\ kept[c]
  /\ Ends(o, "stored")
  /\ messages' = [messages EXCEPT ![c] = @ \o Batch(o)]
  /\ tokens' = [tokens EXCEPT ![c] = @ + TokensOf[o]]
  /\ UNCHANGED <<kept, folds, marks>>

\* KeyError, and whatever else a backend raises: nothing is stored.
Fail(o) ==
  /\ Ends(o, "failed")
  /\ UNCHANGED <<kept, folds, tokens, marks, messages>>

\* save_summary: the checkpoint and the clamped cursor together.
SaveSummary(c, through) ==
  /\ kept[c]
  /\ summary' = [summary EXCEPT ![c] = through]
  /\ cursor' = [cursor EXCEPT ![c] = IF through < Len(messages[c]) THEN through
                                     ELSE Len(messages[c])]
  /\ UNCHANGED <<kept, tokens, marks, done, messages>>

SoftDelete(c) ==
  /\ kept[c]
  /\ deleted' = [deleted EXCEPT ![c] = TRUE]
  /\ UNCHANGED <<kept, renamed, folds, tokens, done, messages>>

\* A title, or None to go back to the one derived from the first message.
Rename(c) ==
  /\ kept[c]
  /\ \E given \in BOOLEAN : renamed' = [renamed EXCEPT ![c] = given]
  /\ UNCHANGED <<kept, deleted, folds, tokens, done, messages>>

\* delete_conversation, which only the SQL backend has: the conversation goes
\* with all that belongs to it.
Erase(c) ==
  /\ kept[c]
  /\ kept' = [kept EXCEPT ![c] = FALSE]
  /\ messages' = [messages EXCEPT ![c] = <<>>]
  /\ summary' = [summary EXCEPT ![c] = 0]
  /\ cursor' = [cursor EXCEPT ![c] = 0]
  /\ tokens' = [tokens EXCEPT ![c] = 0]
  /\ deleted' = [deleted EXCEPT ![c] = FALSE]
  /\ renamed' = [renamed EXCEPT ![c] = FALSE]
  /\ UNCHANGED done

-----------------------------------------------------------------------------
(***************************************************************************)
(* What the calls that read return for a conversation that is kept.        *)
(***************************************************************************)

\* fetch_history(for_llm=True): the messages behind the summary, if there is
\* one, and all of them if not.
History(c) == IF summary[c] > 0 THEN SubSeq(messages[c], cursor[c] + 1, Len(messages[c]))
              ELSE messages[c]

\* A title that was given, or what derive_title finds in the first message.
Title(c) == [given |-> renamed[c],
             opening |-> IF renamed[c] THEN {}
                         ELSE {messages[c][k] : k \in {1} \cap DOMAIN messages[c]}]

\* fetch_meta.
Meta(c) == [title |-> Title(c), deleted |-> deleted[c], count |-> Len(messages[c]),
            tokens |-> tokens[c], summary |-> summary[c], folded |-> cursor[c]]

\* list_conversations, of one user; the order and the pages are left out.
Listing == {[conv |-> c, title |-> Title(c), count |-> Len(messages[c])] :
              c \in {k \in Conv : kept[k] /\ ~deleted[k]}}

-----------------------------------------------------------------------------
Next ==
  \/ \E o \in Op : Create(o) \/ Extend(o) \/ Fail(o)
  \/ \E c \in Conv : \/ SoftDelete(c) \/ Rename(c) \/ Erase(c)
                     \/ \E through \in 0..Len(messages[c]) : SaveSummary(c, through)

Spec == Init /\ [][Next]_vars

=============================================================================
