----------------------------- MODULE Compaction -----------------------------
(***************************************************************************)
(* Compaction of one conversation and recovery from context overflow       *)
(* (agentserv: summarizer.py, run_graph in server.py, the rows of the      *)
(* conversation backends).                                                 *)
(*                                                                         *)
(* Rows are only ever appended.  A compaction folds the rows behind a cut  *)
(* into a checkpoint and moves the cursor summarized_count there; requests *)
(* replay the checkpoint and the rows after the cursor.  One is started in *)
(* the background after every turn, and one is forced inside a turn whose  *)
(* request the provider rejects as too long.  Every step between two       *)
(* awaits of a turn or of a compaction is an action.                       *)
(*                                                                         *)
(* Token estimates are abstracted: a compaction may or may not see         *)
(* pressure, and its cut and the cap of its input may fall anywhere the    *)
(* code lets them.                                                         *)
(***************************************************************************)
EXTENDS Naturals, Sequences, FiniteSets

CONSTANTS
  Turn,          \* POST /chat requests on the conversation
  None,          \* no call, no request yet
  KeepRecent,    \* config.summarizer.keep_recent
  MaxRetries,    \* config.graph.max_overflow_retries
  MaxCalls,      \* bound: tool calls of a turn
  MaxRestarts    \* bound: how often the process is restarted

ASSUME CompactionAssumption ==
  /\ KeepRecent \in Nat
  /\ MaxRetries \in Nat
  /\ MaxCalls \in Nat
  /\ MaxRestarts \in Nat
  /\ None \notin Turn \X (1 .. MaxCalls)

\* Call ids are unique: the provider's, per turn.
CallId == Turn \X (1 .. MaxCalls)

\* A row: who wrote it, the calls it announces, the call it answers.
Row == [turn : Turn, calls : SUBSET CallId, answers : CallId \cup {None}]

\* A compaction: after which turn, and from where.
Task == Turn \X {"background", "forced"}

VARIABLES
  rows,        \* the conversation's messages
  cursor,      \* summarized_count
  summary,     \* the rows the checkpoint was made from
  inFlight,    \* the conversation is in _in_flight
  pc,          \* how far a turn is
  attempt,     \* its overflow retries
  asked,       \* the index of its user row
  sent,        \* what its last request replayed: rows after .from
  task,        \* how far a compaction is
  read,        \* what it read: cursor and checkpoint
  fold,        \* what it will save: the new cursor and checkpoint
  \* Read by properties, and the bound:
  dropped,     \* rows the input cap left out of a saved checkpoint
  restarts

store == <<rows, cursor, summary, dropped>>
turns == <<pc, attempt, asked, sent>>
tasks == <<task, read, fold>>
vars == <<store, inFlight, turns, tasks, restarts>>

Nothing == [cursor |-> 0, summary |-> {}]
NoFold == [through |-> 0, covers |-> {}, without |-> {}]

Init ==
  /\ rows = <<>>
  /\ cursor = 0
  /\ summary = {}
  /\ inFlight = FALSE
  /\ pc = [t \in Turn |-> "none"]
  /\ attempt = [t \in Turn |-> 0]
  /\ asked = [t \in Turn |-> 0]
  /\ sent = [t \in Turn |-> None]
  /\ task = [c \in Task |-> "none"]
  /\ read = [c \in Task |-> Nothing]
  /\ fold = [c \in Task |-> NoFold]
  /\ dropped = {}
  /\ restarts = 0

-----------------------------------------------------------------------------
(***************************************************************************)
(* Cutting.                                                                *)
(***************************************************************************)

\* _forbidden_cutoffs: of the rows in from+1 .. upto, one at or before the
\* cut announces a call whose (first) answer is after it.
Forbidden(from, upto, cut) ==
  \E a \in from + 1 .. cut : \E id \in rows[a].calls :
    LET found == {k \in from + 1 .. upto : rows[k].answers = id} IN
    found # {} /\ \A k \in found : cut < k

Unaligned(from, upto, wanted) == {wanted}

\* _align_cutoff, as a set of one: the nearest cut at or before the wanted
\* one that splits no pair; cutting at `from` folds nothing.
Aligned(from, upto, wanted) ==
  {cut \in from .. wanted :
     /\ cut = from \/ ~Forbidden(from, upto, cut)
     /\ \A k \in cut + 1 .. wanted : Forbidden(from, upto, k)}

Least(a, b) == IF a <= b THEN a ELSE b

\* The cuts a compaction may choose.  Forced: all but the last two rows.
\* Otherwise _select_cutoff: a tail of retain_tokens, at least the last row
\* and keep_recent rows; where it begins depends on the rows' sizes.
Cuts(from, upto, kind) ==
  LET back(n) == IF upto - from >= n THEN upto - n ELSE from IN
  IF kind = "forced" THEN Aligned(from, upto, back(2))
  ELSE UNION {Aligned(from, upto, wanted) : wanted \in from .. Least(back(1), back(KeepRecent))}

\* The rows of start+1 .. cut that the summarization call does not show.  A
\* replay (history_to_messages) drops a result whose call is not among the
\* rows before it.  A flat transcript (_render) is made of texts and results
\* and passes over a row that announces calls without a word.
Parted(start, cut) ==
  {k \in start + 1 .. cut :
     rows[k].answers # None /\ \A a \in start + 1 .. k - 1 : rows[k].answers \notin rows[a].calls}
Wordless(start, cut) == SUBSET {k \in start + 1 .. cut : rows[k].calls # {}}
Unshown(start, cut) == {Parted(start, cut)} \cup Wordless(start, cut)

CheckpointCapped(prior, from, cut, start, unshown) ==
  [through |-> cut, without |-> from + 1 .. start,
   covers |-> (IF start > from THEN {} ELSE prior) \cup ((start + 1 .. cut) \ unshown)]

AllTrimmed(prior, from, cut, start, unshown) ==
  [through |-> cut, covers |-> prior, without |-> from + 1 .. cut]

\* What the summarization call shows the model: the previous checkpoint, and
\* the span less the rows _cap_input trims from its front, never all of them,
\* and less those it does not show.
Capped(prior, from, cut, start, unshown) ==
  [through |-> cut, without |-> from + 1 .. start,
   covers |-> prior \cup ((start + 1 .. cut) \ unshown)]

-----------------------------------------------------------------------------
(***************************************************************************)
(* One compaction.  The check of _in_flight and the entry into it have no  *)
(* await between them; the finally clause leaves it.                       *)
(***************************************************************************)

EnterAnyway(c) ==
  /\ inFlight' = TRUE
  /\ task' = [task EXCEPT ![c] = IF c[2] = "forced" THEN "meta" ELSE "measuring"]

Enter(c) ==
  /\ ~inFlight
  /\ inFlight' = TRUE
  /\ task' = [task EXCEPT ![c] = IF c[2] = "forced" THEN "meta" ELSE "measuring"]

ReturnToRetry(c, result) ==
  /\ inFlight' = FALSE
  /\ task' = [task EXCEPT ![c] = "none"]
  /\ read' = [read EXCEPT ![c] = Nothing]
  /\ fold' = [fold EXCEPT ![c] = NoFold]
  /\ pc' = [pc EXCEPT ![c[1]] = IF c[2] = "forced" THEN "rebuilding" ELSE @]

\* compact returns: the turn that forced it goes on with the answer.
Return(c, result) ==
  /\ inFlight' = FALSE
  /\ task' = [task EXCEPT ![c] = "none"]
  /\ read' = [read EXCEPT ![c] = Nothing]
  /\ fold' = [fold EXCEPT ![c] = NoFold]
  /\ pc' = [pc EXCEPT ![c[1]] =
       IF c[2] = "forced" THEN IF result THEN "rebuilding" ELSE "refused" ELSE @]

\* The background task starts: compact, or nothing if one is in flight.
BackgroundStart(c) ==
  /\ c[2] = "background"
  /\ task[c] = "scheduled"
  /\ \/ Enter(c)
     \/ /\ inFlight
        /\ task' = [task EXCEPT ![c] = "none"]
        /\ UNCHANGED inFlight
  /\ UNCHANGED <<store, turns, read, fold, restarts>>

\* The pressure check: not over the threshold, or on.
Measure(c) ==
  /\ task[c] = "measuring"
  /\ \/ Return(c, FALSE)
     \/ /\ task' = [task EXCEPT ![c] = "meta"]
        /\ UNCHANGED <<inFlight, pc, read, fold>>
  /\ UNCHANGED <<store, attempt, asked, sent, restarts>>

FetchMeta(c) ==
  /\ task[c] = "meta"
  /\ task' = [task EXCEPT ![c] = "full"]
  /\ read' = [read EXCEPT ![c] = [cursor |-> cursor, summary |-> summary]]
  /\ UNCHANGED <<store, inFlight, turns, fold, restarts>>

\* fetch_messages_full, and all that follows up to the summarization call.
FetchFull(c) ==
  LET from == read[c].cursor IN
  /\ task[c] = "full"
  /\ \E cut \in Cuts(from, Len(rows), c[2]) :
       \/ /\ cut <= from
          /\ Return(c, FALSE)
       \/ /\ cut > from
          /\ \E start \in from .. cut - 1 : \E unshown \in Unshown(start, cut) :
               fold' = [fold EXCEPT ![c] = Capped(read[c].summary, from, cut, start, unshown)]
          /\ task' = [task EXCEPT ![c] = "asking"]
          /\ UNCHANGED <<inFlight, pc, read>>
  /\ UNCHANGED <<store, attempt, asked, sent, restarts>>

\* The model answers with a summary that is not empty.
Summarized(c) ==
  /\ task[c] = "asking"
  /\ task' = [task EXCEPT ![c] = "saving"]
  /\ UNCHANGED <<store, inFlight, turns, read, fold, restarts>>

\* save_summary clamps the cursor to the rows there are.
Written(c) ==
  /\ cursor' = Least(fold[c].through, Len(rows))
  /\ summary' = fold[c].covers
  /\ dropped' = dropped \cup fold[c].without
  /\ UNCHANGED rows

SaveSummary(c) ==
  /\ task[c] = "saving"
  /\ Written(c)
  /\ Return(c, TRUE)
  /\ UNCHANGED <<attempt, asked, sent, restarts>>

\* Anything raises, or the summary is empty; a write may have been done.
CompactionFails(c) ==
  /\ task[c] \in {"measuring", "meta", "full", "asking", "saving"}
  /\ \/ UNCHANGED store
     \/ task[c] = "saving" /\ Written(c)
  /\ Return(c, FALSE)
  /\ UNCHANGED <<attempt, asked, sent, restarts>>

-----------------------------------------------------------------------------
(***************************************************************************)
(* Turns.                                                                  *)
(***************************************************************************)

UserRow(t) == [turn |-> t, calls |-> {}, answers |-> None]

\* The first turn creates the conversation with its message.
Create(t) ==
  /\ pc[t] = "none"
  /\ rows = <<>>
  /\ rows' = <<UserRow(t)>>
  /\ pc' = [pc EXCEPT ![t] = "running"]
  /\ asked' = [asked EXCEPT ![t] = 1]
  /\ sent' = [sent EXCEPT ![t] = [from |-> 0, own |-> TRUE]]
  /\ UNCHANGED <<cursor, summary, dropped, inFlight, attempt, tasks, restarts>>

\* A later one reads the history to replay ...
FetchPrior(t) ==
  /\ pc[t] = "none"
  /\ rows # <<>>
  /\ pc' = [pc EXCEPT ![t] = "appending"]
  /\ sent' = [sent EXCEPT ![t] = [from |-> cursor, own |-> TRUE]]
  /\ UNCHANGED <<store, inFlight, attempt, asked, tasks, restarts>>

\* ... appends its message, and starts the graph with both.
AppendUser(t) ==
  /\ pc[t] = "appending"
  /\ rows' = Append(rows, UserRow(t))
  /\ asked' = [asked EXCEPT ![t] = Len(rows) + 1]
  /\ pc' = [pc EXCEPT ![t] = "running"]
  /\ UNCHANGED <<cursor, summary, dropped, inFlight, attempt, sent, tasks, restarts>>

OverflowOnceMore(t) ==
  /\ pc[t] = "running"
  /\ attempt[t] <= MaxRetries
  /\ attempt' = [attempt EXCEPT ![t] = @ + 1]
  /\ \/ Enter(<<t, "forced">>) /\ pc' = [pc EXCEPT ![t] = "compacting"]
     \/ /\ inFlight
        /\ pc' = [pc EXCEPT ![t] = "refused"]
        /\ UNCHANGED <<inFlight, task>>
  /\ UNCHANGED <<store, asked, sent, read, fold, restarts>>

\* The provider rejects the request before anything was streamed, and there
\* are attempts left: force a compaction, or give up if one is in flight.
Overflow(t) ==
  /\ pc[t] = "running"
  /\ attempt[t] < MaxRetries
  /\ attempt' = [attempt EXCEPT ![t] = @ + 1]
  /\ \/ Enter(<<t, "forced">>) /\ pc' = [pc EXCEPT ![t] = "compacting"]
     \/ /\ inFlight
        /\ pc' = [pc EXCEPT ![t] = "refused"]
        /\ UNCHANGED <<inFlight, task>>
  /\ UNCHANGED <<store, asked, sent, read, fold, restarts>>

\* rebuild_after_compaction, and the request is sent again.
Rebuild(t) ==
  /\ pc[t] = "rebuilding"
  /\ pc' = [pc EXCEPT ![t] = "running"]
  /\ sent' = [sent EXCEPT ![t] = [from |-> cursor, own |-> asked[t] > cursor]]
  /\ UNCHANGED <<store, inFlight, attempt, asked, tasks, restarts>>

\* _persist_turn: the assistant's row with its calls, then their results in
\* call order.  Calls without result (dropped, or the turn was cut short) are
\* taken to be the last ones: what a cut may split does not depend on which.
Block(t, called, answered) ==
  <<[turn |-> t, calls |-> {t} \X (1 .. called), answers |-> None]>>
    \o [k \in 1 .. answered |-> [turn |-> t, calls |-> {}, answers |-> <<t, k>>]]

\* The turn ends, answered or not: it is written, or the write fails, and a
\* compaction is scheduled.
FlushTurn(t) ==
  /\ pc[t] \in {"running", "rebuilding", "refused"}
  /\ pc' = [pc EXCEPT ![t] = "over"]
  /\ attempt' = [attempt EXCEPT ![t] = 0]
  /\ asked' = [asked EXCEPT ![t] = 0]
  /\ sent' = [sent EXCEPT ![t] = None]
  /\ \/ \E called \in IF pc[t] = "running" THEN 0 .. MaxCalls ELSE {0} :
          \E answered \in 0 .. called : rows' = rows \o Block(t, called, answered)
     \/ UNCHANGED rows
  /\ task' = [task EXCEPT ![<<t, "background">>] = "scheduled"]
  /\ UNCHANGED <<cursor, summary, dropped, inFlight, read, fold, restarts>>

\* The process is restarted: turns and compactions die, the rows stay.
Restart ==
  /\ restarts < MaxRestarts
  /\ restarts' = restarts + 1
  /\ pc' = [t \in Turn |-> IF pc[t] = "none" THEN "none" ELSE "over"]
  /\ attempt' = [t \in Turn |-> 0]
  /\ asked' = [t \in Turn |-> 0]
  /\ sent' = [t \in Turn |-> None]
  /\ task' = [c \in Task |-> "none"]
  /\ read' = [c \in Task |-> Nothing]
  /\ fold' = [c \in Task |-> NoFold]
  /\ inFlight' = FALSE
  /\ UNCHANGED store

Next ==
  \/ \E t \in Turn :
       \/ Create(t) \/ FetchPrior(t) \/ AppendUser(t)
       \/ Overflow(t) \/ Rebuild(t) \/ FlushTurn(t)
  \/ \E c \in Task :
       \/ BackgroundStart(c) \/ Measure(c) \/ FetchMeta(c) \/ FetchFull(c)
       \/ Summarized(c) \/ SaveSummary(c) \/ CompactionFails(c)
  \/ Restart

Spec == Init /\ [][Next]_vars

-----------------------------------------------------------------------------
(***************************************************************************)
(* Properties.                                                             *)
(***************************************************************************)

Pcs == {"none", "appending", "running", "compacting", "rebuilding", "refused", "over"}
Running == {"measuring", "meta", "full", "asking", "saving"}

\* The shape of the state; the retries of a turn are bounded by
\* max_overflow_retries.
TypeOK ==
  /\ rows \in Seq(Row)
  /\ cursor \in 0 .. Len(rows)
  /\ summary \subseteq 1 .. Len(rows)
  /\ dropped \subseteq 1 .. Len(rows)
  /\ inFlight \in BOOLEAN
  /\ pc \in [Turn -> Pcs]
  /\ attempt \in [Turn -> 0 .. MaxRetries]
  /\ asked \in [Turn -> 0 .. Len(rows)]
  /\ sent \in [Turn -> [from : 0 .. Len(rows), own : BOOLEAN] \cup {None}]
  /\ task \in [Task -> {"none", "scheduled"} \cup Running]
  /\ read \in [Task -> [cursor : Nat, summary : SUBSET Nat]]
  /\ fold \in [Task -> [through : Nat, covers : SUBSET Nat, without : SUBSET Nat]]
  /\ restarts \in 0 .. MaxRestarts

\* One compaction at a time, and _in_flight says so: it is never left behind
\* by one that ended, failed or died, which would end compaction for good.
InFlightIsOne ==
  /\ \A c, d \in Task : task[c] \in Running /\ task[d] \in Running => c = d
  /\ inFlight <=> \E c \in Task : task[c] \in Running

\* A row leaves the replay set only into the checkpoint, or because the cap
\* of the summarization input left it out ("the one piece of context that
\* has no other copy in the replay set" is never dropped), however
\* compactions, turns and failures interleave.  All that can get lost beside
\* is an announcement of calls, which a flat transcript does not show, and
\* a result whose own call was trimmed, which a replay does not show.
FoldedIsKept ==
  /\ summary \subseteq 1 .. cursor
  /\ \A k \in (1 .. cursor) \ (summary \cup dropped) :
       rows[k].calls # {} \/ \E a \in dropped : rows[k].answers \in rows[a].calls

\* The replayed rows never hold the result of a call that was folded away.
\* (_align_cutoff: "better not to create one".)
NoPairIsSplit ==
  \A a \in 1 .. cursor : \A k \in cursor + 1 .. Len(rows) : rows[k].answers \notin rows[a].calls

\* No compaction puts an older checkpoint over a newer one ("the later result
\* may be overwritten by the earlier one finishing second").
CursorAdvances == [][cursor <= cursor']_cursor

\* A conversation that is compacted while turns go on is a transcript with a
\* gist that only grows, however compactions, appends, failed writes, caps
\* and restarts interleave.
History == INSTANCE Transcript WITH said <- rows, place <- cursor, gist <- summary
ImplementsTranscript == History!Spec

\* A request that is sent again after an overflow replays strictly less of
\* the rows the rejected one did.
RetriesShrink ==
  [][\A t \in Turn : pc[t] = "rebuilding" /\ pc'[t] = "running" => sent'[t].from > sent[t].from]_vars

\* "Nothing safe left to fold: the original error is the honest thing to
\* report": a turn that gives up without a compaction has nothing to fold.
GivesUpWithNothingToFold ==
  [][\A t \in Turn :
       pc[t] = "running" /\ pc'[t] = "refused"
         => \A cut \in Cuts(cursor, Len(rows), "forced") : cut = cursor]_vars

\* "The refetched history already contains it": the request of a retry
\* replays the user message of its turn.
RetryAsksTheQuestion == \A t \in Turn : sent[t] # None => sent[t].own

=============================================================================
