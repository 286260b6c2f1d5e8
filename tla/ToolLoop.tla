------------------------------- MODULE ToolLoop -------------------------------
(***************************************************************************)
(* The turns of one conversation as the model and its tools see them       *)
(* (agentserv: graph.py, drive and run_graph in server.py, _persist_turn). *)
(*                                                                         *)
(* A turn alternates rounds: the model answers with text and tool calls,   *)
(* the calls are selected and run one after the other, and the model is    *)
(* asked again, until it calls nothing, a call returned a proposal or the  *)
(* rounds are used up.  drive follows the graph's events and keeps what    *)
(* it will write and what it shows the client; a request that is rejected  *)
(* as too long may be retried; in the end the turn is written as one       *)
(* assistant row with all its calls, and a row per result.                 *)
(*                                                                         *)
(* Turns of the conversation follow each other here; ChatRuns has those    *)
(* that overlap.  Text, arguments and results are abstracted to what       *)
(* decides where the turn goes.                                            *)
(***************************************************************************)
EXTENDS Positions

CONSTANTS
  Tool,        \* names of tools
  Write,       \* those of actions that require confirmation
  Artifact,    \* those the front end renders
  Arg,         \* arguments, proposal_token apart
  MaxTurns,    \* config.graph.max_turns
  Limit,       \* config.graph.max_tool_calls_per_turn
  MaxRetries,  \* config.graph.max_overflow_retries
  MaxCalls,    \* bound: calls the model makes in all
  MaxPosts     \* bound: turns of the conversation

ASSUME ToolLoopAssumption ==
  /\ Write \subseteq Tool
  /\ Artifact \subseteq Tool \ Write
  /\ MaxTurns \in Nat \ {0}
  /\ Limit \in Nat
  /\ MaxRetries \in Nat
  /\ MaxCalls \in Nat
  /\ MaxPosts \in Nat

\* A call, equal to another when _call_key is; token: it carries a
\* proposal_token (_is_confirmed_write).
Call == [tool : Tool, arg : Arg, token : BOOLEAN]

\* The id of a call: turn, round and place in the response.  The provider's
\* ids are taken to be unique.
Id == (1 .. MaxPosts) \X (1 .. MaxTurns) \X (1 .. MaxCalls)

\* _build_args_model: only an action that requires confirmation has the
\* parameter proposal_token, and a parameter it does not have is an error.
Validates(c) == c.token => c.tool \in Write

\* What a tool makes of a call: a proposal (dry run), an envelope with an
\* image or without, or it raises.  A tool that does not exist has the same
\* effect as one that raises.
Outcome == {"proposal", "image", "result", "raised"}
Outcomes(c) ==
  CASE ~Validates(c)                -> {"raised"}
    [] c.token                      -> {"image", "result", "raised"}
    [] c.tool \in Write /\ ~c.token -> {"proposal", "result", "raised"}
    [] OTHER                        -> {"result", "raised"}

VARIABLES
  turn,       \* how many turns were begun
  pc,         \* where the turn is
  rounds,     \* state.turns of the graph
  attempt,    \* overflow retries
  response,   \* the calls of the last response ...
  next,       \* ... and which of them tool_node is at
  text,       \* acc["assistant_text"] is not empty
  pending,    \* acc["pending_calls"], in order
  results,    \* acc["tool_results"]
  frames,     \* the run's tool_call, tool_result and confirm_required events
  rows,       \* the conversation's messages
  executed,   \* every call that was run; of this response: `executed` of tool_node
  lost,       \* history: the turns whose write failed
  called      \* bound: how many calls the model made

accVars == <<text, pending, results>>
vars == <<turn, pc, rounds, attempt, response, next, accVars, frames, rows, executed, lost, called>>

Init ==
  /\ turn = 0
  /\ pc = "over"
  /\ rounds = 0
  /\ attempt = 0
  /\ response = <<>>
  /\ next = 1
  /\ text = FALSE
  /\ pending = <<>>
  /\ results = <<>>
  /\ frames = <<>>
  /\ rows = <<>>
  /\ executed = {}
  /\ lost = {}
  /\ called = 0

ElementsOf(s) == {s[k] : k \in DOMAIN s}

-----------------------------------------------------------------------------
(***************************************************************************)
(* The beginning of a turn, and the model's answers.                       *)
(***************************************************************************)

\* POST /chat: the user's row, a new accumulator, a new run.
Post ==
  /\ pc = "over"
  /\ turn < MaxPosts
  /\ turn' = turn + 1
  /\ pc' = "asking"
  /\ rounds' = 0
  /\ attempt' = 0
  /\ response' = <<>>
  /\ next' = 1
  /\ text' = FALSE
  /\ pending' = <<>>
  /\ results' = <<>>
  /\ frames' = <<>>
  /\ rows' = Append(rows, [role |-> "user", calls |-> <<>>, answers |-> <<>>, outcome |-> "none"])
  /\ UNCHANGED <<executed, lost, called>>

\* The calls of a response with the ids they get.
Announced(calls) == [k \in DOMAIN calls |-> [id |-> <<turn, rounds + 1, k>>, call |-> calls[k]]]

\* A response that was not cut off: its calls are announced, and run unless
\* the rounds are used up.
Answer(calls, says) ==
  /\ pc = "asking"
  /\ rounds' = rounds + 1
  /\ text' = (text \/ says)
  /\ pending' = pending \o Announced(calls)
  /\ frames' = frames \o [k \in DOMAIN calls |->
       [event |-> "tool_call", id |-> Announced(calls)[k].id, call |-> calls[k], outcome |-> "none"]]
  /\ response' = calls
  /\ next' = 1
  /\ pc' = IF rounds' >= MaxTurns \/ calls = <<>> THEN "ending" ELSE "tools"
  /\ called' = called + Len(calls)
  /\ UNCHANGED <<turn, attempt, results, rows, executed, lost>>

\* finish_reason is length: whatever calls it has are dropped.
Truncated(says) ==
  /\ pc = "asking"
  /\ rounds' = rounds + 1
  /\ text' = (text \/ says)
  /\ response' = <<>>
  /\ next' = 1
  /\ pc' = "ending"
  /\ UNCHANGED <<turn, attempt, pending, results, frames, rows, executed, lost, called>>

-----------------------------------------------------------------------------
(***************************************************************************)
(* tool_node.                                                              *)
(***************************************************************************)

\* The distinct calls of a response that come before c does.
Before(calls, c) ==
  {calls[j] : j \in {i \in DOMAIN calls : \A k \in DOMAIN calls : calls[k] = c => i < k}}

FirstSelected(calls) == {c \in ElementsOf(calls) : Cardinality(Before(calls, c)) < Limit}

\* _select_calls: all, or as many as the limit allows, confirmed writes
\* first and always.
Selected(calls) ==
  LET confirmed == {c \in ElementsOf(calls) : c.token} IN
  IF Cardinality(ElementsOf(calls)) <= Limit THEN ElementsOf(calls)
  ELSE confirmed \cup
         {c \in ElementsOf(calls) : Cardinality(confirmed \cup Before(calls, c)) < Limit}

ThisRound == {e \in executed : e.id[1] = turn /\ e.id[2] = rounds}
RunNow == {e.call : e \in ThisRound}

\* A repeated call gets the first one's result and a call past the limit an
\* error, in the model's messages only: no tool ran, and drive sees nothing.
SkipCall ==
  /\ pc = "tools"
  /\ next <= Len(response)
  /\ response[next] \in RunNow \/ response[next] \notin Selected(response)
  /\ next' = next + 1
  /\ UNCHANGED <<turn, pc, rounds, attempt, response, accVars, frames, rows, executed, lost, called>>

\* drive, on_tool_end: the result is stored under the id of its call, and
\* shown: a proposal as a card to confirm, an artifact not at all.
Shown(id, c, outcome) ==
  IF outcome = "proposal"
    THEN <<[event |-> "confirm_required", id |-> id, call |-> c, outcome |-> outcome]>>
  ELSE IF c.tool \in Artifact THEN <<>>
  ELSE <<[event |-> "tool_result", id |-> id, call |-> c, outcome |-> outcome]>>

\* drive's fallback for a result that names no call: the first call of that
\* tool without a result.  Results name theirs: tools get the whole call.
PairedByName(id, c) ==
  LET waiting == {k \in DOMAIN pending :
                    /\ pending[k].call.tool = c.tool
                    /\ \A r \in ElementsOf(results) : r.id # pending[k].id} IN
  IF waiting = {} THEN id ELSE pending[CHOOSE k \in waiting : \A j \in waiting : k <= j].id
Paired(id, c) == id

\* A call that runs; if the tool raises only the model hears of it.
RunCall(outcome) ==
  LET c == response[next]
      id == <<turn, rounds, next>> IN
  /\ pc = "tools"
  /\ next <= Len(response)
  /\ c \notin RunNow /\ c \in Selected(response)
  /\ outcome \in Outcomes(c)
  /\ executed' = executed \cup {[id |-> id, call |-> c, outcome |-> outcome]}
  /\ IF outcome = "raised" THEN UNCHANGED <<results, frames>>
     ELSE /\ results' = Append(results, [id |-> Paired(id, c), outcome |-> outcome])
          /\ frames' = frames \o Shown(id, c, outcome)
  /\ next' = next + 1
  /\ UNCHANGED <<turn, pc, rounds, attempt, response, text, pending, rows, lost, called>>

\* route_after_tools: any proposal of the round ends the turn.
LastProposes == \E e \in ThisRound : e.id[3] = Len(response) /\ e.outcome = "proposal"
Proposes == \E e \in ThisRound : e.outcome = "proposal"
RouteAfterTools ==
  /\ pc = "tools"
  /\ next > Len(response)
  /\ pc' = IF Proposes THEN "ending" ELSE "asking"
  /\ UNCHANGED <<turn, rounds, attempt, response, next, accVars, frames, rows, executed, lost, called>>

-----------------------------------------------------------------------------
(***************************************************************************)
(* Failure, and the end of a turn.                                         *)
(***************************************************************************)

RetryOnceMore(says) == attempt <= MaxRetries /\ ~text /\ ~says /\ pending = <<>>
RetryUnlessText(says) == attempt < MaxRetries /\ ~text /\ ~says
\* An overflow is recoverable while nothing was sent to the client.
Recoverable(says) == attempt < MaxRetries /\ ~text /\ ~says /\ pending = <<>>

RequestFailsUncounted(overflow, says) ==
  /\ pc = "asking"
  /\ text' = (text \/ says)
  /\ pc' = IF overflow /\ Recoverable(says) THEN "recovering" ELSE "ending"
  /\ UNCHANGED <<turn, rounds, attempt, response, next, pending, results, frames, rows, executed, lost, called>>

\* The request fails, perhaps after some text of it was streamed.
RequestFails(overflow, says) ==
  /\ pc = "asking"
  /\ text' = (text \/ says)
  /\ IF overflow /\ Recoverable(says)
     THEN /\ pc' = "recovering"
          /\ attempt' = attempt + 1
     ELSE pc' = "ending" /\ UNCHANGED attempt
  /\ UNCHANGED <<turn, rounds, response, next, pending, results, frames, rows, executed, lost, called>>

\* The compaction and the rebuild: the graph starts again, or the turn ends.
Recovered ==
  /\ pc = "recovering"
  /\ \/ pc' = "asking" /\ rounds' = 0
     \/ pc' = "ending" /\ UNCHANGED rounds
  /\ UNCHANGED <<turn, attempt, response, next, accVars, frames, rows, executed, lost, called>>

BlockTrimmed ==
  LET kept == SelectSeq(results, LAMBDA r : r.outcome # "proposal") IN
  <<[role |-> "assistant", calls |-> [k \in DOMAIN pending |-> pending[k].id],
     answers |-> <<>>, outcome |-> "none"]>>
    \o [k \in DOMAIN kept |->
         [role |-> "tool", calls |-> <<>>, answers |-> kept[k].id, outcome |-> kept[k].outcome]]

\* _persist_turn: the assistant's row and a row per result, in one append.
Block ==
  <<[role |-> "assistant", calls |-> [k \in DOMAIN pending |-> pending[k].id],
     answers |-> <<>>, outcome |-> "none"]>>
    \o [k \in DOMAIN results |->
         [role |-> "tool", calls |-> <<>>, answers |-> results[k].id, outcome |-> results[k].outcome]]

\* The turn is written, or the write fails; then it is done.
EndTurn ==
  /\ pc = "ending"
  /\ pc' = "over"
  /\ \/ rows' = rows \o Block /\ UNCHANGED lost
     \/ lost' = lost \cup {turn} /\ UNCHANGED rows
  /\ UNCHANGED <<turn, rounds, attempt, response, next, accVars, frames, executed, called>>

Responses == UNION {[1 .. n -> Call] : n \in 0 .. MaxCalls - called}

GraphStep ==
  \/ pc = "asking" /\ \E calls \in Responses, says \in BOOLEAN : Answer(calls, says)
  \/ \E says \in BOOLEAN : Truncated(says) \/ \E overflow \in BOOLEAN : RequestFails(overflow, says)
  \/ SkipCall
  \/ \E outcome \in Outcome : RunCall(outcome)
  \/ RouteAfterTools
  \/ Recovered
  \/ EndTurn

Next == Post \/ GraphStep

Spec == Init /\ [][Next]_vars

-----------------------------------------------------------------------------
(***************************************************************************)
(* What a later request replays.                                           *)
(***************************************************************************)

ReplayedAll(window, calls) == calls

\* The calls of an assistant row whose results are in the window.
WithResult(window, calls) ==
  {i \in DOMAIN calls : \E k \in DOMAIN window : window[k].role = "tool" /\ window[k].answers = calls[i]}
Replayed(window, calls) == Chosen(calls, WithResult(window, calls))

\* A result without its call before it is dropped.
KeptIn(window) ==
  {k \in DOMAIN window : window[k].role = "tool" =>
     \E j \in 1 .. k - 1 : window[k].answers \in ElementsOf(window[j].calls)}

\* history_to_messages: the rows that are kept, with the calls that have a
\* result in the window.
Replay(window) ==
  LET Message(row) == [role |-> row.role, answers |-> row.answers, calls |-> Replayed(window, row.calls)]
      kept == Chosen(window, KeptIn(window))
  IN  [m \in DOMAIN kept |-> Message(kept[m])]

-----------------------------------------------------------------------------
(***************************************************************************)
(* Properties.                                                             *)
(***************************************************************************)

Row == [role : {"user", "assistant", "tool"}, calls : Seq(Id), answers : Id \cup {<<>>},
        outcome : Outcome \cup {"none"}]
Frame == [event : {"tool_call", "tool_result", "confirm_required"}, id : Id, call : Call,
          outcome : Outcome \cup {"none"}]

\* The shape of the state: rounds and retries have their maximum.
TypeOK ==
  /\ turn \in 0 .. MaxPosts
  /\ pc \in {"asking", "tools", "recovering", "ending", "over"}
  /\ rounds \in 0 .. MaxTurns
  /\ attempt \in 0 .. MaxRetries
  /\ response \in Seq(Call)
  /\ next \in 1 .. Len(response) + 1
  /\ text \in BOOLEAN
  /\ pending \in Seq([id : Id, call : Call])
  /\ results \in Seq([id : Id, outcome : Outcome])
  /\ frames \in Seq(Frame)
  /\ rows \in Seq(Row)
  /\ executed \subseteq [id : Id, call : Call, outcome : Outcome]
  /\ lost \subseteq 1 .. turn
  /\ called \in 0 .. MaxCalls

\* The calls of round n of turn t that were run.
RunIn(t, n) == {e \in executed : e.id[1] = t /\ e.id[2] = n}

\* "Actions can cost the user real money": of one response no call runs
\* twice, and no more of them than the limit, unless all that run are
\* writes the user confirmed.  "Confirmed writes are never the ones dropped":
\* tool_node gets past none without running it, whatever repeats and reads
\* stand before it.
CapSparesConfirmed ==
  /\ \A t \in 1 .. MaxPosts, n \in 1 .. MaxTurns :
       /\ \A e, f \in RunIn(t, n) : e.call = f.call => e = f
       /\ Cardinality(RunIn(t, n)) <= Limit \/ \A e \in RunIn(t, n) : e.call.token
  /\ pc = "tools" => \A k \in 1 .. next - 1 : response[k].token => response[k] \in RunNow

\* The model is not asked again in a turn that proposed something, wherever
\* in its round the proposal was; the user decides first.
ProposalEndsTurn ==
  pc = "asking" => \A e \in executed : e.id[1] = turn => e.outcome # "proposal"

\* "Re-running would duplicate it": a turn that starts again after an
\* overflow has run nothing and shown nothing.
NoRetryAfterSideEffect ==
  pc = "recovering" => frames = <<>> /\ ~text /\ \A e \in executed : e.id[1] # turn

\* The record of a turn: each result row is what the call of that id
\* returned, once, under an assistant row that announces the call, with
\* results only in between; and every call that ran and did not raise has
\* its row unless the write of its turn failed.
RecordIsTrue ==
  LET Result(k) == rows[k].role = "tool" IN
  /\ \A k \in DOMAIN rows : Result(k) =>
       /\ \E e \in executed : e.id = rows[k].answers /\ e.outcome = rows[k].outcome
       /\ \A j \in DOMAIN rows : Result(j) /\ rows[j].answers = rows[k].answers => j = k
       /\ \E a \in 1 .. k - 1 : /\ rows[k].answers \in ElementsOf(rows[a].calls)
                                /\ \A j \in a + 1 .. k : Result(j)
  /\ \A e \in executed :
       \/ e.outcome = "raised" \/ e.id[1] \in lost \/ (e.id[1] = turn /\ pc # "over")
       \/ \E k \in DOMAIN rows : Result(k) /\ rows[k].answers = e.id

\* The provider "requires every assistant tool_call to be followed by its
\* matching tool message": wherever the cursor of a compaction is, what is
\* replayed has the results of an assistant message's calls, all of them and
\* nothing else, right behind it.
Accepted(messages) ==
  /\ \A k \in DOMAIN messages :
       LET n == Len(messages[k].calls) IN
       /\ k + n <= Len(messages)
       /\ \A id \in ElementsOf(messages[k].calls) :
            \E j \in k + 1 .. k + n : messages[j].role = "tool" /\ messages[j].answers = id
  /\ \A k \in DOMAIN messages : messages[k].role = "tool" =>
       \E j \in 1 .. k - 1 : /\ messages[k].answers \in ElementsOf(messages[j].calls)
                             /\ k <= j + Len(messages[j].calls)
ReplayIsAccepted == \A cursor \in 0 .. Len(rows) : Accepted(Replay(SubSeq(rows, cursor + 1, Len(rows))))

=============================================================================
