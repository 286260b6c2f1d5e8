--------------------------- MODULE ChatPanelProofs ---------------------------
(***************************************************************************)
(* Proofs about ToolLoop and ChatPanel, for any tools and arguments, any   *)
(* limits, and any number of calls and turns: what one response may run,   *)
(* when the model is asked again, what is written of a turn, what a later  *)
(* request replays of it, and what a confirmation finds in the history.    *)
(***************************************************************************)
EXTENDS ChatPanel, PositionsProofs, SequenceTheorems

\* Where the turn may be: while the model is asked there is a round left.
PlaceInv ==
  /\ pc # "over" => turn >= 1
  /\ pc = "asking" => rounds < MaxTurns
  /\ pc = "tools" => rounds >= 1 /\ rounds < MaxTurns
  /\ Len(response) <= called

\* Calls ran in rounds that were, those of this round before the one that
\* is next, and their ids are different.
RanInv ==
  /\ \A e, f \in executed : e.id = f.id => e = f
  /\ \A e \in executed :
       /\ e.id[1] <= turn
       /\ e.id[1] = turn => e.id[2] <= rounds
       /\ pc = "tools" /\ e \in ThisRound => e.id[3] < next

\* A proposal of this turn was made in the round that is being run, or the
\* turn is at its end.
ProposalInv ==
  \A e \in executed :
    e.id[1] = turn /\ e.outcome = "proposal" =>
      pc \in {"ending", "over"} \/ (pc = "tools" /\ e.id[2] = rounds)

\* As long as no call was announced nothing ran and nothing was shown.
CleanInv ==
  /\ pc = "tools" => pending # <<>>
  /\ pc = "recovering" => pending = <<>> /\ ~text
  /\ pending = <<>> => frames = <<>> /\ \A e \in executed : e.id[1] # turn

\* What runs was selected.
SelectInv == pc = "tools" => RunNow \subseteq Selected(response)

\* The results that drive collects are those of the calls of this turn that
\* ran and did not raise, each once and each announced.
ResultsRan ==
  /\ \A k \in DOMAIN results :
       \E e \in executed : e.id = results[k].id /\ e.outcome = results[k].outcome /\ e.id[1] = turn
  /\ \A j, k \in DOMAIN results : results[j].id = results[k].id => j = k
  /\ \A e \in executed : e.id[1] = turn =>
       e.outcome = "raised" \/ \E k \in DOMAIN results : results[k].id = e.id
IsPending(id) == \E j \in DOMAIN pending : pending[j].id = id
ResultsPending == \A k \in DOMAIN results : IsPending(results[k].id)
RoundPending == pc = "tools" => \A k \in DOMAIN response : IsPending(<<turn, rounds, k>>)
ResultInv == ResultsRan /\ ResultsPending /\ RoundPending

\* No result is written before the end of its turn.
RowInv ==
  \A k \in DOMAIN rows : rows[k].role = "tool" =>
    /\ rows[k].answers[1] \in Nat /\ rows[k].answers[1] <= turn
    /\ pc # "over" => rows[k].answers[1] < turn

\* A frame that asks for a confirmation, and what the panel asks the user,
\* is a proposal of this turn.
Proposed(id) == \E e \in executed : e.id = id /\ e.outcome = "proposal" /\ e.id[1] = turn
FrameInv == \A k \in DOMAIN frames : frames[k].event = "confirm_required" => Proposed(frames[k].id)
ConfirmInv == seen \in Nat /\ (confirm # None => Proposed(confirm))

\* The calls of a row are of one turn; no id is announced twice.
PendingIds ==
  /\ \A k \in DOMAIN pending : pending[k].id[1] = turn /\ pending[k].id[2] <= rounds
  /\ \A j, k \in DOMAIN pending : pending[j].id = pending[k].id => j = k
OldIds == \A a \in DOMAIN rows : \A i \in DOMAIN rows[a].calls :
  /\ rows[a].calls[i][1] \in Nat /\ rows[a].calls[i][1] <= turn
  /\ pc # "over" => rows[a].calls[i][1] < turn
OneRow == \A a, b \in DOMAIN rows : \A i \in DOMAIN rows[a].calls, j \in DOMAIN rows[b].calls :
  rows[a].calls[i] = rows[b].calls[j] => a = b /\ i = j
OnlyAnswers == \A a \in DOMAIN rows : rows[a].role # "assistant" => rows[a].calls = <<>>
CallsInv == PendingIds /\ OldIds /\ OneRow /\ OnlyAnswers

-----------------------------------------------------------------------------
(***************************************************************************)
(* The shape of the state.                                                 *)
(***************************************************************************)

LEMMA FunctionIsSeq ==
  ASSUME NEW S, NEW n \in Nat, NEW f \in [1 .. n -> S]
  PROVE  f \in Seq(S) /\ Len(f) = n /\ DOMAIN f = 1 .. n
OBVIOUS

LEMMA SeqIsFunction ==
  ASSUME NEW S, NEW s \in Seq(S)
  PROVE  Len(s) \in Nat /\ DOMAIN s = 1 .. Len(s) /\ \A k \in DOMAIN s : s[k] \in S
OBVIOUS

LEMMA OneIsSeq ==
  ASSUME NEW S, NEW x \in S
  PROVE  <<x>> \in Seq(S) /\ Len(<<x>>) = 1 /\ <<x>>[1] = x /\ <<>> \in Seq(S)
OBVIOUS

LEMMA ResponseIsSeq ==
  ASSUME TypeOK, NEW calls \in Responses
  PROVE  calls \in Seq(Call) /\ Len(calls) \in Nat /\ called + Len(calls) <= MaxCalls
<1>1. PICK n \in 0 .. MaxCalls - called : calls \in [1 .. n -> Call]
  BY DEF Responses
<1>2. called \in Nat /\ MaxCalls \in Nat /\ n \in Nat
  BY ToolLoopAssumption DEF TypeOK
<1> QED
  BY <1>1, <1>2

LEMMA AnnouncedIsSeq ==
  ASSUME TypeOK, PlaceInv, pc = "asking", NEW calls \in Responses
  PROVE  /\ Announced(calls) \in Seq([id : Id, call : Call])
         /\ Len(Announced(calls)) = Len(calls)
         /\ \A k \in DOMAIN calls : <<turn, rounds + 1, k>> \in Id
<1>1. calls \in Seq(Call) /\ Len(calls) \in Nat /\ called + Len(calls) <= MaxCalls
  BY ResponseIsSeq
<1>2. turn \in 1 .. MaxPosts /\ rounds + 1 \in 1 .. MaxTurns /\ called \in Nat /\ MaxCalls \in Nat
  BY ToolLoopAssumption DEF TypeOK, PlaceInv
<1>3. DOMAIN calls = 1 .. Len(calls) /\ \A k \in DOMAIN calls : k \in 1 .. MaxCalls /\ calls[k] \in Call
  BY <1>1, <1>2
<1>4. \A k \in DOMAIN calls : <<turn, rounds + 1, k>> \in Id
  BY <1>2, <1>3 DEF Id
<1>5. Announced(calls) \in [1 .. Len(calls) -> [id : Id, call : Call]]
  BY <1>3, <1>4 DEF Announced
<1>6. Announced(calls) \in Seq([id : Id, call : Call]) /\ Len(Announced(calls)) = Len(calls)
  BY <1>1, <1>5, FunctionIsSeq
<1> QED
  BY <1>4, <1>6

\* What the client is shown of a response.
FramesOf(calls) == [k \in DOMAIN calls |->
  [event |-> "tool_call", id |-> Announced(calls)[k].id, call |-> calls[k], outcome |-> "none"]]

LEMMA FramesOfCalls ==
  ASSUME TypeOK, PlaceInv, pc = "asking", NEW calls \in Responses
  PROVE  FramesOf(calls) \in Seq(Frame) /\ Len(FramesOf(calls)) = Len(calls)
<1>1. calls \in Seq(Call) /\ Len(calls) \in Nat /\ DOMAIN calls = 1 .. Len(calls)
  BY ResponseIsSeq
<1>2. \A k \in DOMAIN calls : calls[k] \in Call /\ Announced(calls)[k].id \in Id
  <2>1. \A k \in DOMAIN calls : Announced(calls)[k].id = <<turn, rounds + 1, k>>
    BY DEF Announced
  <2>2. \A k \in DOMAIN calls : <<turn, rounds + 1, k>> \in Id
    BY AnnouncedIsSeq
  <2>3. \A k \in DOMAIN calls : calls[k] \in Call
    BY <1>1
  <2> QED
    BY <2>1, <2>2, <2>3
<1>3. FramesOf(calls) \in [1 .. Len(calls) -> Frame]
  BY <1>1, <1>2 DEF FramesOf, Frame
<1> QED
  BY <1>1, <1>3, FunctionIsSeq

LEMMA BlockIsSeq ==
  ASSUME TypeOK
  PROVE  /\ Block \in Seq(Row) /\ Len(Block) = 1 + Len(results)
         /\ Block[1].role = "assistant" /\ Block[1].calls = [k \in DOMAIN pending |-> pending[k].id]
         /\ \A k \in DOMAIN results :
              Block[1 + k] = [role |-> "tool", calls |-> <<>>, answers |-> results[k].id,
                              outcome |-> results[k].outcome]
<1> DEFINE first == [role |-> "assistant", calls |-> [k \in DOMAIN pending |-> pending[k].id],
                     answers |-> <<>>, outcome |-> "none"]
           result(k) == [role |-> "tool", calls |-> <<>>, answers |-> results[k].id,
                         outcome |-> results[k].outcome]
           rest == [k \in DOMAIN results |-> result(k)]
<1>1. /\ Len(pending) \in Nat /\ DOMAIN pending = 1 .. Len(pending)
      /\ Len(results) \in Nat /\ DOMAIN results = 1 .. Len(results)
      /\ \A k \in DOMAIN pending : pending[k] \in [id : Id, call : Call]
      /\ \A k \in DOMAIN results : results[k] \in [id : Id, outcome : Outcome]
  <2>1. pending \in Seq([id : Id, call : Call]) /\ results \in Seq([id : Id, outcome : Outcome])
    BY DEF TypeOK
  <2> QED
    BY <2>1, SeqIsFunction
<1>2. [k \in DOMAIN pending |-> pending[k].id] \in Seq(Id)
  <2>1. \A k \in DOMAIN pending : pending[k].id \in Id
    BY <1>1
  <2>2. [k \in DOMAIN pending |-> pending[k].id] \in [1 .. Len(pending) -> Id]
    BY <1>1, <2>1
  <2> QED
    BY <1>1, <2>2, FunctionIsSeq
<1>3. first \in Row
  BY <1>2 DEF Row
<1>4. \A k \in DOMAIN results : result(k) \in Row
  <2>1. \A k \in DOMAIN results : results[k].id \in Id /\ results[k].outcome \in Outcome
    BY <1>1
  <2>2. <<>> \in Seq(Id)
    OBVIOUS
  <2> QED
    BY <2>1, <2>2 DEF Row
<1>5. rest \in Seq(Row) /\ Len(rest) = Len(results) /\ \A k \in DOMAIN results : rest[k] = result(k)
  <2> HIDE DEF result
  <2>1. rest \in [1 .. Len(results) -> Row]
    BY <1>1, <1>4
  <2> QED
    BY <1>1, <2>1, FunctionIsSeq
<1>6. Block = <<first>> \o rest
  BY DEF Block
<1> HIDE DEF first, rest, result
<1>7. <<first>> \in Seq(Row) /\ Len(<<first>>) = 1 /\ <<first>>[1] = first
  BY <1>3
<1>8. /\ <<first>> \o rest \in Seq(Row)
      /\ Len(<<first>> \o rest) = 1 + Len(results)
      /\ \A i \in 1 .. 1 + Len(results) :
           (<<first>> \o rest)[i] = IF i <= 1 THEN first ELSE rest[i - 1]
  BY <1>5, <1>7, ConcatProperties
<1>10. Block[1] = first
  BY <1>1, <1>6, <1>8
<1>11. \A k \in DOMAIN results : Block[1 + k] = result(k)
  <2> SUFFICES ASSUME NEW k \in DOMAIN results PROVE Block[1 + k] = result(k)
    OBVIOUS
  <2>1. k \in Nat /\ 1 + k \in 1 .. 1 + Len(results) /\ ~(1 + k <= 1) /\ (1 + k) - 1 = k
    BY <1>1
  <2> QED
    BY <1>5, <1>6, <1>8, <2>1
<1>12. Block \in Seq(Row) /\ Len(Block) = 1 + Len(results)
  BY <1>6, <1>8
<1>13. Block[1].role = "assistant" /\ Block[1].calls = [k \in DOMAIN pending |-> pending[k].id]
  BY <1>10 DEF first
<1> QED
  BY <1>11, <1>12, <1>13 DEF result

\* A call that runs is one of the response, its id and its frame are well
\* formed.
LEMMA RunningCall ==
  ASSUME TypeOK, PlaceInv, NEW outcome \in Outcome, RunCall(outcome)
  PROVE  /\ turn \in 1 .. MaxPosts /\ rounds \in 1 .. MaxTurns /\ next \in DOMAIN response
         /\ response[next] \in Call /\ <<turn, rounds, next>> \in Id
         /\ Shown(<<turn, rounds, next>>, response[next], outcome) \in Seq(Frame)
<1>1. /\ response \in Seq(Call) /\ next \in 1 .. Len(response) + 1 /\ called \in 0 .. MaxCalls
      /\ turn \in 0 .. MaxPosts /\ rounds \in 0 .. MaxTurns
  BY DEF TypeOK
<1>2. pc = "tools" /\ next <= Len(response)
  BY DEF RunCall
<1>3. Len(response) \in Nat /\ DOMAIN response = 1 .. Len(response) /\ Len(response) <= called
  BY <1>1, SeqIsFunction DEF PlaceInv
<1>4. turn \in 1 .. MaxPosts /\ rounds \in 1 .. MaxTurns /\ next \in 1 .. MaxCalls /\ next \in DOMAIN response
  BY <1>1, <1>2, <1>3, ToolLoopAssumption DEF PlaceInv
<1>5. response[next] \in Call /\ <<turn, rounds, next>> \in Id
  BY <1>1, <1>4 DEF Id
<1>6. Shown(<<turn, rounds, next>>, response[next], outcome) \in Seq(Frame)
  <2> DEFINE frame(event) == [event |-> event, id |-> <<turn, rounds, next>>, call |-> response[next],
                              outcome |-> outcome]
  <2>1. frame("confirm_required") \in Frame /\ frame("tool_result") \in Frame
    BY <1>5 DEF Frame
  <2>2. \/ Shown(<<turn, rounds, next>>, response[next], outcome) = <<frame("confirm_required")>>
        \/ Shown(<<turn, rounds, next>>, response[next], outcome) = <<frame("tool_result")>>
        \/ Shown(<<turn, rounds, next>>, response[next], outcome) = <<>>
    BY DEF Shown
  <2> HIDE DEF frame
  <2> QED
    BY <2>1, <2>2, OneIsSeq
<1> QED
  BY <1>4, <1>5, <1>6

\* The types in two parts, which the steps change for different reasons.
Announcement == [id : Id, call : Call]
Answered == [id : Id, outcome : Outcome]
Ran == [id : Id, call : Call, outcome : Outcome]

Scalars ==
  /\ turn \in 0 .. MaxPosts
  /\ pc \in {"asking", "tools", "recovering", "ending", "over"}
  /\ rounds \in 0 .. MaxTurns
  /\ attempt \in 0 .. MaxRetries
  /\ next \in 1 .. Len(response) + 1
  /\ text \in BOOLEAN
  /\ lost \subseteq 1 .. turn
  /\ called \in 0 .. MaxCalls

Sequences ==
  /\ response \in Seq(Call)
  /\ pending \in Seq(Announcement)
  /\ results \in Seq(Answered)
  /\ frames \in Seq(Frame)
  /\ rows \in Seq(Row)
  /\ executed \subseteq Ran

LEMMA TypeParts == TypeOK <=> Scalars /\ Sequences
BY Zenon DEF TypeOK, Scalars, Sequences, Announcement, Answered, Ran

LEMMA TypePartsPrimed == TypeOK' <=> Scalars' /\ Sequences'
BY Zenon DEF TypeOK, Scalars, Sequences, Announcement, Answered, Ran

LEMMA ScalarsStep ==
  ASSUME TypeOK, PlaceInv, [Next]_vars
  PROVE  Scalars' /\ PlaceInv'
<1> USE ToolLoopAssumption
<1>1. Scalars /\ Len(response) \in Nat
  BY TypeParts DEF Sequences
<1>2. CASE Post
  <2>1. Len(response') = 0
    BY <1>2 DEF Post
  <2>2. /\ turn < MaxPosts /\ turn' = turn + 1 /\ pc' = "asking" /\ rounds' = 0 /\ attempt' = 0
        /\ next' = 1 /\ text' \in BOOLEAN /\ UNCHANGED <<lost, called>>
    BY <1>2 DEF Post
  <2> QED
    BY <1>1, <2>1, <2>2 DEF Scalars, PlaceInv
<1>3. ASSUME NEW calls \in Responses, NEW says \in BOOLEAN, Answer(calls, says)
      PROVE  Scalars' /\ PlaceInv'
  <2>1. Len(calls) \in Nat /\ called + Len(calls) <= MaxCalls
    BY ResponseIsSeq
  <2>2. pc = "asking" /\ rounds < MaxTurns
    BY <1>3 DEF Answer, PlaceInv
  <2> QED
    BY <1>1, <1>3, <2>1, <2>2 DEF Answer, Scalars, PlaceInv
<1>4. ASSUME NEW says \in BOOLEAN, Truncated(says) PROVE Scalars' /\ PlaceInv'
  <2>1. Len(response') = 0
    BY <1>4 DEF Truncated
  <2> QED
    BY <1>1, <1>4, <2>1 DEF Truncated, Scalars, PlaceInv
<1>5. ASSUME NEW overflow \in BOOLEAN, NEW says \in BOOLEAN, RequestFails(overflow, says)
      PROVE  Scalars' /\ PlaceInv'
  BY <1>1, <1>5 DEF RequestFails, Recoverable, Scalars, PlaceInv
<1>6. CASE SkipCall \/ RouteAfterTools \/ Recovered
  <2>1. CASE SkipCall
    BY <1>1, <2>1 DEF SkipCall, accVars, Scalars, PlaceInv
  <2>2. CASE RouteAfterTools
    BY <1>1, <2>2 DEF RouteAfterTools, accVars, Scalars, PlaceInv
  <2>3. CASE Recovered
    BY <1>1, <2>3 DEF Recovered, accVars, Scalars, PlaceInv
  <2> QED
    BY <1>6, <2>1, <2>2, <2>3
<1>7. ASSUME NEW outcome \in Outcome, RunCall(outcome) PROVE Scalars' /\ PlaceInv'
  <2>1. /\ UNCHANGED <<turn, pc, rounds, attempt, response, text, lost, called>>
        /\ next' = next + 1 /\ next <= Len(response)
    BY <1>7 DEF RunCall
  <2> QED
    BY <1>1, <2>1 DEF Scalars, PlaceInv
<1>8. CASE EndTurn
  <2>1. /\ UNCHANGED <<turn, rounds, attempt, response, next, text, called>>
        /\ pc = "ending" /\ pc' = "over" /\ lost' \subseteq lost \cup {turn}
    BY <1>8 DEF EndTurn, accVars
  <2> QED
    BY <1>1, <2>1 DEF Scalars, PlaceInv
<1>9. CASE UNCHANGED vars
  BY <1>1, <1>9 DEF vars, accVars, Scalars, PlaceInv
<1> QED
  BY <1>2, <1>3, <1>4, <1>5, <1>6, <1>7, <1>8, <1>9 DEF Next, GraphStep

LEMMA SequencesStep ==
  ASSUME TypeOK, PlaceInv, [Next]_vars
  PROVE  Sequences'
<1>1. Sequences
  BY TypeParts
<1>2. CASE Post
  <2>1. [role |-> "user", calls |-> <<>>, answers |-> <<>>, outcome |-> "none"] \in Row
    <3>1. <<>> \in Seq(Id)
      OBVIOUS
    <3> QED
      BY <3>1 DEF Row
  <2>2. rows' \in Seq(Row)
    BY <1>1, <1>2, <2>1, AppendProperties DEF Post, Sequences
  <2> QED
    BY <1>1, <1>2, <2>2 DEF Post, Sequences
<1>3. ASSUME NEW calls \in Responses, NEW says \in BOOLEAN, Answer(calls, says) PROVE Sequences'
  <2>1. pc = "asking" /\ calls \in Seq(Call)
    BY <1>3, ResponseIsSeq DEF Answer
  <2>2. pending' \in Seq(Announcement)
    <3>1. Announced(calls) \in Seq(Announcement)
      BY <2>1, AnnouncedIsSeq DEF Announcement
    <3> QED
      BY <1>1, <1>3, <3>1, ConcatProperties DEF Answer, Sequences
  <2>3. frames' \in Seq(Frame)
    <3>1. frames' = frames \o FramesOf(calls)
      BY <1>3 DEF Answer, FramesOf
    <3>2. FramesOf(calls) \in Seq(Frame)
      BY <2>1, FramesOfCalls
    <3> QED
      BY <1>1, <3>1, <3>2, ConcatProperties DEF Sequences
  <2> QED
    BY <1>1, <1>3, <2>1, <2>2, <2>3 DEF Answer, Sequences
<1>4. ASSUME NEW says \in BOOLEAN, Truncated(says) PROVE Sequences'
  BY <1>1, <1>4 DEF Truncated, Sequences
<1>5. ASSUME NEW outcome \in Outcome, RunCall(outcome) PROVE Sequences'
  <2> DEFINE call == response[next]
             key == <<turn, rounds, next>>
  <2>1. call \in Call /\ key \in Id /\ Shown(key, call, outcome) \in Seq(Frame)
    BY <1>5, RunningCall
  <2>2. /\ UNCHANGED <<response, pending, rows>>
        /\ executed' = executed \cup {[id |-> key, call |-> call, outcome |-> outcome]}
        /\ \/ UNCHANGED <<results, frames>>
           \/ /\ results' = Append(results, [id |-> key, outcome |-> outcome])
              /\ frames' = frames \o Shown(key, call, outcome)
    BY <1>5 DEF RunCall, Paired
  <2> HIDE DEF call, key
  <2>3. [id |-> key, call |-> call, outcome |-> outcome] \in Ran /\ [id |-> key, outcome |-> outcome] \in Answered
    BY <2>1 DEF Ran, Answered
  <2>4. results' \in Seq(Answered)
    <3>1. results \in Seq(Answered)
      BY <1>1 DEF Sequences
    <3>2. Append(results, [id |-> key, outcome |-> outcome]) \in Seq(Answered)
      BY <2>3, <3>1, AppendProperties
    <3> QED
      BY <2>2, <3>1, <3>2
  <2>5. frames' \in Seq(Frame)
    BY <1>1, <2>1, <2>2, ConcatProperties DEF Sequences
  <2> QED
    BY <1>1, <2>2, <2>3, <2>4, <2>5 DEF Sequences
<1>6. CASE EndTurn
  <2>1. rows' = rows \/ rows' = rows \o Block
    BY <1>6 DEF EndTurn
  <2>2. rows' \in Seq(Row)
    BY <1>1, <2>1, BlockIsSeq, ConcatProperties DEF Sequences
  <2> QED
    BY <1>1, <1>6, <2>2 DEF EndTurn, accVars, Sequences
<1>7. ASSUME UNCHANGED <<response, accVars, frames, rows, executed>> PROVE Sequences'
  BY <1>1, <1>7 DEF accVars, Sequences
<1>8. ASSUME NEW overflow \in BOOLEAN, NEW says \in BOOLEAN, RequestFails(overflow, says) PROVE Sequences'
  BY <1>1, <1>8 DEF RequestFails, Sequences
<1> QED
  BY <1>2, <1>3, <1>4, <1>5, <1>6, <1>7, <1>8
     DEF Next, GraphStep, SkipCall, RouteAfterTools, Recovered, vars

LEMMA TypeStep == TypeOK /\ PlaceInv /\ [Next]_vars => TypeOK' /\ PlaceInv'
BY ScalarsStep, SequencesStep, TypePartsPrimed

-----------------------------------------------------------------------------
(***************************************************************************)
(* What ran, and when the model is asked again.                            *)
(***************************************************************************)

LEMMA IdsOfRuns ==
  ASSUME TypeOK, NEW e \in executed
  PROVE  /\ e.id \in Id /\ e.call \in Call /\ e.outcome \in Outcome
         /\ e.id[1] \in 1 .. MaxPosts /\ e.id[2] \in 1 .. MaxTurns /\ e.id[3] \in 1 .. MaxCalls
<1>1. e \in Ran
  BY TypeParts DEF Sequences
<1>2. e.id \in Id /\ e.call \in Call /\ e.outcome \in Outcome
  BY <1>1 DEF Ran
<1> QED
  BY <1>2 DEF Id

LEMMA Counts ==
  ASSUME TypeOK
  PROVE  /\ turn \in Nat /\ rounds \in Nat /\ next \in Nat
         /\ \A e \in executed : e.id[1] \in Nat /\ e.id[2] \in Nat /\ e.id[3] \in Nat
<1>1. Scalars /\ Len(response) \in Nat
  BY TypeParts, SeqIsFunction DEF Sequences
<1>2. turn \in Nat /\ rounds \in Nat /\ next \in Nat
  BY <1>1 DEF Scalars
<1>3. ASSUME NEW e \in executed PROVE e.id[1] \in Nat /\ e.id[2] \in Nat /\ e.id[3] \in Nat
  BY IdsOfRuns
<1> QED
  BY <1>2, <1>3

\* What running a call adds to what ran.
LEMMA RunAdds ==
  ASSUME TypeOK, PlaceInv, RanInv, NEW outcome \in Outcome, RunCall(outcome)
  PROVE  \E e : /\ executed' = executed \cup {e}
                /\ e.id = <<turn, rounds, next>> /\ e.call = response[next] /\ e.outcome = outcome
                /\ e.id[1] = turn /\ e.id[2] = rounds /\ e.id[3] = next
                /\ \A f \in executed : f.id # e.id
<1> DEFINE key == <<turn, rounds, next>>
           e == [id |-> key, call |-> response[next], outcome |-> outcome]
<1>1. executed' = executed \cup {e} /\ pc = "tools"
  BY Zenon DEF RunCall
<1>2. key[1] = turn /\ key[2] = rounds /\ key[3] = next
  OBVIOUS
<1>3. ASSUME NEW f \in executed PROVE f.id # key
  <2>1. SUFFICES ASSUME f.id = key PROVE FALSE
    OBVIOUS
  <2>2. f.id[1] = turn /\ f.id[2] = rounds /\ f.id[3] = next
    BY <1>2, <2>1
  <2>3. f.id[3] < next
    BY <1>1, <2>2 DEF RanInv, ThisRound
  <2>4. next \in Nat
    BY Counts
  <2> QED
    BY <2>2, <2>3, <2>4
<1>4. e.id = key /\ e.call = response[next] /\ e.outcome = outcome
  OBVIOUS
<1> HIDE DEF e, key
<1>5. e.id[1] = turn /\ e.id[2] = rounds /\ e.id[3] = next
  BY <1>2, <1>4
<1>6. e.id = <<turn, rounds, next>>
  BY <1>4 DEF key
<1> QED
  BY <1>1, <1>3, <1>4, <1>5, <1>6

LEMMA RanStep == TypeOK /\ PlaceInv /\ RanInv /\ CleanInv /\ [Next]_vars => RanInv'
<1> SUFFICES ASSUME TypeOK, PlaceInv, RanInv, CleanInv, [Next]_vars PROVE RanInv'
  OBVIOUS
<1>1. /\ turn \in Nat /\ rounds \in Nat /\ next \in Nat
      /\ \A e \in executed : e.id[1] \in Nat /\ e.id[2] \in Nat /\ e.id[3] \in Nat
  BY Counts
<1>2. CASE Post
  <2>1. turn' = turn + 1 /\ pc' = "asking" /\ executed' = executed
    BY <1>2 DEF Post
  <2> QED
    BY <1>1, <2>1 DEF RanInv
<1>3. ASSUME UNCHANGED <<turn, executed>>, rounds' = rounds + 1 PROVE RanInv'
  BY <1>1, <1>3 DEF RanInv, ThisRound
<1>4. ASSUME UNCHANGED <<turn, executed, rounds, next>>, pc' # "tools" \/ pc = "tools" PROVE RanInv'
  BY <1>4 DEF RanInv, ThisRound
<1>5. CASE SkipCall
  <2>1. UNCHANGED <<turn, executed, rounds, pc>> /\ next' = next + 1 /\ pc = "tools"
    BY <1>5 DEF SkipCall
  <2> QED
    BY <1>1, <2>1 DEF RanInv, ThisRound
<1>6. ASSUME NEW outcome \in Outcome, RunCall(outcome) PROVE RanInv'
  <2>1. UNCHANGED <<turn, rounds, pc>> /\ next' = next + 1 /\ pc = "tools"
    BY <1>6 DEF RunCall
  <2>2. PICK e : /\ executed' = executed \cup {e}
                 /\ e.id[1] = turn /\ e.id[2] = rounds /\ e.id[3] = next
                 /\ \A f \in executed : f.id # e.id
    BY <1>6, RunAdds
  <2>3. \A f, g \in executed' : f.id = g.id => f = g
    BY <2>2 DEF RanInv
  <2>4. \A f \in executed' : f.id[1] <= turn /\ (f.id[1] = turn => f.id[2] <= rounds)
    BY <1>1, <2>2 DEF RanInv
  <2>5. \A f \in executed' : f.id[1] = turn /\ f.id[2] = rounds => f.id[3] < next + 1
    BY <1>1, <2>1, <2>2 DEF RanInv, ThisRound
  <2> QED
    BY <2>1, <2>3, <2>4, <2>5 DEF RanInv, ThisRound
<1>7. CASE Recovered
  <2>1. UNCHANGED <<turn, executed>> /\ pc = "recovering" /\ pc' # "tools"
    BY <1>7 DEF Recovered
  <2>2. \A e \in executed : e.id[1] # turn
    BY <2>1 DEF CleanInv
  <2> QED
    BY <2>1, <2>2 DEF RanInv
<1> QED
  BY <1>2, <1>3, <1>4, <1>5, <1>6, <1>7
     DEF Next, GraphStep, Answer, Truncated, RequestFails, RouteAfterTools, EndTurn, vars

LEMMA ProposalStep ==
  TypeOK /\ PlaceInv /\ RanInv /\ CleanInv /\ ProposalInv /\ [Next]_vars => ProposalInv'
<1> SUFFICES ASSUME TypeOK, PlaceInv, RanInv, CleanInv, ProposalInv, [Next]_vars PROVE ProposalInv'
  OBVIOUS
<1>1. turn \in Nat /\ \A e \in executed : e.id[1] \in Nat
  BY Counts
<1>2. CASE Post
  <2>1. turn' = turn + 1 /\ executed' = executed
    BY <1>2 DEF Post
  <2> QED
    BY <1>1, <2>1 DEF RanInv, ProposalInv
<1>3. ASSUME UNCHANGED <<turn, executed>>, pc = "asking" \/ pc = "recovering" PROVE ProposalInv'
  BY <1>3 DEF ProposalInv
<1>4. ASSUME UNCHANGED <<turn, executed, rounds, pc>> PROVE ProposalInv'
  BY <1>4 DEF ProposalInv
<1>5. ASSUME NEW outcome \in Outcome, RunCall(outcome) PROVE ProposalInv'
  <2>1. UNCHANGED <<turn, rounds, pc>> /\ pc = "tools"
    BY <1>5 DEF RunCall
  <2>2. PICK e : executed' = executed \cup {e} /\ e.id[1] = turn /\ e.id[2] = rounds
    BY <1>5, RunAdds
  <2> QED
    BY <2>1, <2>2 DEF ProposalInv
<1>6. CASE RouteAfterTools
  <2>1. UNCHANGED <<turn, executed, rounds>> /\ pc = "tools" /\ pc' = IF Proposes THEN "ending" ELSE "asking"
    BY <1>6 DEF RouteAfterTools
  <2>2. CASE Proposes
    BY <2>1, <2>2 DEF ProposalInv
  <2>3. CASE ~Proposes
    <3>1. \A e \in executed : e.id[1] = turn => e.outcome # "proposal"
      BY <2>1, <2>3 DEF ProposalInv, Proposes, ThisRound
    <3> QED
      BY <2>1, <3>1 DEF ProposalInv
  <2> QED
    BY <2>2, <2>3
<1>7. CASE EndTurn
  BY <1>7 DEF EndTurn, ProposalInv
<1> QED
  BY <1>2, <1>3, <1>4, <1>5, <1>6, <1>7
     DEF Next, GraphStep, Answer, Truncated, RequestFails, SkipCall, Recovered, vars

LEMMA CleanStep ==
  TypeOK /\ PlaceInv /\ RanInv /\ CleanInv /\ [Next]_vars => CleanInv'
<1> SUFFICES ASSUME TypeOK, PlaceInv, RanInv, CleanInv, [Next]_vars PROVE CleanInv'
  OBVIOUS
<1>1. /\ turn \in Nat /\ \A e \in executed : e.id[1] \in Nat
      /\ pending \in Seq(Announcement)
  BY Counts, TypeParts DEF Sequences
<1>2. CASE Post
  <2>1. turn' = turn + 1 /\ executed' = executed /\ pc' = "asking" /\ frames' = <<>>
    BY <1>2 DEF Post
  <2> QED
    BY <1>1, <2>1 DEF RanInv, CleanInv
<1>3. ASSUME NEW calls \in Responses, NEW says \in BOOLEAN, Answer(calls, says) PROVE CleanInv'
  <2>1. /\ pc = "asking" /\ pc' # "recovering" /\ (pc' = "tools" => calls # <<>>)
        /\ pending' = pending \o Announced(calls) /\ frames' = frames \o FramesOf(calls)
        /\ UNCHANGED <<turn, executed>>
    BY <1>3 DEF Answer, FramesOf
  <2>2. Announced(calls) \in Seq(Announcement) /\ Len(Announced(calls)) = Len(calls)
    BY <2>1, AnnouncedIsSeq DEF Announcement
  <2>3. calls \in Seq(Call) /\ frames \in Seq(Frame)
    BY ResponseIsSeq, TypeParts DEF Sequences
  <2>4. CASE calls = <<>>
    <3>1. FramesOf(calls) = <<>> /\ Announced(calls) = <<>>
      BY <2>4 DEF FramesOf, Announced
    <3>2. pending' = pending /\ frames' = frames
      BY <1>1, <2>1, <2>3, <3>1, ConcatEmptySeq
    <3> QED
      BY <2>1, <2>4, <3>2 DEF CleanInv
  <2>5. CASE calls # <<>>
    <3>1. Len(calls) \in Nat /\ Len(calls) > 0
      BY <2>3, <2>5, EmptySeq
    <3>2. Len(pending') = Len(pending) + Len(calls) /\ Len(pending) \in Nat
      <4>1. Len(pending \o Announced(calls)) = Len(pending) + Len(Announced(calls))
        BY <1>1, <2>2, ConcatProperties
      <4> QED
        BY <1>1, <2>1, <2>2, <4>1, SeqIsFunction
    <3>3. Len(pending') > 0
      BY <3>1, <3>2
    <3>4. pending' # <<>>
      BY <3>3
    <3> QED
      BY <2>1, <3>4 DEF CleanInv
  <2> QED
    BY <2>4, <2>5
<1>4. ASSUME NEW overflow \in BOOLEAN, NEW says \in BOOLEAN, RequestFails(overflow, says) PROVE CleanInv'
  <2>1. UNCHANGED <<turn, pending, frames, executed>> /\ pc' # "tools"
    BY <1>4 DEF RequestFails
  <2>2. pc' = "recovering" => pending = <<>> /\ ~text'
    BY <1>4 DEF RequestFails, Recoverable
  <2> QED
    BY <2>1, <2>2 DEF CleanInv
<1>5. ASSUME NEW outcome \in Outcome, RunCall(outcome) PROVE CleanInv'
  <2>1. UNCHANGED <<pending, pc>> /\ pc = "tools"
    BY <1>5 DEF RunCall
  <2> QED
    BY <2>1 DEF CleanInv
<1>6. ASSUME UNCHANGED <<turn, pending, frames, executed>>, pc' = "tools" => pc = "tools", pc' # "recovering"
      PROVE  CleanInv'
  BY <1>6 DEF CleanInv
<1>7. CASE UNCHANGED vars
  BY <1>7 DEF vars, accVars, CleanInv
<1>8. CASE SkipCall
  BY <1>6, <1>8 DEF SkipCall, accVars
<1>9. CASE RouteAfterTools
  BY <1>6, <1>9 DEF RouteAfterTools, accVars
<1> QED
  BY <1>2, <1>3, <1>4, <1>5, <1>6, <1>7, <1>8, <1>9
     DEF Next, GraphStep, Truncated, Recovered, EndTurn, accVars

-----------------------------------------------------------------------------
(***************************************************************************)
(* _select_calls: which calls of a response run.                           *)
(***************************************************************************)

\* The place of a call in a response, the first one if it is repeated.
IsFirst(calls, c, k) == /\ k \in DOMAIN calls /\ calls[k] = c
                        /\ \A j \in DOMAIN calls : calls[j] = c => k <= j
First(calls, c) == CHOOSE k \in DOMAIN calls : IsFirst(calls, c, k)

LEMMA FirstIsFirst ==
  ASSUME NEW calls \in Seq(Call), NEW c \in ElementsOf(calls)
  PROVE  IsFirst(calls, c, First(calls, c)) /\ First(calls, c) \in 1 .. Len(calls)
<1> DEFINE T == {k \in DOMAIN calls : calls[k] = c}
<1>1. DOMAIN calls = 1 .. Len(calls) /\ Len(calls) \in Nat
  BY SeqIsFunction
<1>2. T \subseteq Nat /\ T # {}
  BY <1>1 DEF ElementsOf
<1>3. PICK k \in T : \A j \in T : k <= j
  BY <1>2, Least
<1>4. k \in DOMAIN calls /\ IsFirst(calls, c, k)
  BY <1>3 DEF IsFirst
<1>5. First(calls, c) \in DOMAIN calls /\ IsFirst(calls, c, First(calls, c))
  BY <1>4 DEF First
<1> QED
  BY <1>1, <1>5

LEMMA BeforeIsFirst ==
  ASSUME NEW calls \in Seq(Call), NEW c \in ElementsOf(calls)
  PROVE  Before(calls, c) = {d \in ElementsOf(calls) : First(calls, d) < First(calls, c)}
<1>1. DOMAIN calls \subseteq Nat
  BY SeqIsFunction
<1>2. IsFirst(calls, c, First(calls, c)) /\ First(calls, c) \in Nat
  BY FirstIsFirst
<1>3. \A d \in ElementsOf(calls) : IsFirst(calls, d, First(calls, d)) /\ First(calls, d) \in Nat
  BY FirstIsFirst
<1>4. ASSUME NEW i \in DOMAIN calls, \A k \in DOMAIN calls : calls[k] = c => i < k
      PROVE  calls[i] \in ElementsOf(calls) /\ First(calls, calls[i]) < First(calls, c)
  <2>1. calls[i] \in ElementsOf(calls)
    BY DEF ElementsOf
  <2>2. First(calls, calls[i]) <= i
    BY <1>3, <2>1 DEF IsFirst
  <2>3. i < First(calls, c)
    BY <1>2, <1>4 DEF IsFirst
  <2> QED
    BY <1>1, <1>2, <1>3, <2>1, <2>2, <2>3
<1>5. ASSUME NEW d \in ElementsOf(calls), First(calls, d) < First(calls, c)
      PROVE  d \in Before(calls, c)
  <2>1. First(calls, d) \in DOMAIN calls /\ calls[First(calls, d)] = d
    BY <1>3 DEF IsFirst
  <2>2. ASSUME NEW k \in DOMAIN calls, calls[k] = c PROVE First(calls, d) < k
    <3>1. First(calls, c) <= k
      BY <1>2, <2>2 DEF IsFirst
    <3> QED
      BY <1>1, <1>2, <1>3, <1>5, <3>1
  <2> QED
    BY <2>1, <2>2 DEF Before
<1> QED
  BY <1>4, <1>5 DEF Before

LEMMA ElementsAreFinite ==
  ASSUME NEW calls \in Seq(Call)
  PROVE  IsFiniteSet(ElementsOf(calls))
<1>1. DOMAIN calls = 1 .. Len(calls) /\ Len(calls) \in Nat
  BY SeqIsFunction
<1>2. IsFiniteSet(DOMAIN calls)
  BY <1>1, FS_Interval
<1>3. calls \in Surjection(DOMAIN calls, ElementsOf(calls))
  BY <1>1 DEF Surjection, ElementsOf
<1> QED
  BY <1>2, <1>3, FS_Surjection

\* Every confirmed write is selected, and with it nothing past the limit.
LEMMA Selection ==
  ASSUME NEW calls \in Seq(Call)
  PROVE  /\ Selected(calls) \subseteq ElementsOf(calls)
         /\ \A c \in ElementsOf(calls) : c.token => c \in Selected(calls)
         /\ (\E c \in Selected(calls) : ~c.token) => Cardinality(Selected(calls)) <= Limit
<1> DEFINE all == ElementsOf(calls)
           writes == {c \in all : c.token}
           others == {c \in all : Cardinality(writes \cup Before(calls, c)) < Limit}
<1>1. IsFiniteSet(all) /\ Cardinality(all) \in Nat /\ Limit \in Nat
  BY ElementsAreFinite, FS_CardinalityType, ToolLoopAssumption
<1>2. CASE Cardinality(all) <= Limit
  BY <1>2 DEF Selected
<1>3. CASE ~(Cardinality(all) <= Limit)
  <2>1. Selected(calls) = writes \cup others
    BY <1>3 DEF Selected
  <2>2. ASSUME NEW c \in Selected(calls), ~c.token PROVE Cardinality(Selected(calls)) <= Limit
    <3>1. others # {} /\ others \subseteq all
      BY <2>1, <2>2
    <3>2. Len(calls) \in Nat /\ \A d \in all : First(calls, d) \in 1 .. Len(calls)
      BY SeqIsFunction, FirstIsFirst
    <3> HIDE DEF others, all
    <3> DEFINE T == {Len(calls) - First(calls, d) : d \in others}
    <3>3. T \subseteq Nat /\ T # {}
      BY <3>1, <3>2
    <3>4. PICK t \in T : \A u \in T : t <= u
      BY <3>3, Least
    <3>5. PICK last \in others : t = Len(calls) - First(calls, last)
      BY <3>4
    <3>6. \A d \in others : First(calls, d) <= First(calls, last)
      <4> SUFFICES ASSUME NEW d \in others PROVE First(calls, d) <= First(calls, last)
        OBVIOUS
      <4>1. Len(calls) - First(calls, last) <= Len(calls) - First(calls, d)
        BY <3>4, <3>5
      <4> QED
        BY <3>1, <3>2, <4>1
    <3>7. others \subseteq Before(calls, last) \cup {last}
      <4> SUFFICES ASSUME NEW d \in others, d # last PROVE d \in Before(calls, last)
        OBVIOUS
      <4>1. calls[First(calls, d)] = d /\ calls[First(calls, last)] = last
        BY <3>1, FirstIsFirst DEF IsFirst, all
      <4>2. First(calls, d) < First(calls, last)
        BY <3>1, <3>2, <3>6, <4>1
      <4> QED
        BY <3>1, <4>2, BeforeIsFirst DEF all
    <3> DEFINE S == writes \cup Before(calls, last)
    <3>8. S \subseteq all /\ IsFiniteSet(S) /\ Cardinality(S) \in Nat
      <4>1. writes \subseteq all
        BY DEF all
      <4>2. Before(calls, last) \subseteq all
        BY DEF all, Before, ElementsOf
      <4>3. S \subseteq all
        BY <4>1, <4>2
      <4> QED
        BY <1>1, <4>3, FS_Subset, FS_CardinalityType
    <3>9. Cardinality(S) < Limit
      BY DEF others
    <3> HIDE DEF S
    <3>10. IsFiniteSet(S \cup {last}) /\ Cardinality(S \cup {last}) <= Limit
      <4>1. IsFiniteSet(S \cup {last}) /\ Cardinality(S \cup {last}) \in {Cardinality(S), Cardinality(S) + 1}
        BY <3>8, FS_AddElement
      <4> QED
        BY <1>1, <3>8, <3>9, <4>1
    <3>11. Selected(calls) \subseteq S \cup {last}
      BY <2>1, <3>7 DEF S
    <3>12. Cardinality(Selected(calls)) <= Cardinality(S \cup {last})
      BY <3>10, <3>11, FS_Subset
    <3>13. Cardinality(Selected(calls)) \in Nat /\ Cardinality(S \cup {last}) \in Nat
      BY <3>10, <3>11, FS_Subset, FS_CardinalityType
    <3> QED
      BY <1>1, <3>10, <3>12, <3>13
  <2> QED
    BY <2>1, <2>2
<1> QED
  BY <1>2, <1>3

\* The rounds, and what of them a call that runs adds to.
LEMMA SelectStep == TypeOK /\ PlaceInv /\ RanInv /\ CleanInv /\ SelectInv /\ [Next]_vars => SelectInv'
<1> SUFFICES ASSUME TypeOK, PlaceInv, RanInv, CleanInv, SelectInv, [Next]_vars PROVE SelectInv'
  OBVIOUS
<1>1. ASSUME NEW calls \in Responses, NEW says \in BOOLEAN, Answer(calls, says) PROVE SelectInv'
  <2>1. UNCHANGED <<turn, executed>> /\ rounds' = rounds + 1
    BY <1>1 DEF Answer
  <2>2. \A e \in executed : ~(e.id[1] = turn' /\ e.id[2] = rounds')
    BY <2>1, Counts DEF RanInv
  <2>3. RunNow' = {}
    BY <2>1, <2>2 DEF RunNow, ThisRound
  <2> QED
    BY <2>3 DEF SelectInv
<1>2. ASSUME NEW outcome \in Outcome, RunCall(outcome) PROVE SelectInv'
  <2>1. UNCHANGED <<turn, rounds, response, pc>> /\ pc = "tools" /\ response[next] \in Selected(response)
    BY <1>2 DEF RunCall
  <2>2. PICK e : executed' = executed \cup {e} /\ e.call = response[next]
    BY <1>2, RunAdds
  <2>3. RunNow' \subseteq RunNow \cup {response[next]}
    BY <2>1, <2>2 DEF RunNow, ThisRound
  <2>4. Selected(response)' = Selected(response)
    BY <2>1 DEF Selected, ElementsOf, Before
  <2> QED
    BY <2>1, <2>3, <2>4 DEF SelectInv
<1>3. ASSUME UNCHANGED <<turn, rounds, response, executed>>, pc' = "tools" => pc = "tools" PROVE SelectInv'
  <2>1. RunNow' = RunNow /\ Selected(response)' = Selected(response)
    BY <1>3 DEF RunNow, ThisRound, Selected, ElementsOf, Before
  <2> QED
    BY <1>3, <2>1 DEF SelectInv
<1>4. ASSUME pc' # "tools" PROVE SelectInv'
  BY <1>4 DEF SelectInv
<1> QED
  BY <1>1, <1>2, <1>3, <1>4
     DEF Next, GraphStep, Post, Truncated, RequestFails, SkipCall, RouteAfterTools, Recovered, EndTurn, vars

\* Of calls that were selected no more run than the limit, or all of them are
\* confirmed.
LEMMA RoundIsCapped ==
  ASSUME NEW calls \in Seq(Call), NEW R, \A e \in R : e.call \in Selected(calls),
         \A e, f \in R : e.call = f.call => e = f
  PROVE  Cardinality(R) <= Limit \/ \A e \in R : e.call.token
<1> SUFFICES ASSUME NEW e \in R, ~e.call.token PROVE Cardinality(R) <= Limit
  OBVIOUS
<1> DEFINE S == Selected(calls)
<1>3. Cardinality(S) <= Limit /\ S \subseteq ElementsOf(calls)
  BY Selection
<1>4. IsFiniteSet(S) /\ Cardinality(S) \in Nat
  BY <1>3, ElementsAreFinite, FS_Subset, FS_CardinalityType
<1>2. \A f \in R : f.call \in S
  OBVIOUS
<1> HIDE DEF S
<1> DEFINE g == [f \in R |-> f.call]
<1>5. g \in Injection(R, S)
  BY <1>2 DEF Injection, IsInjective
<1>6. IsFiniteSet(R) /\ Cardinality(R) <= Cardinality(S)
  BY <1>4, <1>5, FS_Injection
<1>7. Cardinality(R) \in Nat /\ Limit \in Nat
  BY <1>6, FS_CardinalityType, ToolLoopAssumption
<1> QED
  BY <1>3, <1>4, <1>6, <1>7

LEMMA CapStep ==
  ASSUME TypeOK, PlaceInv, RanInv, CleanInv, SelectInv, CapSparesConfirmed, [Next]_vars, SelectInv'
  PROVE  CapSparesConfirmed'
<1> DEFINE Rounds == \A t \in 1 .. MaxPosts, n \in 1 .. MaxTurns :
             /\ \A e, f \in RunIn(t, n) : e.call = f.call => e = f
             /\ Cardinality(RunIn(t, n)) <= Limit \/ \A e \in RunIn(t, n) : e.call.token
           Spared == pc = "tools" => \A k \in 1 .. next - 1 : response[k].token => response[k] \in RunNow
<1>1. Rounds /\ Spared
  BY DEF CapSparesConfirmed
<1>2. response \in Seq(Call) /\ DOMAIN response = 1 .. Len(response) /\ Len(response) \in Nat
      /\ next \in 1 .. Len(response) + 1
  BY TypeParts, SeqIsFunction DEF Sequences, Scalars
<1>3. SUFFICES Rounds' /\ Spared'
  BY DEF CapSparesConfirmed
<1>4. ASSUME UNCHANGED executed PROVE Rounds'
  <2>1. \A t, n : RunIn(t, n)' = RunIn(t, n)
    BY <1>4 DEF RunIn
  <2> QED
    BY <1>1, <2>1
<1>5. ASSUME NEW outcome \in Outcome, RunCall(outcome) PROVE Rounds' /\ Spared'
  <2>1. /\ UNCHANGED <<turn, rounds, response, pc>> /\ pc = "tools" /\ next' = next + 1
        /\ response[next] \notin RunNow
    BY <1>5 DEF RunCall
  <2>2. PICK e : /\ executed' = executed \cup {e} /\ e.call = response[next]
                 /\ e.id[1] = turn /\ e.id[2] = rounds
    BY <1>5, RunAdds
  <2>3. RunNow' = RunNow \cup {response[next]}
    BY <2>1, <2>2 DEF RunNow, ThisRound
  <2>4. Spared'
    <3> SUFFICES ASSUME NEW k \in 1 .. next, response[k].token PROVE response[k] \in RunNow'
      BY <1>2, <2>1
    <3>1. k = next \/ k \in 1 .. next - 1
      BY <1>2
    <3> QED
      BY <1>1, <2>1, <2>3, <3>1
  <2>5. ASSUME NEW t \in 1 .. MaxPosts, NEW n \in 1 .. MaxTurns
        PROVE  /\ \A f, g \in RunIn(t, n)' : f.call = g.call => f = g
               /\ Cardinality(RunIn(t, n)') <= Limit \/ \A f \in RunIn(t, n)' : f.call.token
    <3>1. CASE t = turn /\ n = rounds
      <4>1. RunIn(t, n) = ThisRound /\ RunIn(t, n)' = ThisRound \cup {e} /\ RunIn(t, n)' = ThisRound'
        BY <2>1, <2>2, <3>1 DEF RunIn, ThisRound
      <4>2. \A f, g \in RunIn(t, n)' : f.call = g.call => f = g
        BY <1>1, <2>1, <2>2, <4>1 DEF RunNow
      <4>3. \A f \in RunIn(t, n)' : f.call \in Selected(response)'
        BY <2>1, <4>1 DEF SelectInv, RunNow
      <4>4. Selected(response)' = Selected(response)
        BY <2>1 DEF Selected, ElementsOf, Before
      <4> QED
        BY <1>2, <4>2, <4>3, <4>4, RoundIsCapped
    <3>2. CASE ~(t = turn /\ n = rounds)
      <4>1. RunIn(t, n)' = RunIn(t, n)
        BY <2>2, <3>2 DEF RunIn
      <4> QED
        BY <1>1, <4>1
    <3> QED
      BY <3>1, <3>2
  <2> QED
    BY <2>4, <2>5
<1>6. CASE SkipCall
  <2>1. /\ UNCHANGED <<turn, rounds, response, pc, executed>> /\ pc = "tools" /\ next' = next + 1
        /\ next <= Len(response) /\ (response[next] \in RunNow \/ response[next] \notin Selected(response))
    BY <1>6 DEF SkipCall
  <2>2. RunNow' = RunNow
    BY <2>1 DEF RunNow, ThisRound
  <2>3. response[next] \in ElementsOf(response)
    BY <1>2, <2>1 DEF ElementsOf
  <2>4. response[next].token => response[next] \in RunNow
    BY <1>2, <2>1, <2>3, Selection
  <2>5. Spared'
    <3> SUFFICES ASSUME NEW k \in 1 .. next, response[k].token PROVE response[k] \in RunNow
      BY <1>2, <2>1, <2>2
    <3>1. k = next \/ k \in 1 .. next - 1
      BY <1>2
    <3> QED
      BY <1>1, <2>1, <2>4, <3>1
  <2> QED
    BY <1>4, <2>1, <2>5
<1>7. ASSUME NEW calls \in Responses, NEW says \in BOOLEAN, Answer(calls, says) PROVE Rounds' /\ Spared'
  <2>1. UNCHANGED executed /\ next' = 1
    BY <1>7 DEF Answer
  <2> QED
    BY <1>4, <2>1
<1>8. ASSUME UNCHANGED executed, pc' # "tools" PROVE Rounds' /\ Spared'
  BY <1>4, <1>8
<1>9. CASE UNCHANGED vars
  BY <1>1, <1>4, <1>9 DEF vars, RunNow, ThisRound
<1> QED
  BY <1>5, <1>6, <1>7, <1>8, <1>9
     DEF Next, GraphStep, Post, Truncated, RequestFails, RouteAfterTools, Recovered, EndTurn

-----------------------------------------------------------------------------
(***************************************************************************)
(* What is written of a turn.                                              *)
(***************************************************************************)

LEMMA InConcat ==
  ASSUME NEW S, NEW s \in Seq(S), NEW t \in Seq(S)
  PROVE  /\ DOMAIN (s \o t) = 1 .. Len(s) + Len(t)
         /\ \A k \in DOMAIN s : k \in DOMAIN (s \o t) /\ (s \o t)[k] = s[k]
         /\ \A k \in DOMAIN t : Len(s) + k \in DOMAIN (s \o t) /\ (s \o t)[Len(s) + k] = t[k]
         /\ \A i \in DOMAIN (s \o t) : i \in DOMAIN s \/ \E k \in DOMAIN t : i = Len(s) + k
<1>1. /\ Len(s) \in Nat /\ DOMAIN s = 1 .. Len(s)
      /\ Len(t) \in Nat /\ DOMAIN t = 1 .. Len(t)
  BY SeqIsFunction
<1>2. /\ s \o t \in Seq(S) /\ Len(s \o t) = Len(s) + Len(t)
      /\ \A i \in 1 .. Len(s) + Len(t) : (s \o t)[i] = IF i <= Len(s) THEN s[i] ELSE t[i - Len(s)]
  BY ConcatProperties
<1>3. DOMAIN (s \o t) = 1 .. Len(s) + Len(t)
  BY <1>2, SeqIsFunction
<1>4. ASSUME NEW k \in DOMAIN s PROVE k \in DOMAIN (s \o t) /\ (s \o t)[k] = s[k]
  <2>1. k \in 1 .. Len(s) + Len(t) /\ k <= Len(s)
    BY <1>1
  <2> QED
    BY <1>2, <1>3, <2>1
<1>5. ASSUME NEW k \in DOMAIN t PROVE Len(s) + k \in DOMAIN (s \o t) /\ (s \o t)[Len(s) + k] = t[k]
  <2>1. Len(s) + k \in 1 .. Len(s) + Len(t) /\ ~(Len(s) + k <= Len(s)) /\ (Len(s) + k) - Len(s) = k
    BY <1>1
  <2> QED
    BY <1>2, <1>3, <2>1
<1>6. ASSUME NEW i \in DOMAIN (s \o t), i \notin DOMAIN s PROVE \E k \in DOMAIN t : i = Len(s) + k
  <2>1. i - Len(s) \in DOMAIN t /\ i = Len(s) + (i - Len(s))
    BY <1>1, <1>3, <1>6
  <2> QED
    BY <2>1
<1> QED
  BY <1>3, <1>4, <1>5, <1>6

LEMMA InAppend ==
  ASSUME NEW S, NEW s \in Seq(S), NEW x \in S
  PROVE  /\ DOMAIN Append(s, x) = 1 .. Len(s) + 1
         /\ \A k \in DOMAIN s : k \in DOMAIN Append(s, x) /\ Append(s, x)[k] = s[k]
         /\ Len(s) + 1 \in DOMAIN Append(s, x) /\ Append(s, x)[Len(s) + 1] = x
         /\ \A i \in DOMAIN Append(s, x) : i \in DOMAIN s \/ i = Len(s) + 1
<1>1. Len(s) \in Nat /\ DOMAIN s = 1 .. Len(s)
  BY SeqIsFunction
<1>2. /\ Append(s, x) \in Seq(S) /\ Len(Append(s, x)) = Len(s) + 1
      /\ \A i \in 1 .. Len(s) : Append(s, x)[i] = s[i]
      /\ Append(s, x)[Len(s) + 1] = x
  BY AppendProperties
<1>3. DOMAIN Append(s, x) = 1 .. Len(s) + 1
  BY <1>2, SeqIsFunction
<1> QED
  BY <1>1, <1>2, <1>3

LEMMA ResultStep ==
  ASSUME TypeOK, PlaceInv, RanInv, ResultInv, [Next]_vars
  PROVE  ResultInv'
<1>1. pending \in Seq(Announcement) /\ results \in Seq(Answered) /\ turn \in Nat
  BY TypeParts, Counts DEF Sequences
<1>2. CASE Post
  <2>1. turn' = turn + 1 /\ executed' = executed /\ pc' = "asking" /\ results' = <<>>
    BY <1>2 DEF Post
  <2>2. \A e \in executed : e.id[1] # turn'
    BY <1>1, <2>1, Counts DEF RanInv
  <2> QED
    BY <2>1, <2>2 DEF ResultInv, ResultsRan, ResultsPending, RoundPending
<1>3. ASSUME NEW calls \in Responses, NEW says \in BOOLEAN, Answer(calls, says) PROVE ResultInv'
  <2>1. /\ UNCHANGED <<turn, executed, results>> /\ rounds' = rounds + 1 /\ response' = calls
        /\ pending' = pending \o Announced(calls) /\ pc = "asking"
    BY <1>3 DEF Answer
  <2>2. Announced(calls) \in Seq(Announcement)
    BY <2>1, AnnouncedIsSeq DEF Announcement
  <2>3. \A k \in DOMAIN calls : k \in DOMAIN Announced(calls) /\ Announced(calls)[k].id = <<turn', rounds', k>>
    BY <2>1 DEF Announced
  <2>4. \A k \in DOMAIN pending : k \in DOMAIN pending' /\ pending'[k] = pending[k]
    BY <1>1, <2>1, <2>2, InConcat
  <2>5. \A k \in DOMAIN Announced(calls) : \E j \in DOMAIN pending' : pending'[j] = Announced(calls)[k]
    <3> SUFFICES ASSUME NEW k \in DOMAIN Announced(calls)
                 PROVE  \E j \in DOMAIN pending' : pending'[j] = Announced(calls)[k]
      OBVIOUS
    <3>1. Len(pending) + k \in DOMAIN pending' /\ pending'[Len(pending) + k] = Announced(calls)[k]
      BY <1>1, <2>1, <2>2, InConcat
    <3> QED
      BY <3>1
  <2>6. ResultsRan'
    BY <2>1 DEF ResultInv, ResultsRan
  <2>7. ResultsPending'
    BY <2>1, <2>4 DEF ResultInv, ResultsPending, IsPending
  <2>8. RoundPending'
    BY <2>1, <2>3, <2>5 DEF RoundPending, IsPending
  <2> QED
    BY <2>6, <2>7, <2>8 DEF ResultInv
<1>4. ASSUME UNCHANGED <<turn, pending, results, executed>>,
             pc' = "tools" => pc = "tools" /\ rounds' = rounds /\ response' = response
      PROVE  ResultInv'
  <2>1. ResultsRan' /\ ResultsPending'
    BY <1>4 DEF ResultInv, ResultsRan, ResultsPending, IsPending
  <2>2. RoundPending'
    BY <1>4 DEF ResultInv, RoundPending, IsPending
  <2> QED
    BY <2>1, <2>2 DEF ResultInv
<1>5. ASSUME NEW outcome \in Outcome, RunCall(outcome) PROVE ResultInv'
  <2>1. UNCHANGED <<turn, rounds, response, pc, pending>> /\ pc = "tools" /\ next \in DOMAIN response
    BY <1>5, RunningCall DEF RunCall
  <2>2. PICK e : /\ executed' = executed \cup {e} /\ e.id = <<turn, rounds, next>> /\ e.outcome = outcome
                 /\ e.id[1] = turn /\ \A f \in executed : f.id # e.id
    BY <1>5, RunAdds
  <2>3. IsPending(e.id) /\ RoundPending' /\ \A id : IsPending(id)' = IsPending(id)
    BY <2>1, <2>2 DEF ResultInv, RoundPending, IsPending
  <2>4. CASE outcome = "raised"
    <3>1. results' = results
      BY <1>5, <2>4 DEF RunCall
    <3>2. ResultsRan'
      BY <2>1, <2>2, <2>4, <3>1 DEF ResultInv, ResultsRan
    <3>3. ResultsPending'
      BY <2>3, <3>1 DEF ResultInv, ResultsPending
    <3> QED
      BY <2>3, <3>2, <3>3 DEF ResultInv
  <2>5. CASE outcome # "raised"
    <3> DEFINE r == [id |-> <<turn, rounds, next>>, outcome |-> outcome]
    <3>1. results' = Append(results, r)
      BY <1>5, <2>5 DEF RunCall, Paired
    <3>2. r \in Answered /\ r.id = e.id /\ r.outcome = e.outcome
      BY <1>5, <2>2, RunningCall DEF Answered
    <3> HIDE DEF r
    <3>3. /\ \A k \in DOMAIN results : k \in DOMAIN results' /\ results'[k] = results[k]
          /\ Len(results) + 1 \in DOMAIN results' /\ results'[Len(results) + 1] = r
          /\ \A i \in DOMAIN results' : i \in DOMAIN results \/ i = Len(results) + 1
      BY <1>1, <3>1, <3>2, InAppend
    <3>4. ASSUME NEW k \in DOMAIN results'
          PROVE  \E f \in executed' : f.id = results'[k].id /\ f.outcome = results'[k].outcome /\ f.id[1] = turn
      <4>1. CASE k \in DOMAIN results
        BY <2>2, <3>3, <4>1 DEF ResultInv, ResultsRan
      <4>2. CASE k = Len(results) + 1
        BY <2>2, <3>2, <3>3, <4>2
      <4> QED
        BY <3>3, <4>1, <4>2
    <3>5. \A k \in DOMAIN results : results[k].id # r.id
      BY <2>2, <3>2 DEF ResultInv, ResultsRan
    <3>6. ASSUME NEW j \in DOMAIN results', NEW k \in DOMAIN results', results'[j].id = results'[k].id
          PROVE  j = k
      BY <3>3, <3>5, <3>6 DEF ResultInv, ResultsRan
    <3>7. ASSUME NEW f \in executed', f.id[1] = turn
          PROVE  f.outcome = "raised" \/ \E k \in DOMAIN results' : results'[k].id = f.id
      BY <2>2, <3>2, <3>3, <3>7 DEF ResultInv, ResultsRan
    <3>8. ResultsRan'
      BY <2>1, <3>4, <3>6, <3>7 DEF ResultsRan
    <3>9. ResultsPending'
      BY <2>3, <3>2, <3>3 DEF ResultInv, ResultsPending
    <3> QED
      BY <2>3, <3>8, <3>9 DEF ResultInv
  <2> QED
    BY <2>4, <2>5
<1> QED
  BY <1>2, <1>3, <1>4, <1>5
     DEF Next, GraphStep, Truncated, RequestFails, SkipCall, RouteAfterTools, Recovered, EndTurn, vars, accVars

\* The rows after a turn was written: those there were, the assistant's, and
\* one per result.
RowOf(r) == [role |-> "tool", calls |-> <<>>, answers |-> r.id, outcome |-> r.outcome]

LEMMA WithBlock ==
  ASSUME TypeOK
  PROVE  LET all == rows \o Block
             a == Len(rows) + 1 IN
         /\ \A k \in DOMAIN rows : k \in DOMAIN all /\ all[k] = rows[k]
         /\ a \in DOMAIN all /\ a \notin DOMAIN rows /\ all[a].role = "assistant"
         /\ all[a].calls = [k \in DOMAIN pending |-> pending[k].id]
         /\ \A r \in DOMAIN results : a + r \in DOMAIN all /\ all[a + r] = RowOf(results[r])
         /\ \A k \in DOMAIN all :
              \/ k \in DOMAIN rows
              \/ k = a
              \/ \E r \in DOMAIN results : k = a + r
<1> DEFINE all == rows \o Block
           a == Len(rows) + 1
<1>1. /\ rows \in Seq(Row) /\ Len(rows) \in Nat /\ DOMAIN rows = 1 .. Len(rows)
      /\ Len(results) \in Nat /\ DOMAIN results = 1 .. Len(results)
  BY TypeParts, SeqIsFunction DEF Sequences
<1>2. /\ Block \in Seq(Row) /\ DOMAIN Block = 1 .. 1 + Len(results)
      /\ \A r \in DOMAIN results : Block[1 + r] = RowOf(results[r])
      /\ Block[1].role = "assistant" /\ Block[1].calls = [k \in DOMAIN pending |-> pending[k].id]
  BY BlockIsSeq, SeqIsFunction DEF RowOf
<1>3. /\ \A k \in DOMAIN rows : k \in DOMAIN all /\ all[k] = rows[k]
      /\ \A i \in DOMAIN Block : Len(rows) + i \in DOMAIN all /\ all[Len(rows) + i] = Block[i]
      /\ \A k \in DOMAIN all : k \in DOMAIN rows \/ \E i \in DOMAIN Block : k = Len(rows) + i
  <2>1. rows \in Seq(Row) /\ Block \in Seq(Row)
    BY <1>1, <1>2
  <2> QED
    BY ONLY <2>1, InConcat
<1> HIDE DEF all
<1>4. a \in DOMAIN all /\ a \notin DOMAIN rows /\ all[a] = Block[1]
  BY <1>1, <1>2, <1>3
<1>5. ASSUME NEW r \in DOMAIN results PROVE a + r \in DOMAIN all /\ all[a + r] = RowOf(results[r])
  <2>1. 1 + r \in DOMAIN Block /\ Len(rows) + (1 + r) = a + r
    BY <1>1, <1>2
  <2> QED
    BY <1>2, <1>3, <2>1
<1>6. ASSUME NEW k \in DOMAIN all, k \notin DOMAIN rows, k # a
      PROVE  \E r \in DOMAIN results : k = a + r
  <2>1. PICK i \in DOMAIN Block : k = Len(rows) + i
    BY <1>3, <1>6
  <2>2. i - 1 \in DOMAIN results /\ k = a + (i - 1)
    BY <1>1, <1>2, <1>6, <2>1
  <2> QED
    BY <2>2
<1> QED
  BY <1>2, <1>3, <1>4, <1>5, <1>6 DEF all

LEMMA RowStep ==
  ASSUME TypeOK, ResultInv, RowInv, [Next]_vars
  PROVE  RowInv'
<1> DEFINE New == [role |-> "user", calls |-> <<>>, answers |-> <<>>, outcome |-> "none"]
<1>1. rows \in Seq(Row) /\ results \in Seq(Answered) /\ turn \in Nat
  BY TypeParts, Counts DEF Sequences
<1>2. \A k \in DOMAIN rows : rows[k].role = "tool" =>
        rows[k].answers[1] \in Nat /\ rows[k].answers[1] <= turn
  BY DEF RowInv
<1>3. CASE Post
  <2>1. turn' = turn + 1 /\ pc' = "asking" /\ rows' = Append(rows, New)
    BY <1>3 DEF Post
  <2>2. New \in Row /\ New.role = "user"
    BY OneIsSeq DEF Row
  <2> HIDE DEF New
  <2>3. \A k \in DOMAIN rows' : rows'[k].role = "tool" => k \in DOMAIN rows /\ rows'[k] = rows[k]
    BY <1>1, <2>1, <2>2, InAppend
  <2>4. \A k \in DOMAIN rows' : rows'[k].role = "tool" =>
          rows'[k].answers[1] \in Nat /\ rows'[k].answers[1] < turn'
    BY <1>1, <1>2, <2>1, <2>3
  <2> QED
    BY <1>1, <2>1, <2>4 DEF RowInv
<1>4. ASSUME UNCHANGED <<turn, rows>>, pc # "over" PROVE RowInv'
  BY <1>4 DEF RowInv
<1>5. CASE EndTurn
  <2>1. UNCHANGED turn /\ pc' = "over" /\ (rows' = rows \/ rows' = rows \o Block)
    BY <1>5 DEF EndTurn
  <2>2. CASE rows' = rows
    BY <1>2, <2>1, <2>2 DEF RowInv
  <2>3. CASE rows' = rows \o Block
    <3>1. ASSUME NEW k \in DOMAIN rows', rows'[k].role = "tool"
          PROVE  rows'[k].answers[1] \in Nat /\ rows'[k].answers[1] <= turn
      <4>1. CASE k \in DOMAIN rows /\ rows'[k] = rows[k]
        BY <1>2, <3>1, <4>1
      <4>2. ASSUME NEW r \in DOMAIN results, rows'[k] = RowOf(results[r])
            PROVE  rows'[k].answers[1] \in Nat /\ rows'[k].answers[1] <= turn
        <5>1. rows'[k].answers = results[r].id
          BY <4>2 DEF RowOf
        <5>2. results[r].id[1] = turn
          BY DEF ResultInv, ResultsRan
        <5> QED
          BY <1>1, <5>1, <5>2
      <4> QED
        BY <2>3, <3>1, <4>1, <4>2, WithBlock
    <3> QED
      BY <2>1, <3>1 DEF RowInv
  <2> QED
    BY <2>1, <2>2, <2>3
<1>6. CASE UNCHANGED vars
  BY <1>6 DEF vars, RowInv
<1> QED
  BY <1>3, <1>4, <1>5, <1>6
     DEF Next, GraphStep, Answer, Truncated, RequestFails, SkipCall, RunCall, RouteAfterTools, Recovered

\* The two halves of the record: what is written is true, and what ran is
\* written.
IsResult(k) == rows[k].role = "tool"
Announces(k) == \E a \in 1 .. k - 1 : /\ rows[k].answers \in ElementsOf(rows[a].calls)
                                      /\ \A j \in a + 1 .. k : IsResult(j)
RowsAreTrue ==
  \A k \in DOMAIN rows : IsResult(k) =>
    /\ \E e \in executed : e.id = rows[k].answers /\ e.outcome = rows[k].outcome
    /\ \A j \in DOMAIN rows : IsResult(j) /\ rows[j].answers = rows[k].answers => j = k
    /\ Announces(k)
Written(id) == \E k \in DOMAIN rows : IsResult(k) /\ rows[k].answers = id
RunsAreWritten ==
  \A e \in executed :
    e.outcome = "raised" \/ e.id[1] \in lost \/ (e.id[1] = turn /\ pc # "over") \/ Written(e.id)

LEMMA RecordParts == RecordIsTrue <=> RowsAreTrue /\ RunsAreWritten
BY Zenon DEF RecordIsTrue, RowsAreTrue, RunsAreWritten, Written, Announces, IsResult

LEMMA RecordPartsPrimed == RecordIsTrue' <=> RowsAreTrue' /\ RunsAreWritten'
BY Zenon DEF RecordIsTrue, RowsAreTrue, RunsAreWritten, Written, Announces, IsResult

LEMMA LongerRecord ==
  ASSUME TypeOK, \A k \in DOMAIN rows : k \in DOMAIN rows' /\ rows'[k] = rows[k]
  PROVE  /\ \A k \in DOMAIN rows : IsResult(k)' = IsResult(k) /\ (Announces(k) => Announces(k)')
         /\ \A id : Written(id) => Written(id)'
<1>1. DOMAIN rows = 1 .. Len(rows) /\ Len(rows) \in Nat
  BY TypeParts, SeqIsFunction DEF Sequences
<1>2. \A k \in DOMAIN rows : IsResult(k)' = IsResult(k)
  BY DEF IsResult
<1>3. ASSUME NEW k \in DOMAIN rows, Announces(k) PROVE Announces(k)'
  <2>1. PICK a \in 1 .. k - 1 : /\ rows[k].answers \in ElementsOf(rows[a].calls)
                                /\ \A j \in a + 1 .. k : IsResult(j)
    BY <1>3 DEF Announces
  <2>2. a \in DOMAIN rows /\ \A j \in a + 1 .. k : j \in DOMAIN rows
    BY <1>1
  <2>3. rows'[k].answers \in ElementsOf(rows'[a].calls)
    BY <2>1, <2>2
  <2>4. \A j \in a + 1 .. k : IsResult(j)'
    BY <1>2, <2>1, <2>2
  <2>5. ElementsOf(rows[a].calls)' = ElementsOf(rows'[a].calls)
    BY DEF ElementsOf
  <2> QED
    BY <2>3, <2>4, <2>5 DEF Announces
<1>4. ASSUME NEW id, Written(id) PROVE Written(id)'
  BY <1>2, <1>4 DEF Written
<1> QED
  BY <1>2, <1>3, <1>4

\* What the rows that a turn adds say of its results.
LEMMA BlockIsTrue ==
  ASSUME TypeOK, RanInv, ResultInv, RowInv, RowsAreTrue, pc = "ending", rows' = rows \o Block,
         executed' = executed
  PROVE  RowsAreTrue'
<1>1. PICK a \in Nat :
      /\ a = Len(rows) + 1
      /\ DOMAIN rows = 1 .. Len(rows) /\ Len(rows) \in Nat /\ turn \in Nat
      /\ DOMAIN results = 1 .. Len(results) /\ Len(results) \in Nat
  BY TypeParts, Counts, SeqIsFunction DEF Sequences
<1>2. /\ \A k \in DOMAIN rows : k \in DOMAIN rows' /\ rows'[k] = rows[k]
      /\ a \in DOMAIN rows' /\ rows'[a].role = "assistant"
      /\ rows'[a].calls = [k \in DOMAIN pending |-> pending[k].id]
      /\ \A r \in DOMAIN results : a + r \in DOMAIN rows' /\ rows'[a + r] = RowOf(results[r])
      /\ \A k \in DOMAIN rows' :
           \/ k \in DOMAIN rows
           \/ k = a
           \/ \E r \in DOMAIN results : k = a + r
  BY <1>1, WithBlock
<1>3. ASSUME NEW r \in DOMAIN results
      PROVE  /\ IsResult(a + r)' /\ rows'[a + r].answers = results[r].id
             /\ rows'[a + r].outcome = results[r].outcome /\ results[r].id[1] = turn
  <2>1. /\ RowOf(results[r]).role = "tool" /\ RowOf(results[r]).answers = results[r].id
        /\ RowOf(results[r]).outcome = results[r].outcome
    BY DEF RowOf
  <2>2. rows'[a + r] = RowOf(results[r])
    BY <1>2
  <2>3. results[r].id[1] = turn
    BY DEF ResultInv, ResultsRan
  <2> QED
    BY <2>1, <2>2, <2>3 DEF IsResult
<1>4. \A k \in DOMAIN rows : IsResult(k)' => rows'[k].answers[1] # turn
  <2>1. \A k \in DOMAIN rows : IsResult(k) => rows[k].answers[1] \in Nat /\ rows[k].answers[1] < turn
    BY DEF IsResult, RowInv
  <2>2. \A k \in DOMAIN rows : IsResult(k) => rows[k].answers[1] # turn
    BY <1>1, <2>1
  <2> QED
    BY <1>2, <2>2 DEF IsResult
<1>5. ~IsResult(a)'
  BY <1>2 DEF IsResult
<1>6. ASSUME NEW k \in DOMAIN rows, IsResult(k)'
      PROVE  /\ \E e \in executed' : e.id = rows'[k].answers /\ e.outcome = rows'[k].outcome
             /\ \A j \in DOMAIN rows' : IsResult(j)' /\ rows'[j].answers = rows'[k].answers => j = k
             /\ Announces(k)'
  <2>1. IsResult(k) /\ Announces(k)'
    BY <1>2, <1>6, LongerRecord DEF RowsAreTrue
  <2>2. \E e \in executed' : e.id = rows'[k].answers /\ e.outcome = rows'[k].outcome
    BY <1>2, <2>1 DEF RowsAreTrue
  <2>3. ASSUME NEW j \in DOMAIN rows', IsResult(j)', rows'[j].answers = rows'[k].answers PROVE j = k
    <3>1. CASE j \in DOMAIN rows
      <4>1. IsResult(j)
        BY <1>2, <2>3, <3>1 DEF IsResult
      <4> QED
        BY <1>2, <2>1, <2>3, <3>1, <4>1 DEF RowsAreTrue
    <3>2. CASE j \notin DOMAIN rows
      <4>1. \E r \in DOMAIN results : j = a + r
        BY <1>2, <1>5, <2>3, <3>2
      <4>2. rows'[j].answers[1] = turn
        BY <1>3, <4>1
      <4> QED
        BY <1>4, <1>6, <2>3, <4>2
    <3> QED
      BY <3>1, <3>2
  <2> QED
    BY <2>1, <2>2, <2>3
<1>7. ASSUME NEW r \in DOMAIN results
      PROVE  /\ \E e \in executed' : e.id = rows'[a + r].answers /\ e.outcome = rows'[a + r].outcome
             /\ \A j \in DOMAIN rows' : IsResult(j)' /\ rows'[j].answers = rows'[a + r].answers => j = a + r
             /\ Announces(a + r)'
  <2>1. \E e \in executed' : e.id = rows'[a + r].answers /\ e.outcome = rows'[a + r].outcome
    <3>1. \E e \in executed : e.id = results[r].id /\ e.outcome = results[r].outcome
      BY DEF ResultInv, ResultsRan
    <3> QED
      BY <1>3, <3>1
  <2>2. ASSUME NEW j \in DOMAIN rows', IsResult(j)', rows'[j].answers = rows'[a + r].answers PROVE j = a + r
    <3>1. j \notin DOMAIN rows
      BY <1>3, <1>4, <2>2
    <3>2. PICK q \in DOMAIN results : j = a + q
      BY <1>2, <1>5, <2>2, <3>1
    <3>3. results[q].id = results[r].id
      BY <1>3, <2>2, <3>2
    <3>4. q = r
      BY <3>3 DEF ResultInv, ResultsRan
    <3> QED
      BY <3>2, <3>4
  <2>3. Announces(a + r)'
    <3>1. PICK j \in DOMAIN pending : pending[j].id = results[r].id
      BY DEF ResultInv, ResultsPending, IsPending
    <3>2. rows'[a + r].answers \in {rows'[a].calls[i] : i \in DOMAIN rows'[a].calls}
      BY <1>2, <1>3, <3>1
    <3>3. a \in 1 .. (a + r) - 1 /\ \A i \in a + 1 .. a + r : i - a \in DOMAIN results /\ i = a + (i - a)
      BY <1>1
    <3>4. \A i \in a + 1 .. a + r : IsResult(i)'
      BY <1>3, <3>3
    <3> QED
      BY <3>2, <3>3, <3>4 DEF Announces, ElementsOf
  <2> QED
    BY <2>1, <2>2, <2>3
<1>8. ASSUME NEW k \in DOMAIN rows', IsResult(k)'
      PROVE  /\ \E e \in executed' : e.id = rows'[k].answers /\ e.outcome = rows'[k].outcome
             /\ \A j \in DOMAIN rows' : IsResult(j)' /\ rows'[j].answers = rows'[k].answers => j = k
             /\ Announces(k)'
  <2>1. CASE k \in DOMAIN rows
    BY <1>6, <1>8, <2>1
  <2>2. CASE k \notin DOMAIN rows
    <3>1. PICK r \in DOMAIN results : k = a + r
      BY <1>2, <1>5, <1>8, <2>2
    <3> QED
      BY <1>7, <3>1
  <2> QED
    BY <2>1, <2>2
<1> QED
  BY <1>8 DEF RowsAreTrue

LEMMA RowsAreTrueStep ==
  ASSUME TypeOK, PlaceInv, RanInv, ResultInv, RowInv, RowsAreTrue, [Next]_vars
  PROVE  RowsAreTrue'
<1> DEFINE New == [role |-> "user", calls |-> <<>>, answers |-> <<>>, outcome |-> "none"]
<1>1. rows \in Seq(Row)
  BY TypeParts DEF Sequences
<1>2. ASSUME UNCHANGED rows, executed \subseteq executed' PROVE RowsAreTrue'
  <2>1. \A k \in DOMAIN rows : IsResult(k)' = IsResult(k) /\ (Announces(k) => Announces(k)')
    BY <1>2, LongerRecord
  <2> QED
    BY <1>2, <2>1 DEF RowsAreTrue
<1>3. CASE Post
  <2>1. executed' = executed /\ rows' = Append(rows, New)
    BY <1>3 DEF Post
  <2>2. New \in Row /\ New.role = "user"
    BY OneIsSeq DEF Row
  <2> HIDE DEF New
  <2>3. /\ \A k \in DOMAIN rows : k \in DOMAIN rows' /\ rows'[k] = rows[k]
        /\ \A k \in DOMAIN rows' : rows'[k].role = "tool" => k \in DOMAIN rows
    BY <1>1, <2>1, <2>2, InAppend
  <2>4. \A k \in DOMAIN rows' : IsResult(k)' => k \in DOMAIN rows /\ IsResult(k)
    BY <2>3 DEF IsResult
  <2>5. \A k \in DOMAIN rows : Announces(k) => Announces(k)'
    BY <2>3, LongerRecord
  <2> QED
    BY <2>1, <2>3, <2>4, <2>5 DEF RowsAreTrue
<1>4. CASE EndTurn
  <2>1. pc = "ending" /\ executed' = executed /\ (rows' = rows \/ rows' = rows \o Block)
    BY <1>4 DEF EndTurn
  <2> QED
    BY <1>2, <2>1, BlockIsTrue
<1>5. ASSUME NEW outcome \in Outcome, RunCall(outcome) PROVE RowsAreTrue'
  <2>1. rows' = rows
    BY <1>5 DEF RunCall
  <2>2. executed \subseteq executed'
    BY <1>5, RunAdds
  <2> QED
    BY <1>2, <2>1, <2>2
<1> QED
  BY <1>2, <1>3, <1>4, <1>5
     DEF Next, GraphStep, Answer, Truncated, RequestFails, SkipCall, RouteAfterTools, Recovered, vars

LEMMA RunsAreWrittenStep ==
  ASSUME TypeOK, PlaceInv, RanInv, ResultInv, RunsAreWritten, [Next]_vars
  PROVE  RunsAreWritten'
<1> DEFINE New == [role |-> "user", calls |-> <<>>, answers |-> <<>>, outcome |-> "none"]
<1>1. rows \in Seq(Row)
  BY TypeParts DEF Sequences
<1>2. ASSUME UNCHANGED <<turn, rows, executed, lost>>, pc' # "over" \/ pc = "over" PROVE RunsAreWritten'
  <2>1. \A id : Written(id)' = Written(id)
    BY <1>2 DEF Written, IsResult
  <2> QED
    BY <1>2, <2>1 DEF RunsAreWritten
<1>3. CASE Post
  <2>1. pc = "over" /\ UNCHANGED <<executed, lost>> /\ rows' = Append(rows, New)
    BY <1>3 DEF Post
  <2>2. New \in Row
    BY OneIsSeq DEF Row
  <2> HIDE DEF New
  <2>3. \A k \in DOMAIN rows : k \in DOMAIN rows' /\ rows'[k] = rows[k]
    BY <1>1, <2>1, <2>2, InAppend
  <2>4. \A id : Written(id) => Written(id)'
    BY <2>3, LongerRecord
  <2> QED
    BY <2>1, <2>4 DEF RunsAreWritten
<1>4. CASE EndTurn
  <2>1. /\ UNCHANGED <<turn, executed>>
        /\ \/ rows' = rows \o Block /\ UNCHANGED lost
           \/ lost' = lost \cup {turn} /\ UNCHANGED rows
    BY <1>4 DEF EndTurn
  <2>2. CASE rows' = rows \o Block /\ UNCHANGED lost
    <3>1. /\ \A k \in DOMAIN rows : k \in DOMAIN rows' /\ rows'[k] = rows[k]
          /\ \A r \in DOMAIN results : /\ Len(rows) + 1 + r \in DOMAIN rows'
                                       /\ rows'[Len(rows) + 1 + r] = RowOf(results[r])
      BY <2>2, WithBlock
    <3>2. \A id : Written(id) => Written(id)'
      BY <3>1, LongerRecord
    <3>3. ASSUME NEW e \in executed, e.outcome # "raised", e.id[1] = turn PROVE Written(e.id)'
      <4>1. PICK r \in DOMAIN results : results[r].id = e.id
        BY <3>3 DEF ResultInv, ResultsRan
      <4>2. PICK k \in DOMAIN rows' : rows'[k] = RowOf(results[r])
        BY <3>1
      <4>3. rows'[k].role = "tool" /\ rows'[k].answers = e.id
        BY <4>1, <4>2 DEF RowOf
      <4> QED
        BY <4>3 DEF Written, IsResult
    <3> QED
      BY <2>1, <2>2, <3>2, <3>3 DEF RunsAreWritten
  <2>3. CASE lost' = lost \cup {turn} /\ UNCHANGED rows
    <3>1. \A id : Written(id)' = Written(id)
      BY <2>3 DEF Written, IsResult
    <3> QED
      BY <2>1, <2>3, <3>1 DEF RunsAreWritten
  <2> QED
    BY <2>1, <2>2, <2>3
<1>5. ASSUME NEW outcome \in Outcome, RunCall(outcome) PROVE RunsAreWritten'
  <2>1. UNCHANGED <<turn, rows, lost, pc>> /\ pc = "tools"
    BY <1>5 DEF RunCall
  <2>2. PICK e : executed' = executed \cup {e} /\ e.id[1] = turn
    BY <1>5, RunAdds
  <2>3. \A id : Written(id)' = Written(id)
    BY <2>1 DEF Written, IsResult
  <2> QED
    BY <2>1, <2>2, <2>3 DEF RunsAreWritten
<1> QED
  BY <1>2, <1>3, <1>4, <1>5
     DEF Next, GraphStep, Answer, Truncated, RequestFails, SkipCall, RouteAfterTools, Recovered, vars

LEMMA RecordStep ==
  TypeOK /\ PlaceInv /\ RanInv /\ ResultInv /\ RowInv /\ RecordIsTrue /\ [Next]_vars => RecordIsTrue'
BY RecordParts, RecordPartsPrimed, RowsAreTrueStep, RunsAreWrittenStep

-----------------------------------------------------------------------------
(***************************************************************************)
(* The ids of the calls in the record.                                     *)
(***************************************************************************)

LEMMA PendingCounts ==
  ASSUME TypeOK
  PROVE  \A k \in DOMAIN pending : pending[k].id[1] \in Nat /\ pending[k].id[2] \in Nat
<1>1. pending \in Seq(Announcement)
  BY TypeParts DEF Sequences
<1>2. \A k \in DOMAIN pending : pending[k].id \in Id
  <2>1. \A k \in DOMAIN pending : pending[k] \in Announcement
    BY <1>1, SeqIsFunction
  <2> QED
    BY <2>1 DEF Announcement
<1>3. \A id \in Id : id[1] \in Nat /\ id[2] \in Nat
  BY DEF Id
<1> QED
  BY <1>2, <1>3

LEMMA PendingIdsStep ==
  ASSUME TypeOK, PlaceInv, CleanInv, PendingIds, [Next]_vars
  PROVE  PendingIds'
<1>1. /\ turn \in Nat /\ rounds \in Nat /\ pending \in Seq(Announcement)
      /\ \A k \in DOMAIN pending : pending[k].id[1] \in Nat /\ pending[k].id[2] \in Nat
  BY Counts, PendingCounts, TypeParts DEF Sequences
<1>2. ASSUME UNCHANGED <<turn, pending>>, rounds' = rounds \/ rounds' = rounds + 1 PROVE PendingIds'
  BY <1>1, <1>2 DEF PendingIds
<1>3. ASSUME pending' = <<>> PROVE PendingIds'
  BY <1>3 DEF PendingIds
<1>4. CASE Recovered
  <2>1. pending = <<>>
    BY <1>4 DEF Recovered, CleanInv
  <2> QED
    BY <1>3, <1>4, <2>1 DEF Recovered, accVars
<1>5. ASSUME NEW calls \in Responses, NEW says \in BOOLEAN, Answer(calls, says) PROVE PendingIds'
  <2>1. /\ turn' = turn /\ rounds' = rounds + 1 /\ pending' = pending \o Announced(calls) /\ pc = "asking"
    BY <1>5 DEF Answer
  <2>2. Announced(calls) \in Seq(Announcement)
    BY <2>1, AnnouncedIsSeq DEF Announcement
  <2>3. \A k \in DOMAIN Announced(calls) : Announced(calls)[k].id = <<turn, rounds + 1, k>>
    BY DEF Announced
  <2>4. /\ \A k \in DOMAIN pending : pending'[k] = pending[k]
        /\ \A k \in DOMAIN Announced(calls) : pending'[Len(pending) + k] = Announced(calls)[k]
        /\ \A i \in DOMAIN pending' : i \in DOMAIN pending \/ \E k \in DOMAIN Announced(calls) : i = Len(pending) + k
    BY <1>1, <2>1, <2>2, InConcat
  <2>5. \A i \in DOMAIN pending' :
          \/ i \in DOMAIN pending /\ pending'[i] = pending[i] /\ pending[i].id[1] = turn /\ pending[i].id[2] <= rounds
          \/ \E k \in DOMAIN Announced(calls) : i = Len(pending) + k /\ pending'[i].id = <<turn, rounds + 1, k>>
    BY <2>3, <2>4 DEF PendingIds
  <2>6. \A i \in DOMAIN pending' : pending'[i].id[1] = turn /\ pending'[i].id[2] <= rounds + 1
    BY <1>1, <2>5
  <2>7. ASSUME NEW i \in DOMAIN pending', NEW j \in DOMAIN pending', pending'[i].id = pending'[j].id PROVE i = j
    <3>1. CASE i \in DOMAIN pending /\ j \in DOMAIN pending
      BY <2>4, <2>7, <3>1 DEF PendingIds
    <3>2. ASSUME NEW k \in DOMAIN Announced(calls), i = Len(pending) + k, pending'[i].id = <<turn, rounds + 1, k>>
          PROVE  i = j
      <4>1. pending'[j].id[2] = rounds + 1 /\ pending'[j].id[3] = k
        BY <2>7, <3>2
      <4>2. PICK l \in DOMAIN Announced(calls) : j = Len(pending) + l /\ pending'[j].id = <<turn, rounds + 1, l>>
        BY <1>1, <2>5, <4>1
      <4> QED
        BY <3>2, <4>1, <4>2
    <3>3. ASSUME NEW k \in DOMAIN Announced(calls), j = Len(pending) + k, pending'[j].id = <<turn, rounds + 1, k>>
          PROVE  i = j
      <4>1. pending'[i].id[2] = rounds + 1 /\ pending'[i].id[3] = k
        BY <2>7, <3>3
      <4>2. PICK l \in DOMAIN Announced(calls) : i = Len(pending) + l /\ pending'[i].id = <<turn, rounds + 1, l>>
        BY <1>1, <2>5, <4>1
      <4> QED
        BY <3>3, <4>1, <4>2
    <3> QED
      BY <2>5, <3>1, <3>2, <3>3
  <2> QED
    BY <2>1, <2>6, <2>7 DEF PendingIds
<1>6. ASSUME NEW says \in BOOLEAN, Truncated(says) PROVE PendingIds'
  BY <1>2, <1>6 DEF Truncated
<1> QED
  BY <1>2, <1>3, <1>4, <1>5, <1>6
     DEF Next, GraphStep, Post, RequestFails, SkipCall, RunCall, RouteAfterTools, EndTurn, vars, accVars

LEMMA RowIdsStep ==
  ASSUME TypeOK, CallsInv, [Next]_vars
  PROVE  (OldIds /\ OneRow /\ OnlyAnswers)'
<1> DEFINE New == [role |-> "user", calls |-> <<>>, answers |-> <<>>, outcome |-> "none"]
<1>1. /\ rows \in Seq(Row) /\ turn \in Nat /\ DOMAIN rows = 1 .. Len(rows) /\ Len(rows) \in Nat
      /\ \A k \in DOMAIN pending : pending[k].id[1] \in Nat
  BY Counts, PendingCounts, TypeParts, SeqIsFunction DEF Sequences
<1>2. CASE Post
  <2>1. turn' = turn + 1 /\ pc' = "asking" /\ rows' = Append(rows, New)
    BY <1>2 DEF Post
  <2>2. New \in Row /\ New.calls = <<>>
    BY OneIsSeq DEF Row
  <2> HIDE DEF New
  <2>3. /\ \A k \in DOMAIN rows : rows'[k] = rows[k]
        /\ \A k \in DOMAIN rows' : k \in DOMAIN rows \/ rows'[k].calls = <<>>
    BY <1>1, <2>1, <2>2, InAppend
  <2>4. \A k \in DOMAIN rows' : (k \in DOMAIN rows /\ rows'[k] = rows[k]) \/ DOMAIN rows'[k].calls = {}
    BY <2>3
  <2>5. OldIds'
    BY <1>1, <2>1, <2>4 DEF CallsInv, OldIds
  <2>6. OneRow'
    BY <2>4 DEF CallsInv, OneRow
  <2>7. OnlyAnswers'
    BY <2>3 DEF CallsInv, OnlyAnswers
  <2> QED
    BY <2>5, <2>6, <2>7
<1>3. ASSUME UNCHANGED <<turn, rows>>, pc # "over" \/ pc' = "over" PROVE (OldIds /\ OneRow /\ OnlyAnswers)'
  BY <1>3 DEF CallsInv, OldIds, OneRow, OnlyAnswers
<1>4. CASE EndTurn
  <2>1. turn' = turn /\ pc = "ending" /\ pc' = "over" /\ (rows' = rows \/ rows' = rows \o Block)
    BY <1>4 DEF EndTurn
  <2>2. CASE rows' = rows
    BY <1>3, <2>1, <2>2
  <2>3. CASE rows' = rows \o Block
    <3>1. PICK a : /\ a \notin DOMAIN rows /\ a \in DOMAIN rows' /\ rows'[a].role = "assistant"
                   /\ rows'[a].calls = [k \in DOMAIN pending |-> pending[k].id]
                   /\ \A k \in DOMAIN rows : rows'[k] = rows[k]
                   /\ \A k \in DOMAIN rows' : k \in DOMAIN rows \/ k = a \/ rows'[k].calls = <<>>
      <4> DEFINE a == Len(rows) + 1
      <4>1. \A r \in DOMAIN results : RowOf(results[r]).calls = <<>>
        BY DEF RowOf
      <4>2. /\ a \notin DOMAIN rows /\ a \in DOMAIN rows' /\ rows'[a].role = "assistant"
            /\ rows'[a].calls = [k \in DOMAIN pending |-> pending[k].id]
            /\ \A k \in DOMAIN rows : rows'[k] = rows[k]
            /\ \A k \in DOMAIN rows' : \/ k \in DOMAIN rows \/ k = a
                                       \/ \E r \in DOMAIN results : rows'[k] = RowOf(results[r])
        BY <2>3, WithBlock
      <4> QED
        BY <4>1, <4>2
    <3>2. \A i \in DOMAIN rows'[a].calls : i \in DOMAIN pending /\ rows'[a].calls[i] = pending[i].id
      BY <3>1
    <3>3. \A k \in DOMAIN rows' :
            \/ k \in DOMAIN rows /\ rows'[k] = rows[k] /\ k # a
            \/ k = a
            \/ DOMAIN rows'[k].calls = {}
      BY <3>1
    <3>4. \A k \in DOMAIN rows : \A i \in DOMAIN rows[k].calls :
            rows[k].calls[i][1] \in Nat /\ rows[k].calls[i][1] < turn
      BY <2>1 DEF CallsInv, OldIds
    <3>5. \A i \in DOMAIN rows'[a].calls : rows'[a].calls[i][1] = turn
      BY <3>2 DEF CallsInv, PendingIds
    <3>6. OldIds'
      <4>1. ASSUME NEW k \in DOMAIN rows', NEW i \in DOMAIN rows'[k].calls
            PROVE  rows'[k].calls[i][1] \in Nat /\ rows'[k].calls[i][1] <= turn
        BY <1>1, <3>3, <3>4, <3>5, <4>1
      <4> QED
        BY <2>1, <4>1 DEF OldIds
    <3>7. OneRow'
      <4>1. ASSUME NEW k \in DOMAIN rows', NEW l \in DOMAIN rows', NEW i \in DOMAIN rows'[k].calls,
                   NEW j \in DOMAIN rows'[l].calls, rows'[k].calls[i] = rows'[l].calls[j]
            PROVE  k = l /\ i = j
        <5>1. CASE k = a /\ l = a
          BY <3>2, <4>1, <5>1 DEF CallsInv, PendingIds
        <5>2. CASE k # a /\ l # a
          <6>1. k \in DOMAIN rows /\ l \in DOMAIN rows /\ rows'[k] = rows[k] /\ rows'[l] = rows[l]
            BY <3>3, <5>2
          <6> QED
            BY <4>1, <6>1 DEF CallsInv, OneRow
        <5>3. ~(k = a /\ l # a) /\ ~(k # a /\ l = a)
          <6>1. k # a => rows'[k].calls[i][1] < turn /\ rows'[k].calls[i][1] \in Nat
            BY <3>3, <3>4
          <6>2. l # a => rows'[l].calls[j][1] < turn /\ rows'[l].calls[j][1] \in Nat
            BY <3>3, <3>4
          <6>3. /\ k = a => rows'[k].calls[i][1] = turn
                /\ l = a => rows'[l].calls[j][1] = turn
            BY <3>5
          <6> QED
            BY <1>1, <4>1, <6>1, <6>2, <6>3
        <5> QED
          BY <5>1, <5>2, <5>3
      <4> QED
        BY <4>1 DEF OneRow
    <3>8. OnlyAnswers'
      BY <3>1 DEF CallsInv, OnlyAnswers
    <3> QED
      BY <3>6, <3>7, <3>8
  <2> QED
    BY <2>1, <2>2, <2>3
<1>5. CASE UNCHANGED vars
  BY <1>5 DEF vars, CallsInv, OldIds, OneRow, OnlyAnswers
<1> QED
  BY <1>2, <1>3, <1>4, <1>5
     DEF Next, GraphStep, Answer, Truncated, RequestFails, SkipCall, RunCall, RouteAfterTools, Recovered

LEMMA CallsStep == TypeOK /\ PlaceInv /\ CleanInv /\ CallsInv /\ [Next]_vars => CallsInv'
BY PendingIdsStep, RowIdsStep DEF CallsInv

-----------------------------------------------------------------------------
(***************************************************************************)
(* What a later request replays.                                           *)
(***************************************************************************)

\* What is known of the rows when a request replays them.
RowsInv == TypeOK /\ RowsAreTrue /\ CallsInv

\* Row a announces what row k is the result of.
Owns(a, k) == /\ a \in DOMAIN rows /\ rows[a].role = "assistant"
              /\ \E i \in DOMAIN rows[a].calls : rows[k].answers = rows[a].calls[i]

LEMMA OwnerIs ==
  ASSUME RowsInv, NEW k \in DOMAIN rows, IsResult(k)
  PROVE  \E a \in DOMAIN rows : /\ a < k /\ Owns(a, k) /\ ~IsResult(a)
                                /\ \A j \in a + 1 .. k : IsResult(j)
<1>1. DOMAIN rows = 1 .. Len(rows) /\ Len(rows) \in Nat
  BY TypeParts, SeqIsFunction DEF RowsInv, Sequences
<1>2. PICK a \in 1 .. k - 1 : /\ rows[k].answers \in ElementsOf(rows[a].calls)
                              /\ \A j \in a + 1 .. k : IsResult(j)
  BY DEF RowsInv, RowsAreTrue, Announces
<1>3. a \in DOMAIN rows /\ a < k
  BY <1>1
<1>4. PICK i \in DOMAIN rows[a].calls : rows[k].answers = rows[a].calls[i]
  BY <1>2 DEF ElementsOf
<1>5. rows[a].role = "assistant"
  <2>1. DOMAIN rows[a].calls # {}
    BY <1>4
  <2>2. DOMAIN <<>> = {}
    OBVIOUS
  <2> QED
    BY <1>3, <2>1, <2>2 DEF RowsInv, CallsInv, OnlyAnswers
<1>6. Owns(a, k) /\ ~IsResult(a)
  BY <1>3, <1>4, <1>5 DEF Owns, IsResult
<1> QED
  BY <1>2, <1>3, <1>6

\* A result has one row that announces it.
LEMMA OneOwner ==
  ASSUME RowsInv, NEW k \in DOMAIN rows, NEW a, NEW b, Owns(a, k), Owns(b, k)
  PROVE  a = b
BY DEF Owns, RowsInv, CallsInv, OneRow

\* The results that an assistant row owns follow it without a gap.
LEMMA ResultsFollow ==
  ASSUME RowsInv, NEW p, NEW q \in DOMAIN rows, IsResult(q), Owns(p, q)
  PROVE  p < q /\ \A r \in p + 1 .. q : r \in DOMAIN rows /\ IsResult(r) /\ Owns(p, r)
<1>1. DOMAIN rows = 1 .. Len(rows) /\ Len(rows) \in Nat
  BY TypeParts, SeqIsFunction DEF RowsInv, Sequences
<1>2. PICK a \in DOMAIN rows : /\ a < q /\ Owns(a, q) /\ ~IsResult(a)
                               /\ \A j \in a + 1 .. q : IsResult(j)
  BY OwnerIs
<1>3. a = p
  BY <1>2, OneOwner
<1>4. ASSUME NEW r \in p + 1 .. q PROVE r \in DOMAIN rows /\ IsResult(r) /\ Owns(p, r)
  <2>1. r \in DOMAIN rows /\ IsResult(r) /\ p \in Nat /\ r \in Nat /\ q \in Nat /\ p < r /\ r <= q
    BY <1>1, <1>2, <1>3
  <2>2. PICK b \in DOMAIN rows : /\ b < r /\ Owns(b, r) /\ ~IsResult(b)
                                 /\ \A j \in b + 1 .. r : IsResult(j)
    BY <2>1, OwnerIs
  <2>3. b \in Nat
    BY <1>1
  <2>4. ~(b < p)
    <3>1. b < p => p \in b + 1 .. r
      BY <2>1, <2>3
    <3> QED
      BY <1>2, <1>3, <2>2, <3>1
  <2>5. ~(p < b)
    <3>1. p < b => b \in p + 1 .. q
      BY <2>1, <2>2, <2>3
    <3> QED
      BY <1>2, <1>3, <2>2, <3>1
  <2>6. b = p
    BY <2>1, <2>3, <2>4, <2>5
  <2> QED
    BY <2>1, <2>2, <2>6
<1> QED
  BY <1>2, <1>3, <1>4


\* The calls of row p with a result behind the cursor, and their results.
Answers(cursor, p) ==
  {i \in DOMAIN rows[p].calls : \E q \in cursor + 1 .. Len(rows) :
     IsResult(q) /\ rows[q].answers = rows[p].calls[i]}
ResultsOf(cursor, p) == {q \in cursor + 1 .. Len(rows) : IsResult(q) /\ Owns(p, q)}

\* They are equally many.
LEMMA AsManyResults ==
  ASSUME RowsInv, NEW cursor \in Nat, NEW p \in DOMAIN rows
  PROVE  /\ Cardinality(ResultsOf(cursor, p)) = Cardinality(Answers(cursor, p))
         /\ Cardinality(Answers(cursor, p)) \in Nat
<1> DEFINE A == Answers(cursor, p)
           R == ResultsOf(cursor, p)
<1>1. DOMAIN rows = 1 .. Len(rows) /\ Len(rows) \in Nat
  BY TypeParts, SeqIsFunction DEF RowsInv, Sequences
<1>2. IsFiniteSet(DOMAIN rows[p].calls)
  <2>1. rows[p].calls \in Seq(Id)
    <3>1. rows[p] \in Row
      BY TypeParts, SeqIsFunction DEF RowsInv, Sequences
    <3> QED
      BY <3>1 DEF Row
  <2>2. DOMAIN rows[p].calls = 1 .. Len(rows[p].calls) /\ Len(rows[p].calls) \in Nat
    BY <2>1, SeqIsFunction
  <2> QED
    BY <2>2, FS_Interval
<1>3. IsFiniteSet(A) /\ Cardinality(A) \in Nat
  <2>1. A \subseteq DOMAIN rows[p].calls
    BY DEF Answers
  <2> QED
    BY <1>2, <2>1, FS_Subset, FS_CardinalityType
<1>4. IsFiniteSet(R) /\ Cardinality(R) \in Nat
  <2>1. R \subseteq cursor + 1 .. Len(rows)
    BY DEF ResultsOf
  <2>2. IsFiniteSet(cursor + 1 .. Len(rows))
    BY <1>1, FS_Interval
  <2> QED
    BY <2>1, <2>2, FS_Subset, FS_CardinalityType
<1>5. \A i \in A : \E q \in R : rows[q].answers = rows[p].calls[i]
  <2> SUFFICES ASSUME NEW i \in A PROVE \E q \in R : rows[q].answers = rows[p].calls[i]
    OBVIOUS
  <2>1. PICK q \in cursor + 1 .. Len(rows) : IsResult(q) /\ rows[q].answers = rows[p].calls[i]
    BY DEF Answers
  <2>2. i \in DOMAIN rows[p].calls
    BY DEF Answers
  <2>3. rows[p].role = "assistant"
    <3>1. DOMAIN rows[p].calls # {} /\ DOMAIN <<>> = {}
      BY <2>2
    <3> QED
      BY <3>1 DEF RowsInv, CallsInv, OnlyAnswers
  <2>4. q \in R
    BY <2>1, <2>2, <2>3 DEF ResultsOf, Owns
  <2> QED
    BY <2>1, <2>4
<1>6. \A q \in R : \E i \in A : rows[q].answers = rows[p].calls[i]
  BY DEF ResultsOf, Owns, Answers
<1>7. R \subseteq DOMAIN rows /\ \A q \in R : IsResult(q)
  BY <1>1 DEF ResultsOf
<1>8. A \subseteq DOMAIN rows[p].calls
  BY DEF Answers
<1> HIDE DEF A, R
<1>9. Cardinality(A) <= Cardinality(R)
  <2> DEFINE f == [i \in A |-> CHOOSE q \in R : rows[q].answers = rows[p].calls[i]]
  <2>1. \A i \in A : f[i] \in R /\ rows[f[i]].answers = rows[p].calls[i]
    BY <1>5
  <2>2. f \in [A -> R]
    BY <2>1
  <2>3. ASSUME NEW i \in A, NEW j \in A, f[i] = f[j] PROVE i = j
    <3>1. rows[p].calls[i] = rows[p].calls[j]
      BY <2>1, <2>3
    <3> QED
      BY <1>8, <3>1 DEF RowsInv, CallsInv, OneRow
  <2> HIDE DEF f
  <2>4. f \in Injection(A, R)
    BY <2>2, <2>3 DEF Injection, IsInjective
  <2> QED
    BY <1>4, <2>4, FS_Injection
<1>10. Cardinality(R) <= Cardinality(A)
  <2> DEFINE f == [q \in R |-> CHOOSE i \in A : rows[q].answers = rows[p].calls[i]]
  <2>1. \A q \in R : f[q] \in A /\ rows[q].answers = rows[p].calls[f[q]]
    BY <1>6
  <2>2. f \in [R -> A]
    BY <2>1
  <2>3. ASSUME NEW q \in R, NEW r \in R, f[q] = f[r] PROVE q = r
    <3>1. rows[q].answers = rows[r].answers
      BY <2>1, <2>3
    <3> QED
      BY <1>7, <3>1 DEF RowsInv, RowsAreTrue
  <2> HIDE DEF f
  <2>4. f \in Injection(R, A)
    BY <2>2, <2>3 DEF Injection, IsInjective
  <2> QED
    BY <1>3, <2>4, FS_Injection
<1>11. Cardinality(A) = Cardinality(R)
  BY <1>3, <1>4, <1>9, <1>10
<1> QED
  BY <1>3, <1>11 DEF A, R

\* The results of a row behind the cursor are the rows right behind it, as
\* many as its calls that have one.
LEMMA ResultsAreNext ==
  ASSUME RowsInv, NEW cursor \in Nat, NEW p \in DOMAIN rows, p > cursor
  PROVE  /\ Cardinality(Answers(cursor, p)) \in Nat
         /\ p + Cardinality(Answers(cursor, p)) <= Len(rows)
         /\ ResultsOf(cursor, p) = p + 1 .. p + Cardinality(Answers(cursor, p))
<1> DEFINE R == ResultsOf(cursor, p)
           Past == {k \in p + 1 .. Len(rows) + 1 : k \notin R}
<1>1. DOMAIN rows = 1 .. Len(rows) /\ Len(rows) \in Nat /\ p \in Nat /\ p <= Len(rows)
  <2>1. DOMAIN rows = 1 .. Len(rows) /\ Len(rows) \in Nat
    BY TypeParts, SeqIsFunction DEF RowsInv, Sequences
  <2> QED
    BY <2>1
<1>2. \A q \in R : p < q /\ q \in DOMAIN rows /\ \A r \in p + 1 .. q : r \in R
  <2> SUFFICES ASSUME NEW q \in R PROVE p < q /\ q \in DOMAIN rows /\ \A r \in p + 1 .. q : r \in R
    OBVIOUS
  <2>1. q \in DOMAIN rows /\ q \in cursor + 1 .. Len(rows) /\ IsResult(q) /\ Owns(p, q)
    BY <1>1 DEF ResultsOf
  <2>2. p < q /\ \A r \in p + 1 .. q : r \in DOMAIN rows /\ IsResult(r) /\ Owns(p, r)
    BY <2>1, ResultsFollow
  <2>3. \A r \in p + 1 .. q : r \in cursor + 1 .. Len(rows)
    BY <1>1, <2>1
  <2> QED
    BY <2>1, <2>2, <2>3 DEF ResultsOf
<1> HIDE DEF R
<1>3. PICK e \in Past : \A k \in Past : e <= k
  <2>1. Len(rows) + 1 \in Past
    <3>1. Len(rows) + 1 \notin R
      BY <1>1, <1>2
    <3> QED
      BY <1>1, <3>1
  <2>2. Past \subseteq Nat
    BY <1>1
  <2> HIDE DEF Past
  <2> QED
    BY <2>1, <2>2, Least
<1>4. e \in Nat /\ p + 1 <= e /\ e <= Len(rows) + 1 /\ e \notin R
  BY <1>1
<1>5. R = p + 1 .. e - 1
  <2>1. ASSUME NEW q \in R PROVE q \in p + 1 .. e - 1
    <3>1. p < q /\ q \in Nat
      BY <1>1, <1>2
    <3>2. ~(e <= q)
      <4>1. e <= q => e \in p + 1 .. q
        BY <1>1, <1>4, <3>1
      <4> QED
        BY <1>2, <1>4, <4>1
    <3> QED
      BY <1>1, <1>4, <3>1, <3>2
  <2>2. ASSUME NEW q \in p + 1 .. e - 1 PROVE q \in R
    <3>1. q \in p + 1 .. Len(rows) + 1 /\ ~(e <= q)
      BY <1>1, <1>4
    <3> QED
      BY <1>3, <3>1
  <2> QED
    BY <2>1, <2>2
<1>6. Cardinality(R) = e - 1 - p
  <2>1. p + 1 \in Int /\ e - 1 \in Int
    BY <1>1, <1>4
  <2>2. Cardinality(p + 1 .. e - 1) = IF p + 1 > e - 1 THEN 0 ELSE (e - 1) - (p + 1) + 1
    BY <2>1, FS_Interval
  <2>3. Cardinality(R) = IF p + 1 > e - 1 THEN 0 ELSE (e - 1) - (p + 1) + 1
    BY <1>5, <2>2
  <2> QED
    BY <1>1, <1>4, <2>3
<1>7. PICK n \in Nat : n = Cardinality(Answers(cursor, p)) /\ n = e - 1 - p
  BY <1>6, AsManyResults DEF R
<1>8. R = p + 1 .. p + n /\ p + n <= Len(rows)
  BY <1>1, <1>4, <1>5, <1>7
<1> QED
  BY <1>7, <1>8 DEF R

Window(cursor) == SubSeq(rows, cursor + 1, Len(rows))

LEMMA TailIs ==
  ASSUME NEW S, NEW s \in Seq(S), NEW c \in 0 .. Len(s)
  PROVE  /\ SubSeq(s, c + 1, Len(s)) \in Seq(S)
         /\ Len(SubSeq(s, c + 1, Len(s))) = Len(s) - c
         /\ \A i \in 1 .. Len(s) - c : SubSeq(s, c + 1, Len(s))[i] = s[c + i]
<1>1. PICK n \in Nat : n = Len(s) /\ DOMAIN s = 1 .. n /\ \A i \in 1 .. n : s[i] \in S
  BY SeqIsFunction
<1>2. c \in Nat /\ c <= n /\ n - (c + 1) + 1 = n - c
  BY <1>1
<1>3. PICK m \in Int : m = c + 1 /\ n \in Int /\ \A i \in m .. n : s[i] \in S
  BY <1>1, <1>2
<1>4. /\ SubSeq(s, m, n) \in Seq(S)
      /\ Len(SubSeq(s, m, n)) = IF m <= n THEN n - m + 1 ELSE 0
      /\ \A i \in 1 .. n - m + 1 : SubSeq(s, m, n)[i] = s[m + i - 1]
  BY <1>3, SubSeqProperties
<1>5. n - m + 1 = n - c /\ (IF m <= n THEN n - m + 1 ELSE 0) = n - c /\ \A i \in 1 .. n - c : m + i - 1 = c + i
  BY <1>2, <1>3
<1>6. /\ SubSeq(s, m, n) \in Seq(S) /\ Len(SubSeq(s, m, n)) = n - c
      /\ \A i \in 1 .. n - c : SubSeq(s, m, n)[i] = s[c + i]
  BY <1>4, <1>5
<1> QED
  BY <1>1, <1>3, <1>6

LEMMA WindowIs ==
  ASSUME TypeOK, NEW cursor \in 0 .. Len(rows)
  PROVE  /\ DOMAIN Window(cursor) = 1 .. Len(rows) - cursor
         /\ \A k \in 1 .. Len(rows) - cursor : cursor + k \in DOMAIN rows /\ Window(cursor)[k] = rows[cursor + k]
<1>1. rows \in Seq(Row) /\ DOMAIN rows = 1 .. Len(rows) /\ Len(rows) \in Nat
  BY TypeParts, SeqIsFunction DEF Sequences
<1>2. /\ Window(cursor) \in Seq(Row)
      /\ Len(Window(cursor)) = Len(rows) - cursor
      /\ \A i \in 1 .. Len(rows) - cursor : Window(cursor)[i] = rows[cursor + i]
  BY <1>1, TailIs DEF Window
<1>3. DOMAIN Window(cursor) = 1 .. Len(rows) - cursor
  BY <1>2, SeqIsFunction
<1>4. ASSUME NEW k \in 1 .. Len(rows) - cursor
      PROVE  cursor + k \in DOMAIN rows /\ Window(cursor)[k] = rows[cursor + k]
  <2>1. cursor + k \in DOMAIN rows
    BY <1>1
  <2> QED
    BY <1>2, <2>1
<1> QED
  BY <1>3, <1>4

\* Behind the cursor the first results may have lost their row; from there on
\* every row is kept, and so is the row that announces a result.
LEMMA KeptIsTail ==
  ASSUME RowsInv, NEW cursor \in 0 .. Len(rows)
  PROVE  \E d \in 0 .. Len(rows) - cursor :
           /\ KeptIn(Window(cursor)) = d + 1 .. Len(rows) - cursor
           /\ \A k \in cursor + d + 1 .. Len(rows) : IsResult(k) =>
                \E a \in cursor + d + 1 .. Len(rows) : a < k /\ Owns(a, k)
<1> DEFINE W == Window(cursor)
           M == Len(rows) - cursor
           S == KeptIn(W)
<1>1. /\ DOMAIN rows = 1 .. Len(rows) /\ Len(rows) \in Nat /\ cursor \in Nat /\ M \in Nat
      /\ cursor + M = Len(rows)
  BY TypeParts, SeqIsFunction DEF RowsInv, Sequences
<1>2. DOMAIN W = 1 .. M /\ \A k \in 1 .. M : cursor + k \in DOMAIN rows /\ W[k] = rows[cursor + k]
  BY WindowIs DEF RowsInv
<1>3. \A k \in 1 .. M : W[k].role = "tool" <=> IsResult(cursor + k)
  BY <1>2 DEF IsResult
<1>4. \A k \in 1 .. M : k \in S <=>
        (IsResult(cursor + k) => \E j \in 1 .. k - 1 : Owns(cursor + j, cursor + k))
  <2> SUFFICES ASSUME NEW k \in 1 .. M
               PROVE  k \in S <=> (IsResult(cursor + k) => \E j \in 1 .. k - 1 : Owns(cursor + j, cursor + k))
    OBVIOUS
  <2>1. \A j \in 1 .. k - 1 : j \in 1 .. M
    BY <1>1
  <2>2. ASSUME NEW j \in 1 .. k - 1
        PROVE  W[k].answers \in ElementsOf(W[j].calls) <=> Owns(cursor + j, cursor + k)
    <3>1. j \in 1 .. M
      BY <2>1
    <3>2. W[j] = rows[cursor + j] /\ W[k] = rows[cursor + k] /\ cursor + j \in DOMAIN rows
      BY <1>2, <3>1
    <3>3. ASSUME NEW i \in DOMAIN rows[cursor + j].calls PROVE rows[cursor + j].role = "assistant"
      <4>1. DOMAIN rows[cursor + j].calls # {} /\ DOMAIN <<>> = {}
        BY <3>3
      <4> QED
        BY <3>2, <4>1 DEF RowsInv, CallsInv, OnlyAnswers
    <3> QED
      BY <3>2, <3>3 DEF ElementsOf, Owns
  <2> QED
    BY <1>2, <1>3, <2>2 DEF KeptIn
<1>5. S \subseteq 1 .. M
  BY <1>2 DEF KeptIn
<1> HIDE DEF W, M, S
<1>6. ASSUME NEW k \in S, NEW l \in 1 .. M, k < l PROVE l \in S
  <2>1. CASE ~IsResult(cursor + l)
    BY <1>4, <2>1
  <2>2. CASE IsResult(cursor + l)
    <3>1. k \in 1 .. M /\ k \in Nat /\ l \in Nat /\ cursor + k \in DOMAIN rows /\ cursor + l \in DOMAIN rows
      BY <1>1, <1>2, <1>5
    <3>2. PICK a \in DOMAIN rows : /\ a < cursor + l /\ Owns(a, cursor + l) /\ ~IsResult(a)
                                   /\ \A j \in a + 1 .. cursor + l : IsResult(j)
      BY <2>2, <3>1, OwnerIs
    <3>3. a \in Nat
      BY <1>1
    <3>4. a > cursor
      <4>1. SUFFICES ASSUME a <= cursor PROVE FALSE
        BY <1>1, <3>3
      <4>2. \A j \in 1 .. k : IsResult(cursor + j)
        BY <1>1, <1>6, <3>1, <3>2, <3>3, <4>1
      <4>3. k \in 1 .. k
        BY <3>1
      <4>4. PICK j \in 1 .. k - 1 : Owns(cursor + j, cursor + k)
        BY <1>4, <3>1, <4>2, <4>3
      <4>5. rows[cursor + j].role = "assistant" /\ j \in 1 .. k
        BY <3>1, <4>4 DEF Owns
      <4> QED
        BY <4>2, <4>5 DEF IsResult
    <3>5. a - cursor \in 1 .. l - 1 /\ cursor + (a - cursor) = a
      BY <1>1, <3>1, <3>2, <3>3, <3>4
    <3> QED
      BY <1>4, <3>2, <3>5
  <2> QED
    BY <2>1, <2>2
<1>7. PICK e \in S \cup {M + 1} : \A k \in S \cup {M + 1} : e <= k
  <2>1. S \cup {M + 1} \subseteq Nat
    BY <1>1, <1>5
  <2> QED
    BY <2>1, Least
<1>8. e \in 1 .. M + 1 /\ M + 1 \in Nat
  BY <1>1, <1>5
<1>9. S = e .. M
  <2>1. ASSUME NEW k \in S PROVE k \in e .. M
    <3>1. e <= k
      BY <1>7
    <3> QED
      BY <1>1, <1>5, <1>8, <3>1
  <2>2. ASSUME NEW k \in e .. M PROVE k \in S
    <3>1. e \in S /\ k \in 1 .. M /\ (k = e \/ e < k)
      BY <1>1, <1>7, <1>8
    <3> QED
      BY <1>6, <3>1
  <2> QED
    BY <2>1, <2>2
<1>10. PICK d \in 0 .. M : e = d + 1
  <2>1. e - 1 \in 0 .. M /\ e = (e - 1) + 1
    BY <1>1, <1>8
  <2> QED
    BY <2>1
<1>11. ASSUME NEW k \in cursor + d + 1 .. Len(rows), IsResult(k)
       PROVE  \E a \in cursor + d + 1 .. Len(rows) : a < k /\ Owns(a, k)
  <2>1. PICK l \in d + 1 .. M : cursor + l = k /\ l \in S /\ l \in 1 .. M
    <3>1. k - cursor \in d + 1 .. M /\ cursor + (k - cursor) = k /\ k - cursor \in 1 .. M
      BY <1>1, <1>10
    <3> QED
      BY <1>9, <1>10, <3>1
  <2>2. PICK j \in 1 .. l - 1 : Owns(cursor + j, k)
    BY <1>4, <1>11, <2>1
  <2>3. j \in 1 .. M /\ j \in Nat /\ j < l /\ l \in Nat
    BY <1>1, <2>1
  <2>4. ~IsResult(cursor + j)
    BY <2>2 DEF Owns, IsResult
  <2>5. j \in S
    BY <1>4, <2>3, <2>4
  <2>6. j \in d + 1 .. M
    BY <1>9, <1>10, <2>5
  <2>7. cursor + j \in cursor + d + 1 .. Len(rows) /\ cursor + j < k
    BY <1>1, <2>1, <2>3, <2>6
  <2> QED
    BY <2>2, <2>7
<1>12. S = d + 1 .. M
  BY <1>9, <1>10
<1> QED
  BY <1>11, <1>12 DEF S, W, M

\* What is replayed: the rows from some place on, each with those of its
\* calls that have a result.
LEMMA ReplayIs ==
  ASSUME RowsInv, NEW cursor \in 0 .. Len(rows)
  PROVE  \E b \in cursor .. Len(rows) :
           /\ Len(Replay(Window(cursor))) = Len(rows) - b
           /\ DOMAIN Replay(Window(cursor)) = 1 .. Len(rows) - b
           /\ \A m \in 1 .. Len(rows) - b :
                Replay(Window(cursor))[m] =
                  [role |-> rows[b + m].role, answers |-> rows[b + m].answers,
                   calls |-> Chosen(rows[b + m].calls, Answers(cursor, b + m))]
           /\ \A k \in b + 1 .. Len(rows) : IsResult(k) =>
                \E a \in b + 1 .. Len(rows) : a < k /\ Owns(a, k)
<1> DEFINE W == Window(cursor)
           M == Len(rows) - cursor
<1>1. /\ DOMAIN rows = 1 .. Len(rows) /\ Len(rows) \in Nat /\ cursor \in Nat /\ M \in Nat
      /\ cursor + M = Len(rows)
  BY TypeParts, SeqIsFunction DEF RowsInv, Sequences
<1>2. DOMAIN W = 1 .. M /\ \A k \in 1 .. M : cursor + k \in DOMAIN rows /\ W[k] = rows[cursor + k]
  BY WindowIs DEF RowsInv
<1>3. PICK d \in 0 .. M :
      /\ KeptIn(W) = d + 1 .. M
      /\ \A k \in cursor + d + 1 .. Len(rows) : IsResult(k) =>
           \E a \in cursor + d + 1 .. Len(rows) : a < k /\ Owns(a, k)
  BY KeptIsTail
<1> HIDE DEF W, M
<1>4. PICK b \in Nat : b = cursor + d /\ b \in cursor .. Len(rows) /\ M - d = Len(rows) - b /\ M - d \in Nat
  BY <1>1
<1>5. Cardinality(KeptIn(W)) = M - d /\ \A k \in 1 .. M - d : Place(KeptIn(W), k) = d + k
  <2>1. d \in Nat /\ d <= M
    BY <1>1
  <2>2. \A k \in 1 .. M - d : Cardinality(d + 1 .. M) = M - d /\ Place(d + 1 .. M, k) = d + k
    BY <1>1, <2>1, PlaceInInterval
  <2>3. Cardinality(d + 1 .. M) = M - d
    <3>1. Cardinality(d + 1 .. M) = IF d + 1 > M THEN 0 ELSE M - (d + 1) + 1
      BY <1>1, <2>1, FS_Interval
    <3> QED
      BY <1>1, <2>1, <3>1
  <2> QED
    BY <1>3, <2>2, <2>3
<1>6. ASSUME NEW m \in 1 .. M - d
      PROVE  Chosen(W, KeptIn(W))[m] = rows[b + m]
  <2>1. Chosen(W, KeptIn(W))[m] = W[d + m]
    BY <1>5 DEF Chosen
  <2>2. d + m \in 1 .. M /\ cursor + (d + m) = b + m
    BY <1>1, <1>4
  <2> QED
    BY <1>2, <2>1, <2>2
<1>7. DOMAIN Chosen(W, KeptIn(W)) = 1 .. M - d
  BY <1>5 DEF Chosen
<1>8. \A p \in DOMAIN rows : WithResult(W, rows[p].calls) = Answers(cursor, p)
  <2> SUFFICES ASSUME NEW p \in DOMAIN rows, NEW id
               PROVE  (\E k \in DOMAIN W : W[k].role = "tool" /\ W[k].answers = id)
                      <=> \E q \in cursor + 1 .. Len(rows) : IsResult(q) /\ rows[q].answers = id
    BY DEF WithResult, Answers
  <2>1. ASSUME NEW k \in DOMAIN W, W[k].role = "tool", W[k].answers = id
        PROVE  \E q \in cursor + 1 .. Len(rows) : IsResult(q) /\ rows[q].answers = id
    <3>1. k \in 1 .. M /\ cursor + k \in cursor + 1 .. Len(rows)
      BY <1>1, <1>2
    <3>2. W[k] = rows[cursor + k]
      BY <1>2, <3>1
    <3> QED
      BY <2>1, <3>1, <3>2 DEF IsResult
  <2>2. ASSUME NEW q \in cursor + 1 .. Len(rows), IsResult(q), rows[q].answers = id
        PROVE  \E k \in DOMAIN W : W[k].role = "tool" /\ W[k].answers = id
    <3>1. q - cursor \in 1 .. M /\ cursor + (q - cursor) = q
      BY <1>1
    <3>2. q - cursor \in DOMAIN W /\ W[q - cursor] = rows[q]
      BY <1>2, <3>1
    <3> QED
      BY <2>2, <3>2 DEF IsResult
  <2> QED
    BY <2>1, <2>2
<1>9. DOMAIN Replay(W) = 1 .. M - d /\ Len(Replay(W)) = M - d
  <2>1. DOMAIN Replay(W) = 1 .. M - d
    BY <1>7 DEF Replay
  <2> QED
    BY <1>4, <2>1
<1>10. ASSUME NEW m \in 1 .. M - d
       PROVE  Replay(W)[m] = [role |-> rows[b + m].role, answers |-> rows[b + m].answers,
                              calls |-> Chosen(rows[b + m].calls, Answers(cursor, b + m))]
  <2>1. b + m \in DOMAIN rows
    BY <1>1, <1>4
  <2>2. Replayed(W, rows[b + m].calls) = Chosen(rows[b + m].calls, Answers(cursor, b + m))
    BY <1>8, <2>1 DEF Replayed
  <2> QED
    BY <1>6, <1>7, <2>2 DEF Replay
<1>11. \A k \in b + 1 .. Len(rows) : IsResult(k) => \E a \in b + 1 .. Len(rows) : a < k /\ Owns(a, k)
  BY <1>3, <1>4
<1> QED
  BY <1>4, <1>9, <1>10, <1>11 DEF W

LEMMA ChosenCalls ==
  ASSUME NEW calls \in Seq(Id), NEW A \in SUBSET (DOMAIN calls)
  PROVE  /\ Len(Chosen(calls, A)) = Cardinality(A)
         /\ \A id \in ElementsOf(Chosen(calls, A)) : \E i \in A : id = calls[i]
         /\ \A i \in A : calls[i] \in ElementsOf(Chosen(calls, A))
<1>1. PICK l \in Nat : A \in SUBSET (1 .. l)
  BY SeqIsFunction
<1>2. Cardinality(A) \in Nat
  <2>1. IsFiniteSet(1 .. l)
    BY FS_Interval
  <2> QED
    BY <1>1, <2>1, FS_Subset, FS_CardinalityType
<1>3. DOMAIN Chosen(calls, A) = 1 .. Cardinality(A)
  BY DEF Chosen
<1>4. Len(Chosen(calls, A)) = Cardinality(A)
  BY <1>2, <1>3
<1>5. \A k \in 1 .. Cardinality(A) : Chosen(calls, A)[k] = calls[Place(A, k)]
  BY DEF Chosen
<1>6. \A k \in 1 .. Cardinality(A) : Place(A, k) \in A
  BY <1>1, PlaceExists
<1>7. \A i \in A : \E k \in 1 .. Cardinality(A) : Place(A, k) = i
  BY <1>1, PlaceOnto
<1>8. ElementsOf(Chosen(calls, A)) = {Chosen(calls, A)[k] : k \in 1 .. Cardinality(A)}
  BY <1>3 DEF ElementsOf
<1>9. \A id \in ElementsOf(Chosen(calls, A)) : \E i \in A : id = calls[i]
  BY <1>5, <1>6, <1>8
<1>10. \A i \in A : calls[i] \in ElementsOf(Chosen(calls, A))
  BY <1>5, <1>7, <1>8
<1> QED
  BY <1>4, <1>9, <1>10

LEMMA ReplayAccepted ==
  ASSUME RowsInv, NEW cursor \in 0 .. Len(rows)
  PROVE  Accepted(Replay(Window(cursor)))
<1> DEFINE R == Replay(Window(cursor))
           N == Len(rows)
<1>1. DOMAIN rows = 1 .. N /\ N \in Nat /\ cursor \in Nat
  BY TypeParts, SeqIsFunction DEF RowsInv, Sequences
<1>2. PICK b \in cursor .. N :
      /\ Len(R) = N - b /\ DOMAIN R = 1 .. N - b
      /\ \A m \in 1 .. N - b :
           R[m] = [role |-> rows[b + m].role, answers |-> rows[b + m].answers,
                   calls |-> Chosen(rows[b + m].calls, Answers(cursor, b + m))]
      /\ \A k \in b + 1 .. N : IsResult(k) => \E a \in b + 1 .. N : a < k /\ Owns(a, k)
  BY ReplayIs
<1> HIDE DEF R, N
<1>3. b \in Nat /\ b <= N
  BY <1>1
<1>4. ASSUME NEW m \in 1 .. N - b
      PROVE  /\ b + m \in DOMAIN rows /\ b + m > cursor
             /\ (R[m].role = "tool" <=> IsResult(b + m)) /\ R[m].answers = rows[b + m].answers
  BY <1>1, <1>2, <1>3 DEF IsResult
<1>5. ASSUME NEW m \in 1 .. N - b
      PROVE  \E n \in Nat :
               /\ Len(R[m].calls) = n /\ b + m + n <= N
               /\ ResultsOf(cursor, b + m) = b + m + 1 .. b + m + n
               /\ \A id \in ElementsOf(R[m].calls) :
                    \E i \in Answers(cursor, b + m) : id = rows[b + m].calls[i]
               /\ \A i \in Answers(cursor, b + m) : rows[b + m].calls[i] \in ElementsOf(R[m].calls)
  <2> DEFINE p == b + m
  <2>1. p \in DOMAIN rows /\ p > cursor
    BY <1>4
  <2>2. R[m].calls = Chosen(rows[p].calls, Answers(cursor, p))
    BY <1>2
  <2> HIDE DEF p
  <2>3. PICK n \in Nat : /\ n = Cardinality(Answers(cursor, p)) /\ p + n <= N
                         /\ ResultsOf(cursor, p) = p + 1 .. p + n
    BY <1>1, <2>1, ResultsAreNext DEF N
  <2>4. rows[p].calls \in Seq(Id)
    <3>1. rows[p] \in Row
      BY <2>1, TypeParts, SeqIsFunction DEF RowsInv, Sequences
    <3> QED
      BY <3>1 DEF Row
  <2>5. Answers(cursor, p) \in SUBSET (DOMAIN rows[p].calls)
    BY DEF Answers
  <2>6. /\ Len(R[m].calls) = n
        /\ \A id \in ElementsOf(R[m].calls) : \E i \in Answers(cursor, p) : id = rows[p].calls[i]
        /\ \A i \in Answers(cursor, p) : rows[p].calls[i] \in ElementsOf(R[m].calls)
    BY <2>2, <2>3, <2>4, <2>5, ChosenCalls
  <2>7. \E k \in Nat :
          /\ Len(R[m].calls) = k /\ p + k <= N
          /\ ResultsOf(cursor, p) = p + 1 .. p + k
          /\ \A id \in ElementsOf(R[m].calls) : \E i \in Answers(cursor, p) : id = rows[p].calls[i]
          /\ \A i \in Answers(cursor, p) : rows[p].calls[i] \in ElementsOf(R[m].calls)
    BY <2>3, <2>6
  <2> QED
    BY <2>7 DEF p
<1>6. ASSUME NEW m \in 1 .. N - b
      PROVE  /\ m + Len(R[m].calls) <= Len(R)
             /\ \A id \in ElementsOf(R[m].calls) :
                  \E j \in m + 1 .. m + Len(R[m].calls) : R[j].role = "tool" /\ R[j].answers = id
  <2>1. PICK n \in Nat :
        /\ Len(R[m].calls) = n /\ b + m + n <= N
        /\ ResultsOf(cursor, b + m) = b + m + 1 .. b + m + n
        /\ \A id \in ElementsOf(R[m].calls) : \E i \in Answers(cursor, b + m) : id = rows[b + m].calls[i]
    BY <1>5
  <2>2. m + n <= Len(R)
    BY <1>1, <1>2, <1>3, <2>1
  <2>3. ASSUME NEW id \in ElementsOf(R[m].calls)
        PROVE  \E j \in m + 1 .. m + n : R[j].role = "tool" /\ R[j].answers = id
    <3>1. PICK i \in Answers(cursor, b + m) : id = rows[b + m].calls[i]
      BY <2>1
    <3>2. PICK q \in cursor + 1 .. N : IsResult(q) /\ rows[q].answers = id
      BY <3>1 DEF Answers, N
    <3>3. i \in DOMAIN rows[b + m].calls /\ b + m \in DOMAIN rows
      BY <1>4 DEF Answers
    <3>4. rows[b + m].role = "assistant"
      <4>1. DOMAIN rows[b + m].calls # {} /\ DOMAIN <<>> = {}
        BY <3>3
      <4> QED
        BY <3>3, <4>1 DEF RowsInv, CallsInv, OnlyAnswers
    <3>5. q \in ResultsOf(cursor, b + m)
      BY <3>1, <3>2, <3>3, <3>4 DEF ResultsOf, Owns, N
    <3>6. PICK j \in m + 1 .. m + n : q = b + j
      <4>1. q - b \in m + 1 .. m + n /\ q = b + (q - b)
        BY <1>3, <2>1, <3>5
      <4> QED
        BY <4>1
    <3>7. j \in 1 .. N - b
      BY <1>1, <1>3, <2>1
    <3> QED
      BY <1>4, <3>2, <3>6, <3>7
  <2> QED
    BY <2>1, <2>2, <2>3
<1>7. ASSUME NEW m \in 1 .. N - b, R[m].role = "tool"
      PROVE  \E j \in 1 .. m - 1 : R[m].answers \in ElementsOf(R[j].calls) /\ m <= j + Len(R[j].calls)
  <2>1. b + m \in b + 1 .. N /\ IsResult(b + m) /\ b + m \in DOMAIN rows
    BY <1>1, <1>3, <1>4, <1>7
  <2>2. PICK a \in b + 1 .. N : a < b + m /\ Owns(a, b + m)
    BY <1>2, <2>1
  <2>3. PICK j \in 1 .. m - 1 : a = b + j
    <3>1. a - b \in 1 .. m - 1 /\ a = b + (a - b)
      BY <1>1, <1>3, <2>2
    <3> QED
      BY <3>1
  <2>4. j \in 1 .. N - b
    BY <1>1, <1>3
  <2>5. PICK n \in Nat :
        /\ Len(R[j].calls) = n /\ b + j + n <= N
        /\ ResultsOf(cursor, b + j) = b + j + 1 .. b + j + n
        /\ \A i \in Answers(cursor, b + j) : rows[b + j].calls[i] \in ElementsOf(R[j].calls)
    BY <1>5, <2>4
  <2>6. PICK i \in DOMAIN rows[b + j].calls : rows[b + m].answers = rows[b + j].calls[i]
    BY <2>2, <2>3 DEF Owns
  <2>7. b + m \in cursor + 1 .. N
    BY <1>1, <1>3
  <2>8. i \in Answers(cursor, b + j)
    BY <2>1, <2>6, <2>7 DEF Answers, N
  <2>9. b + m \in ResultsOf(cursor, b + j)
    BY <2>1, <2>2, <2>3, <2>7 DEF ResultsOf, N
  <2>10. m <= j + n
    BY <1>3, <2>5, <2>9
  <2>11. R[m].answers \in ElementsOf(R[j].calls)
    BY <1>4, <2>5, <2>6, <2>8
  <2> QED
    BY <2>5, <2>10, <2>11
<1>8. Accepted(R)
  BY <1>2, <1>6, <1>7 DEF Accepted
<1> QED
  BY <1>8 DEF R

-----------------------------------------------------------------------------
(***************************************************************************)
(* The turns of a conversation.                                            *)
(***************************************************************************)

LEMMA ProposedStays ==
  ASSUME turn' = turn, executed \subseteq executed', NEW id, Proposed(id)
  PROVE  Proposed(id)'
BY DEF Proposed

LEMMA FrameStep ==
  ASSUME TypeOK, PlaceInv, RanInv, FrameInv, [Next]_vars
  PROVE  FrameInv'
<1>1. frames \in Seq(Frame)
  BY TypeParts DEF Sequences
<1>2. ASSUME UNCHANGED <<turn, frames>>, executed \subseteq executed' PROVE FrameInv'
  BY <1>2, ProposedStays DEF FrameInv
<1>3. CASE Post
  <2>1. frames' = <<>>
    BY <1>3 DEF Post
  <2> QED
    BY <2>1 DEF FrameInv
<1>4. ASSUME NEW calls \in Responses, NEW says \in BOOLEAN, Answer(calls, says) PROVE FrameInv'
  <2>1. UNCHANGED <<turn, executed>> /\ pc = "asking" /\ frames' = frames \o FramesOf(calls)
    BY <1>4 DEF Answer, FramesOf
  <2>2. FramesOf(calls) \in Seq(Frame)
    BY <2>1, FramesOfCalls
  <2>3. \A k \in DOMAIN FramesOf(calls) : FramesOf(calls)[k].event = "tool_call"
    BY DEF FramesOf
  <2>4. ASSUME NEW k \in DOMAIN frames', frames'[k].event = "confirm_required"
        PROVE  k \in DOMAIN frames /\ frames'[k] = frames[k]
    <3>1. /\ \A i \in DOMAIN frames : frames'[i] = frames[i]
          /\ \A i \in DOMAIN FramesOf(calls) : frames'[Len(frames) + i] = FramesOf(calls)[i]
          /\ k \in DOMAIN frames \/ \E i \in DOMAIN FramesOf(calls) : k = Len(frames) + i
      BY <1>1, <2>1, <2>2, InConcat
    <3> QED
      BY <2>3, <2>4, <3>1
  <2>5. \A id : Proposed(id) => Proposed(id)'
    BY <2>1, ProposedStays
  <2> QED
    BY <2>4, <2>5 DEF FrameInv
<1>5. ASSUME NEW outcome \in Outcome, RunCall(outcome) PROVE FrameInv'
  <2> DEFINE shown == Shown(<<turn, rounds, next>>, response[next], outcome)
  <2>1. turn' = turn /\ (frames' = frames \/ frames' = frames \o shown)
    BY <1>5 DEF RunCall, Paired
  <2>2. PICK e : executed' = executed \cup {e} /\ e.id = <<turn, rounds, next>> /\ e.outcome = outcome
                 /\ e.id[1] = turn
    BY <1>5, RunAdds
  <2>3. shown \in Seq(Frame)
    BY <1>5, RunningCall
  <2>4. \A i \in DOMAIN shown : shown[i].event = "confirm_required" =>
          outcome = "proposal" /\ shown[i].id = <<turn, rounds, next>>
    BY DEF Shown
  <2> HIDE DEF shown
  <2>5. \A id : Proposed(id) => Proposed(id)'
    BY <2>1, <2>2, ProposedStays
  <2>6. \A id : \A i \in DOMAIN shown : shown[i].event = "confirm_required" /\ shown[i].id = id => Proposed(id)'
    BY <2>1, <2>2, <2>4 DEF Proposed
  <2>7. CASE frames' = frames
    BY <1>2, <2>1, <2>2, <2>7
  <2>8. CASE frames' = frames \o shown
    <3>1. ASSUME NEW k \in DOMAIN frames', NEW id, frames'[k].event = "confirm_required", frames'[k].id = id
          PROVE  Proposed(id)'
      <4>1. /\ \A i \in DOMAIN frames : frames'[i] = frames[i]
            /\ \A i \in DOMAIN shown : frames'[Len(frames) + i] = shown[i]
            /\ k \in DOMAIN frames \/ \E i \in DOMAIN shown : k = Len(frames) + i
        BY <1>1, <2>3, <2>8, InConcat
      <4> QED
        BY <2>5, <2>6, <3>1, <4>1 DEF FrameInv
    <3> QED
      BY <3>1 DEF FrameInv
  <2> QED
    BY <2>1, <2>7, <2>8
<1> QED
  BY <1>2, <1>3, <1>4, <1>5
     DEF Next, GraphStep, Truncated, RequestFails, SkipCall, RouteAfterTools, Recovered, EndTurn, vars, accVars

\* The invariant of the turns, in the order in which its parts are proved.
TurnInv ==
  /\ TypeOK /\ PlaceInv
  /\ RanInv /\ CleanInv /\ ProposalInv
  /\ SelectInv /\ CapSparesConfirmed
  /\ ResultInv /\ RowInv /\ RecordIsTrue
  /\ CallsInv /\ FrameInv

LEMMA TurnInit == Init => TurnInv
<1> SUFFICES ASSUME Init PROVE TurnInv
  OBVIOUS
<1> USE DEF Init
<1>1. TypeOK
  <2>1. Scalars
    <3>1. Len(response) = 0 /\ text \in BOOLEAN
      OBVIOUS
    <3>2. turn = 0 /\ rounds = 0 /\ attempt = 0 /\ next = 1 /\ called = 0 /\ lost = {} /\ pc = "over"
      OBVIOUS
    <3> QED
      BY ONLY <3>1, <3>2, ToolLoopAssumption DEF Scalars
  <2>2. Sequences
    BY EmptySeq DEF Sequences
  <2> QED
    BY <2>1, <2>2, TypeParts
<1>2. PlaceInv
  BY DEF PlaceInv
<1>3. RanInv /\ CleanInv /\ ProposalInv /\ SelectInv
  BY DEF RanInv, CleanInv, ProposalInv, SelectInv
<1>4. CapSparesConfirmed
  <2>1. \A t, n : RunIn(t, n) = {}
    BY DEF RunIn
  <2> QED
    BY <2>1, FS_EmptySet DEF CapSparesConfirmed
<1>5. ResultInv /\ RowInv /\ RecordIsTrue /\ FrameInv
  BY DEF ResultInv, ResultsRan, ResultsPending, RoundPending, RowInv, RecordIsTrue, FrameInv
<1>6. CallsInv
  BY DEF CallsInv, PendingIds, OldIds, OneRow, OnlyAnswers
<1> QED
  BY <1>1, <1>2, <1>3, <1>4, <1>5, <1>6 DEF TurnInv

LEMMA TurnStep == TurnInv /\ [Next]_vars => TurnInv'
<1> SUFFICES ASSUME TurnInv, [Next]_vars PROVE TurnInv'
  OBVIOUS
<1> USE DEF TurnInv
<1>1. TypeOK' /\ PlaceInv'
  BY TypeStep
<1>2. RanInv' /\ CleanInv' /\ ProposalInv' /\ SelectInv'
  BY RanStep, CleanStep, ProposalStep, SelectStep
<1>3. CapSparesConfirmed'
  BY <1>2, CapStep
<1>4. ResultInv' /\ RowInv' /\ RecordIsTrue' /\ FrameInv'
  BY ResultStep, RowStep, RecordStep, FrameStep
<1>5. CallsInv'
  BY CallsStep
<1> QED
  BY <1>1, <1>2, <1>3, <1>4, <1>5

LEMMA TurnInvariant == Spec => []TurnInv
BY TurnInit, TurnStep, PTL DEF Spec

\* Rounds and retries stay within their limits, and every id, call, result,
\* frame and row is well formed, over any number of turns.
THEOREM TypeCorrect == Spec => []TypeOK
<1>1. TurnInv => TypeOK
  BY DEF TurnInv
<1> QED
  BY <1>1, TurnInvariant, PTL

\* Of one response no call runs twice, no more run than the limit unless all
\* that do were confirmed, and tool_node gets past no confirmed write without
\* running it.
THEOREM ConfirmedWritesAreSpared == Spec => []CapSparesConfirmed
<1>1. TurnInv => CapSparesConfirmed
  BY DEF TurnInv
<1> QED
  BY <1>1, TurnInvariant, PTL

\* After a proposal the model is not asked again in its turn.
THEOREM ProposalStopsTheModel == Spec => []ProposalEndsTurn
<1>1. TurnInv => ProposalEndsTurn
  BY DEF TurnInv, ProposalInv, ProposalEndsTurn
<1> QED
  BY <1>1, TurnInvariant, PTL

\* A turn that starts again after an overflow has run nothing and has shown
\* the client nothing.
THEOREM RetriesAreClean == Spec => []NoRetryAfterSideEffect
<1>1. TurnInv => NoRetryAfterSideEffect
  BY DEF TurnInv, CleanInv, NoRetryAfterSideEffect
<1> QED
  BY <1>1, TurnInvariant, PTL

\* The rows of a conversation say what ran in its turns, once, behind the row
\* that announces it, and leave out no result of a turn that was written.
THEOREM TheRecordIsTrue == Spec => []RecordIsTrue
<1>1. TurnInv => RecordIsTrue
  BY DEF TurnInv
<1> QED
  BY <1>1, TurnInvariant, PTL

\* Wherever the cursor of a compaction is, and whatever write failed, the
\* messages of a later request have the results of an assistant's calls, all
\* of them and nothing else, right behind it.
THEOREM ReplaysAreAccepted == Spec => []ReplayIsAccepted
<1>1. TurnInv => ReplayIsAccepted
  <2>1. TurnInv => RowsInv
    BY RecordParts DEF TurnInv, RowsInv
  <2>2. RowsInv => ReplayIsAccepted
    BY ReplayAccepted DEF ReplayIsAccepted, Window
  <2> QED
    BY <2>1, <2>2
<1> QED
  BY <1>1, TurnInvariant, PTL

-----------------------------------------------------------------------------
(***************************************************************************)
(* The panel and its follow-up request.                                    *)
(***************************************************************************)

LEMMA PanelTakesTurns == [SystemNext]_<<vars, panelVars>> => [Next]_vars
<1> SUFFICES ASSUME [SystemNext]_<<vars, panelVars>> PROVE [Next]_vars
  OBVIOUS
<1>1. CASE ServerStep
  BY <1>1 DEF ServerStep, Next
<1>2. CASE PanelStep \/ Abandon
  BY <1>2 DEF PanelStep, Abandon, ReadCall, ReadResult, ReadConfirm, Read, StreamEnds
<1>3. CASE Send \/ \E yes \in BOOLEAN : Decide(yes)
  BY <1>3 DEF Send, Decide, Next
<1> QED
  BY <1>1, <1>2, <1>3 DEF SystemNext

\* With the panel the turns are those of ToolLoop: whatever holds of its
\* specification holds of the composition.
THEOREM PanelImplementsTurns == SystemSpec => Spec
<1>1. SystemInit => Init
  BY DEF SystemInit
<1> QED
  BY <1>1, PanelTakesTurns, PTL DEF SystemSpec, Spec

\* What the server's steps leave of the turn and of the record.
LEMMA GraphKeeps ==
  ASSUME TypeOK, PlaceInv, RanInv, GraphStep
  PROVE  /\ turn' = turn /\ executed \subseteq executed' /\ lost \subseteq lost'
         /\ \A k \in DOMAIN rows : k \in DOMAIN rows' /\ rows'[k] = rows[k]
<1>1. CASE EndTurn
  <2>1. /\ UNCHANGED <<turn, executed>> /\ lost \subseteq lost'
        /\ rows' = rows \/ rows' = rows \o Block
    BY <1>1 DEF EndTurn
  <2> QED
    BY <2>1, WithBlock
<1>2. ASSUME NEW outcome \in Outcome, RunCall(outcome)
      PROVE  UNCHANGED <<turn, lost, rows>> /\ executed \subseteq executed'
  <2>1. UNCHANGED <<turn, lost, rows>>
    BY <1>2 DEF RunCall
  <2> QED
    BY <1>2, <2>1, RunAdds
<1>3. ASSUME ~EndTurn, \A outcome \in Outcome : ~RunCall(outcome)
      PROVE  UNCHANGED <<turn, executed, lost, rows>>
  BY <1>3 DEF GraphStep, Answer, Truncated, RequestFails, SkipCall, RouteAfterTools, Recovered
<1> QED
  BY <1>1, <1>2, <1>3

LEMMA ConfirmStep ==
  ASSUME TurnInv, ConfirmInv, [SystemNext]_<<vars, panelVars>>
  PROVE  ConfirmInv'
<1>1. CASE ServerStep
  <2>1. GraphStep /\ UNCHANGED <<seen, confirm>>
    BY <1>1 DEF ServerStep, panelVars
  <2>2. turn' = turn /\ executed \subseteq executed'
    BY <2>1, GraphKeeps DEF TurnInv
  <2> QED
    BY <2>1, <2>2, ProposedStays DEF ConfirmInv
<1>2. ASSUME UNCHANGED <<turn, executed, confirm>>, seen' = seen \/ seen' = seen + 1 PROVE ConfirmInv'
  BY <1>2, ProposedStays DEF ConfirmInv
<1>3. CASE ReadConfirm
  <2>1. /\ UNCHANGED <<turn, executed>> /\ seen' = seen + 1 /\ seen < Len(frames)
        /\ NextFrame.event = "confirm_required" /\ confirm' = NextFrame.id
    BY <1>3 DEF ReadConfirm, Read, vars
  <2>2. seen + 1 \in DOMAIN frames /\ seen \in Nat
    BY <2>1, TypeParts, SeqIsFunction DEF TurnInv, Sequences, ConfirmInv
  <2>3. Proposed(confirm')
    BY <2>1, <2>2 DEF NextFrame, TurnInv, FrameInv
  <2>4. Proposed(confirm)'
    BY <2>1, <2>3 DEF Proposed
  <2> QED
    BY <2>1, <2>2, <2>4 DEF ConfirmInv
<1>4. CASE ReadCall \/ ReadResult \/ StreamEnds \/ UNCHANGED <<vars, panelVars>>
  <2>1. UNCHANGED <<turn, executed, confirm>> /\ (seen' = seen \/ seen' = seen + 1)
    BY <1>4 DEF ReadCall, ReadResult, StreamEnds, Read, vars, panelVars
  <2> QED
    BY <1>2, <2>1
<1>5. CASE Send \/ Abandon \/ \E yes \in BOOLEAN : Decide(yes)
  <2>1. confirm' = None /\ (seen' = 0 \/ seen' = seen)
    BY <1>5 DEF Send, Abandon, Decide
  <2> QED
    BY <2>1 DEF ConfirmInv
<1> QED
  BY <1>1, <1>3, <1>4, <1>5 DEF SystemNext, PanelStep

LEMMA FollowUpStep ==
  ASSUME TurnInv, ConfirmInv, FollowUpSeesProposal, [SystemNext]_<<vars, panelVars>>
  PROVE  FollowUpSeesProposal'
<1>1. ASSUME turn' = turn, executed \subseteq executed', lost \subseteq lost', posted' = posted,
             \A k \in DOMAIN rows : k \in DOMAIN rows' /\ rows'[k] = rows[k]
      PROVE  FollowUpSeesProposal'
  BY <1>1 DEF FollowUpSeesProposal
<1>2. CASE ServerStep
  <2>1. GraphStep /\ posted' = posted
    BY <1>2 DEF ServerStep, panelVars
  <2> QED
    BY <1>1, <2>1, GraphKeeps DEF TurnInv
<1>3. CASE PanelStep \/ Abandon \/ UNCHANGED <<vars, panelVars>>
  <2>1. UNCHANGED <<turn, executed, lost, rows, posted>>
    BY <1>3 DEF PanelStep, Abandon, ReadCall, ReadResult, ReadConfirm, Read, StreamEnds, vars, panelVars
  <2> QED
    BY <1>1, <2>1
<1>4. CASE Send
  BY <1>4 DEF Send, FollowUpSeesProposal
<1>5. ASSUME NEW yes \in BOOLEAN, Decide(yes), confirm # None PROVE FollowUpSeesProposal'
  <2> DEFINE New == [role |-> "user", calls |-> <<>>, answers |-> <<>>, outcome |-> "none"]
  <2>1. /\ posted' = confirm /\ pc = "over" /\ turn' = turn + 1
        /\ UNCHANGED <<executed, lost>> /\ rows' = Append(rows, New)
    BY <1>5 DEF Decide, Post
  <2>2. New \in Row /\ rows \in Seq(Row) /\ turn \in Nat
    BY OneIsSeq, TypeParts, Counts DEF Row, TurnInv, Sequences
  <2> HIDE DEF New
  <2>3. \A k \in DOMAIN rows : k \in DOMAIN rows' /\ rows'[k] = rows[k]
    BY <2>1, <2>2, InAppend
  <2>4. PICK e \in executed : e.id = confirm /\ e.outcome = "proposal" /\ e.id[1] = turn
    BY <1>5 DEF ConfirmInv, Proposed
  <2>5. confirm[1] \in lost \/ \E k \in DOMAIN rows : rows[k].answers = confirm
    BY <2>1, <2>4, RecordParts DEF TurnInv, RunsAreWritten, Written
  <2>6. posted'[1] = turn' - 1
    BY <2>1, <2>2, <2>4
  <2>7. \E f \in executed' : f.id = posted' /\ f.outcome = "proposal"
    BY <2>1, <2>4
  <2>8. posted'[1] \in lost' \/ \E k \in DOMAIN rows' : rows'[k].answers = posted'
    BY <2>1, <2>3, <2>5
  <2> QED
    BY <2>6, <2>7, <2>8 DEF FollowUpSeesProposal
<1>6. ASSUME NEW yes \in BOOLEAN, Decide(yes), confirm = None PROVE FollowUpSeesProposal'
  BY <1>6 DEF Decide, FollowUpSeesProposal
<1> QED
  BY <1>2, <1>3, <1>4, <1>5, <1>6 DEF SystemNext

LEMMA SystemInvariant == SystemSpec => [](TurnInv /\ ConfirmInv /\ FollowUpSeesProposal)
<1>1. SystemInit => TurnInv /\ ConfirmInv /\ FollowUpSeesProposal
  BY TurnInit DEF SystemInit, PanelInit, ConfirmInv, FollowUpSeesProposal
<1>2. TurnInv /\ ConfirmInv /\ FollowUpSeesProposal /\ [SystemNext]_<<vars, panelVars>>
        => (TurnInv /\ ConfirmInv /\ FollowUpSeesProposal)'
  BY PanelTakesTurns, TurnStep, ConfirmStep, FollowUpStep
<1> QED
  BY <1>1, <1>2, PTL DEF SystemSpec

\* A decision of the user goes out with a proposal of the turn before, and
\* its turn finds that proposal in the history unless it could not be written.
THEOREM FollowUpFindsItsProposal == SystemSpec => []FollowUpSeesProposal
BY SystemInvariant, PTL

=============================================================================
