------------------------------- MODULE ChatRuns -------------------------------
(***************************************************************************)
(* The run registry and the event streams of agentserv (server.py).        *)
(*                                                                         *)
(* POST /chat stores the user's row, registers a run under the             *)
(* conversation's id and starts the graph in a task of its own.  The run   *)
(* keeps every frame it emits in `events` and pushes it to the queue of    *)
(* every subscriber.  The POST response is one subscriber, GET             *)
(* /conversations/{id}/stream adds others.  When the graph ends, the turn  *)
(* is written to the backend, and only then `done` is emitted, every       *)
(* subscriber gets the sentinel None and the registry entry is retracted.  *)
(*                                                                         *)
(* The handlers are asyncio coroutines of one process, so an action here   *)
(* is what the code does between two awaits.  A turn t is one POST /chat;  *)
(* the stream of its response is the watcher of the same name.  The other  *)
(* watchers, Page, are pages that come back to a conversation: GET         *)
(* /conversations/{id}, and GET .../stream if it was told "active".        *)
(***************************************************************************)
EXTENDS Naturals, Sequences

CONSTANTS
  Conv,         \* conversation ids
  Turn,         \* POST /chat requests
  Page,         \* returning pages
  Frame,        \* frames a run emits before `done`: text, tool_call, error...
  Done,         \* the frame `done`
  None,         \* Python's None
  ConvOf,       \* ConvOf[t]: the conversation of turn t
  PageOf,       \* PageOf[p]: the conversation that page p shows
  Stays,        \* bound: turns whose client stays to read the response
  MaxFrames,    \* bound: frames a run emits before `done`
  MaxRestarts   \* bound: how often the server process is restarted

ASSUME ChatRunsAssumption ==
  /\ ConvOf \in [Turn -> Conv]
  /\ PageOf \in [Page -> Conv]
  /\ Turn \cap Page = {}
  /\ Done \notin Frame
  /\ None \notin Frame \cup {Done} \cup Turn
  /\ Stays \subseteq Turn
  /\ MaxFrames \in Nat
  /\ MaxRestarts \in Nat

Watcher == Turn \cup Page

VARIABLES
  conv,      \* conv[c]: "absent", "kept" or (soft-)"deleted" in the backend
  phase,     \* phase[t]: how far the handler and the graph task of t are
  flush,     \* flush[t]: the write of the turn's reply by flush_turn
  events,    \* run["events"] of t
  subs,      \* run["subs"] of t: the watchers whose queue is subscribed
  active,    \* active_runs: the registered run of a conversation, or None
  pc,        \* pc[w]: how far the response stream, or the page, w is
  target,    \* target[w]: the run that w is attached to, or None
  live,      \* live[w]: _subscribe returned a queue to w
  backlog,   \* backlog[w]: frames of the snapshot that w has not yielded yet
  queue,     \* queue[w]: the asyncio.Queue of w
  got,       \* got[w]: the frames of the run that w has yielded to its client
  \* History variables, read by properties only:
  shown,     \* shown[p]: the replies in the history that p fetched last
  running,   \* running[p]: the runs in flight when p first fetched it
  flagged,   \* flagged[p]: the registered run when p was told "active"
  overtaken, \* the runs replaced in the registry before they ended
  restarts   \* how often the process was restarted

turnVars == <<conv, phase, flush>>
runVars == <<events, subs, active>>
streamVars == <<pc, target, live, backlog, queue, got>>
pageVars == <<shown, running, flagged>>
history == <<overtaken, restarts>>
vars == <<turnVars, runVars, streamVars, pageVars, history>>

Live(t) == phase[t] = "running"

\* A response stream that the server still serves.
Open == {"opened", "attached", "streaming"}

\* The replies a history fetch of conversation c returns.
Replies(c) == {t \in Turn : ConvOf[t] = c /\ flush[t] = "stored"}

Init ==
  /\ conv = [c \in Conv |-> "absent"]
  /\ phase = [t \in Turn |-> "none"]
  /\ flush = [t \in Turn |-> "no"]
  /\ events = [t \in Turn |-> <<>>]
  /\ subs = [t \in Turn |-> {}]
  /\ active = [c \in Conv |-> None]
  /\ pc = [w \in Watcher |-> "idle"]
  /\ target = [w \in Watcher |-> None]
  /\ live = [w \in Watcher |-> FALSE]
  /\ backlog = [w \in Watcher |-> <<>>]
  /\ queue = [w \in Watcher |-> <<>>]
  /\ got = [w \in Watcher |-> <<>>]
  /\ shown = [p \in Page |-> {}]
  /\ running = [p \in Page |-> {}]
  /\ flagged = [p \in Page |-> None]
  /\ overtaken = {}
  /\ restarts = 0

-----------------------------------------------------------------------------
(***************************************************************************)
(* POST /chat.                                                             *)
(***************************************************************************)

\* A turn without a conversation id: create_conversation mints the
\* conversation with the user's row in it.
PostNew(t) ==
  /\ phase[t] = "none"
  /\ conv[ConvOf[t]] = "absent"
  /\ conv' = [conv EXCEPT ![ConvOf[t]] = "kept"]
  /\ phase' = [phase EXCEPT ![t] = "admitted"]
  /\ UNCHANGED <<flush, runVars, streamVars, pageVars, history>>

\* A continuation: the ownership gate (owned_meta) comes first.
PostGate(t) ==
  /\ phase[t] = "none"
  /\ conv[ConvOf[t]] # "absent"
  /\ phase' = [phase EXCEPT ![t] = IF conv[ConvOf[t]] = "kept"
                                   THEN "gated" ELSE "rejected"]
  /\ UNCHANGED <<conv, flush, runVars, streamVars, pageVars, history>>

\* ... then the user's row is appended, before any graph work.
PostAppend(t) ==
  /\ phase[t] = "gated"
  /\ phase' = [phase EXCEPT ![t] = "admitted"]
  /\ UNCHANGED <<conv, flush, runVars, streamVars, pageVars, history>>

\* An exception while the request is prepared (attachments, catalog, graph):
\* a 500 with the user's row stored and no run.
PostFail(t) ==
  /\ phase[t] \in {"gated", "admitted"}
  /\ phase' = [phase EXCEPT ![t] = "rejected"]
  /\ UNCHANGED <<conv, flush, runVars, streamVars, pageVars, history>>

\* The run is registered, over any run the conversation still has, the graph
\* task is created and the streaming response returned.
Launch(t) ==
  /\ phase[t] = "admitted"
  /\ phase' = [phase EXCEPT ![t] = "running"]
  /\ active' = [active EXCEPT ![ConvOf[t]] = t]
  /\ overtaken' = overtaken \cup ({active[ConvOf[t]]} \ {None})
  /\ pc' = [pc EXCEPT ![t] = IF t \in Stays THEN "opened" ELSE "gone"]
  /\ target' = [target EXCEPT ![t] = IF t \in Stays THEN t ELSE None]
  /\ UNCHANGED <<conv, flush, events, subs, live, backlog, queue, got,
                 pageVars, restarts>>

-----------------------------------------------------------------------------
(***************************************************************************)
(* The graph task: run_graph, drive, emit and flush_turn.                  *)
(***************************************************************************)

\* emit(f), with the given items put on every subscriber's queue.
EmitTo(t, f, items) ==
  /\ events' = [events EXCEPT ![t] = Append(@, f)]
  /\ queue' = [w \in Watcher |-> IF w \in subs[t] THEN queue[w] \o items
                                                  ELSE queue[w]]

\* A frame of the turn, from drive or from the error path.
Emit(t, f) ==
  /\ Live(t)
  /\ flush[t] = "no"
  /\ Len(events[t]) < MaxFrames
  /\ EmitTo(t, f, <<f>>)
  /\ UNCHANGED <<turnVars, subs, active, pc, target, live, backlog, got,
                 pageVars, history>>

\* The graph has ended, whichever way: `finally` calls flush_turn, which
\* takes the flag and starts the write.
FlushStart(t) ==
  /\ Live(t)
  /\ flush[t] = "no"
  /\ flush' = [flush EXCEPT ![t] = "writing"]
  /\ UNCHANGED <<conv, phase, runVars, streamVars, pageVars, history>>

\* The backend commits the turn, or append_messages raises: flush_turn logs
\* the exception and goes on.
FlushWrite(t) ==
  /\ Live(t)
  /\ flush[t] = "writing"
  /\ \E outcome \in {"stored", "failed"} :
       flush' = [flush EXCEPT ![t] = outcome]
  /\ UNCHANGED <<conv, phase, runVars, streamVars, pageVars, history>>

\* What finish puts on each queue: the last frame, then the sentinel.
SwappedFarewell == <<None, Done>>
NoSentinel == <<Done>>
Farewell == <<Done, None>>

\* The registry entry of t's conversation once t is done: gone if it is t's
\* own, kept if a later turn has replaced it.
RetractAlways(t) == None
RetractNever(t) == active[ConvOf[t]]
Retracted(t) == IF active[ConvOf[t]] = t THEN None ELSE active[ConvOf[t]]

\* flush_turn has returned, whether or not the backend took the write.
FlushUnderWay(t) == flush[t] # "no"
FlushSucceeded(t) == flush[t] = "stored"
FlushReturned(t) == flush[t] \in {"stored", "failed"}

FinishAgain(t) ==
  /\ Live(t)
  /\ FlushReturned(t)
  /\ EmitTo(t, Done, Farewell)
  /\ active' = [active EXCEPT ![ConvOf[t]] = Retracted(t)]
  /\ UNCHANGED <<turnVars, subs, pc, target, live, backlog, got, pageVars,
                 history>>

\* What follows flush_turn has no await in it: emit(done), done = True, the
\* sentinel on every queue, and the registry entry retracted if it is ours.
Finish(t) ==
  /\ Live(t)
  /\ FlushReturned(t)
  /\ EmitTo(t, Done, Farewell)
  /\ phase' = [phase EXCEPT ![t] = "done"]
  /\ active' = [active EXCEPT ![ConvOf[t]] = Retracted(t)]
  /\ UNCHANGED <<conv, flush, subs, pc, target, live, backlog, got,
                 pageVars, history>>

-----------------------------------------------------------------------------
(***************************************************************************)
(* Response streams: _subscribe and the two event_stream generators.       *)
(***************************************************************************)

\* _subscribe(run t): a finished run gives no queue, a running one a new and
\* subscribed queue; either way the snapshot is taken in the same step.
Subscribe(w, t) ==
  /\ live' = [live EXCEPT ![w] = phase[t] # "done"]
  /\ subs' = [subs EXCEPT ![t] = IF phase[t] = "done" THEN @ ELSE @ \cup {w}]
  /\ backlog' = [backlog EXCEPT ![w] = events[t]]

\* The POST generator, after yielding `ready` and `conversation`.
StreamBegin(t) ==
  /\ pc[t] = "opened"
  /\ Subscribe(t, t)
  /\ pc' = [pc EXCEPT ![t] = "streaming"]
  /\ UNCHANGED <<turnVars, events, active, target, queue, got, pageVars,
                 history>>

LateSnapshot(p) ==
  /\ pc[p] = "attached"
  /\ pc' = [pc EXCEPT ![p] = "streaming"]
  /\ backlog' = [backlog EXCEPT ![p] = events[target[p]]]
  /\ UNCHANGED <<turnVars, runVars, target, live, queue, got, pageVars,
                 history>>

\* The resume generator starts: its queue was subscribed by the handler.
ResumeBegin(p) ==
  /\ pc[p] = "attached"
  /\ pc' = [pc EXCEPT ![p] = "streaming"]
  /\ UNCHANGED <<turnVars, runVars, target, live, backlog, queue, got,
                 pageVars, history>>

YieldBacklog(w) ==
  /\ pc[w] = "streaming"
  /\ backlog[w] # <<>>
  /\ got' = [got EXCEPT ![w] = Append(@, Head(backlog[w]))]
  /\ backlog' = [backlog EXCEPT ![w] = Tail(@)]
  /\ UNCHANGED <<turnVars, runVars, pc, target, live, queue, pageVars,
                 history>>

YieldQueued(w) ==
  /\ pc[w] = "streaming"
  /\ backlog[w] = <<>>
  /\ live[w]
  /\ queue[w] # <<>>
  /\ Head(queue[w]) # None
  /\ got' = [got EXCEPT ![w] = Append(@, Head(queue[w]))]
  /\ queue' = [queue EXCEPT ![w] = Tail(@)]
  /\ UNCHANGED <<turnVars, runVars, pc, target, live, backlog, pageVars,
                 history>>

\* The `finally` of the generators: run["subs"].discard(q).
Unsubscribe(w) ==
  subs' = [t \in Turn |-> IF target[w] = t /\ live[w] THEN subs[t] \ {w}
                                                      ELSE subs[t]]

\* Nothing is left to follow once the backlog has gone out: the run was
\* finished at the snapshot, or the sentinel is the next item.
NothingToFollow(w) == live[w] => queue[w] # <<>> /\ Head(queue[w]) = None

StreamEnd(w) ==
  /\ pc[w] = "streaming"
  /\ backlog[w] = <<>>
  /\ NothingToFollow(w)
  /\ Unsubscribe(w)
  /\ pc' = [pc EXCEPT ![w] = "closed"]
  /\ queue' = [queue EXCEPT ![w] = IF live[w] THEN Tail(@) ELSE @]
  /\ UNCHANGED <<turnVars, events, active, target, live, backlog, got,
                 pageVars, history>>

\* The client goes away.  A generator that never started has no `finally`
\* to run, so the queue of an attached page stays subscribed.
Disconnect(w) ==
  /\ pc[w] \in Open
  /\ IF pc[w] = "streaming" THEN Unsubscribe(w) ELSE UNCHANGED subs
  /\ pc' = [pc EXCEPT ![w] = "gone"]
  /\ backlog' = [backlog EXCEPT ![w] = <<>>]
  /\ queue' = [queue EXCEPT ![w] = <<>>]
  /\ UNCHANGED <<turnVars, events, active, target, live, got, pageVars,
                 history>>

-----------------------------------------------------------------------------
(***************************************************************************)
(* A returning page: GET /conversations/{id}, then GET .../stream.         *)
(***************************************************************************)

Visible(p) == conv[PageOf[p]] = "kept"

\* get_conversation, as far as fetch_messages_full.
ReadHistory(p) ==
  /\ pc[p] = "idle"
  /\ pc' = [pc EXCEPT ![p] = IF Visible(p) THEN "read" ELSE "missing"]
  /\ shown' = [shown EXCEPT ![p] = IF Visible(p) THEN Replies(PageOf[p]) ELSE @]
  /\ running' = [running EXCEPT ![p] = {t \in Turn : ConvOf[t] = PageOf[p] /\ Live(t)}]
  /\ UNCHANGED <<turnVars, runVars, target, live, backlog, queue, got,
                 flagged, history>>

\* ... and after the await of fetch_history: the "active" flag.
ReadFlag(p) ==
  /\ pc[p] = "read"
  /\ flagged' = [flagged EXCEPT ![p] = active[PageOf[p]]]
  /\ pc' = [pc EXCEPT ![p] = IF active[PageOf[p]] = None THEN "quiet" ELSE "told"]
  /\ UNCHANGED <<turnVars, runVars, target, live, backlog, queue, got,
                 shown, running, history>>

\* The ownership gate of the resume route, which may also fail for good.
ResumeGate(p) ==
  /\ pc[p] = "told"
  /\ pc' = [pc EXCEPT ![p] = IF Visible(p) THEN "asking" ELSE "missing"]
  /\ UNCHANGED <<turnVars, runVars, target, live, backlog, queue, got,
                 pageVars, history>>

\* "no active run" (404), or lookup and _subscribe in one step.
ResumeAttach(p) ==
  LET run == active[PageOf[p]] IN
  /\ pc[p] = "asking"
  /\ \/ /\ run = None
        /\ pc' = [pc EXCEPT ![p] = "notfound"]
        /\ UNCHANGED <<target, live, subs, backlog>>
     \/ /\ run # None
        /\ pc' = [pc EXCEPT ![p] = "attached"]
        /\ target' = [target EXCEPT ![p] = run]
        /\ Subscribe(p, run)
  /\ UNCHANGED <<turnVars, events, active, queue, got, pageVars, history>>

\* ChatThread on a 404: router.refresh() fetches the history again.
Refresh(p) ==
  /\ pc[p] = "notfound"
  /\ pc' = [pc EXCEPT ![p] = IF Visible(p) THEN "refreshed" ELSE "missing"]
  /\ shown' = [shown EXCEPT ![p] = IF Visible(p) THEN Replies(PageOf[p]) ELSE @]
  /\ UNCHANGED <<turnVars, runVars, target, live, backlog, queue, got,
                 running, flagged, history>>

-----------------------------------------------------------------------------
\* DELETE /conversations/{id}: the row stays, the gate closes.
SoftDelete(c) ==
  /\ conv[c] = "kept"
  /\ conv' = [conv EXCEPT ![c] = "deleted"]
  /\ UNCHANGED <<phase, flush, runVars, streamVars, pageVars, history>>

\* The process stops and starts again.  Everything but the backend is gone;
\* a write under way may or may not have been committed.
Restart ==
  /\ restarts < MaxRestarts
  /\ restarts' = restarts + 1
  /\ phase' = [t \in Turn |-> IF phase[t] \in {"gated", "admitted", "running"}
                              THEN "killed" ELSE phase[t]]
  /\ \E kept \in SUBSET {t \in Turn : flush[t] = "writing"} :
       flush' = [t \in Turn |->
         IF flush[t] # "writing" THEN flush[t]
         ELSE IF t \in kept THEN "stored" ELSE "failed"]
  /\ active' = [c \in Conv |-> None]
  /\ subs' = [t \in Turn |-> {}]
  /\ pc' = [w \in Watcher |->
       IF pc[w] \in Open \cup {"read", "asking"} THEN "gone" ELSE pc[w]]
  /\ UNCHANGED <<conv, events, target, live, backlog, queue, got, pageVars,
                 overtaken>>

-----------------------------------------------------------------------------
PostStep(t) == PostNew(t) \/ PostGate(t) \/ PostAppend(t) \/ PostFail(t) \/ Launch(t)
GraphStep(t) ==
  \/ \E f \in Frame : Emit(t, f)
  \/ FlushStart(t) \/ FlushWrite(t) \/ Finish(t)
StreamStep(w) == YieldBacklog(w) \/ YieldQueued(w) \/ StreamEnd(w)
PageStep(p) ==
  \/ ReadHistory(p) \/ ReadFlag(p) \/ ResumeGate(p) \/ ResumeAttach(p)
  \/ ResumeBegin(p) \/ Refresh(p)

Next ==
  \/ \E t \in Turn : PostStep(t) \/ GraphStep(t) \/ StreamBegin(t)
  \/ \E w \in Watcher : StreamStep(w) \/ Disconnect(w)
  \/ \E p \in Page : PageStep(p)
  \/ \E c \in Conv : SoftDelete(c)
  \/ Restart

(***************************************************************************)
(* The event loop runs every ready task: a coroutine that can take a step  *)
(* takes one.  The graph ends because its rounds are capped (max_turns)    *)
(* and the provider's and the tools' calls return or raise; the write      *)
(* returns or raises.  Clients owe nothing: they post, delete, come back   *)
(* and leave as they like, but a stream that is open is being read.        *)
(***************************************************************************)
Fairness ==
  /\ \A t \in Turn : /\ WF_vars(FlushStart(t) \/ FlushWrite(t) \/ Finish(t))
                     /\ WF_vars(StreamBegin(t))
  /\ \A w \in Watcher : WF_vars(StreamStep(w))
  /\ \A p \in Page : WF_vars(ResumeBegin(p))

Spec == Init /\ [][Next]_vars
FairSpec == Spec /\ Fairness

-----------------------------------------------------------------------------
(***************************************************************************)
(* Properties.                                                             *)
(***************************************************************************)

Phases == {"none", "gated", "admitted", "rejected", "running", "done", "killed"}
StreamPcs == {"idle", "closed", "gone"} \cup Open
PagePcs == {"read", "quiet", "told", "asking", "notfound", "missing", "refreshed"}
AnyFrame == Frame \cup {Done}
Item == AnyFrame \cup {None}

\* The shape of the state.  A run that finished more than once would outgrow
\* the bound on its events.
TypeOK ==
  /\ conv \in [Conv -> {"absent", "kept", "deleted"}]
  /\ phase \in [Turn -> Phases]
  /\ flush \in [Turn -> {"no", "writing", "stored", "failed"}]
  /\ events \in [Turn -> Seq(AnyFrame)]
  /\ \A t \in Turn :
       Len(events[t]) <= IF phase[t] = "done" THEN MaxFrames + 1 ELSE MaxFrames
  /\ subs \in [Turn -> SUBSET Watcher]
  /\ active \in [Conv -> Turn \cup {None}]
  /\ pc \in [Watcher -> StreamPcs \cup PagePcs]
  /\ target \in [Watcher -> Turn \cup {None}]
  /\ live \in [Watcher -> BOOLEAN]
  /\ backlog \in [Watcher -> Seq(AnyFrame)]
  /\ queue \in [Watcher -> Seq(Item)]
  /\ got \in [Watcher -> Seq(AnyFrame)]
  /\ shown \in [Page -> SUBSET Turn]
  /\ running \in [Page -> SUBSET Turn]
  /\ flagged \in [Page -> Turn \cup {None}]
  /\ overtaken \subseteq Turn
  /\ restarts \in 0 .. MaxRestarts

\* What a watcher attached to run t is owed in all: every frame and, from
\* its queue, the sentinel once the run is done.
Owed(w) ==
  LET t == target[w] IN
  IF live[w] /\ phase[t] = "done" THEN Append(events[t], None) ELSE events[t]

\* A watcher that is attached to a run has received, will replay or has
\* queued every frame the run has emitted, each exactly once and in order,
\* whenever it subscribed.  This is what _subscribe must guarantee by taking
\* the snapshot and the subscription in one step.
NothingLostOrTwice ==
  \A w \in Watcher : pc[w] \in {"attached", "streaming"} =>
    (got[w] \o backlog[w]) \o queue[w] = Owed(w)

\* A stream that ended by itself has delivered the whole turn, `done` last:
\* neither the sentinel nor a finished run's backlog cuts a reply short.
ClosedMeansComplete ==
  \A w \in Watcher : pc[w] = "closed" =>
    /\ phase[target[w]] = "done"
    /\ got[w] = events[target[w]]
    /\ got[w] # <<>> /\ got[w][Len(got[w])] = Done

\* `done` is not emitted before the backend's answer to the write of the
\* turn: a history fetch that `done` triggers cannot race the persistence.
DoneAfterWrite ==
  \A t \in Turn : (\E i \in 1 .. Len(events[t]) : events[t][i] = Done)
    => flush[t] \in {"stored", "failed"}

\* The registry holds runs in flight only, each under its own conversation:
\* no conversation is left "generating" after its run ended.
RegistryIsLive ==
  \A c \in Conv : active[c] # None => Live(active[c]) /\ ConvOf[active[c]] = c

\* A run in flight that no later turn of its conversation has replaced is in
\* the registry: the end of an older run does not retract a newer one.
LatestRunIsReachable ==
  \A t \in Turn : Live(t) /\ t \notin overtaken => active[ConvOf[t]] = t

\* A page that was told of run t, and then got a 404 from the resume route,
\* finds t's reply when it fetches the history again, unless the write had
\* failed, the process was restarted, or a later turn had replaced t.
RefreshFindsReply ==
  \A p \in Page : LET t == flagged[p] IN
    pc[p] = "refreshed" /\ t # None =>
      \/ t \in shown[p]
      \/ flush[t] = "failed"
      \/ phase[t] = "killed"
      \/ t \in overtaken

\* A response stream that is open ends, or its client leaves: the run it
\* follows always ends, write or no write, and the sentinel reaches it.
StreamsEnd ==
  \A w \in Watcher : pc[w] \in Open ~> pc[w] \in {"closed", "gone"}

\* Every run in flight ends and leaves the registry.
RunsRetire ==
  \A t \in Turn : Live(t) ~> ~Live(t) /\ active[ConvOf[t]] # t

\* The registry, the backlogs and the queues implement a log per turn that
\* every watcher reads from the beginning (TurnStreams).
Ended(w) ==
  CASE pc[w] = "closed" -> "complete"
    [] pc[w] = "gone" -> "left"
    [] OTHER -> "no"

Streams == INSTANCE TurnStreams WITH
  log <- events,
  sealed <- {t \in Turn : phase[t] = "done"},
  watching <- target,
  view <- got,
  over <- [w \in Watcher |-> Ended(w)]

ImplementsStreams == Streams!Spec

(***************************************************************************)
(* Two statements of the documentation that the code does not keep.        *)
(***************************************************************************)

\* "The user also has to see the reply when they return": a page that was
\* told that nothing is running shows the reply of every run that was in
\* flight while its history was fetched and has been written since.
QuietPageIsComplete ==
  \A p \in Page : pc[p] = "quiet" =>
    \A t \in running[p] : flush[t] = "stored" => t \in shown[p]

=============================================================================
