# TLA+ specifications of Cogria Agent

This directory holds the formal model of Cogria Agent: TLA+ modules translated
from the source, TLC configurations that check them on small instances, and
theorems that TLAPS checks for every value of the constants. `PROJECT.json`
lists the components, the runs, the source lines each definition stands for,
the hazards and the theorems.

    tlc -workers 2 -config ChatRuns.cfg MCChatRuns     # one run
    tlapm ChatRunsProofs.tla                           # the proofs of a module

## 1. The system

Cogria Agent is an agent framework in four packages.

| Component | Source | State it keeps | Operations |
|---|---|---|---|
| Run registry and event streams | `agentserv/server.py` | `active_runs`; per run `events`, `subs`, `done`; one queue per subscriber | POST /chat, GET /conversations/{id}, GET .../stream, DELETE, the graph task |
| Tool loop (graph) | `agentserv/graph.py` | messages and round counter of one turn | `chat_node`, `tool_node`, the two routers |
| Persisting a turn | `server.py` `_persist_turn`, `prune.py` | the accumulator `acc` | assemble rows, prune results |
| Conversation backends | `sqlbackend.py`, `inmemory.py` | conversations, messages, summary and its cursor, usage totals | create, append, fetch, save_summary, soft delete, rename |
| Compaction | `summarizer.py` | `_in_flight`, `_failures` | `compact`, `maybe_summarize`, cutoff selection |
| Overflow recovery | `server.py` `run_graph` | attempt counter | forced compaction, rebuild, retry |
| Write actions and proposal tokens | `backend-py/action.py`, `proposal.py` | pending proposals, used markers | issue, consume, discard, execute |
| Attachments | `agentserv/attachments/*` | attachment records, blobs on disk | upload, resolve, hydrate, delete |
| Recall and estimates | `recall.py`, `estimate.py` | none / a density observed from rows | search, token estimate |
| Catalog and tool wiring | `catalog.py`, `tools.py`, `http_executor.py`, `wiring.py`, `config.py`, `llm.py` | configuration | HTTP calls, schema conversion |
| Web front end | `agent-ui/src` | JWT cache, thread state, artifact store | chat adapter, resume, proxies |
| Contract, templates, examples | `contract/`, `create-cogria-agent/`, `examples/` | none | schemas, scaffolding, sample agents |

The server is one asyncio process (the tables allow several). The handlers of POST /chat, the graph
tasks, the response generators and the background compaction are coroutines
that share `active_runs`, `_in_flight` and the backend. They interleave only
where the code awaits. What outlives the process is in the backend's database.
A turn goes: browser, Next.js route (which exchanges the cookie for a JWT), POST /chat, user's row
appended, graph task started, frames emitted to subscribers, turn written,
`done`. A write action takes two turns: the first returns a proposal token and
ends; the user confirms; the second passes the token back.

What is hard in this code, with the properties that cover it, is listed line
by line under "hazards" in `PROJECT.json`. In short:

* streams that subscribe at any moment and must see every frame once;
* a turn that outlives its client, and overlapping turns of one conversation;
* state read on two sides of an `await` (history and the `active` flag,
  attachment reference counts, the compaction cursor);
* a compaction that runs while turns append rows;
* one-shot tokens that are issued, verified and consumed in several steps;
* caps (rounds, calls, attempts) that end a turn with work pending;
* records in a database and bytes on a disk that nothing keeps together;
* transactions of several processes that number rows from what they read;
* a request that is sent again by a route that does not know what it did;
* a write that succeeds while what follows it fails.

What makes each component correct, and where it is stated:

| Component | Has to hold | Stated in |
|---|---|---|
| Run registry and streams | every watcher gets every frame once and in order; a stream that closed was complete; `done` comes after the write; the registry holds exactly the runs in flight; streams end and runs retire | `ChatRuns`, `TurnStreams` |
| Write actions | a token is spent at most once per issue; what ran is what was proposed; the audit trail accounts for what ran | `WriteActions`, `Approvals` |
| Compaction, overflow recovery | one compaction at a time; a row leaves the replayed history only into the checkpoint; a call and its result stay on one side of the cut; the cursor and the retries only go forward | `Compaction`, `Transcript` |
| Tool loop, persisted turn | no call runs twice or past the limit; confirmed writes run; a proposal ends the turn; no retry after an effect; the record says what happened; every replay is one that a provider accepts | `ToolLoop` |
| Chat adapter | the confirmation carries a proposal of the turn before; results reach their cards; reading ends | `ChatPanel` |
| Conversation backends | processes that share the tables behave like one in-memory backend; rows are numbered without gaps; a read leaves none out | `SqlBackend`, `InMemoryBackend` |
| Attachments | a record keeps its bytes; a published file is whole; links and references agree; a turn fails for a missing file only if a file of its conversation was deleted, or uploaded while the same bytes were being deleted | `Attachments`, `Replay` |
| Estimates | what a request replays of the files of a conversation is not more than what the estimate charges | `Replay` |
| Recall, pruning | pruned results are within the threshold, and pruning them again changes nothing | not modelled |
| Web session | a request is sent again only while nothing of it was stored; a refusal has stored nothing | `WebChat` |

## 2. Modules

| Module | What it is |
|---|---|
| `TurnStreams` | abstract: one growing log per turn; watchers read it from the start; a stream completes only when it has the sealed log |
| `ChatRuns` | the registry, runs, subscribers, queues, response streams, returning pages, soft delete and restart of `server.py` |
| `Approvals` | abstract: offers that can be approved once each time they are made; what runs is what an approved offer said |
| `WriteActions` | proposal tokens and the audited write of `backend-py` |
| `Transcript` | abstract: rows that are only added to, and a gist of the older ones that only grows |
| `Compaction` | the rows and the checkpoint of a conversation, compactions, and overflow recovery |
| `ToolLoop` | the graph, what `drive` makes of its events, the written turn and its replay |
| `ChatPanel` | the browser's side of a turn; extends `ToolLoop` and composes with it |
| `Attachments` | uploads, deletes, the records and the files on disk |
| `Replay` | a turn with files: references, links, hydration of the request, and its estimate; extends `Attachments` |
| `InMemoryBackend` | abstract: a conversation backend whose every operation is one step |
| `SqlBackend` | the tables, with the transactions of several server processes |
| `WebChat` | the JWT cache and the chat route in front of `SqlBackend`, which it extends |
| `Positions` | positions of a sequence in their order: the `Place` of one among the `Chosen`, which is how `ToolLoop` and `Replay` state a filter without recursion |
| `MC...` | instances of these for TLC |
| `ChatRunsProofs`, `WriteActionsProofs`, `CompactionProofs`, `AttachmentsProofs` | inductive invariants and theorems of one module each |
| `PositionsProofs` | lemmas: which positions a filter keeps, and that it keeps their order; a set of numbers has a least one |
| `ReplayProofs` | those of `Replay`, on top of `AttachmentsProofs` |
| `ChatPanelProofs` | those of `ToolLoop` and of its composition with the panel |
| `WebChatProofs` | those of the tables and the route; that the tables implement `InMemoryBackend` |

`ChatRuns` and `Compaction` have turns that overlap and take what a turn does
as any outcome the code allows; `ToolLoop` looks into one turn after the other
and takes the compaction as any cursor (`ReplayIsAccepted` quantifies over it).
`WriteActions` is what a tool call of `ToolLoop` reaches over the network: there
a write proposes, succeeds or raises.

### ChatRuns

An action is what the code does between two awaits of one coroutine.

| State | In the code |
|---|---|
| `conv` | the conversation row, with its `deleted_at` |
| `phase`, `flush` | how far the handler and the task of a turn are; the outcome of `flush_turn` |
| `events`, `subs` | `run["events"]`, `run["subs"]`; `run["done"]` is `phase = "done"` |
| `active` | `active_runs` |
| `pc`, `target`, `live`, `backlog`, `queue`, `got` | a response generator: where it is, its run, whether `_subscribe` gave it a queue, the rest of the snapshot, the queue, the frames yielded |
| `shown`, `running`, `flagged`, `overtaken`, `restarts` | history variables, read by the properties (and the bound on restarts) only |

`PostNew`/`PostGate`/`PostAppend`/`PostFail`/`Launch` are POST /chat;
`Emit`/`FlushStart`/`FlushWrite`/`Finish` the graph task; `StreamBegin`,
`ResumeAttach`, `ResumeBegin`, `YieldBacklog`, `YieldQueued`, `StreamEnd`,
`Disconnect` the streams; `ReadHistory`, `ReadFlag`, `ResumeGate`,
`ResumeAttach`, `Refresh` a page that comes back to a conversation. Frames are
model values: the properties tell apart a frame, `done` and the sentinel only.
`ready` and `conversation`, which each generator makes itself, are not frames
of the run and are left out. `Finish` is one action because the code from the
return of `flush_turn` to the `del` has no await. A `Disconnect` of a generator
that never started runs no `finally`: its queue stays in `subs`, which is what
Python does.

### WriteActions

| State | In the code |
|---|---|
| `store` | which `ProposalStore` the process was built with: the in-memory one, or a shared one as `proposal.py` asks of production |
| `stored`, `marked` | its entries and its `used:` markers, by the tick they expire at |
| `pc`, `ask` | a call of `RegistryExecutor.invoke`: where it is; its caller, parameters and token |
| `mutated`, `audit` | the mutations that took effect; the audit records of each call |
| `issued`, `spent`, `lapsed`, `crashes` | history variables (`lapsed`: the requests whose failure record was cut short) and a bound |

`Propose`/`Mint`/`Put` are a dry run and `issue`; `Confirm`/`Lookup`/`Mark`/
`Forget` a confirmation and `consume`; `CaptureBefore`/`Handle`/`CaptureAfter`/
`AuditSuccess`/`AuditFailure` the audited write. It can raise in `capture_before`
(outside the `try`: no record), in `handle`, before or after the mutation, in
`capture_after`, while the success record is made (`BreakAudit`: a hook, before
the sink is called, or the sink, which may have kept the record), while the
failure record is made (the same, with `summarize` inside the `except`), and in
the answer, which is outside the `try` and comes after a success record.
`Refuse` the early errors. `MayRun` keeps the calls of the in-memory store
together, which never suspend; those of a shared store interleave. A token is
the record of what it is an HMAC of: equal records are equal tokens, so two
proposals in one second share one. A confirmation may bring any token of the
present or the past, its own or another caller's. `Tick` does not come between
the lookup and the marker. This is an assumption about the store: both TTLs are
equal, so a marker outlives its entry only by the entry's age when it was
confirmed, and where the process died before `forget`, a later confirmation
that looks the entry up just before it expires and stalls past the marker would
spend the token again.

### Compaction

| State | In the code |
|---|---|
| `rows`, `cursor`, `summary` | the messages of a conversation, `summarized_count`, and which rows' content the checkpoint holds |
| `inFlight` | the conversation is in `_in_flight` |
| `pc`, `attempt`, `asked`, `sent` | a turn in `run_graph`: where it is, its overflow retries, the index of its user row, what its last request replayed |
| `task`, `read`, `fold` | an activation of `compact`: where it is, the cursor and checkpoint it read, what it will save |
| `dropped`, `restarts` | rows that the input cap trimmed; a bound |

A compaction goes `BackgroundStart` (or `Overflow` for a forced one), `Measure`,
`FetchMeta`, `FetchFull`, `Summarized`, `SaveSummary`, and `CompactionFails`
from anywhere; each is the code between two awaits. A turn goes `Create` or
`FetchPrior`/`AppendUser`, then `Overflow`/`Rebuild`, then `FlushTurn`. The
size of rows is abstracted: under pressure or not, `Cuts` are all the cuts
`_select_cutoff` can reach for some sizes, `start` any place where `_cap_input`
can trim. The rows that are left go to the summarizer in one of two forms, which
do not show all of them (`Unshown`): the replay (`history_to_messages`) drops
results whose call row was trimmed (`Parted`), and the flat transcript
(`_render`) passes over rows that announce calls and have no text (`Wordless`).
`Capped` is what the checkpoint then stands for; where the cap leaves nothing
but parted results, it gains nothing of the span. The flat form shows the first
500 characters of a result, which counts as showing it; a row without any
content has nothing to show. `Forbidden` and `Aligned` are the code's alignment
itself. Call ids are unique. `_failures` is read by a log message only.

### ToolLoop and ChatPanel

| State | In the code |
|---|---|
| `rounds`, `response`, `next` | `state["turns"]`, the calls of the last response, where `tool_node` is in them |
| `text`, `pending`, `results` | `acc`: assistant text, `pending_calls`, `tool_results` |
| `attempt` | overflow retries of `run_graph` |
| `frames` | the run's `tool_call`, `tool_result` and `confirm_required` events |
| `rows` | the messages written |
| `executed`, `lost`, `called` | the calls that ran with their outcomes; the turns that were not written; a bound |
| `ui`, `seen`, `cards`, `confirm`, `confirmed`, `generating` | the adapter: its phase, the frames read, `acc.toolCalls`, the proposal it holds, `confirmedTurn`, the tabs that say they are generating |
| `posted` | history: the proposal the turn was sent with |

`Answer`, `Truncated` and `RequestFails` are the outcomes of `chat_node` with
what `drive` does about them; `SkipCall` and `RunCall` one call in `tool_node`,
with `Selected` for `_select_calls`; `RouteAfterTools` the router; `Recovered`
the compaction and rebuild; `EndTurn` the write. `Replay` is
`history_to_messages`: the rows at the positions it keeps (`KeptIn`), a call row
with the calls whose results it finds (`WithResult`). A call is what `_call_key`
compares and whether it
carries a token; its result is a proposal, an image, a result or an exception.
`Send`, `ReadCall`, `ReadResult`, `ReadConfirm`, `StreamEnds`, `Decide` and
`Abandon` are `turnLoop` and its user. Tools, arguments and text have no
content otherwise. Turns follow each other: the panel sends the next one when
the last is over.

### Attachments and Replay

| State | In the code |
|---|---|
| `up`, `by`, `data`, `answer` | a call of `AttachmentService.upload`: where it is, its user and bytes, the id it returned |
| `down`, `which` | a call of `delete` |
| `status` | the `attachments` table |
| `blob`, `part` | the two names in the directory of a digest; a file is named by the upload that created it |
| `open`, `whole` | the file a worker thread is writing; whether a file has all its bytes |
| `overlapped`, `twins`, `restarts` | history variables and a bound |
| `msgs`, `links`, `stamp` | the references in the messages, `message_attachments`, `attachments.conversation_id` |
| `conv`, `pc`, `records`, `prior` | POST /chat: its conversation, where it is, what `resolve` returned, the history it fetched |
| `at`, `todo`, `showing`, `left`, `turnsLeft`, `prompt` | `build_turn_content` and `hydrate_history`: the message it is at, its records, the budget, the image turns, the request so far |
| `missed` | history: the newest message whose look-up failed |

An upload is `Receive`, `FindTwin`, then the thread of the store (`TestBlob`,
`OpenPart`, `FillPart`, `RenamePart`, a system call each), `CreateRecord`,
`Extract`, `Answer`; a delete is `FindRecord`, `DeleteRecord`, `CountRecords`,
`Unlink`. Any of them may interleave, for several users who own equal bytes.
A turn is `Resolve`, `FetchPrior`, `Persist`, and then one action per file of
the request (`DocumentBlock`, `ImagePlaceholder`, `LoadImage`) with `Hydrate`
between messages, newest first as in the code, and `Ask`. `HydrateFails` is
`Hydrate` when `get_many` raises: the message stays as it is stored and takes no
image turn. `Cascade` is what the
foreign key does. `CharsLeft`, `PricedChars` and `PricedImages` are
`_replay_attachment_tokens`, in characters and images instead of tokens. A
duplicate id in a request is collapsed, so an id list has none. History is what
the turn fetched of the messages with files; where a summary begins it is left
to `Compaction`, and both `OldestLoseText` and `AllowanceCoversText` hold for
every suffix of the history.

### SqlBackend and InMemoryBackend

| State | In the code |
|---|---|
| `conv`, `deleted`, `renamed`, `summary`, `cursor`, `tokens` | a row of `conversations` |
| `rows` | `messages`, a row being its seq, its call and its number in the call |
| `lock` | `_write_lock` of a server process |
| `tx`, `next` | a call that stores messages: its transaction, `next_seq` |
| `head`, `count` | `fetch_history` between its two statements; `save_summary` between its count and its update |

`BeginAppend` and `CommitAppend` are the two halves of `append_messages`: the
lock serialises them in a process, nothing does across processes, so `next_seq`
may be outdated at the commit, where `uq_messages_conv_seq` decides.
`CreateConversation` reads nothing and is one step. `InMemoryBackend` is
`inmemory.py`, each operation one step on a sequence of messages; under the
refinement mapping an open transaction has not happened, and the messages are
the rows in the order of their seq. It also has `Erase`, which only the SQL
backend offers.

### WebChat

| State | In the code |
|---|---|
| `now`, `cached` | the time; the entry of the session in Redis, which is when its token expires |
| `call`, `attempt`, `jwt` | POST of `route.ts`: where it is, the attempt of its loop, the token it holds |
| `status` | the status of agentserv, then of the answer |

`Hit`, `Miss`, `Exchange`, `Cache` are `exchangeForCookie`; `Admit` is what
agentserv checks before it stores anything (`verify_jwt`, `owned_meta`), by a
clock that may be ahead; `StoreMessage` and `StoreReply` are the calls of the
backend, `Return` and `Drop` the one retry. There is one session; a logout is an
exchange that answers 401. What a client sees of its stream is left to
`ChatRuns`.

## 3. Runs

| Run | Instance | Shows |
|---|---|---|
| `runs_safety` | two turns of one conversation (one client stays), one page, one frame, one restart | the safety invariants of `ChatRuns` |
| `runs_live` | one turn, two frames, its stream, one page, one restart, `FairSpec` | streams implement `TurnStreams`; streams end; runs retire |
| `quiet_page` | two turns, one page, no restart | expected violation: `active: false` beside a history without the reply |
| `write_actions` | three calls, two parameter sets, TTL two ticks, one crash, both stores | the calls implement `Approvals`; tokens are spent once; mutations were proposed; the trail accounts for them |
| `compaction` | three turns with a call each, one retry, one restart | rows and checkpoint implement `Transcript`; the safety of compaction and recovery |
| `overflow_in_flight` | two turns, no restart | expected violation: a turn gives up although there is history to fold |
| `retry_without_question` | two turns, no restart | expected violation: the retried request lacks its question |
| `tool_loop` | two turns, three calls in all, a read, a write and an artifact tool, two rounds, limit one, one retry, `FairSystemSpec` | the tool loop, its record and replay, the panel's protocol, and that reading ends |
| `image_tab` | the same | expected violation: the tab of a finished image says it is generating |
| `files` | two uploads beside three files of an earlier run, two users, a delete, a restart, a turn with up to two files in one of two conversations | records and bytes, links and references, the text and the images of a request, and their estimate |
| `half_written_blob` | two uploads of equal bytes, one restart | expected violation: a crash leaves a half-written file under the final name |
| `conversations` | two requests on one conversation in two server processes, a reader, a compaction's write, one restart | the tables implement the in-memory backend; the numbering; what the reads of several statements return; what a refused or repeated request has stored |

**Bounds.** Two turns of one conversation are the fewest that overlap, and make
every order of two launches and two ends; conversations share nothing but the
registry's dictionary, so one is enough. One page beside the turn's own stream
gives two subscribers that begin at different moments. One frame before `done`
already makes the three cases of a subscription: before it, between it and
`done`, after `done`; the liveness run has two, so that a backlog and a queue
are both in use.

Three calls on the write side are a proposal and two confirmations that race,
or two proposals and a confirmation across them; two parameter sets let the
confirmed ones differ from the proposed ones; entries and markers expire within
the run (TTL 2 of 4 ticks, a second being two of them, so that tokens of one
second and of two both occur).

Three turns make up to nine rows, so that a checkpoint is folded into a second
one while a third turn appends; two of their compactions, background or forced,
compete. `KeepRecent` is 4, and 3 in the runs of the expected violations, so that
the tail is longer than the forced one; with 4 a cut can fall right behind a
result whose call row the cap trims, and a span can be all results of trimmed
calls. One call per turn is what a cut can split.

In the tool loop a limit of one with three calls gives repeats, calls past the
limit, and more confirmed writes than the limit; two rounds reach the cap; two
turns are a proposal and its confirmation.

In the files run two uploads can be equal, equal to a file of another user, or
replace one another's `.part`; one delete reaches each of the three ways in
which bytes are shared. The conversation begins with two messages that have an
image, one of them with a document of three characters; with caps of two per
document and three per request, one image turn and one or two new files, the
budget runs out in the middle of a document and the image turns before the last
message. The vision model is configured; without one no image is accepted.

In the conversations run one block has two messages, so that blocks of two
processes would overlap in part; a token lives for two ticks of a clock that
ticks once, and agentserv's clock is one ahead, so a cached token is fresh in
the front end and expired in agentserv, before and after the retry.

Symmetry is used where the elements are interchangeable (requests and
parameters, turns) and in runs of invariants and of properties of single steps
only, never with liveness. Deadlock is not checked in any run: clients may all
be gone, every turn over and every request answered, and then the system rests;
the bounds end the rest.

**Fairness.** The event loop runs every ready task, so a coroutine that can
step does: weak fairness of the graph task's end (`FlushStart`, `FlushWrite`,
`Finish`), of a started generator and of its yields. `FlushStart` is always
possible while the graph runs because the graph's rounds are capped and calls
return or raise. In `FairSystemSpec` a turn whose model and tools return or
raise goes on (`ServerStep`), and the browser reads what has arrived
(`PanelStep`). Clients, page loads, decisions, deletions and restarts get no
fairness.

**Expected violations.** Five runs each check one statement of the repository's
documents or comments that the code does not keep; the "findings" in
`PROJECT.json` quote it and say what happens. Three more were met while
modelling and are stated here only. GET .../stream answers 404 while a run of
the conversation is in flight, when a later one replaced it in the registry and
is over. Two equal proposals within one second have one token, and once the
first is confirmed the second is refused as used. "Images are priced exactly"
(`estimate.py:230-233`) does not hold when an image of the history was deleted
or the look-up of a message failed (`inject.py:165-170`): the reference still
takes an image turn of the estimate, and none of the hydration, so an older
message sends images that nothing charges. `ImagesPricedExactly` leaves out that
message and the older ones, and nothing else.

## 4. Proofs

| Module | Theorems | Assumptions |
|---|---|---|
| `ChatRunsProofs` | `TypeOK`, `NothingLostOrTwice`, `ClosedMeansComplete`, `DoneAfterWrite`, `RegistryIsLive`, `LatestRunIsReachable`, `RefreshFindsReply`, `ImplementsStreams` | turns and pages are distinct; `done` and the sentinel are no ordinary frames |
| `WriteActionsProofs` | `TypeOK`, `OneShot`, `AuditAccountsForMutations`, `MutationsWereProposed`, `ImplementsApprovals` | the TTL, the clock and the crashes are natural numbers, a second has at least one tick (and the assumption in `Tick`) |
| `CompactionProofs` | `TypeOK`, `InFlightIsOne`, `FoldedIsKept`, `NoPairIsSplit`, `CursorAdvances`, `RetriesShrink`, `ImplementsTranscript` | the configuration values and bounds are natural numbers; `None` is no call id |
| `ChatPanelProofs` | of the turns: `TypeOK`, `CapSparesConfirmed`, `ProposalEndsTurn`, `NoRetryAfterSideEffect`, `RecordIsTrue`, `ReplayIsAccepted`; of the composition: that it implements the turns, `FollowUpSeesProposal` | the limits and bounds are natural numbers; `None` is no id |
| `AttachmentsProofs` | `FilesTypeOK`, `RecordsKeepBytes`, `LoneWriterIsWhole`, `AnswersAreSettled` | an upload of an earlier run sent one file that the server accepts; `None` is no id; the types of the configuration |
| `ReplayProofs` | `TypeOK`, `UndisturbedTurnsAsk`, `OldestLoseText`, `AllowanceCoversText`, `ImagesPricedExactly` | the same; the messages of an earlier run refer to files of it, each once and all of the user of the conversation (`resolve`) |
| `WebChatProofs` | `TypeOK`, `SeqIsDense`, `ReadsAgree`, `RefusedStoresNothing`, `ImplementsBackend` | one call creates a conversation, with one message (the id is a new uuid); the calls of different requests are different |

They hold for any sets of conversations, turns, pages, frames, callers,
parameters, requests, users, files and uploads, and for any values of the configuration and the bounds.

**ChatRuns.** None of the stream properties is inductive. The invariant `IInv`
adds: `PhaseInv` (a log ends with `done` exactly when its run is over, and then
the write has been answered), `FreshInv` (a stream that has not begun holds
nothing), `AttachInv` (an attached watcher is subscribed to a run in flight, or
its run is over; nobody else is subscribed). With these, a frame put on the
queues extends what each watcher is owed by exactly that frame, and nobody
else's; a sentinel at the head of a queue is all that is left of it.
`RefreshFindsReply` follows a page by `FoundInv` from the flag to its second
fetch: a 404 means that the run is over or was replaced, because the registry
holds every other run in flight (`RegistryInv`), a run that is over was written
before (`PhaseInv`), and a run only ever ends (`OnlyEnds`). The refinement of
`TurnStreams` adds `JoinInv` (a watcher follows no run before it is attached):
then launching or attaching is `Join`, `emit` is `Publish`, `finish` is `Seal`,
a yield from the backlog or the queue is `Receive` of the same frame
(`NextFrame`), the end of a stream is `Complete`, and a disconnect or a restart
is `Leave` of one watcher or of all that are being served.

**WriteActions.** `OneShot` alone does not say why a second confirmation fails.
`MarkerInv` does: a token spent as often as it was issued, with its entry still
there, has a marker that lives as long as the entry, however late the entry was
confirmed. `RaceInv` carries that across the lookup: a request between the
lookup and the marker holds a token that can still be spent, or finds the marker
of whoever was faster. The trail needs an invariant of its own, `Trail`, which
follows each request from the mutation to its record. `MutationsWereProposed`
compares two counts over all requests. `HoldsOwnToken` says that a request that
was approved holds a token for its own caller and parameters, and `CountInv`
that of each token there are as many proposals as it was issued, and no more
approvals than it was spent, hence (`OneShot`) than it was issued. The counts
per token add up (`PartsAreSmaller`): an injection for each token gives one for
all. For the sum to be finite the requests made so far must be (`Active`).
The same invariants are what the refinement of `Approvals` needs: `Put` is
`MakeOffer`; setting the marker is `Approve`, of an offer that is still open by
`RaceInv`; a `Handle` that takes effect is `Run`, of what the token said by
`HoldsOwnToken`; every refusal, exception or crash before it is `GiveUp` of one
request or of all that are under way; and nothing else is a step of `Approvals`.
`TypeOK` of `WriteActions` is proved and not listed in its run.

**Compaction.** `TaskInv` says which compactions can be at work, `ReadInv` that
nobody moves the cursor while one works from what it read, and `FoldInv` that
what it will save is sound: a cut past the cursor that splits no pair, with
every row before it kept, trimmed, a result of a trimmed call, or one that
announces calls (`UnshownIsMissable`: nothing else is not shown). That a chosen cut still splits
no pair when it is saved, after other turns appended, needs `RowsInv`: a turn
writes its call and result rows in one append, at its end, and each call is
answered once; so a row appended later answers no call that was there before.
`SentInv` bounds what a request replays by the cursor, which makes
`RetriesShrink` a property of one step.
For the refinement of `Transcript`, `GistInv` says more of what will be saved: it
is the checkpoint that is there now and, from some row of the span on, every row
but those that announce calls and the results of calls before that row
(`Missable`); `_cap_input` never trims the whole span, but what it leaves may be
all results of what it trimmed, so a fold need not gain a row. Then a write of
the checkpoint is `Fold`, an append is `Say`, of rows that answer nothing the
reader has only the gist of (`NoPairIsSplit` in the next state), and all else
changes nothing of the transcript. `CursorAdvances` follows from it and is not
listed in the run.

**ToolLoop and ChatPanel.** `TurnInv` is proved part by part, each part from
those before it. `PlaceInv` and `RanInv` say where a turn is and that the ids of
what ran are those of the rounds so far, hence new calls have new ids;
`ProposalInv` that a proposal is of the round that is being run, or the turn
is at its end; `CleanInv` that as long as no call was announced nothing ran and
nothing was shown, which is what the retry tests; `SelectInv` carries
`_select_calls` through the round, of which a lemma says that it keeps each
confirmed write and never more than the limit of others. For the record,
`ResultInv` ties what `drive` collects to what ran, and `RowInv` keeps the rows
of earlier turns out of the way; then the rows that a turn adds are true because
each result is paired with the call it names. The composition with the panel
takes only steps of `ToolLoop`, or none of it, so its invariants hold there too;
`FrameInv` and `ConfirmInv` add that what the panel asks the user is a proposal
of this turn, which the history of the next one contains.

`ReplayIsAccepted` quantifies over every cursor, so it is about any suffix of the
rows, which may begin with results whose call was left behind. From the record
(`RowsAreTrue`) and `CallsInv` (no id is called in two rows or twice, an id is of
the turn that called it, and only an assistant's row calls) follows what such a
suffix looks like: a result has one row that called it (`OneOwner`), the results
of a row follow it with nothing in between (`ResultsFollow`), and they are as many
as those of its calls that were answered (`AsManyResults`). So what is left out
is a beginning of the suffix (`KeptIsTail`), and in what is replayed the results
still stand right behind their call.

**Attachments.** The theorems are about the steps of `Replay` too, none of which
touches a file. Why a record keeps its bytes is `OverlapInv`: as long as a delete
is at work, every upload of the same bytes that runs beside it is known to have
overlapped it, and once it has counted no record left, so is every record that
exists; so the bytes that it unlinks are nobody else's. `RecordInv` ties the
record to the progress of its upload. For the files, `FileInv` says that no file
has two names and each belongs to one content, and `WriterInv` that an upload
that writes alone fills the file it will rename; a .part file left half-written
by a crash is filled again before it gets the final name.

**Replay.** `RefInv` says that only files whose upload was answered are referred
to, and `TurnOK` that what a turn has still to put into its request is referred
to by a message of its conversation; a message is never changed and none is
taken away (`GrowTables`), so this holds while other turns go on (`OneTurn`). A
turn then fails only for such a file, and by the invariants of `Attachments` the
bytes of a record are missing only when a delete overlapped its upload.
`TextOK` is what orders the text: all that the request has is of the present
message or newer ones, and a document that got less than its cap has used up
the budget, so no older one gets anything.

The images need a second invariant, because the estimate counts references and
the request counts records. `MsgInv` says that a message names each file once
and only files of its conversation's user, so that what `get_many` finds is what
is referred to, but for the deleted (`FoundAreAll`). `ImagesOK` then says of a
turn that is under way that the image turns left are those that the newer
messages with images did not take (`TurnsTaken`), and that each message done so
far has the images it is charged for, less the files still to come; each part
for a message as long as, from it on, no look-up failed and no image was deleted
(`Intact`). Other turns only append behind the history
that was fetched, and uploads and deletes leave the content and the user of a
file alone (`RestingTurn`), so the charge for it does not move.

`AllowanceCoversText` compares what a request holds with what the estimate
charges, which are a sum over documents and a recursion over messages. The text
of a request and the budget that is left never add up to more than the total
(`PaidOK`), and each text is within the cap of one document and of a document of
its own: the one it was sent with, or a document that an older message refers to,
different texts being of different references (`ListedOK`, an injection). So the sum is
at most the total, and at most the sum of the capped sizes; that is what
`CharsLeft` charges (`CharsLeftStep`). The theorems of the library about
induction take an operator as a parameter, which none of the provers
instantiates, so the facts about sums are proved by a smallest counterexample: a
set of numbers that is not empty has a least one (`Least`), and below it the fact
is true.

**WebChat.** `SeqIsDense` needs to know why a stale `next_seq` is harmless.
`FilledInv` says that the messages of a conversation are finitely many, as many
as their highest seq says; `BegunInv` that an open transaction numbers its block
from a place the conversation has reached: it may lie behind the end, but never
past it, because conversations only grow while they are there and an erased one
is not created again (`Monotone`). A block that begins behind the end meets an
existing seq and is refused; one that the constraint accepts begins exactly at
the end. `CountInv`, `CursorInv` and `HeadInv` carry the same argument to the
cursor: between two statements the messages can only have become more, so what
the second one returns is what the backend of a single process would.
`RequestInv` follows a request from the panel to the tables: as long as it was
not admitted, or was answered with an error that says so, its calls of the
backend have not begun, and calls of different requests are different.

**SqlBackend.** Under the refinement mapping the messages of a conversation are
its rows in the order of their seq. `LockInv` (an open transaction appends and
holds the lock of its process) is all that the mapping needs besides the
invariants of `WebChatProofs`: an accepted block begins at the end, so its rows
come behind all others and the sequence grows by the block, whole and in order;
every other step leaves the sequence as it is. The restart of a process is
`Fail` of what it had open.

Every safety invariant and every action property of the passing runs has a
theorem. Only model-checked:

* liveness (`StreamsEnd`, `RunsRetire`, `ReadingEnds`), which is beyond the
  prover;
* the five expected violations, which are what they are on small instances.

## 5. Not modelled

* The content of frames and rows, the model provider, configuration, schemas,
  the templates and the examples. The proxies of the front end other than the
  chat route pass their answers through; they use the same token exchange
  without a retry.
* Pruning of old results (`prune.py`), recall (`recall.py`) and the token
  density of `estimate.py`: pure functions of text and sizes, tested as such;
  the part of the estimate about files is modelled.
* Listing and reading that change nothing: conversation lists, usage, the
  metadata and bytes of a file.
* A database that fails, but for the look-ups of hydration, after which the code
  goes on without the files of that message.
* The tabs of artifact tools and the cap of five of them in the browser, and
  the attachment chips of its composer.

"components" in `PROJECT.json` says it per part.

## 6. Plan

1. `ChatRuns`/`TurnStreams`: done, with proofs.
2. Proposal tokens and write actions: done, with proofs.
3. Compaction and overflow recovery: done, with proofs.
4. The tool loop and the panel: done, with proofs.
5. Attachments and their replay: done, with proofs.
6. Conversation backends and the chat route: done, with proofs.
7. Pure algorithms: pruning and the density of the estimate against reference
   definitions.
