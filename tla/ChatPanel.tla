------------------------------ MODULE ChatPanel ------------------------------
(***************************************************************************)
(* The browser's side of a turn (agent-ui: chat-adapter.ts), composed with *)
(* ToolLoop.                                                               *)
(*                                                                         *)
(* turnLoop reads the frames of a turn in order, keeps a card per call and *)
(* puts results on the cards by the name of their tool.  When a stream     *)
(* ended and it carried a proposal, the user is asked, and a second        *)
(* request with the token continues the same message: the cards stay.      *)
(* While the confirmed action LongRunning makes its image, the panel has a *)
(* placeholder tab, keyed by the id of the call.                           *)
(***************************************************************************)
EXTENDS ToolLoop

CONSTANTS
  None,
  LongRunning    \* config: LONG_RUNNING_IMAGE_ACTION

ASSUME ChatPanelAssumption == None \notin Id

VARIABLES
  ui,          \* the panel is idle, reads a stream, or waits for the user
  seen,        \* how many frames of the stream it has read
  cards,       \* acc.toolCalls in order: call, and the call whose result it has
  confirm,     \* the proposal of the stream, by its call
  confirmed,   \* confirmedTurn
  generating,  \* the calls whose tab still says it is generating
  posted       \* history: the proposal the running turn was sent with

panelVars == <<ui, seen, cards, confirm, confirmed, generating, posted>>

PanelInit ==
  /\ ui = "idle"
  /\ seen = 0
  /\ cards = <<>>
  /\ confirm = None
  /\ confirmed = FALSE
  /\ generating = {}
  /\ posted = None

\* run: the user sends a message; a new message has no cards.
Send ==
  /\ ui = "idle"
  /\ Post
  /\ ui' = "reading"
  /\ seen' = 0
  /\ cards' = <<>>
  /\ confirm' = None
  /\ confirmed' = FALSE
  /\ posted' = None
  /\ UNCHANGED generating

NextFrame == frames[seen + 1]
Read(event) ==
  /\ ui = "reading"
  /\ seen < Len(frames)
  /\ NextFrame.event = event
  /\ seen' = seen + 1
  /\ UNCHANGED <<vars, ui, confirmed, posted>>

\* A card for the call; a placeholder tab for the confirmed action.
ReadCall ==
  /\ Read("tool_call")
  /\ cards' = Append(cards, [id |-> NextFrame.id, tool |-> NextFrame.call.tool, result |-> None])
  /\ generating' = IF NextFrame.call.tool = LongRunning /\ confirmed
                   THEN generating \cup {NextFrame.id} ELSE generating
  /\ UNCHANGED confirm

\* The first card of that name without a result gets it, and its tab, if it
\* has one and the result has an image.
ReadResult ==
  LET fits == {k \in DOMAIN cards : cards[k].tool = NextFrame.call.tool /\ cards[k].result = None} IN
  /\ Read("tool_result")
  /\ IF fits = {} THEN UNCHANGED <<cards, generating>>
     ELSE LET k == CHOOSE i \in fits : \A j \in fits : i <= j IN
          /\ cards' = [cards EXCEPT ![k].result = NextFrame.id]
          /\ generating' = IF NextFrame.outcome = "image" THEN generating \ {cards[k].id} ELSE generating
  /\ UNCHANGED confirm

\* The last proposal of the stream is the one the user will see.
ReadConfirm ==
  /\ Read("confirm_required")
  /\ confirm' = NextFrame.id
  /\ UNCHANGED <<cards, generating>>

StreamOver == pc = "over" /\ seen = Len(frames)

\* The stream ended: ask the user, or rest.
StreamEnds ==
  /\ ui = "reading"
  /\ StreamOver
  /\ ui' = IF confirm = None THEN "idle" ELSE "deciding"
  /\ UNCHANGED <<vars, seen, cards, confirm, confirmed, generating, posted>>

\* The user decides, and the second request goes out.
Decide(yes) ==
  /\ ui = "deciding"
  /\ Post
  /\ ui' = "reading"
  /\ seen' = 0
  /\ confirm' = None
  /\ confirmed' = yes
  /\ posted' = confirm
  /\ UNCHANGED <<cards, generating>>

\* The second request is refused, or the user aborts or leaves: the message
\* ends there, and the server's turn goes on.
Abandon ==
  /\ ui \in {"reading", "deciding"}
  /\ ui' = "idle"
  /\ confirm' = None
  /\ UNCHANGED <<vars, seen, cards, confirmed, generating, posted>>

PanelStep == ReadCall \/ ReadResult \/ ReadConfirm \/ StreamEnds
ServerStep == GraphStep /\ UNCHANGED panelVars

SystemInit == Init /\ PanelInit
SystemNext ==
  \/ ServerStep
  \/ PanelStep
  \/ Send
  \/ Abandon
  \/ \E yes \in BOOLEAN : Decide(yes)

SystemSpec == SystemInit /\ [][SystemNext]_<<vars, panelVars>>

\* The event loop goes on with a turn whose model and tools return or raise,
\* and the browser reads what arrives.  Nothing makes the user decide.
FairSystemSpec ==
  /\ SystemSpec
  /\ WF_<<vars, panelVars>>(ServerStep)
  /\ WF_<<vars, panelVars>>(PanelStep)

-----------------------------------------------------------------------------
(***************************************************************************)
(* Properties.                                                             *)
(***************************************************************************)

\* A second request carries the token of a proposal made in the turn right
\* before it, and when it runs the history it replays holds that proposal
\* ("so it re-supplies the token"), unless that turn could not be written.
FollowUpSeesProposal ==
  posted # None =>
    /\ posted[1] = turn - 1
    /\ \E e \in executed : e.id = posted /\ e.outcome = "proposal"
    /\ posted[1] \in lost \/ \E k \in DOMAIN rows : rows[k].answers = posted

\* Every answer ends for the reader: a stream is read to its end, whatever
\* the model and the tools do and however often the request overflows.
ReadingEnds == ui = "reading" ~> ui # "reading"

\* "Its result (below) upgrades the SAME tab to the real image": once the
\* image of a call was received, its tab is no longer generating.
PlaceholderIsUpgraded ==
  \A k \in 1 .. seen :
    frames[k].event = "tool_result" /\ frames[k].outcome = "image" => frames[k].id \notin generating

=============================================================================
