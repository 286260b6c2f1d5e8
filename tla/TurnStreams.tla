----------------------------- MODULE TurnStreams -----------------------------
(***************************************************************************)
(* What a streamed turn promises, said without queues, backlogs or a       *)
(* registry.  A turn has one log of frames, which only grows and which is  *)
(* sealed by its last frame.  A watcher joins one turn, at any time, and   *)
(* receives the frames of that turn's log from the first one on, in order, *)
(* each once.  Its stream is complete only when the log is sealed and it   *)
(* has received all of it; until then it may leave.                        *)
(*                                                                         *)
(* ChatRuns implements this specification.                                 *)
(***************************************************************************)
EXTENDS Sequences, Naturals

CONSTANTS
  Turn,       \* the turns (POST /chat requests)
  Watcher,    \* the response streams that follow turns
  Frame,      \* the frames a turn may publish before its last one
  Done,       \* the frame that seals a log
  None        \* the turn of a watcher that has not joined

VARIABLES
  log,        \* log[t]: the frames turn t has published
  sealed,     \* the turns whose log is complete
  watching,   \* watching[w]: the turn that w follows, or None
  view,       \* view[w]: the frames w has received
  over        \* over[w]: "no", or how the stream of w ended

vars == <<log, sealed, watching, view, over>>

Init ==
  /\ log = [t \in Turn |-> <<>>]
  /\ sealed = {}
  /\ watching = [w \in Watcher |-> None]
  /\ view = [w \in Watcher |-> <<>>]
  /\ over = [w \in Watcher |-> "no"]

Publish(t, f) ==
  /\ t \notin sealed
  /\ log' = [log EXCEPT ![t] = Append(@, f)]
  /\ UNCHANGED <<sealed, watching, view, over>>

Seal(t) ==
  /\ t \notin sealed
  /\ log' = [log EXCEPT ![t] = Append(@, Done)]
  /\ sealed' = sealed \cup {t}
  /\ UNCHANGED <<watching, view, over>>

Join(w, t) ==
  /\ watching[w] = None
  /\ watching' = [watching EXCEPT ![w] = t]
  /\ UNCHANGED <<log, sealed, view, over>>

Receive(w) ==
  /\ watching[w] # None
  /\ over[w] = "no"
  /\ Len(view[w]) < Len(log[watching[w]])
  /\ view' = [view EXCEPT ![w] = Append(@, log[watching[w]][Len(@) + 1])]
  /\ UNCHANGED <<log, sealed, watching, over>>

Complete(w) ==
  /\ over[w] = "no"
  /\ watching[w] \in sealed
  /\ view[w] = log[watching[w]]
  /\ over' = [over EXCEPT ![w] = "complete"]
  /\ UNCHANGED <<log, sealed, watching, view>>

\* Any number of watchers leave at once: one disconnects, or the server stops.
Leave(W) ==
  /\ \A w \in W : over[w] = "no"
  /\ over' = [w \in Watcher |-> IF w \in W THEN "left" ELSE over[w]]
  /\ UNCHANGED <<log, sealed, watching, view>>

Next ==
  \/ \E t \in Turn, f \in Frame : Publish(t, f)
  \/ \E t \in Turn : Seal(t)
  \/ \E w \in Watcher, t \in Turn : Join(w, t)
  \/ \E w \in Watcher : Receive(w)
  \/ \E w \in Watcher : Complete(w)
  \/ \E W \in SUBSET Watcher : Leave(W)

Spec == Init /\ [][Next]_vars

=============================================================================
