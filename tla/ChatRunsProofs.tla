---------------------------- MODULE ChatRunsProofs ----------------------------
(***************************************************************************)
(* Proofs about ChatRuns, for any conversations, turns, pages and bounds.  *)
(***************************************************************************)
EXTENDS ChatRuns, SequenceTheorems, TLAPS

(***************************************************************************)
(* Sequences.                                                              *)
(***************************************************************************)

\* Moving the head of the right operand to the left leaves the whole.
LEMMA ConcatMoveHead ==
  ASSUME NEW S, NEW s \in Seq(S), NEW t \in Seq(S), t # <<>>
  PROVE  Append(s, Head(t)) \o Tail(t) = s \o t
OBVIOUS

\* A queue with the end mark at its head, behind frames that do not contain
\* it, holds nothing but the end mark.
LEMMA EndMarkIsLast ==
  ASSUME NEW s \in Seq(AnyFrame), NEW t \in Seq(AnyFrame),
         NEW q \in Seq(Item), q # <<>>, Head(q) = None,
         s \o q = Append(t, None)
  PROVE  s = t /\ Tail(q) = <<>>
<1>1. /\ s \in Seq(Item) /\ t \in Seq(Item)
      /\ Len(s) \in Nat /\ Len(t) \in Nat /\ Len(q) \in Nat \ {0}
  BY DEF Item
<1>0. None \notin AnyFrame /\ None \in Item
  BY ChatRunsAssumption DEF AnyFrame, Item
<1>2. /\ Len(s \o q) = Len(s) + Len(q)
      /\ (s \o q)[Len(s) + 1] = None
  BY <1>1
<1>3. \A i \in 1 .. Len(t) : Append(t, None)[i] = t[i] /\ t[i] # None
  BY <1>0, <1>1, ElementOfSeq
<1>4. Len(Append(t, None)) = Len(t) + 1
  BY <1>0, <1>1
<1>5. Len(s) = Len(t) /\ Len(q) = 1
  <2>1. Len(s) + 1 \in 1 .. Len(t) + 1
    BY <1>1, <1>2, <1>4
  <2>2. Len(s) + 1 \notin 1 .. Len(t)
    BY <1>2, <1>3
  <2>3. Len(s) + Len(q) = Len(t) + 1
    BY <1>2, <1>4
  <2>4. Len(s) + 1 = Len(t) + 1
    BY <2>1, <2>2, <1>1
  <2>5. \A a, b, c \in Nat : a + 1 = b + 1 /\ a + c = b + 1 => a = b /\ c = 1
    OBVIOUS
  <2>. QED BY <2>3, <2>4, <2>5, <1>1
<1>6. \A i \in 1 .. Len(s) : s[i] = t[i]
  <2>1. \A i \in 1 .. Len(s) : (s \o q)[i] = s[i]
    BY <1>1
  <2>. QED BY <2>1, <1>3, <1>5
<1>. QED BY <1>1, <1>5, <1>6, SeqEqual

\* A queue with the end mark at its head is no part of a sequence of frames.
LEMMA EndMarkIsForeign ==
  ASSUME NEW S, NEW n, n \notin S,
         NEW s \in Seq(S), NEW t \in Seq(S),
         NEW q \in Seq(S \cup {n}), q # <<>>, Head(q) = n,
         s \o q = t
  PROVE  FALSE
<1>1. /\ s \in Seq(S \cup {n})
      /\ Len(s) \in Nat /\ Len(q) \in Nat \ {0}
  OBVIOUS
<1>2. /\ Len(s \o q) = Len(s) + Len(q)
      /\ (s \o q)[Len(s) + 1] = n
  BY <1>1
<1>3. Len(s) + 1 \in 1 .. Len(t)
  BY <1>1, <1>2
<1>. QED BY <1>2, <1>3, ElementOfSeq

(***************************************************************************)
(* The shape of the state.                                                 *)
(***************************************************************************)

LEMMA InitTypeOK == Init => TypeOK
BY ChatRunsAssumption, EmptySeq
   DEF Init, TypeOK, Phases, StreamPcs, PagePcs, Open, AnyFrame, Item, Watcher

\* What emit does to the events and the queues keeps their types.
LEMMA EmitToType ==
  ASSUME TypeOK, NEW t \in Turn, NEW f \in AnyFrame,
         NEW items \in Seq(Item), EmitTo(t, f, items)
  PROVE  /\ events' \in [Turn -> Seq(AnyFrame)]
         /\ queue' \in [Watcher -> Seq(Item)]
         /\ Len(events'[t]) = Len(events[t]) + 1
BY DEF TypeOK, EmitTo

LEMMA TypeOKStep == TypeOK /\ [Next]_vars => TypeOK'
<1>. SUFFICES ASSUME TypeOK, [Next]_vars PROVE TypeOK'
  OBVIOUS
<1>. USE ChatRunsAssumption DEF vars, turnVars, runVars, streamVars, pageVars, history
<1>1. ASSUME NEW t \in Turn, PostNew(t) PROVE TypeOK'
  BY <1>1 DEF TypeOK, PostNew, Phases
<1>2. ASSUME NEW t \in Turn, PostGate(t) PROVE TypeOK'
  BY <1>2 DEF TypeOK, PostGate, Phases
<1>3. ASSUME NEW t \in Turn, PostAppend(t) PROVE TypeOK'
  BY <1>3 DEF TypeOK, PostAppend, Phases
<1>4. ASSUME NEW t \in Turn, PostFail(t) PROVE TypeOK'
  BY <1>4 DEF TypeOK, PostFail, Phases
<1>5. ASSUME NEW t \in Turn, Launch(t) PROVE TypeOK'
  BY <1>5 DEF TypeOK, Launch, Phases, StreamPcs, Open, Watcher
<1>6. ASSUME NEW t \in Turn, NEW f \in Frame, Emit(t, f) PROVE TypeOK'
  <2>1. f \in AnyFrame /\ <<f>> \in Seq(Item) /\ EmitTo(t, f, <<f>>)
    BY <1>6 DEF Emit, AnyFrame, Item
  <2>2. \A u \in Turn : Len(events'[u]) <=
                IF phase[u] = "done" THEN MaxFrames + 1 ELSE MaxFrames
    BY <1>6, <2>1, EmitToType DEF TypeOK, Emit, EmitTo, Live
  <2>. QED BY <1>6, <2>1, <2>2, EmitToType DEF TypeOK, Emit
<1>7. ASSUME NEW t \in Turn, FlushStart(t) PROVE TypeOK'
  BY <1>7 DEF TypeOK, FlushStart
<1>8. ASSUME NEW t \in Turn, FlushWrite(t) PROVE TypeOK'
  BY <1>8 DEF TypeOK, FlushWrite
<1>9. ASSUME NEW t \in Turn, Finish(t) PROVE TypeOK'
  <2>1. /\ Done \in AnyFrame /\ Farewell \in Seq(Item)
        /\ EmitTo(t, Done, Farewell)
    BY <1>9 DEF Finish, Farewell, AnyFrame, Item
  <2>2. \A u \in Turn : Len(events'[u]) <=
                IF phase'[u] = "done" THEN MaxFrames + 1 ELSE MaxFrames
    BY <1>9, <2>1, EmitToType DEF TypeOK, Finish, EmitTo, Live
  <2>3. /\ phase' \in [Turn -> Phases]
        /\ active' \in [Conv -> Turn \cup {None}]
    BY <1>9 DEF TypeOK, Finish, Retracted, Phases
  <2>. QED BY <1>9, <2>1, <2>2, <2>3, EmitToType DEF TypeOK, Finish
<1>10. ASSUME NEW t \in Turn, StreamBegin(t) PROVE TypeOK'
  BY <1>10 DEF TypeOK, StreamBegin, Subscribe, StreamPcs, Open, Watcher
<1>11. ASSUME NEW p \in Page, ResumeBegin(p) PROVE TypeOK'
  BY <1>11 DEF TypeOK, ResumeBegin, StreamPcs, Open, Watcher
<1>12. ASSUME NEW w \in Watcher, YieldBacklog(w) PROVE TypeOK'
  BY <1>12 DEF TypeOK, YieldBacklog
<1>13. ASSUME NEW w \in Watcher, YieldQueued(w) PROVE TypeOK'
  BY <1>13 DEF TypeOK, YieldQueued, Item
<1>14. ASSUME NEW w \in Watcher, StreamEnd(w) PROVE TypeOK'
  BY <1>14 DEF TypeOK, StreamEnd, Unsubscribe, NothingToFollow, StreamPcs, Open
<1>15. ASSUME NEW w \in Watcher, Disconnect(w) PROVE TypeOK'
  <2>1. subs' \in [Turn -> SUBSET Watcher]
    <3>1. CASE pc[w] = "streaming"
      <4>1. Unsubscribe(w)
        BY <1>15, <3>1 DEF Disconnect
      <4>2. \A t \in Turn : subs[t] \ {w} \in SUBSET Watcher
        BY DEF TypeOK
      <4>. QED BY <4>1, <4>2 DEF TypeOK, Unsubscribe
    <3>2. CASE pc[w] # "streaming"
      BY <1>15, <3>2 DEF TypeOK, Disconnect
    <3>. QED BY <3>1, <3>2
  <2>2. /\ pc' \in [Watcher -> StreamPcs \cup PagePcs]
        /\ backlog' \in [Watcher -> Seq(AnyFrame)]
        /\ queue' \in [Watcher -> Seq(Item)]
    BY <1>15, EmptySeq DEF TypeOK, Disconnect, StreamPcs
  <2>. QED BY <1>15, <2>1, <2>2 DEF TypeOK, Disconnect
<1>16. ASSUME NEW p \in Page, ReadHistory(p) PROVE TypeOK'
  BY <1>16 DEF TypeOK, ReadHistory, Replies, PagePcs, Watcher
<1>17. ASSUME NEW p \in Page, ReadFlag(p) PROVE TypeOK'
  BY <1>17 DEF TypeOK, ReadFlag, PagePcs, Watcher
<1>18. ASSUME NEW p \in Page, ResumeGate(p) PROVE TypeOK'
  BY <1>18 DEF TypeOK, ResumeGate, PagePcs, Watcher
<1>19. ASSUME NEW p \in Page, ResumeAttach(p) PROVE TypeOK'
  <2>1. CASE active[PageOf[p]] = None
    <3>1. /\ pc' = [pc EXCEPT ![p] = "notfound"]
          /\ UNCHANGED <<target, live, subs, backlog>>
          /\ UNCHANGED <<turnVars, events, active, queue, got, pageVars, history>>
      BY <1>19, <2>1 DEF ResumeAttach
    <3>2. pc' \in [Watcher -> StreamPcs \cup PagePcs]
      BY <3>1 DEF TypeOK, PagePcs
    <3>. QED BY <3>1, <3>2 DEF TypeOK
  <2>2. CASE active[PageOf[p]] # None
    <3>1. active[PageOf[p]] \in Turn /\ p \in Watcher
      BY <2>2 DEF TypeOK, Watcher
    <3>2. /\ pc' = [pc EXCEPT ![p] = "attached"]
          /\ target' = [target EXCEPT ![p] = active[PageOf[p]]]
          /\ Subscribe(p, active[PageOf[p]])
          /\ UNCHANGED <<turnVars, events, active, queue, got, pageVars, history>>
      BY <1>19, <2>2 DEF ResumeAttach
    <3>3. /\ live' \in [Watcher -> BOOLEAN]
          /\ subs' \in [Turn -> SUBSET Watcher]
          /\ backlog' \in [Watcher -> Seq(AnyFrame)]
      BY <3>1, <3>2 DEF TypeOK, Subscribe
    <3>. QED BY <3>1, <3>2, <3>3 DEF TypeOK, StreamPcs, Open
  <2>. QED BY <2>1, <2>2
<1>20. ASSUME NEW p \in Page, Refresh(p) PROVE TypeOK'
  BY <1>20 DEF TypeOK, Refresh, Replies, PagePcs, Watcher
<1>21. ASSUME NEW c \in Conv, SoftDelete(c) PROVE TypeOK'
  BY <1>21 DEF TypeOK, SoftDelete
<1>22. CASE Restart
  BY <1>22 DEF TypeOK, Restart, Phases, StreamPcs, PagePcs, Open
<1>23. CASE UNCHANGED vars
  BY <1>23 DEF TypeOK
<1>. QED
  BY <1>1, <1>2, <1>3, <1>4, <1>5, <1>6, <1>7, <1>8, <1>9, <1>10, <1>11, <1>12,
     <1>13, <1>14, <1>15, <1>16, <1>17, <1>18, <1>19, <1>20, <1>21, <1>22, <1>23
     DEF Next, PostStep, GraphStep, StreamStep, PageStep

(***************************************************************************)
(* The inductive invariant.  The properties of ChatRuns are not inductive: *)
(* they need to know which runs are over, which watchers have not begun    *)
(* and that the subscribers of a run are the watchers attached to it.      *)
(***************************************************************************)

\* A run's log ends with `done` exactly when the run is over, and a turn that
\* has not been launched has no stream yet.
PhaseInv ==
  \A t \in Turn :
    /\ phase[t] \in {"none", "gated", "admitted"} => pc[t] = "idle"
    /\ phase[t] # "done" => \A i \in 1 .. Len(events[t]) : events[t][i] # Done
    /\ phase[t] = "done" => /\ flush[t] \in {"stored", "failed"}
                            /\ events[t] # <<>>
                            /\ events[t][Len(events[t])] = Done

\* The registry holds exactly the runs in flight that were not overtaken.
RegistryInv == RegistryIsLive /\ LatestRunIsReachable

\* A watcher that has not subscribed yet.
Fresh == {"idle", "opened", "read", "told", "asking"}
Attached == {"attached", "streaming"}

FreshInv ==
  \A w \in Watcher :
    /\ pc[w] \in Fresh => /\ got[w] = <<>> /\ backlog[w] = <<>> /\ queue[w] = <<>>
                          /\ ~live[w]
    /\ pc[w] = "opened" => /\ w \in Turn /\ target[w] = w
                           /\ phase[w] \in {"running", "done"}

\* An attached watcher follows a run that is in flight, by a subscribed
\* queue, or over; and only watchers of a run are subscribed to it.
AttachInv ==
  /\ \A w \in Watcher : pc[w] \in Attached =>
       /\ target[w] \in Turn
       /\ phase[target[w]] \in {"running", "done"}
       /\ live[w] /\ phase[target[w]] = "running" => w \in subs[target[w]]
       /\ ~live[w] => phase[target[w]] = "done" /\ queue[w] = <<>>
  /\ \A t \in Turn : \A w \in subs[t] : target[w] = t /\ live[w]
  /\ \A w \in Watcher : pc[w] = "closed" => target[w] \in Turn

IInv == /\ TypeOK /\ PhaseInv /\ RegistryInv /\ FreshInv /\ AttachInv
        /\ NothingLostOrTwice /\ ClosedMeansComplete

LEMMA PhaseInvStep == TypeOK /\ PhaseInv /\ [Next]_vars => PhaseInv'
<1>. SUFFICES ASSUME TypeOK, PhaseInv, [Next]_vars PROVE PhaseInv'
  OBVIOUS
<1>. USE ChatRunsAssumption DEF vars, turnVars, runVars, streamVars, pageVars, history
<1>1. ASSUME NEW t \in Turn, PostNew(t) PROVE PhaseInv'
  BY <1>1 DEF PhaseInv, TypeOK, FlushReturned, Watcher, PostNew
<1>2. ASSUME NEW t \in Turn, PostGate(t) PROVE PhaseInv'
  BY <1>2 DEF PhaseInv, TypeOK, FlushReturned, Watcher, PostGate
<1>3. ASSUME NEW t \in Turn, PostAppend(t) PROVE PhaseInv'
  BY <1>3 DEF PhaseInv, TypeOK, FlushReturned, Watcher, PostAppend
<1>4. ASSUME NEW t \in Turn, PostFail(t) PROVE PhaseInv'
  BY <1>4 DEF PhaseInv, TypeOK, FlushReturned, Watcher, PostFail
<1>5. ASSUME NEW t \in Turn, Launch(t) PROVE PhaseInv'
  BY <1>5 DEF PhaseInv, TypeOK, FlushReturned, Watcher, Launch
<1>6. ASSUME NEW t \in Turn, NEW f \in Frame, Emit(t, f) PROVE PhaseInv'
  BY <1>6 DEF PhaseInv, TypeOK, FlushReturned, Watcher, Emit, EmitTo, Live, AnyFrame
<1>7. ASSUME NEW t \in Turn, FlushStart(t) PROVE PhaseInv'
  BY <1>7 DEF PhaseInv, TypeOK, FlushReturned, Watcher, FlushStart, Live
<1>8. ASSUME NEW t \in Turn, FlushWrite(t) PROVE PhaseInv'
  BY <1>8 DEF PhaseInv, TypeOK, FlushReturned, Watcher, FlushWrite, Live
<1>9. ASSUME NEW t \in Turn, Finish(t) PROVE PhaseInv'
  <2>1. /\ phase' = [phase EXCEPT ![t] = "done"] /\ UNCHANGED <<flush, pc>>
        /\ events' = [events EXCEPT ![t] = Append(@, Done)]
        /\ flush[t] \in {"stored", "failed"}
    BY <1>9 DEF Finish, EmitTo, FlushReturned
  <2>2. events[t] \in Seq(AnyFrame) /\ Done \in AnyFrame
    BY DEF TypeOK, AnyFrame
  <2>3. /\ Append(events[t], Done) # <<>>
        /\ Append(events[t], Done)[Len(Append(events[t], Done))] = Done
    BY <2>2
  <2>4. /\ phase'[t] = "done" /\ events'[t] = Append(events[t], Done)
        /\ \A u \in Turn : u # t => phase'[u] = phase[u] /\ events'[u] = events[u]
    BY <2>1 DEF TypeOK
  <2> QED
    BY <2>1, <2>3, <2>4 DEF PhaseInv
<1>10. ASSUME NEW t \in Turn, StreamBegin(t) PROVE PhaseInv'
  BY <1>10 DEF PhaseInv, TypeOK, FlushReturned, Watcher, StreamBegin
<1>11. ASSUME NEW p \in Page, ResumeBegin(p) PROVE PhaseInv'
  BY <1>11 DEF PhaseInv, TypeOK, FlushReturned, Watcher, ResumeBegin
<1>12. ASSUME NEW w \in Watcher, YieldBacklog(w) PROVE PhaseInv'
  BY <1>12 DEF PhaseInv, TypeOK, FlushReturned, Watcher, YieldBacklog
<1>13. ASSUME NEW w \in Watcher, YieldQueued(w) PROVE PhaseInv'
  BY <1>13 DEF PhaseInv, TypeOK, FlushReturned, Watcher, YieldQueued
<1>14. ASSUME NEW w \in Watcher, StreamEnd(w) PROVE PhaseInv'
  BY <1>14 DEF PhaseInv, TypeOK, FlushReturned, Watcher, StreamEnd
<1>15. ASSUME NEW w \in Watcher, Disconnect(w) PROVE PhaseInv'
  BY <1>15 DEF PhaseInv, TypeOK, FlushReturned, Watcher, Disconnect, Open
<1>16. ASSUME NEW p \in Page, ReadHistory(p) PROVE PhaseInv'
  BY <1>16 DEF PhaseInv, TypeOK, FlushReturned, Watcher, ReadHistory
<1>17. ASSUME NEW p \in Page, ReadFlag(p) PROVE PhaseInv'
  BY <1>17 DEF PhaseInv, TypeOK, FlushReturned, Watcher, ReadFlag
<1>18. ASSUME NEW p \in Page, ResumeGate(p) PROVE PhaseInv'
  BY <1>18 DEF PhaseInv, TypeOK, FlushReturned, Watcher, ResumeGate
<1>19. ASSUME NEW p \in Page, ResumeAttach(p) PROVE PhaseInv'
  BY <1>19 DEF PhaseInv, TypeOK, FlushReturned, Watcher, ResumeAttach
<1>20. ASSUME NEW p \in Page, Refresh(p) PROVE PhaseInv'
  BY <1>20 DEF PhaseInv, TypeOK, FlushReturned, Watcher, Refresh
<1>21. ASSUME NEW c \in Conv, SoftDelete(c) PROVE PhaseInv'
  BY <1>21 DEF PhaseInv, TypeOK, FlushReturned, Watcher, SoftDelete
<1>22. CASE Restart
  BY <1>22 DEF PhaseInv, TypeOK, FlushReturned, Watcher, Restart, Open
<1>23. CASE UNCHANGED vars
  BY <1>23 DEF PhaseInv, TypeOK, FlushReturned, Watcher
<1>. QED
  BY <1>1, <1>2, <1>3, <1>4, <1>5, <1>6, <1>7, <1>8, <1>9, <1>10, <1>11, <1>12,
     <1>13, <1>14, <1>15, <1>16, <1>17, <1>18, <1>19, <1>20, <1>21, <1>22, <1>23
     DEF Next, PostStep, GraphStep, StreamStep, PageStep

LEMMA RegistryInvStep == TypeOK /\ RegistryInv /\ [Next]_vars => RegistryInv'
<1>. SUFFICES ASSUME TypeOK, RegistryInv, [Next]_vars PROVE RegistryInv'
  OBVIOUS
<1>. USE ChatRunsAssumption DEF vars, turnVars, runVars, streamVars, pageVars, history
<1>1. ASSUME NEW t \in Turn, PostNew(t) PROVE RegistryInv'
  BY <1>1 DEF RegistryInv, RegistryIsLive, LatestRunIsReachable, Live, TypeOK, PostNew
<1>2. ASSUME NEW t \in Turn, PostGate(t) PROVE RegistryInv'
  BY <1>2 DEF RegistryInv, RegistryIsLive, LatestRunIsReachable, Live, TypeOK, PostGate
<1>3. ASSUME NEW t \in Turn, PostAppend(t) PROVE RegistryInv'
  BY <1>3 DEF RegistryInv, RegistryIsLive, LatestRunIsReachable, Live, TypeOK, PostAppend
<1>4. ASSUME NEW t \in Turn, PostFail(t) PROVE RegistryInv'
  BY <1>4 DEF RegistryInv, RegistryIsLive, LatestRunIsReachable, Live, TypeOK, PostFail
<1>5. ASSUME NEW t \in Turn, Launch(t) PROVE RegistryInv'
  BY <1>5 DEF RegistryInv, RegistryIsLive, LatestRunIsReachable, Live, TypeOK, Launch
<1>6. ASSUME NEW t \in Turn, NEW f \in Frame, Emit(t, f) PROVE RegistryInv'
  BY <1>6 DEF RegistryInv, RegistryIsLive, LatestRunIsReachable, Live, TypeOK, Emit, EmitTo
<1>7. ASSUME NEW t \in Turn, FlushStart(t) PROVE RegistryInv'
  BY <1>7 DEF RegistryInv, RegistryIsLive, LatestRunIsReachable, Live, TypeOK, FlushStart
<1>8. ASSUME NEW t \in Turn, FlushWrite(t) PROVE RegistryInv'
  BY <1>8 DEF RegistryInv, RegistryIsLive, LatestRunIsReachable, Live, TypeOK, FlushWrite
<1>9. ASSUME NEW t \in Turn, Finish(t) PROVE RegistryInv'
  BY <1>9 DEF RegistryInv, RegistryIsLive, LatestRunIsReachable, Live, TypeOK, Finish, EmitTo, Retracted
<1>10. ASSUME NEW t \in Turn, StreamBegin(t) PROVE RegistryInv'
  BY <1>10 DEF RegistryInv, RegistryIsLive, LatestRunIsReachable, Live, TypeOK, StreamBegin
<1>11. ASSUME NEW p \in Page, ResumeBegin(p) PROVE RegistryInv'
  BY <1>11 DEF RegistryInv, RegistryIsLive, LatestRunIsReachable, Live, TypeOK, ResumeBegin
<1>12. ASSUME NEW w \in Watcher, YieldBacklog(w) PROVE RegistryInv'
  BY <1>12 DEF RegistryInv, RegistryIsLive, LatestRunIsReachable, Live, TypeOK, YieldBacklog
<1>13. ASSUME NEW w \in Watcher, YieldQueued(w) PROVE RegistryInv'
  BY <1>13 DEF RegistryInv, RegistryIsLive, LatestRunIsReachable, Live, TypeOK, YieldQueued
<1>14. ASSUME NEW w \in Watcher, StreamEnd(w) PROVE RegistryInv'
  BY <1>14 DEF RegistryInv, RegistryIsLive, LatestRunIsReachable, Live, TypeOK, StreamEnd
<1>15. ASSUME NEW w \in Watcher, Disconnect(w) PROVE RegistryInv'
  BY <1>15 DEF RegistryInv, RegistryIsLive, LatestRunIsReachable, Live, TypeOK, Disconnect
<1>16. ASSUME NEW p \in Page, ReadHistory(p) PROVE RegistryInv'
  BY <1>16 DEF RegistryInv, RegistryIsLive, LatestRunIsReachable, Live, TypeOK, ReadHistory
<1>17. ASSUME NEW p \in Page, ReadFlag(p) PROVE RegistryInv'
  BY <1>17 DEF RegistryInv, RegistryIsLive, LatestRunIsReachable, Live, TypeOK, ReadFlag
<1>18. ASSUME NEW p \in Page, ResumeGate(p) PROVE RegistryInv'
  BY <1>18 DEF RegistryInv, RegistryIsLive, LatestRunIsReachable, Live, TypeOK, ResumeGate
<1>19. ASSUME NEW p \in Page, ResumeAttach(p) PROVE RegistryInv'
  BY <1>19 DEF RegistryInv, RegistryIsLive, LatestRunIsReachable, Live, TypeOK, ResumeAttach
<1>20. ASSUME NEW p \in Page, Refresh(p) PROVE RegistryInv'
  BY <1>20 DEF RegistryInv, RegistryIsLive, LatestRunIsReachable, Live, TypeOK, Refresh
<1>21. ASSUME NEW c \in Conv, SoftDelete(c) PROVE RegistryInv'
  BY <1>21 DEF RegistryInv, RegistryIsLive, LatestRunIsReachable, Live, TypeOK, SoftDelete
<1>22. CASE Restart
  BY <1>22 DEF RegistryInv, RegistryIsLive, LatestRunIsReachable, Live, TypeOK, Restart
<1>23. CASE UNCHANGED vars
  BY <1>23 DEF RegistryInv, RegistryIsLive, LatestRunIsReachable, Live, TypeOK
<1>. QED
  BY <1>1, <1>2, <1>3, <1>4, <1>5, <1>6, <1>7, <1>8, <1>9, <1>10, <1>11, <1>12,
     <1>13, <1>14, <1>15, <1>16, <1>17, <1>18, <1>19, <1>20, <1>21, <1>22, <1>23
     DEF Next, PostStep, GraphStep, StreamStep, PageStep

LEMMA FreshInvStep == TypeOK /\ PhaseInv /\ FreshInv /\ AttachInv /\ [Next]_vars => FreshInv'
<1>. SUFFICES ASSUME TypeOK, PhaseInv, FreshInv, AttachInv, [Next]_vars PROVE FreshInv'
  OBVIOUS
<1>. USE ChatRunsAssumption DEF vars, turnVars, runVars, streamVars, pageVars, history
<1>1. ASSUME NEW t \in Turn, PostNew(t) PROVE FreshInv'
  BY <1>1 DEF FreshInv, TypeOK, Fresh, Watcher, PostNew
<1>2. ASSUME NEW t \in Turn, PostGate(t) PROVE FreshInv'
  BY <1>2 DEF FreshInv, TypeOK, Fresh, Watcher, PostGate
<1>3. ASSUME NEW t \in Turn, PostAppend(t) PROVE FreshInv'
  BY <1>3 DEF FreshInv, TypeOK, Fresh, Watcher, PostAppend
<1>4. ASSUME NEW t \in Turn, PostFail(t) PROVE FreshInv'
  BY <1>4 DEF FreshInv, TypeOK, Fresh, Watcher, PostFail
<1>5. ASSUME NEW t \in Turn, Launch(t) PROVE FreshInv'
  BY <1>5 DEF FreshInv, TypeOK, Fresh, Watcher, PhaseInv, Launch
<1>6. ASSUME NEW t \in Turn, NEW f \in Frame, Emit(t, f) PROVE FreshInv'
  BY <1>6 DEF FreshInv, TypeOK, Fresh, Watcher, AttachInv, Emit, EmitTo
<1>7. ASSUME NEW t \in Turn, FlushStart(t) PROVE FreshInv'
  BY <1>7 DEF FreshInv, TypeOK, Fresh, Watcher, FlushStart
<1>8. ASSUME NEW t \in Turn, FlushWrite(t) PROVE FreshInv'
  BY <1>8 DEF FreshInv, TypeOK, Fresh, Watcher, FlushWrite
<1>9. ASSUME NEW t \in Turn, Finish(t) PROVE FreshInv'
  BY <1>9 DEF FreshInv, TypeOK, Fresh, Watcher, AttachInv, Finish, EmitTo, Live
<1>10. ASSUME NEW t \in Turn, StreamBegin(t) PROVE FreshInv'
  BY <1>10 DEF FreshInv, TypeOK, Fresh, Watcher, StreamBegin, Subscribe
<1>11. ASSUME NEW p \in Page, ResumeBegin(p) PROVE FreshInv'
  BY <1>11 DEF FreshInv, TypeOK, Fresh, Watcher, ResumeBegin
<1>12. ASSUME NEW w \in Watcher, YieldBacklog(w) PROVE FreshInv'
  BY <1>12 DEF FreshInv, TypeOK, Fresh, Watcher, YieldBacklog
<1>13. ASSUME NEW w \in Watcher, YieldQueued(w) PROVE FreshInv'
  BY <1>13 DEF FreshInv, TypeOK, Fresh, Watcher, YieldQueued
<1>14. ASSUME NEW w \in Watcher, StreamEnd(w) PROVE FreshInv'
  BY <1>14 DEF FreshInv, TypeOK, Fresh, Watcher, StreamEnd
<1>15. ASSUME NEW w \in Watcher, Disconnect(w) PROVE FreshInv'
  BY <1>15 DEF FreshInv, TypeOK, Fresh, Watcher, Disconnect, Open
<1>16. ASSUME NEW p \in Page, ReadHistory(p) PROVE FreshInv'
  BY <1>16 DEF FreshInv, TypeOK, Fresh, Watcher, ReadHistory
<1>17. ASSUME NEW p \in Page, ReadFlag(p) PROVE FreshInv'
  BY <1>17 DEF FreshInv, TypeOK, Fresh, Watcher, ReadFlag
<1>18. ASSUME NEW p \in Page, ResumeGate(p) PROVE FreshInv'
  BY <1>18 DEF FreshInv, TypeOK, Fresh, Watcher, ResumeGate
<1>19. ASSUME NEW p \in Page, ResumeAttach(p) PROVE FreshInv'
  <2>1. \A w \in Watcher : w # p => /\ live'[w] = live[w] /\ backlog'[w] = backlog[w]
                                   /\ target'[w] = target[w] /\ pc'[w] = pc[w]
    BY <1>19 DEF TypeOK, ResumeAttach, Subscribe, Watcher
  <2>2. pc'[p] \in {"notfound", "attached"}
    BY <1>19 DEF TypeOK, ResumeAttach, Watcher
  <2>. QED BY <1>19, <2>1, <2>2 DEF FreshInv, Fresh, Watcher, ResumeAttach
<1>20. ASSUME NEW p \in Page, Refresh(p) PROVE FreshInv'
  BY <1>20 DEF FreshInv, TypeOK, Fresh, Watcher, Refresh
<1>21. ASSUME NEW c \in Conv, SoftDelete(c) PROVE FreshInv'
  BY <1>21 DEF FreshInv, TypeOK, Fresh, Watcher, SoftDelete
<1>22. CASE Restart
  BY <1>22 DEF FreshInv, TypeOK, Fresh, Watcher, Restart, Open
<1>23. CASE UNCHANGED vars
  BY <1>23 DEF FreshInv, TypeOK, Fresh, Watcher
<1>. QED
  BY <1>1, <1>2, <1>3, <1>4, <1>5, <1>6, <1>7, <1>8, <1>9, <1>10, <1>11, <1>12,
     <1>13, <1>14, <1>15, <1>16, <1>17, <1>18, <1>19, <1>20, <1>21, <1>22, <1>23
     DEF Next, PostStep, GraphStep, StreamStep, PageStep

\* What _subscribe does, pointwise.
SubscribedTo(w, t) ==
  /\ live'[w] = (phase[t] # "done") /\ backlog'[w] = events[t]
  /\ subs'[t] = IF phase[t] = "done" THEN subs[t] ELSE subs[t] \cup {w}
  /\ \A v \in Watcher : v # w => live'[v] = live[v] /\ backlog'[v] = backlog[v]
  /\ \A u \in Turn : u # t => subs'[u] = subs[u]

LEMMA SubscribeEffect ==
  ASSUME TypeOK, NEW w \in Watcher, NEW t \in Turn, Subscribe(w, t)
  PROVE  SubscribedTo(w, t)
BY DEF TypeOK, Subscribe, SubscribedTo

\* A watcher that subscribes to a run, and is attached to it in the same step,
\* keeps the invariant.
LEMMA AttachKeepsAttachInv ==
  ASSUME TypeOK, AttachInv, NEW w \in Watcher, NEW t \in Turn,
         phase[t] \in {"running", "done"}, ~live[w], queue[w] = <<>>,
         SubscribedTo(w, t), pc'[w] \in Attached, target'[w] = t,
         \A v \in Watcher : v # w => pc'[v] = pc[v] /\ target'[v] = target[v],
         phase' = phase, queue' = queue
  PROVE  AttachInv'
<1>1. ASSUME NEW u \in Turn PROVE w \notin subs[u]
  BY DEF AttachInv
<1>2. ASSUME NEW v \in Watcher, pc'[v] \in Attached
      PROVE  /\ target'[v] \in Turn
             /\ phase'[target'[v]] \in {"running", "done"}
             /\ live'[v] /\ phase'[target'[v]] = "running" => v \in subs'[target'[v]]
             /\ ~live'[v] => phase'[target'[v]] = "done" /\ queue'[v] = <<>>
  <2>1. CASE v = w
    BY <2>1 DEF SubscribedTo
  <2>2. CASE v # w
    <3>1. /\ pc[v] \in Attached /\ target'[v] = target[v] /\ live'[v] = live[v]
          /\ target[v] \in Turn
      BY <1>2, <2>2 DEF SubscribedTo, AttachInv
    <3>2. v \in subs[target[v]] => v \in subs'[target[v]]
      BY <3>1 DEF SubscribedTo
    <3>. QED BY <3>1, <3>2 DEF AttachInv
  <2>. QED BY <2>1, <2>2
<1>3. ASSUME NEW u \in Turn, NEW v \in subs'[u]
      PROVE  target'[v] = u /\ live'[v]
  <2>1. CASE v = w
    <3>1. u = t
      BY <1>1, <1>3, <2>1 DEF SubscribedTo
    <3>2. phase[t] # "done"
      BY <1>1, <1>3, <2>1, <3>1 DEF SubscribedTo
    <3>. QED BY <2>1, <3>1, <3>2 DEF SubscribedTo
  <2>2. CASE v # w
    <3>1. v \in subs[u]
      BY <1>3, <2>2 DEF SubscribedTo
    <3>2. v \in Watcher
      BY <3>1 DEF TypeOK
    <3>. QED BY <2>2, <3>1, <3>2 DEF SubscribedTo, AttachInv
  <2>. QED BY <2>1, <2>2
<1>4. ASSUME NEW v \in Watcher, pc'[v] = "closed" PROVE target'[v] \in Turn
  BY <1>4 DEF AttachInv, Attached
<1>. QED BY <1>2, <1>3, <1>4 DEF AttachInv

LEMMA AttachInvStep == TypeOK /\ PhaseInv /\ RegistryInv /\ FreshInv /\ AttachInv /\ [Next]_vars => AttachInv'
<1>. SUFFICES ASSUME TypeOK, PhaseInv, RegistryInv, FreshInv, AttachInv, [Next]_vars PROVE AttachInv'
  OBVIOUS
<1>. USE ChatRunsAssumption DEF vars, turnVars, runVars, streamVars, pageVars, history
<1>1. ASSUME NEW t \in Turn, PostNew(t) PROVE AttachInv'
  BY <1>1 DEF AttachInv, Attached, TypeOK, Watcher, PostNew
<1>2. ASSUME NEW t \in Turn, PostGate(t) PROVE AttachInv'
  BY <1>2 DEF AttachInv, Attached, TypeOK, Watcher, PostGate
<1>3. ASSUME NEW t \in Turn, PostAppend(t) PROVE AttachInv'
  BY <1>3 DEF AttachInv, Attached, TypeOK, Watcher, PostAppend
<1>4. ASSUME NEW t \in Turn, PostFail(t) PROVE AttachInv'
  BY <1>4 DEF AttachInv, Attached, TypeOK, Watcher, PostFail
<1>5. ASSUME NEW t \in Turn, Launch(t) PROVE AttachInv'
  <2>1. pc[t] = "idle" /\ ~live[t] /\ t \in Watcher
    BY <1>5 DEF PhaseInv, FreshInv, Fresh, Launch, Watcher
  <2>2. \A w \in Watcher : w # t => target'[w] = target[w] /\ pc'[w] = pc[w]
    BY <1>5 DEF TypeOK, Launch
  <2>3. pc'[t] \in {"opened", "gone"}
    BY <1>5, <2>1 DEF TypeOK, Launch
  <2>. QED BY <1>5, <2>1, <2>2, <2>3 DEF AttachInv, Attached, TypeOK, Launch
<1>6. ASSUME NEW t \in Turn, NEW f \in Frame, Emit(t, f) PROVE AttachInv'
  <2>1. \A w \in Watcher : w \notin subs[t] => queue'[w] = queue[w]
    BY <1>6 DEF TypeOK, Emit, EmitTo
  <2>2. \A w \in Watcher : pc[w] \in Attached /\ ~live[w] => w \notin subs[t]
    BY DEF AttachInv
  <2>. QED BY <1>6, <2>1, <2>2 DEF AttachInv, Attached, TypeOK, Watcher, Emit
<1>7. ASSUME NEW t \in Turn, FlushStart(t) PROVE AttachInv'
  BY <1>7 DEF AttachInv, Attached, TypeOK, Watcher, FlushStart
<1>8. ASSUME NEW t \in Turn, FlushWrite(t) PROVE AttachInv'
  BY <1>8 DEF AttachInv, Attached, TypeOK, Watcher, FlushWrite
<1>9. ASSUME NEW t \in Turn, Finish(t) PROVE AttachInv'
  <2>1. \A w \in Watcher : w \notin subs[t] => queue'[w] = queue[w]
    BY <1>9 DEF TypeOK, Finish, EmitTo
  <2>2. \A w \in Watcher : pc[w] \in Attached /\ ~live[w] => w \notin subs[t]
    BY DEF AttachInv
  <2>. QED BY <1>9, <2>1, <2>2 DEF AttachInv, Attached, TypeOK, Watcher, Finish, Live
<1>10. ASSUME NEW t \in Turn, StreamBegin(t) PROVE AttachInv'
  <2>1. /\ target[t] = t /\ phase[t] \in {"running", "done"} /\ queue[t] = <<>>
        /\ t \in Watcher
    BY <1>10 DEF FreshInv, Fresh, StreamBegin, Watcher
  <2>2. SubscribedTo(t, t)
    BY <1>10, <2>1, SubscribeEffect DEF StreamBegin
  <2>3. \A w \in Watcher : w # t => pc'[w] = pc[w]
    BY <1>10 DEF TypeOK, StreamBegin
  <2>4. /\ pc'[t] \in Attached /\ target'[t] = t /\ ~live[t]
        /\ phase' = phase /\ queue' = queue /\ target' = target
    BY <1>10, <2>1 DEF TypeOK, StreamBegin, FreshInv, Fresh, Attached
  <2>. QED BY <2>1, <2>2, <2>3, <2>4, AttachKeepsAttachInv
<1>11. ASSUME NEW p \in Page, ResumeBegin(p) PROVE AttachInv'
  BY <1>11 DEF AttachInv, Attached, TypeOK, Watcher, ResumeBegin
<1>12. ASSUME NEW w \in Watcher, YieldBacklog(w) PROVE AttachInv'
  BY <1>12 DEF AttachInv, Attached, TypeOK, Watcher, YieldBacklog
<1>13. ASSUME NEW w \in Watcher, YieldQueued(w) PROVE AttachInv'
  BY <1>13 DEF AttachInv, Attached, TypeOK, Watcher, YieldQueued
<1>14. ASSUME NEW w \in Watcher, StreamEnd(w) PROVE AttachInv'
  BY <1>14 DEF AttachInv, Attached, TypeOK, Watcher, StreamEnd, Unsubscribe
<1>15. ASSUME NEW w \in Watcher, Disconnect(w) PROVE AttachInv'
  <2>1. CASE pc[w] = "streaming"
    <3>1. Unsubscribe(w)
      BY <1>15, <2>1 DEF Disconnect
    <3>. QED BY <1>15, <3>1 DEF AttachInv, Attached, TypeOK, Watcher, Disconnect, Unsubscribe
  <2>2. CASE pc[w] # "streaming"
    BY <1>15, <2>2 DEF AttachInv, Attached, TypeOK, Watcher, Disconnect
  <2>. QED BY <2>1, <2>2
<1>16. ASSUME NEW p \in Page, ReadHistory(p) PROVE AttachInv'
  BY <1>16 DEF AttachInv, Attached, TypeOK, Watcher, ReadHistory
<1>17. ASSUME NEW p \in Page, ReadFlag(p) PROVE AttachInv'
  BY <1>17 DEF AttachInv, Attached, TypeOK, Watcher, ReadFlag
<1>18. ASSUME NEW p \in Page, ResumeGate(p) PROVE AttachInv'
  BY <1>18 DEF AttachInv, Attached, TypeOK, Watcher, ResumeGate
<1>19. ASSUME NEW p \in Page, ResumeAttach(p) PROVE AttachInv'
  <2>1. CASE active[PageOf[p]] = None
    BY <1>19, <2>1 DEF AttachInv, Attached, TypeOK, Watcher, ResumeAttach
  <2>2. CASE active[PageOf[p]] # None
    <3>1. active[PageOf[p]] \in Turn /\ p \in Watcher
      BY <2>2 DEF TypeOK, Watcher
    <3>2. /\ pc' = [pc EXCEPT ![p] = "attached"]
          /\ target' = [target EXCEPT ![p] = active[PageOf[p]]]
          /\ Subscribe(p, active[PageOf[p]])
          /\ UNCHANGED <<turnVars, events, active, queue, got, pageVars, history>>
      BY <1>19, <2>2 DEF ResumeAttach
    <3>3. phase[active[PageOf[p]]] = "running"
      BY <2>2 DEF RegistryInv, RegistryIsLive, Live
    <3>4. queue[p] = <<>> /\ pc[p] \in Fresh
      BY <1>19, <3>1 DEF FreshInv, Fresh, ResumeAttach
    <3>5. SubscribedTo(p, active[PageOf[p]])
      BY <3>1, <3>2, <3>3, SubscribeEffect
    <3>6. \A w \in Watcher : w # p => pc'[w] = pc[w] /\ target'[w] = target[w]
      BY <3>2 DEF TypeOK
    <3>7. target'[p] = active[PageOf[p]] /\ ~live[p]
      BY <3>1, <3>2, <3>4 DEF TypeOK, FreshInv
    <3>8. pc'[p] \in Attached /\ phase' = phase /\ queue' = queue
      BY <3>1, <3>2 DEF TypeOK, Attached
    <3>. QED BY <3>1, <3>3, <3>4, <3>5, <3>6, <3>7, <3>8, AttachKeepsAttachInv
  <2>. QED BY <2>1, <2>2
<1>20. ASSUME NEW p \in Page, Refresh(p) PROVE AttachInv'
  BY <1>20 DEF AttachInv, Attached, TypeOK, Watcher, Refresh
<1>21. ASSUME NEW c \in Conv, SoftDelete(c) PROVE AttachInv'
  BY <1>21 DEF AttachInv, Attached, TypeOK, Watcher, SoftDelete
<1>22. CASE Restart
  BY <1>22 DEF AttachInv, Attached, TypeOK, Watcher, Restart, Open
<1>23. CASE UNCHANGED vars
  BY <1>23 DEF AttachInv, Attached, TypeOK, Watcher
<1>. QED
  BY <1>1, <1>2, <1>3, <1>4, <1>5, <1>6, <1>7, <1>8, <1>9, <1>10, <1>11, <1>12,
     <1>13, <1>14, <1>15, <1>16, <1>17, <1>18, <1>19, <1>20, <1>21, <1>22, <1>23
     DEF Next, PostStep, GraphStep, StreamStep, PageStep

(***************************************************************************)
(* Delivery: what a watcher has, will replay and has queued is its run's   *)
(* log.                                                                    *)
(***************************************************************************)

Whole(w) == (got[w] \o backlog[w]) \o queue[w]

\* Items put on the queue of a watcher extend the whole.
LEMMA WholeGrows ==
  ASSUME TypeOK, NEW w \in Watcher, got' = got, backlog' = backlog
  PROVE  /\ \A e \in Item : queue'[w] = queue[w] \o <<e>>
                              => Whole(w)' = Append(Whole(w), e)
         /\ \A e, f \in Item : queue'[w] = queue[w] \o <<e, f>>
                              => Whole(w)' = Append(Append(Whole(w), e), f)
<1> DEFINE seen == got[w] \o backlog[w]
<1>1. seen \in Seq(Item) /\ queue[w] \in Seq(Item)
  BY DEF TypeOK, Item
<1>2. Whole(w) = seen \o queue[w] /\ Whole(w)' = seen \o queue'[w]
  BY DEF Whole
<1> HIDE DEF seen
<1>3. \A q \in Seq(Item), e \in Item : seen \o Append(q, e) = Append(seen \o q, e)
  BY <1>1
<1>4. ASSUME NEW e \in Item, queue'[w] = queue[w] \o <<e>>
      PROVE  Whole(w)' = Append(Whole(w), e)
  <2>1. queue'[w] = Append(queue[w], e)
    BY <1>1, <1>4
  <2>. QED BY <1>1, <1>2, <1>3, <2>1
<1>5. ASSUME NEW e \in Item, NEW f \in Item, queue'[w] = queue[w] \o <<e, f>>
      PROVE  Whole(w)' = Append(Append(Whole(w), e), f)
  <2>1. /\ queue'[w] = Append(Append(queue[w], e), f)
        /\ Append(queue[w], e) \in Seq(Item)
    BY <1>1, <1>5
  <2>. QED BY <1>1, <1>2, <1>3, <2>1
<1>. QED BY <1>4, <1>5

\* A watcher that has just subscribed is owed its backlog.
LEMMA WholeAtStart ==
  ASSUME TypeOK, NEW w \in Watcher, NEW t \in Turn, SubscribedTo(w, t),
         target'[w] = t, queue[w] = <<>>, got[w] = <<>>,
         UNCHANGED <<queue, got, phase, events>>
  PROVE  Whole(w)' = Owed(w)'
<1>1. events[t] \in Seq(AnyFrame)
  BY DEF TypeOK
<1>2. <<>> \o events[t] = events[t] /\ events[t] \o <<>> = events[t]
  BY <1>1, ConcatEmptySeq
<1>. QED BY <1>2 DEF Whole, Owed, SubscribedTo

\* Every step keeps the logs whole.
LEMMA NothingLostStep == TypeOK /\ PhaseInv /\ RegistryInv /\ FreshInv /\ AttachInv /\ NothingLostOrTwice
                         /\ [Next]_vars => NothingLostOrTwice'
<1>. SUFFICES ASSUME TypeOK, PhaseInv, RegistryInv, FreshInv, AttachInv, NothingLostOrTwice, [Next]_vars PROVE NothingLostOrTwice'
  OBVIOUS
<1>. USE ChatRunsAssumption DEF vars, turnVars, runVars, streamVars, pageVars, history
<1>1. ASSUME NEW t \in Turn, PostNew(t) PROVE NothingLostOrTwice'
  BY <1>1 DEF NothingLostOrTwice, Owed, TypeOK, Watcher, Attached, AttachInv, PostNew
<1>2. ASSUME NEW t \in Turn, PostGate(t) PROVE NothingLostOrTwice'
  BY <1>2 DEF NothingLostOrTwice, Owed, TypeOK, Watcher, Attached, AttachInv, PostGate
<1>3. ASSUME NEW t \in Turn, PostAppend(t) PROVE NothingLostOrTwice'
  BY <1>3 DEF NothingLostOrTwice, Owed, TypeOK, Watcher, Attached, AttachInv, PostAppend
<1>4. ASSUME NEW t \in Turn, PostFail(t) PROVE NothingLostOrTwice'
  BY <1>4 DEF NothingLostOrTwice, Owed, TypeOK, Watcher, Attached, AttachInv, PostFail
<1>5. ASSUME NEW t \in Turn, Launch(t) PROVE NothingLostOrTwice'
  <2>1. pc[t] = "idle" /\ pc' = [pc EXCEPT ![t] = IF t \in Stays THEN "opened" ELSE "gone"]
    BY <1>5 DEF PhaseInv, Launch
  <2>2. \A w \in Watcher : pc'[w] \in Attached => w # t /\ pc[w] \in Attached /\ target[w] \in Turn
    BY <2>1 DEF TypeOK, Attached, AttachInv
  <2>. QED BY <1>5, <2>2 DEF NothingLostOrTwice, Owed, Attached, TypeOK, Launch
<1>6. ASSUME NEW t \in Turn, NEW f \in Frame, Emit(t, f) PROVE NothingLostOrTwice'
  <2>1. f \in AnyFrame /\ f \in Item /\ EmitTo(t, f, <<f>>) /\ phase' = phase
        /\ phase[t] = "running"
    BY <1>6 DEF Emit, AnyFrame, Item, Live
  <2>2. ASSUME NEW w \in Watcher, pc[w] \in Attached PROVE Whole(w)' = Owed(w)'
    <3>1. CASE target[w] # t
      <4>1. w \notin subs[t] /\ target[w] \in Turn
        BY <2>2, <3>1 DEF AttachInv
      <4>. QED BY <1>6, <2>1, <2>2, <3>1, <4>1 DEF NothingLostOrTwice, Whole, Owed, Attached, TypeOK, Emit, EmitTo
    <3>2. CASE target[w] = t
      <4>1. w \in subs[t]
        BY <2>1, <2>2, <3>2 DEF AttachInv
      <4>2. queue'[w] = queue[w] \o <<f>> /\ events'[t] = Append(events[t], f)
        BY <2>1, <4>1 DEF TypeOK, EmitTo
      <4>3. Whole(w)' = Append(Whole(w), f)
        BY <1>6, <2>1, <4>2, WholeGrows DEF Emit
      <4>4. Whole(w) = events[t]
        BY <2>1, <2>2, <3>2 DEF NothingLostOrTwice, Whole, Owed, Attached
      <4>5. Owed(w)' = events'[t]
        BY <1>6, <2>1, <3>2 DEF Owed, Emit
      <4>. QED BY <4>2, <4>3, <4>4, <4>5
    <3>. QED BY <3>1, <3>2
  <2>. QED BY <1>6, <2>2 DEF NothingLostOrTwice, Whole, Attached, Emit
<1>7. ASSUME NEW t \in Turn, FlushStart(t) PROVE NothingLostOrTwice'
  BY <1>7 DEF NothingLostOrTwice, Owed, TypeOK, Watcher, FlushStart
<1>8. ASSUME NEW t \in Turn, FlushWrite(t) PROVE NothingLostOrTwice'
  BY <1>8 DEF NothingLostOrTwice, Owed, TypeOK, Watcher, FlushWrite
<1>9. ASSUME NEW t \in Turn, Finish(t) PROVE NothingLostOrTwice'
  <2>1. EmitTo(t, Done, <<Done, None>>) /\ phase[t] = "running" /\ phase'[t] = "done"
        /\ \A u \in Turn : u # t => phase'[u] = phase[u]
    BY <1>9 DEF TypeOK, Finish, Farewell, Live
  <2>2. ASSUME NEW w \in Watcher, pc[w] \in Attached PROVE Whole(w)' = Owed(w)'
    <3>1. CASE target[w] # t
      <4>1. w \notin subs[t] /\ target[w] \in Turn
        BY <2>2, <3>1 DEF AttachInv
      <4>2. /\ queue'[w] = queue[w] /\ events'[target[w]] = events[target[w]]
            /\ phase'[target[w]] = phase[target[w]]
            /\ UNCHANGED <<got, backlog, target, live>>
        BY <1>9, <2>1, <3>1, <4>1 DEF TypeOK, Finish, EmitTo
      <4>. QED BY <2>2, <4>2 DEF NothingLostOrTwice, Whole, Owed, Attached
    <3>2. CASE target[w] = t
      <4>1. w \in subs[t] /\ live[w]
        BY <2>1, <2>2, <3>2 DEF AttachInv
      <4>2. queue'[w] = queue[w] \o <<Done, None>> /\ events'[t] = Append(events[t], Done)
        BY <2>1, <4>1 DEF TypeOK, EmitTo
      <4>3. Whole(w)' = Append(Append(Whole(w), Done), None)
        BY <1>9, <4>2, WholeGrows DEF Finish, Item, AnyFrame
      <4>4. Whole(w) = events[t]
        BY <2>1, <2>2, <3>2 DEF NothingLostOrTwice, Whole, Owed, Attached
      <4>5. Owed(w)' = Append(events'[t], None)
        BY <1>9, <2>1, <3>2, <4>1 DEF Owed, Finish
      <4>. QED BY <4>2, <4>3, <4>4, <4>5
    <3>. QED BY <3>1, <3>2
  <2>. QED BY <1>9, <2>2 DEF NothingLostOrTwice, Whole, Attached, Finish
<1>10. ASSUME NEW t \in Turn, StreamBegin(t) PROVE NothingLostOrTwice'
  <2>1. /\ target[t] = t /\ queue[t] = <<>> /\ got[t] = <<>> /\ t \in Watcher
    BY <1>10 DEF FreshInv, Fresh, StreamBegin, Watcher
  <2>2. SubscribedTo(t, t) /\ UNCHANGED <<target, queue, got, phase, events>>
    BY <1>10, <2>1, SubscribeEffect DEF StreamBegin
  <2>3. Whole(t)' = Owed(t)'
    BY <2>1, <2>2, WholeAtStart
  <2>4. \A w \in Watcher : w # t => pc'[w] = pc[w]
    BY <1>10 DEF TypeOK, StreamBegin
  <2>5. \A w \in Watcher : w # t => Whole(w)' = Whole(w) /\ Owed(w)' = Owed(w)
    BY <2>2 DEF Whole, Owed, SubscribedTo
  <2>. QED BY <2>3, <2>4, <2>5 DEF NothingLostOrTwice, Whole
<1>11. ASSUME NEW p \in Page, ResumeBegin(p) PROVE NothingLostOrTwice'
  BY <1>11 DEF NothingLostOrTwice, Owed, TypeOK, Watcher, ResumeBegin
<1>12. ASSUME NEW w \in Watcher, YieldBacklog(w) PROVE NothingLostOrTwice'
  <2>1. /\ got'[w] = Append(got[w], Head(backlog[w])) /\ backlog'[w] = Tail(backlog[w])
        /\ \A v \in Watcher : v # w => got'[v] = got[v] /\ backlog'[v] = backlog[v]
    BY <1>12 DEF TypeOK, YieldBacklog
  <2>2. got'[w] \o backlog'[w] = got[w] \o backlog[w]
    BY <1>12, <2>1, ConcatMoveHead DEF TypeOK, YieldBacklog
  <2>3. \A v \in Watcher : Whole(v)' = Whole(v) /\ Owed(v)' = Owed(v)
    BY <1>12, <2>1, <2>2 DEF Whole, Owed, YieldBacklog
  <2>. QED BY <1>12, <2>3 DEF NothingLostOrTwice, Whole, YieldBacklog
<1>13. ASSUME NEW w \in Watcher, YieldQueued(w) PROVE NothingLostOrTwice'
  <2>1. /\ got'[w] = Append(got[w], Head(queue[w])) /\ queue'[w] = Tail(queue[w])
        /\ \A v \in Watcher : v # w => got'[v] = got[v] /\ queue'[v] = queue[v]
    BY <1>13 DEF TypeOK, YieldQueued
  <2>2. /\ got[w] \in Seq(Item) /\ got'[w] \in Seq(Item) /\ queue[w] \in Seq(Item)
        /\ queue[w] # <<>>
    BY <1>13, <2>1 DEF TypeOK, Item, YieldQueued
  <2>3. got[w] \o <<>> = got[w] /\ got'[w] \o <<>> = got'[w]
    BY <2>2, ConcatEmptySeq
  <2>4. Append(got[w], Head(queue[w])) \o Tail(queue[w]) = got[w] \o queue[w]
    BY <2>2, ConcatMoveHead
  <2>5. \A v \in Watcher : Whole(v)' = Whole(v) /\ Owed(v)' = Owed(v)
    BY <1>13, <2>1, <2>3, <2>4 DEF Whole, Owed, YieldQueued
  <2>. QED BY <1>13, <2>5 DEF NothingLostOrTwice, Whole, YieldQueued
<1>14. ASSUME NEW w \in Watcher, StreamEnd(w) PROVE NothingLostOrTwice'
  <2>1. /\ pc'[w] = "closed"
        /\ \A v \in Watcher : v # w => pc'[v] = pc[v] /\ queue'[v] = queue[v]
        /\ UNCHANGED <<got, backlog, events, target>>
    BY <1>14 DEF TypeOK, StreamEnd
  <2>2. UNCHANGED <<live, phase>>
    BY <1>14 DEF StreamEnd, turnVars
  <2>3. \A v \in Watcher : Owed(v)' = Owed(v)
    BY <2>1, <2>2 DEF Owed
  <2>. QED BY <2>1, <2>3 DEF NothingLostOrTwice
<1>15. ASSUME NEW w \in Watcher, Disconnect(w) PROVE NothingLostOrTwice'
  <2>1. /\ pc' = [pc EXCEPT ![w] = "gone"]
        /\ \A v \in Watcher : v # w => queue'[v] = queue[v] /\ backlog'[v] = backlog[v]
    BY <1>15 DEF TypeOK, Disconnect
  <2>2. UNCHANGED <<phase, events, target, live, got>>
    BY <1>15 DEF Disconnect
  <2>3. pc'[w] = "gone" /\ \A v \in Watcher : v # w => pc'[v] = pc[v]
    BY <2>1 DEF TypeOK
  <2>4. \A v \in Watcher : Owed(v)' = Owed(v)
    BY <2>2 DEF Owed
  <2>. QED BY <2>1, <2>2, <2>3, <2>4 DEF NothingLostOrTwice
<1>16. ASSUME NEW p \in Page, ReadHistory(p) PROVE NothingLostOrTwice'
  BY <1>16 DEF NothingLostOrTwice, Owed, TypeOK, Watcher, ReadHistory
<1>17. ASSUME NEW p \in Page, ReadFlag(p) PROVE NothingLostOrTwice'
  BY <1>17 DEF NothingLostOrTwice, Owed, TypeOK, Watcher, ReadFlag
<1>18. ASSUME NEW p \in Page, ResumeGate(p) PROVE NothingLostOrTwice'
  BY <1>18 DEF NothingLostOrTwice, Owed, TypeOK, Watcher, ResumeGate
<1>19. ASSUME NEW p \in Page, ResumeAttach(p) PROVE NothingLostOrTwice'
  <2>0. pc[p] = "asking" /\ p \in Watcher
    BY <1>19 DEF ResumeAttach, Watcher
  <2>1. CASE active[PageOf[p]] = None
    <3>1. pc' = [pc EXCEPT ![p] = "notfound"] /\ UNCHANGED <<target, live, backlog>>
      BY <1>19, <2>1 DEF ResumeAttach
    <3>. QED BY <1>19, <2>0, <3>1 DEF NothingLostOrTwice, Owed, TypeOK, ResumeAttach
  <2>2. CASE active[PageOf[p]] # None
    <3> DEFINE run == active[PageOf[p]]
    <3>1. run \in Turn /\ phase[run] = "running"
      BY <2>2 DEF TypeOK, RegistryInv, RegistryIsLive, Live
    <3>2. /\ pc' = [pc EXCEPT ![p] = "attached"]
          /\ target' = [target EXCEPT ![p] = run]
          /\ Subscribe(p, run)
          /\ UNCHANGED <<phase, events, queue, got>>
      BY <1>19, <2>2 DEF ResumeAttach
    <3>3. SubscribedTo(p, run)
      BY <2>0, <3>1, <3>2, SubscribeEffect
    <3>4. /\ target'[p] = run /\ queue[p] = <<>> /\ got[p] = <<>>
          /\ \A w \in Watcher : w # p => pc'[w] = pc[w] /\ target'[w] = target[w]
      BY <2>0, <3>2 DEF TypeOK, FreshInv, Fresh
    <3>5. Whole(p)' = Owed(p)'
      BY <2>0, <3>1, <3>2, <3>3, <3>4, WholeAtStart
    <3>6. \A w \in Watcher : w # p => Whole(w)' = Whole(w) /\ Owed(w)' = Owed(w)
      <4>1. ASSUME NEW w \in Watcher, w # p
            PROVE  Whole(w)' = Whole(w) /\ Owed(w)' = Owed(w)
        <5>1. target'[w] = target[w] /\ live'[w] = live[w] /\ backlog'[w] = backlog[w]
          BY <3>3, <3>4, <4>1 DEF SubscribedTo
        <5>2. UNCHANGED <<phase, events, queue, got>>
          BY <3>2
        <5>. QED BY <5>1, <5>2 DEF Whole, Owed
      <4>. QED BY <4>1
    <3>. QED BY <3>4, <3>5, <3>6 DEF NothingLostOrTwice, Whole
  <2>. QED BY <2>1, <2>2
<1>20. ASSUME NEW p \in Page, Refresh(p) PROVE NothingLostOrTwice'
  BY <1>20 DEF NothingLostOrTwice, Owed, TypeOK, Watcher, Refresh
<1>21. ASSUME NEW c \in Conv, SoftDelete(c) PROVE NothingLostOrTwice'
  BY <1>21 DEF NothingLostOrTwice, Owed, TypeOK, Watcher, SoftDelete
<1>22. CASE Restart
  BY <1>22 DEF NothingLostOrTwice, Owed, TypeOK, Watcher, Attached, AttachInv, Restart, Open
<1>23. CASE UNCHANGED vars
  BY <1>23 DEF NothingLostOrTwice, Owed, TypeOK, Watcher
<1>. QED
  BY <1>1, <1>2, <1>3, <1>4, <1>5, <1>6, <1>7, <1>8, <1>9, <1>10, <1>11, <1>12,
     <1>13, <1>14, <1>15, <1>16, <1>17, <1>18, <1>19, <1>20, <1>21, <1>22, <1>23
     DEF Next, PostStep, GraphStep, StreamStep, PageStep

\* A stream that ends has delivered its run's log to the end.
LEMMA ClosedStep == TypeOK /\ PhaseInv /\ FreshInv /\ AttachInv /\ NothingLostOrTwice /\ ClosedMeansComplete
                    /\ [Next]_vars => ClosedMeansComplete'
<1>. SUFFICES ASSUME TypeOK, PhaseInv, FreshInv, AttachInv, NothingLostOrTwice, ClosedMeansComplete, [Next]_vars PROVE ClosedMeansComplete'
  OBVIOUS
<1>. USE ChatRunsAssumption DEF vars, turnVars, runVars, streamVars, pageVars, history
<1>1. ASSUME NEW t \in Turn, PostNew(t) PROVE ClosedMeansComplete'
  BY <1>1 DEF ClosedMeansComplete, AttachInv, TypeOK, Watcher, PostNew
<1>2. ASSUME NEW t \in Turn, PostGate(t) PROVE ClosedMeansComplete'
  BY <1>2 DEF ClosedMeansComplete, AttachInv, TypeOK, Watcher, PostGate
<1>3. ASSUME NEW t \in Turn, PostAppend(t) PROVE ClosedMeansComplete'
  BY <1>3 DEF ClosedMeansComplete, AttachInv, TypeOK, Watcher, PostAppend
<1>4. ASSUME NEW t \in Turn, PostFail(t) PROVE ClosedMeansComplete'
  BY <1>4 DEF ClosedMeansComplete, AttachInv, TypeOK, Watcher, PostFail
<1>5. ASSUME NEW t \in Turn, Launch(t) PROVE ClosedMeansComplete'
  <2>1. /\ pc[t] = "idle" /\ pc' = [pc EXCEPT ![t] = IF t \in Stays THEN "opened" ELSE "gone"]
        /\ phase[t] # "done" /\ \A u \in Turn : u # t => phase'[u] = phase[u]
    BY <1>5 DEF PhaseInv, TypeOK, Launch
  <2>2. \A w \in Watcher : pc'[w] = "closed" => w # t /\ pc[w] = "closed" /\ target'[w] = target[w]
    BY <1>5, <2>1 DEF TypeOK, Launch
  <2>. QED BY <1>5, <2>1, <2>2 DEF ClosedMeansComplete, AttachInv, Launch
<1>6. ASSUME NEW t \in Turn, NEW f \in Frame, Emit(t, f) PROVE ClosedMeansComplete'
  BY <1>6 DEF ClosedMeansComplete, AttachInv, TypeOK, Watcher, Emit, EmitTo, Live
<1>7. ASSUME NEW t \in Turn, FlushStart(t) PROVE ClosedMeansComplete'
  BY <1>7 DEF ClosedMeansComplete, AttachInv, TypeOK, Watcher, FlushStart
<1>8. ASSUME NEW t \in Turn, FlushWrite(t) PROVE ClosedMeansComplete'
  BY <1>8 DEF ClosedMeansComplete, AttachInv, TypeOK, Watcher, FlushWrite
<1>9. ASSUME NEW t \in Turn, Finish(t) PROVE ClosedMeansComplete'
  BY <1>9 DEF ClosedMeansComplete, AttachInv, TypeOK, Watcher, Finish, EmitTo, Live
<1>10. ASSUME NEW t \in Turn, StreamBegin(t) PROVE ClosedMeansComplete'
  <2>1. \A w \in Watcher : pc'[w] = "closed" => pc[w] = "closed"
    BY <1>10 DEF TypeOK, StreamBegin
  <2>. QED BY <1>10, <2>1 DEF ClosedMeansComplete, StreamBegin
<1>11. ASSUME NEW p \in Page, ResumeBegin(p) PROVE ClosedMeansComplete'
  BY <1>11 DEF ClosedMeansComplete, AttachInv, TypeOK, Watcher, ResumeBegin
<1>12. ASSUME NEW w \in Watcher, YieldBacklog(w) PROVE ClosedMeansComplete'
  BY <1>12 DEF ClosedMeansComplete, AttachInv, TypeOK, Watcher, YieldBacklog
<1>13. ASSUME NEW w \in Watcher, YieldQueued(w) PROVE ClosedMeansComplete'
  BY <1>13 DEF ClosedMeansComplete, AttachInv, TypeOK, Watcher, YieldQueued
<1>14. ASSUME NEW w \in Watcher, StreamEnd(w) PROVE ClosedMeansComplete'
  <2>1. /\ pc[w] \in {"attached", "streaming"} /\ target[w] \in Turn
        /\ phase[target[w]] \in {"running", "done"} /\ backlog[w] = <<>>
        /\ ~live[w] => phase[target[w]] = "done" /\ queue[w] = <<>>
        /\ live[w] => queue[w] # <<>> /\ Head(queue[w]) = None
    BY <1>14 DEF StreamEnd, NothingToFollow, AttachInv, Attached
  <2>2. /\ got[w] \in Seq(AnyFrame) /\ events[target[w]] \in Seq(AnyFrame)
        /\ queue[w] \in Seq(AnyFrame \cup {None}) /\ None \notin AnyFrame
    BY <2>1 DEF TypeOK, Item, AnyFrame
  <2>3. got[w] \o queue[w] = Owed(w)
    <3>1. got[w] \o backlog[w] = got[w]
      BY <2>1, <2>2, ConcatEmptySeq
    <3>. QED BY <2>1, <3>1 DEF NothingLostOrTwice
  <2>4. phase[target[w]] = "done" /\ got[w] = events[target[w]]
    <3>1. CASE ~live[w]
      BY <2>1, <2>2, <2>3, <3>1, ConcatEmptySeq DEF Owed
    <3>2. CASE live[w] /\ phase[target[w]] = "done"
      <4>1. got[w] \o queue[w] = Append(events[target[w]], None)
        BY <2>3, <3>2 DEF Owed
      <4>2. queue[w] # <<>> /\ Head(queue[w]) = None
        BY <2>1, <3>2
      <4>3. got[w] = events[target[w]]
        BY <2>2, <4>1, <4>2, EndMarkIsLast DEF Item
      <4>. QED BY <3>2, <4>3
    <3>3. CASE live[w] /\ phase[target[w]] = "running"
      <4>1. got[w] \o queue[w] = events[target[w]]
        BY <2>3, <3>3 DEF Owed
      <4>. QED BY <2>1, <2>2, <3>3, <4>1, EndMarkIsForeign
    <3>. QED BY <2>1, <3>1, <3>2, <3>3
  <2>5. events[target[w]] # <<>> /\ events[target[w]][Len(events[target[w]])] = Done
    BY <2>1, <2>4 DEF PhaseInv
  <2>6. \A v \in Watcher : pc'[v] = "closed" => v = w \/ pc[v] = "closed"
    BY <1>14 DEF TypeOK, StreamEnd
  <2>. QED BY <1>14, <2>4, <2>5, <2>6 DEF ClosedMeansComplete, StreamEnd
<1>15. ASSUME NEW w \in Watcher, Disconnect(w) PROVE ClosedMeansComplete'
  <2>1. \A v \in Watcher : pc'[v] = "closed" => pc[v] = "closed"
    BY <1>15 DEF TypeOK, Disconnect
  <2>. QED BY <1>15, <2>1 DEF ClosedMeansComplete, Disconnect
<1>16. ASSUME NEW p \in Page, ReadHistory(p) PROVE ClosedMeansComplete'
  BY <1>16 DEF ClosedMeansComplete, AttachInv, TypeOK, Watcher, ReadHistory
<1>17. ASSUME NEW p \in Page, ReadFlag(p) PROVE ClosedMeansComplete'
  BY <1>17 DEF ClosedMeansComplete, AttachInv, TypeOK, Watcher, ReadFlag
<1>18. ASSUME NEW p \in Page, ResumeGate(p) PROVE ClosedMeansComplete'
  BY <1>18 DEF ClosedMeansComplete, AttachInv, TypeOK, Watcher, ResumeGate
<1>19. ASSUME NEW p \in Page, ResumeAttach(p) PROVE ClosedMeansComplete'
  <2>1. /\ pc[p] = "asking" /\ p \in Watcher
        /\ \A w \in Watcher : pc'[w] = "closed" => w # p /\ pc[w] = "closed"
    BY <1>19 DEF TypeOK, ResumeAttach, Watcher
  <2>2. \A w \in Watcher : w # p => target'[w] = target[w]
    BY <1>19, <2>1 DEF TypeOK, ResumeAttach
  <2>. QED BY <1>19, <2>1, <2>2 DEF ClosedMeansComplete, ResumeAttach
<1>20. ASSUME NEW p \in Page, Refresh(p) PROVE ClosedMeansComplete'
  BY <1>20 DEF ClosedMeansComplete, AttachInv, TypeOK, Watcher, Refresh
<1>21. ASSUME NEW c \in Conv, SoftDelete(c) PROVE ClosedMeansComplete'
  BY <1>21 DEF ClosedMeansComplete, AttachInv, TypeOK, Watcher, SoftDelete
<1>22. CASE Restart
  BY <1>22 DEF ClosedMeansComplete, AttachInv, TypeOK, Watcher, Restart, Open
<1>23. CASE UNCHANGED vars
  BY <1>23 DEF ClosedMeansComplete, AttachInv, TypeOK, Watcher
<1>. QED
  BY <1>1, <1>2, <1>3, <1>4, <1>5, <1>6, <1>7, <1>8, <1>9, <1>10, <1>11, <1>12,
     <1>13, <1>14, <1>15, <1>16, <1>17, <1>18, <1>19, <1>20, <1>21, <1>22, <1>23
     DEF Next, PostStep, GraphStep, StreamStep, PageStep

(***************************************************************************)
(* A page that was told of a run and then got a 404 for its stream.        *)
(***************************************************************************)

\* From the "active" flag to the second fetch of the history.
Returning == {"told", "asking", "notfound", "refreshed"}

\* What page p, told of run t, may rely on: t was launched; the resume route
\* answers 404 only when t is over or was replaced; and then the history
\* holds its reply, unless there is none.
Returned(p, t) ==
  /\ pc[p] \in Returning => /\ ConvOf[t] = PageOf[p]
                            /\ phase[t] \in {"running", "done", "killed"}
  /\ pc[p] = "notfound" => phase[t] \in {"done", "killed"} \/ t \in overtaken
  /\ pc[p] = "refreshed" => \/ t \in shown[p]
                            \/ flush[t] = "failed"
                            \/ phase[t] = "killed"
                            \/ t \in overtaken

FoundInv == \A p \in Page, t \in Turn : flagged[p] = t => Returned(p, t)

\* A run that was launched only ends: nothing brings it back, stores a reply
\* whose write failed, or forgets that it was replaced.
OnlyEnds(t) ==
  /\ phase[t] = "running" => phase'[t] \in {"running", "done", "killed"}
  /\ phase[t] \in {"done", "killed"} => phase'[t] = phase[t]
  /\ flush[t] = "failed" => flush'[t] = "failed"
  /\ overtaken \subseteq overtaken'

LEMMA RunsOnlyEnd ==
  ASSUME TypeOK, [Next]_vars, NEW u \in Turn
  PROVE  OnlyEnds(u)
<1>. USE DEF vars, turnVars, runVars, streamVars, pageVars, history
<1>1. ASSUME NEW t \in Turn, PostNew(t) PROVE OnlyEnds(u)
  BY <1>1 DEF OnlyEnds, TypeOK, PostNew
<1>2. ASSUME NEW t \in Turn, PostGate(t) PROVE OnlyEnds(u)
  BY <1>2 DEF OnlyEnds, TypeOK, PostGate
<1>3. ASSUME NEW t \in Turn, PostAppend(t) PROVE OnlyEnds(u)
  BY <1>3 DEF OnlyEnds, TypeOK, PostAppend
<1>4. ASSUME NEW t \in Turn, PostFail(t) PROVE OnlyEnds(u)
  BY <1>4 DEF OnlyEnds, TypeOK, PostFail
<1>5. ASSUME NEW t \in Turn, Launch(t) PROVE OnlyEnds(u)
  BY <1>5 DEF OnlyEnds, TypeOK, Launch
<1>6. ASSUME NEW t \in Turn, NEW f \in Frame, Emit(t, f) PROVE OnlyEnds(u)
  BY <1>6 DEF OnlyEnds, TypeOK, Emit, Live
<1>7. ASSUME NEW t \in Turn, FlushStart(t) PROVE OnlyEnds(u)
  BY <1>7 DEF OnlyEnds, TypeOK, FlushStart, Live
<1>8. ASSUME NEW t \in Turn, FlushWrite(t) PROVE OnlyEnds(u)
  BY <1>8 DEF OnlyEnds, TypeOK, FlushWrite, Live
<1>9. ASSUME NEW t \in Turn, Finish(t) PROVE OnlyEnds(u)
  BY <1>9 DEF OnlyEnds, TypeOK, Finish, Live
<1>10. ASSUME NEW t \in Turn, StreamBegin(t) PROVE OnlyEnds(u)
  BY <1>10 DEF OnlyEnds, TypeOK, StreamBegin
<1>11. ASSUME NEW p \in Page, ResumeBegin(p) PROVE OnlyEnds(u)
  BY <1>11 DEF OnlyEnds, TypeOK, ResumeBegin
<1>12. ASSUME NEW w \in Watcher, YieldBacklog(w) PROVE OnlyEnds(u)
  BY <1>12 DEF OnlyEnds, TypeOK, YieldBacklog
<1>13. ASSUME NEW w \in Watcher, YieldQueued(w) PROVE OnlyEnds(u)
  BY <1>13 DEF OnlyEnds, TypeOK, YieldQueued
<1>14. ASSUME NEW w \in Watcher, StreamEnd(w) PROVE OnlyEnds(u)
  BY <1>14 DEF OnlyEnds, TypeOK, StreamEnd
<1>15. ASSUME NEW w \in Watcher, Disconnect(w) PROVE OnlyEnds(u)
  BY <1>15 DEF OnlyEnds, TypeOK, Disconnect
<1>16. ASSUME NEW p \in Page, ReadHistory(p) PROVE OnlyEnds(u)
  BY <1>16 DEF OnlyEnds, TypeOK, ReadHistory
<1>17. ASSUME NEW p \in Page, ReadFlag(p) PROVE OnlyEnds(u)
  BY <1>17 DEF OnlyEnds, TypeOK, ReadFlag
<1>18. ASSUME NEW p \in Page, ResumeGate(p) PROVE OnlyEnds(u)
  BY <1>18 DEF OnlyEnds, TypeOK, ResumeGate
<1>19. ASSUME NEW p \in Page, ResumeAttach(p) PROVE OnlyEnds(u)
  BY <1>19 DEF OnlyEnds, TypeOK, ResumeAttach
<1>20. ASSUME NEW p \in Page, Refresh(p) PROVE OnlyEnds(u)
  BY <1>20 DEF OnlyEnds, TypeOK, Refresh
<1>21. ASSUME NEW c \in Conv, SoftDelete(c) PROVE OnlyEnds(u)
  BY <1>21 DEF OnlyEnds, TypeOK, SoftDelete
<1>22. CASE Restart
  BY <1>22 DEF OnlyEnds, TypeOK, Restart
<1>23. CASE UNCHANGED vars
  BY <1>23 DEF OnlyEnds, TypeOK
<1>. QED
  BY <1>1, <1>2, <1>3, <1>4, <1>5, <1>6, <1>7, <1>8, <1>9, <1>10, <1>11, <1>12,
     <1>13, <1>14, <1>15, <1>16, <1>17, <1>18, <1>19, <1>20, <1>21, <1>22, <1>23
     DEF Next, PostStep, GraphStep, StreamStep, PageStep

\* A page's place and what it knows change by its own requests only.
PageStays(p) == pc'[p] = pc[p] /\ flagged'[p] = flagged[p] /\ shown'[p] = shown[p]
PageMoves(p) ==
  \/ PageStays(p)
  \/ pc'[p] \notin Returning
  \/ ReadFlag(p) \/ ResumeGate(p) \/ ResumeAttach(p) \/ Refresh(p)

LEMMA PagesMoveAlone ==
  ASSUME TypeOK, [Next]_vars, NEW q \in Page
  PROVE  PageMoves(q)
<1>. USE ChatRunsAssumption DEF vars, turnVars, runVars, streamVars, pageVars, history
<1>0. q \in Watcher /\ \A t \in Turn : t # q
  BY DEF Watcher
<1>1. ASSUME NEW t \in Turn, PostNew(t) PROVE PageMoves(q)
  BY <1>0, <1>1 DEF TypeOK, PageMoves, PageStays, PostNew
<1>2. ASSUME NEW t \in Turn, PostGate(t) PROVE PageMoves(q)
  BY <1>0, <1>2 DEF TypeOK, PageMoves, PageStays, PostGate
<1>3. ASSUME NEW t \in Turn, PostAppend(t) PROVE PageMoves(q)
  BY <1>0, <1>3 DEF TypeOK, PageMoves, PageStays, PostAppend
<1>4. ASSUME NEW t \in Turn, PostFail(t) PROVE PageMoves(q)
  BY <1>0, <1>4 DEF TypeOK, PageMoves, PageStays, PostFail
<1>5. ASSUME NEW t \in Turn, Launch(t) PROVE PageMoves(q)
  BY <1>0, <1>5 DEF TypeOK, PageMoves, PageStays, Launch, Returning
<1>6. ASSUME NEW t \in Turn, NEW f \in Frame, Emit(t, f) PROVE PageMoves(q)
  BY <1>0, <1>6 DEF TypeOK, PageMoves, PageStays, Emit
<1>7. ASSUME NEW t \in Turn, FlushStart(t) PROVE PageMoves(q)
  BY <1>0, <1>7 DEF TypeOK, PageMoves, PageStays, FlushStart
<1>8. ASSUME NEW t \in Turn, FlushWrite(t) PROVE PageMoves(q)
  BY <1>0, <1>8 DEF TypeOK, PageMoves, PageStays, FlushWrite
<1>9. ASSUME NEW t \in Turn, Finish(t) PROVE PageMoves(q)
  BY <1>0, <1>9 DEF TypeOK, PageMoves, PageStays, Finish
<1>10. ASSUME NEW t \in Turn, StreamBegin(t) PROVE PageMoves(q)
  BY <1>0, <1>10 DEF TypeOK, PageMoves, PageStays, StreamBegin, Returning
<1>11. ASSUME NEW p \in Page, ResumeBegin(p) PROVE PageMoves(q)
  BY <1>0, <1>11 DEF TypeOK, PageMoves, PageStays, ResumeBegin, Returning
<1>12. ASSUME NEW w \in Watcher, YieldBacklog(w) PROVE PageMoves(q)
  BY <1>0, <1>12 DEF TypeOK, PageMoves, PageStays, YieldBacklog
<1>13. ASSUME NEW w \in Watcher, YieldQueued(w) PROVE PageMoves(q)
  BY <1>0, <1>13 DEF TypeOK, PageMoves, PageStays, YieldQueued
<1>14. ASSUME NEW w \in Watcher, StreamEnd(w) PROVE PageMoves(q)
  BY <1>0, <1>14 DEF TypeOK, PageMoves, PageStays, StreamEnd, Returning
<1>15. ASSUME NEW w \in Watcher, Disconnect(w) PROVE PageMoves(q)
  BY <1>0, <1>15 DEF TypeOK, PageMoves, PageStays, Disconnect, Returning
<1>16. ASSUME NEW p \in Page, ReadHistory(p) PROVE PageMoves(q)
  BY <1>0, <1>16 DEF TypeOK, PageMoves, PageStays, ReadHistory, Returning
<1>17. ASSUME NEW p \in Page, ReadFlag(p) PROVE PageMoves(q)
  <2>1. CASE p = q
    BY <1>17, <2>1 DEF PageMoves
  <2>2. CASE p # q
    BY <1>0, <1>17, <2>2 DEF TypeOK, PageMoves, PageStays, ReadFlag
  <2>. QED BY <2>1, <2>2
<1>18. ASSUME NEW p \in Page, ResumeGate(p) PROVE PageMoves(q)
  <2>1. CASE p = q
    BY <1>18, <2>1 DEF PageMoves
  <2>2. CASE p # q
    BY <1>0, <1>18, <2>2 DEF TypeOK, PageMoves, PageStays, ResumeGate
  <2>. QED BY <2>1, <2>2
<1>19. ASSUME NEW p \in Page, ResumeAttach(p) PROVE PageMoves(q)
  <2>1. CASE p = q
    BY <1>19, <2>1 DEF PageMoves
  <2>2. CASE p # q
    BY <1>0, <1>19, <2>2 DEF TypeOK, PageMoves, PageStays, ResumeAttach
  <2>. QED BY <2>1, <2>2
<1>20. ASSUME NEW p \in Page, Refresh(p) PROVE PageMoves(q)
  <2>1. CASE p = q
    BY <1>20, <2>1 DEF PageMoves
  <2>2. CASE p # q
    BY <1>0, <1>20, <2>2 DEF TypeOK, PageMoves, PageStays, Refresh
  <2>. QED BY <2>1, <2>2
<1>21. ASSUME NEW c \in Conv, SoftDelete(c) PROVE PageMoves(q)
  BY <1>0, <1>21 DEF TypeOK, PageMoves, PageStays, SoftDelete
<1>22. CASE Restart
  BY <1>0, <1>22 DEF TypeOK, PageMoves, PageStays, Restart, Returning, Open
<1>23. CASE UNCHANGED vars
  BY <1>0, <1>23 DEF TypeOK, PageMoves, PageStays
<1>. QED
  BY <1>1, <1>2, <1>3, <1>4, <1>5, <1>6, <1>7, <1>8, <1>9, <1>10, <1>11, <1>12,
     <1>13, <1>14, <1>15, <1>16, <1>17, <1>18, <1>19, <1>20, <1>21, <1>22, <1>23
     DEF Next, PostStep, GraphStep, StreamStep, PageStep

LEMMA FoundInvStep ==
  ASSUME TypeOK, PhaseInv, RegistryInv, FoundInv, [Next]_vars
  PROVE  FoundInv'
<1>. SUFFICES ASSUME NEW p \in Page, NEW t \in Turn, flagged'[p] = t
              PROVE  Returned(p, t)'
  BY DEF FoundInv
<1>0. OnlyEnds(t) /\ PageMoves(p) /\ p \in Watcher
  BY RunsOnlyEnd, PagesMoveAlone DEF Watcher
<1>1. CASE PageStays(p)
  <2>1. Returned(p, t)
    BY <1>1 DEF FoundInv, PageStays
  <2>2. /\ pc'[p] = pc[p] /\ shown'[p] = shown[p]
        /\ t \in overtaken => t \in overtaken'
    BY <1>0, <1>1 DEF PageStays, OnlyEnds
  <2>. QED BY <1>0, <2>1, <2>2 DEF Returned, OnlyEnds
<1>2. CASE pc'[p] \notin Returning
  BY <1>2 DEF Returned, Returning
<1>3. CASE ReadFlag(p)
  <2>1. t = active[PageOf[p]] /\ PageOf[p] \in Conv /\ t # None
    BY <1>3, ChatRunsAssumption DEF TypeOK, ReadFlag
  <2>2. phase[t] = "running" /\ ConvOf[t] = PageOf[p]
    BY <2>1 DEF RegistryInv, RegistryIsLive, Live
  <2>3. pc'[p] = "told" /\ phase' = phase
    BY <1>0, <1>3, <2>1 DEF TypeOK, ReadFlag, turnVars
  <2>. QED BY <2>2, <2>3 DEF Returned
<1>4. CASE ResumeGate(p)
  <2>1. /\ pc[p] = "told" /\ pc'[p] \in {"asking", "missing"}
        /\ flagged[p] = t /\ phase' = phase
    BY <1>0, <1>4 DEF TypeOK, ResumeGate, turnVars, pageVars
  <2>. QED BY <2>1 DEF FoundInv, Returned, Returning
<1>5. CASE ResumeAttach(p)
  <2>1. /\ pc[p] = "asking" /\ flagged[p] = t
        /\ phase' = phase /\ overtaken' = overtaken
    BY <1>5 DEF ResumeAttach, turnVars, pageVars, history
  <2>2. ConvOf[t] = PageOf[p] /\ phase[t] \in {"running", "done", "killed"}
    BY <2>1 DEF FoundInv, Returned, Returning
  <2>3. CASE active[PageOf[p]] = None
    <3>1. pc'[p] = "notfound"
      BY <1>0, <1>5, <2>3 DEF TypeOK, ResumeAttach
    <3>2. phase[t] = "running" => t \in overtaken
      BY <2>2, <2>3, ChatRunsAssumption DEF RegistryInv, LatestRunIsReachable, Live
    <3>. QED BY <2>1, <2>2, <3>1, <3>2 DEF Returned
  <2>4. CASE active[PageOf[p]] # None
    <3>1. pc'[p] = "attached"
      BY <1>0, <1>5, <2>4 DEF TypeOK, ResumeAttach
    <3>. QED BY <3>1 DEF Returned, Returning
  <2>. QED BY <2>3, <2>4
<1>6. CASE Refresh(p)
  <2>1. /\ pc[p] = "notfound" /\ flagged[p] = t
        /\ UNCHANGED <<phase, flush, overtaken>>
    BY <1>6 DEF Refresh, turnVars, history
  <2>2. /\ ConvOf[t] = PageOf[p]
        /\ phase[t] \in {"done", "killed"} \/ t \in overtaken
        /\ phase[t] \in {"running", "done", "killed"}
    BY <2>1 DEF FoundInv, Returned, Returning
  <2>3. pc'[p] = IF Visible(p) THEN "refreshed" ELSE "missing"
    BY <1>0, <1>6 DEF TypeOK, Refresh
  <2>4. CASE Visible(p)
    <3>1. pc'[p] = "refreshed" /\ shown'[p] = Replies(PageOf[p])
      BY <1>6, <2>3, <2>4 DEF TypeOK, Refresh
    <3>2. phase[t] = "done" => flush[t] = "failed" \/ t \in Replies(PageOf[p])
      BY <2>2 DEF PhaseInv, Replies
    <3>. QED BY <2>1, <2>2, <3>1, <3>2 DEF Returned
  <2>5. CASE ~Visible(p)
    BY <2>3, <2>5 DEF Returned, Returning
  <2>. QED BY <2>4, <2>5
<1>. QED BY <1>0, <1>1, <1>2, <1>3, <1>4, <1>5, <1>6 DEF PageMoves

(***************************************************************************)
(* The theorems.                                                           *)
(***************************************************************************)

LEMMA InitIInv == Init => IInv
<1>. SUFFICES ASSUME Init PROVE IInv
  OBVIOUS
<1>1. TypeOK
  BY InitTypeOK
<1>2. PhaseInv /\ RegistryInv
  BY DEF Init, PhaseInv, RegistryInv, RegistryIsLive, LatestRunIsReachable, Live, Watcher
<1>3. FreshInv /\ AttachInv /\ NothingLostOrTwice /\ ClosedMeansComplete
  BY DEF Init, FreshInv, Fresh, AttachInv, Attached, NothingLostOrTwice, ClosedMeansComplete
<1>. QED BY <1>1, <1>2, <1>3 DEF IInv

LEMMA IInvStep == IInv /\ [Next]_vars => IInv'
BY TypeOKStep, PhaseInvStep, RegistryInvStep, FreshInvStep, AttachInvStep,
   NothingLostStep, ClosedStep DEF IInv

LEMMA IInvHolds == Spec => []IInv
BY InitIInv, IInvStep, PTL DEF Spec

\* The state has its shape in every reachable state: in particular a run
\* emits no frame after `done`, and finishes once.
THEOREM TypeCorrect == Spec => []TypeOK
<1>1. IInv => TypeOK
  BY DEF IInv
<1>. QED BY <1>1, IInvHolds, PTL

\* _subscribe and emit: whenever a response stream subscribes, it gets every
\* frame of its run exactly once and in order, for any number of streams.
THEOREM EveryFrameOnce == Spec => []NothingLostOrTwice
<1>1. IInv => NothingLostOrTwice
  BY DEF IInv
<1>. QED BY <1>1, IInvHolds, PTL

\* event_stream: a stream that ended by itself delivered the whole turn.
THEOREM ClosedStreamsAreComplete == Spec => []ClosedMeansComplete
<1>1. IInv => ClosedMeansComplete
  BY DEF IInv
<1>. QED BY <1>1, IInvHolds, PTL

\* run_graph: `done` is never ahead of the backend's answer to the write.
THEOREM DoneIsAfterTheWrite == Spec => []DoneAfterWrite
<1>1. IInv => DoneAfterWrite
  BY DEF IInv, PhaseInv, DoneAfterWrite
<1>. QED BY <1>1, IInvHolds, PTL

\* active_runs holds runs in flight only, however turns of a conversation
\* overlap and restarts intervene.
THEOREM RegistryHoldsLiveRuns == Spec => []RegistryIsLive
<1>1. IInv => RegistryIsLive
  BY DEF IInv, RegistryInv
<1>. QED BY <1>1, IInvHolds, PTL

\* ... and the newest run in flight of a conversation is always in it.
THEOREM NewestRunIsRegistered == Spec => []LatestRunIsReachable
<1>1. IInv => LatestRunIsReachable
  BY DEF IInv, RegistryInv
<1>. QED BY <1>1, IInvHolds, PTL

\* ChatThread on a 404 of the resume route: the second fetch of the history
\* has the reply of the run the page was told of, however many runs, pages
\* and restarts intervene, unless that reply was never stored or a later run
\* took the place of the run.
THEOREM RefreshesFindTheirReply == Spec => []RefreshFindsReply
<1>1. Init => FoundInv
  BY DEF Init, FoundInv, Returned, Returning, Watcher
<1>2. IInv /\ FoundInv /\ [Next]_vars => FoundInv'
  BY FoundInvStep DEF IInv
<1>3. IInv /\ FoundInv => RefreshFindsReply
  BY DEF IInv, TypeOK, FoundInv, Returned, RefreshFindsReply
<1>. QED BY <1>1, <1>2, <1>3, IInvHolds, PTL DEF Spec

(***************************************************************************)
(* Refinement: the registry, the backlogs and the queues are a log for     *)
(* each turn that every watcher reads from its beginning (TurnStreams).    *)
(***************************************************************************)

\* A watcher follows no run before it is attached to one.
JoinInv == \A w \in Watcher : pc[w] \in {"idle"} \cup PagePcs => target[w] = None

\* The state of TurnStreams is what it was.
StreamsStay ==
  /\ events' = events /\ target' = target /\ got' = got
  /\ \A t \in Turn : phase'[t] = "done" <=> phase[t] = "done"
  /\ \A w \in Watcher : Ended(w)' = Ended(w)

LEMMA NothingEnds ==
  ASSUME \A w \in Watcher : Ended(w)' = Ended(w)
  PROVE  [w \in Watcher |-> Ended(w)]' = [w \in Watcher |-> Ended(w)]
OBVIOUS

LEMMA NothingSealed ==
  ASSUME \A t \in Turn : phase'[t] = "done" <=> phase[t] = "done"
  PROVE  {t \in Turn : phase[t] = "done"}' = {t \in Turn : phase[t] = "done"}
OBVIOUS

LEMMA StreamsStutter == ASSUME StreamsStay PROVE UNCHANGED Streams!vars
BY NothingEnds, NothingSealed DEF StreamsStay, Streams!vars

\* How a stream ended depends on the place of its handler only.
LEMMA EndedIs ==
  ASSUME NEW w \in Watcher
  PROVE  /\ pc'[w] = pc[w] => Ended(w)' = Ended(w)
         /\ pc[w] \notin {"closed", "gone"} => Ended(w) = "no"
         /\ pc'[w] \notin {"closed", "gone"} => Ended(w)' = "no"
         /\ pc'[w] = "closed" => Ended(w)' = "complete"
         /\ pc'[w] = "gone" => Ended(w)' = "left"
BY DEF Ended

\* The next item of an attached watcher is the next frame of the log.
LEMMA NextFrame ==
  ASSUME TypeOK, AttachInv, NothingLostOrTwice, NEW w \in Watcher, pc[w] \in Attached,
         NEW s \in Seq(Item), s # <<>>, Head(s) # None,
         NEW r \in Seq(Item), got[w] \o (s \o r) = Owed(w)
  PROVE  /\ Len(got[w]) < Len(events[target[w]])
         /\ Head(s) = events[target[w]][Len(got[w]) + 1]
<1> DEFINE log == events[target[w]]
<1>1. /\ target[w] \in Turn /\ log \in Seq(AnyFrame) /\ got[w] \in Seq(AnyFrame)
      /\ Len(log) \in Nat /\ Len(got[w]) \in Nat
  BY DEF TypeOK, AttachInv
<1>2. Owed(w) = log \/ Owed(w) = Append(log, None)
  BY DEF Owed
<1> HIDE DEF log
<1>3. /\ got[w] \in Seq(Item) /\ log \in Seq(Item) /\ None \in Item
  BY <1>1 DEF Item
<1>4. /\ s \o r \in Seq(Item) /\ Len(s \o r) >= 1 /\ (s \o r)[1] = Head(s)
      /\ Len(s \o r) \in Nat
  OBVIOUS
<1>5. PICK q \in Seq(Item) : q = s \o r
  BY <1>4
<1>6. /\ Len(got[w] \o q) = Len(got[w]) + Len(q)
      /\ (got[w] \o q)[Len(got[w]) + 1] = Head(s)
      /\ Len(q) >= 1 /\ Len(q) \in Nat
  <2>1. Len(q) >= 1 /\ Len(q) \in Nat /\ q[1] = Head(s)
    BY <1>4, <1>5
  <2>2. ASSUME NEW g \in Seq(Item)
        PROVE  Len(g \o q) = Len(g) + Len(q) /\ (g \o q)[Len(g) + 1] = q[1]
    BY <2>1
  <2> QED
    BY <1>3, <2>1, <2>2
<1>7. got[w] \o q = Owed(w)
  BY <1>5
<1>8. CASE Owed(w) = log
  BY <1>1, <1>6, <1>7, <1>8 DEF log
<1>9. CASE Owed(w) = Append(log, None)
  <2>1. /\ Len(Append(log, None)) = Len(log) + 1
        /\ Append(log, None)[Len(log) + 1] = None
        /\ \A i \in 1 .. Len(log) : Append(log, None)[i] = log[i]
    BY <1>1, <1>3
  <2>2. Len(got[w]) + Len(q) = Len(log) + 1
    BY <1>6, <1>7, <1>9, <2>1
  <2>3. Len(got[w]) + 1 # Len(log) + 1
    BY <1>6, <1>7, <1>9, <2>1
  <2>4. Len(got[w]) < Len(log) /\ Len(got[w]) + 1 \in 1 .. Len(log)
    <3>1. \A a, b, n \in Nat : a + n = b + 1 /\ n >= 1 /\ a + 1 # b + 1
                             => a < b /\ a + 1 \in 1 .. b
      OBVIOUS
    <3> QED
      BY <1>1, <1>6, <2>2, <2>3, <3>1
  <2> QED
    BY <1>6, <1>7, <1>9, <2>1, <2>4 DEF log
<1> QED
  BY <1>2, <1>8, <1>9

LEMMA StreamsInit == Init => Streams!Init
<1> SUFFICES ASSUME Init PROVE Streams!Init
  OBVIOUS
<1>1. {t \in Turn : phase[t] = "done"} = {}
  BY DEF Init
<1>2. \A w \in Watcher : Ended(w) = "no"
  BY EndedIs DEF Init
<1>3. [w \in Watcher |-> Ended(w)] = [w \in Watcher |-> "no"]
  BY <1>2
<1> QED
  BY <1>1, <1>3 DEF Init, Streams!Init

\* A watcher joins a run.
LEMMA JoinIsJoin ==
  ASSUME TypeOK, NEW w \in Watcher, NEW t \in Turn,
         target[w] = None, target' = [target EXCEPT ![w] = t],
         events' = events, got' = got, phase' = phase \/ phase' = [phase EXCEPT ![t] = "running"],
         phase[t] # "done" \/ phase' = phase,
         \A v \in Watcher : Ended(v)' = Ended(v)
  PROVE  Streams!Next
<1>1. \A u \in Turn : phase'[u] = "done" <=> phase[u] = "done"
  BY DEF TypeOK
<1>2. Streams!Join(w, t)
  BY <1>1, NothingEnds, NothingSealed DEF Streams!Join
<1> QED
  BY <1>2 DEF Streams!Next

\* Watchers leave.
LEMMA LeavingIsLeave ==
  ASSUME NEW W \in SUBSET Watcher,
         events' = events, got' = got, target' = target,
         \A t \in Turn : phase'[t] = "done" <=> phase[t] = "done",
         \A w \in W : Ended(w) = "no" /\ Ended(w)' = "left",
         \A w \in Watcher \ W : Ended(w)' = Ended(w)
  PROVE  Streams!Next
<1> DEFINE over == [w \in Watcher |-> Ended(w)]
<1>1. \A w \in W : over[w] = "no"
  OBVIOUS
<1>2. over' = [w \in Watcher |-> IF w \in W THEN "left" ELSE over[w]]
  OBVIOUS
<1>3. Streams!Leave(W)
  BY <1>1, <1>2, NothingSealed DEF Streams!Leave
<1> QED
  BY <1>3 DEF Streams!Next

\* emit and finish: a frame is published, and the last one seals the log.
LEMMA EmitIsPublish ==
  ASSUME TypeOK, NEW t \in Turn, NEW f \in Frame, Emit(t, f)
  PROVE  Streams!Next
<1>1. /\ phase[t] # "done" /\ events' = [events EXCEPT ![t] = Append(@, f)]
      /\ UNCHANGED <<phase, target, got, pc>>
  BY DEF Emit, EmitTo, Live, turnVars
<1>2. \A w \in Watcher : Ended(w)' = Ended(w)
  BY <1>1, EndedIs
<1>3. Streams!Publish(t, f)
  BY <1>1, <1>2, NothingEnds, NothingSealed DEF Streams!Publish
<1> QED
  BY <1>3 DEF Streams!Next

LEMMA FinishIsSeal ==
  ASSUME TypeOK, NEW t \in Turn, Finish(t)
  PROVE  Streams!Next
<1>1. /\ phase[t] # "done" /\ events' = [events EXCEPT ![t] = Append(@, Done)]
      /\ phase' = [phase EXCEPT ![t] = "done"]
      /\ UNCHANGED <<target, got, pc>>
  BY DEF Finish, EmitTo, Live
<1>2. \A w \in Watcher : Ended(w)' = Ended(w)
  BY <1>1, EndedIs
<1>3. {u \in Turn : phase[u] = "done"}' = {u \in Turn : phase[u] = "done"} \cup {t}
  BY <1>1 DEF TypeOK
<1>4. Streams!Seal(t)
  BY <1>1, <1>2, <1>3, NothingEnds DEF Streams!Seal
<1> QED
  BY <1>4 DEF Streams!Next

\* A frame that is yielded, from the backlog or from the queue.
LEMMA YieldIsReceive ==
  ASSUME IInv, NEW w \in Watcher, YieldBacklog(w) \/ YieldQueued(w)
  PROVE  Streams!Next
<1>1. /\ pc[w] = "streaming" /\ UNCHANGED <<phase, events, target, pc>>
      /\ target[w] \in Turn /\ None \notin Turn
  BY ChatRunsAssumption
     DEF YieldBacklog, YieldQueued, turnVars, runVars, IInv, AttachInv, Attached
<1>2. /\ got[w] \in Seq(AnyFrame) /\ backlog[w] \in Seq(AnyFrame) /\ queue[w] \in Seq(Item)
      /\ (got[w] \o backlog[w]) \o queue[w] = Owed(w)
      /\ got[w] \o (backlog[w] \o queue[w]) = (got[w] \o backlog[w]) \o queue[w]
  <2>1. got[w] \in Seq(AnyFrame) /\ backlog[w] \in Seq(AnyFrame) /\ queue[w] \in Seq(Item)
    BY DEF IInv, TypeOK
  <2>2. got[w] \in Seq(Item) /\ backlog[w] \in Seq(Item)
    BY <2>1 DEF Item
  <2>3. (got[w] \o backlog[w]) \o queue[w] = Owed(w)
    BY <1>1 DEF IInv, NothingLostOrTwice
  <2>4. got[w] \o (backlog[w] \o queue[w]) = (got[w] \o backlog[w]) \o queue[w]
    <3>1. \A a, b, c \in Seq(Item) : (a \o b) \o c = a \o (b \o c)
      BY ConcatAssociative
    <3> QED
      BY <2>1, <2>2, <3>1
  <2> QED
    BY <2>1, <2>3, <2>4
<1>3. PICK f : /\ f = events[target[w]][Len(got[w]) + 1]
               /\ Len(got[w]) < Len(events[target[w]])
               /\ got' = [got EXCEPT ![w] = Append(@, f)]
  <2>1. CASE YieldBacklog(w)
    <3>1. backlog[w] # <<>> /\ got' = [got EXCEPT ![w] = Append(@, Head(backlog[w]))]
      BY <2>1 DEF YieldBacklog
    <3>2. Head(backlog[w]) # None /\ backlog[w] \in Seq(Item)
      BY <1>2, <3>1, ChatRunsAssumption DEF AnyFrame, Item
    <3>3. /\ Len(got[w]) < Len(events[target[w]])
          /\ Head(backlog[w]) = events[target[w]][Len(got[w]) + 1]
      BY <1>1, <1>2, <3>1, <3>2, NextFrame DEF IInv, Attached
    <3> QED
      BY <3>1, <3>3
  <2>2. CASE YieldQueued(w)
    <3>1. /\ queue[w] # <<>> /\ Head(queue[w]) # None /\ backlog[w] = <<>>
          /\ got' = [got EXCEPT ![w] = Append(@, Head(queue[w]))]
      BY <2>2 DEF YieldQueued
    <3>2. got[w] \o (queue[w] \o <<>>) = Owed(w) /\ <<>> \in Seq(Item)
      <4>1. queue[w] \o <<>> = queue[w] /\ <<>> \in Seq(Item)
        BY <1>2, ConcatEmptySeq
      <4>2. got[w] \o <<>> = got[w]
        BY <1>2, ConcatEmptySeq
      <4> QED
        BY <1>2, <3>1, <4>1, <4>2
    <3>3. /\ Len(got[w]) < Len(events[target[w]])
          /\ Head(queue[w]) = events[target[w]][Len(got[w]) + 1]
      BY <1>1, <1>2, <3>1, <3>2, NextFrame DEF IInv, Attached
    <3> QED
      BY <3>1, <3>3
  <2> QED
    BY <2>1, <2>2
<1>4. \A v \in Watcher : Ended(v)' = Ended(v)
  BY <1>1, EndedIs
<1>5. Ended(w) = "no"
  BY <1>1, EndedIs
<1>6. \A t \in Turn : phase'[t] = "done" <=> phase[t] = "done"
  BY <1>1
<1>7. Streams!Receive(w)
  <2>1. got' = [got EXCEPT ![w] = Append(@, events[target[w]][Len(@) + 1])]
    BY <1>3
  <2> QED
    BY <1>1, <1>3, <1>4, <1>5, <1>6, <2>1, NothingEnds, NothingSealed DEF Streams!Receive
<1> QED
  BY <1>7 DEF Streams!Next

\* A stream that ends by itself has delivered all of a sealed log.
LEMMA EndIsComplete ==
  ASSUME IInv, IInv', NEW w \in Watcher, StreamEnd(w)
  PROVE  Streams!Next
<1>1. /\ pc[w] = "streaming" /\ pc' = [pc EXCEPT ![w] = "closed"]
      /\ UNCHANGED <<phase, events, target, got>>
  BY DEF StreamEnd, turnVars
<1>2. pc'[w] = "closed" /\ \A v \in Watcher : v # w => pc'[v] = pc[v]
  BY <1>1 DEF IInv, TypeOK
<1>3. phase'[target'[w]] = "done" /\ got'[w] = events'[target'[w]] /\ target'[w] \in Turn
  BY <1>2 DEF IInv, ClosedMeansComplete, AttachInv
<1>4. phase[target[w]] = "done" /\ got[w] = events[target[w]] /\ target[w] \in Turn
  BY <1>1, <1>3
<1>5. /\ Ended(w) = "no" /\ Ended(w)' = "complete"
      /\ \A v \in Watcher : v # w => Ended(v)' = Ended(v)
  BY <1>1, <1>2, EndedIs
<1>6. [v \in Watcher |-> Ended(v)]' = [[v \in Watcher |-> Ended(v)] EXCEPT ![w] = "complete"]
  BY <1>5
<1>7. \A t \in Turn : phase'[t] = "done" <=> phase[t] = "done"
  BY <1>1
<1>8. Streams!Complete(w)
  BY <1>1, <1>4, <1>5, <1>6, <1>7, NothingSealed DEF Streams!Complete
<1> QED
  BY <1>8 DEF Streams!Next

LEMMA JoinInvStep == TypeOK /\ PhaseInv /\ FreshInv /\ JoinInv /\ [Next]_vars => JoinInv'
<1> SUFFICES ASSUME TypeOK, PhaseInv, FreshInv, JoinInv, [Next]_vars PROVE JoinInv'
  OBVIOUS
<1> USE ChatRunsAssumption DEF vars, turnVars, runVars, streamVars, pageVars, history
<1>1. ASSUME NEW t \in Turn, PostStep(t) PROVE JoinInv'
  BY <1>1 DEF PostStep, PostNew, PostGate, PostAppend, PostFail, Launch, JoinInv, PhaseInv,
     TypeOK, PagePcs, Watcher
<1>2. ASSUME NEW t \in Turn, GraphStep(t) PROVE JoinInv'
  BY <1>2 DEF GraphStep, Emit, FlushStart, FlushWrite, Finish, JoinInv
<1>3. ASSUME NEW t \in Turn, StreamBegin(t) PROVE JoinInv'
  BY <1>3 DEF StreamBegin, JoinInv, TypeOK, PagePcs, Watcher
<1>4. ASSUME NEW w \in Watcher, StreamStep(w) \/ Disconnect(w) PROVE JoinInv'
  BY <1>4 DEF StreamStep, YieldBacklog, YieldQueued, StreamEnd, Disconnect, JoinInv, TypeOK, PagePcs
<1>5. ASSUME NEW p \in Page, ReadHistory(p) \/ ReadFlag(p) \/ ResumeGate(p) \/ ResumeBegin(p) \/ Refresh(p)
      PROVE  JoinInv'
  BY <1>5 DEF ReadHistory, ReadFlag, ResumeGate, ResumeBegin, Refresh, JoinInv, TypeOK, PagePcs, Watcher
<1>6. ASSUME NEW p \in Page, ResumeAttach(p) PROVE JoinInv'
  <2>1. /\ pc[p] = "asking"
        /\ \/ pc' = [pc EXCEPT ![p] = "notfound"] /\ target' = target
           \/ /\ pc' = [pc EXCEPT ![p] = "attached"]
              /\ target' = [target EXCEPT ![p] = active[PageOf[p]]]
    BY <1>6 DEF ResumeAttach
  <2>2. pc'[p] = "attached" \/ (pc'[p] = "notfound" /\ target'[p] = target[p])
    <3>1. PICK D : p \in D /\ D = DOMAIN pc
      BY DEF TypeOK, Watcher
    <3>2. CASE pc' = [pc EXCEPT ![p] = "notfound"] /\ target' = target
      BY <3>1, <3>2
    <3>3. CASE pc' = [pc EXCEPT ![p] = "attached"]
      BY <3>1, <3>3
    <3> QED
      BY <2>1, <3>2, <3>3
  <2>3. \A v \in Watcher : v # p => pc'[v] = pc[v] /\ target'[v] = target[v]
    BY <2>1 DEF TypeOK
  <2>4. target[p] = None
    BY <2>1 DEF JoinInv, PagePcs, Watcher
  <2> QED
    BY <2>2, <2>3, <2>4 DEF JoinInv, PagePcs
<1>7. ASSUME NEW c \in Conv, SoftDelete(c) PROVE JoinInv'
  BY <1>7 DEF SoftDelete, JoinInv
<1>8. CASE Restart
  BY <1>8 DEF Restart, JoinInv, TypeOK, PagePcs
<1>9. CASE UNCHANGED vars
  BY <1>9 DEF JoinInv
<1> QED
  BY <1>1, <1>2, <1>3, <1>4, <1>5, <1>6, <1>7, <1>8, <1>9 DEF Next, PageStep

\* Each step of ChatRuns is a step of TurnStreams or changes nothing of it.
LEMMA StepIsStreamStep ==
  ASSUME IInv, IInv', JoinInv, [Next]_vars
  PROVE  [Streams!Next]_(Streams!vars)
<1> USE DEF vars, turnVars, runVars, streamVars, pageVars, history
<1>1. ASSUME NEW t \in Turn, PostNew(t) \/ PostGate(t) \/ PostAppend(t) \/ PostFail(t)
      PROVE  StreamsStay
  BY <1>1, EndedIs DEF PostNew, PostGate, PostAppend, PostFail, StreamsStay, IInv, TypeOK
<1>2. ASSUME NEW t \in Turn, Launch(t) PROVE Streams!Next
  <2>1. /\ pc[t] = "idle" /\ target[t] = None /\ t \in Watcher /\ phase[t] = "admitted"
        /\ phase' = [phase EXCEPT ![t] = "running"]
        /\ pc' = [pc EXCEPT ![t] = IF t \in Stays THEN "opened" ELSE "gone"]
        /\ target' = [target EXCEPT ![t] = IF t \in Stays THEN t ELSE None]
        /\ events' = events /\ got' = got
    BY <1>2 DEF Launch, IInv, PhaseInv, JoinInv, Watcher
  <2>2. \A v \in Watcher : v # t => Ended(v)' = Ended(v)
    BY <2>1, EndedIs DEF IInv, TypeOK
  <2>3. Ended(t) = "no"
    BY <2>1, EndedIs
  <2>4. CASE t \in Stays
    <3>1. Ended(t)' = "no"
      BY <2>1, <2>4, EndedIs DEF IInv, TypeOK
    <3> QED
      BY <2>1, <2>2, <2>3, <2>4, <3>1, JoinIsJoin DEF IInv
  <2>5. CASE t \notin Stays
    <3>1. Ended(t)' = "left"
      BY <2>1, <2>5, EndedIs DEF IInv, TypeOK
    <3>2. target' = target
      BY <2>1, <2>5 DEF IInv, TypeOK
    <3>3. \A u \in Turn : phase'[u] = "done" <=> phase[u] = "done"
      BY <2>1 DEF IInv, TypeOK
    <3>4. {t} \in SUBSET Watcher
      BY <2>1
    <3> QED
      BY <2>1, <2>2, <2>3, <3>1, <3>2, <3>3, <3>4, LeavingIsLeave
  <2> QED
    BY <2>4, <2>5
<1>3. ASSUME NEW t \in Turn, GraphStep(t) PROVE StreamsStay \/ Streams!Next
  <2>1. CASE FlushStart(t) \/ FlushWrite(t)
    BY <2>1, EndedIs DEF FlushStart, FlushWrite, StreamsStay
  <2> QED
    BY <1>3, <2>1, EmitIsPublish, FinishIsSeal DEF GraphStep, IInv
<1>4. ASSUME NEW t \in Turn, StreamBegin(t) PROVE StreamsStay
  <2>1. /\ t \in Watcher /\ pc[t] = "opened" /\ pc' = [pc EXCEPT ![t] = "streaming"]
        /\ UNCHANGED <<phase, events, target, got>>
    BY <1>4 DEF StreamBegin, Watcher
  <2> QED
    BY <2>1, EndedIs DEF StreamsStay, IInv, TypeOK
<1>5. ASSUME NEW w \in Watcher, Disconnect(w) PROVE Streams!Next
  <2>1. /\ pc[w] \in Open /\ pc' = [pc EXCEPT ![w] = "gone"]
        /\ UNCHANGED <<phase, events, target, got>>
    BY <1>5 DEF Disconnect
  <2>2. /\ Ended(w) = "no" /\ Ended(w)' = "left"
        /\ \A v \in Watcher : v # w => Ended(v)' = Ended(v)
    BY <2>1, EndedIs DEF IInv, TypeOK, Open
  <2>3. {w} \in SUBSET Watcher /\ \A t \in Turn : phase'[t] = "done" <=> phase[t] = "done"
    BY <2>1
  <2> QED
    BY <2>1, <2>2, <2>3, LeavingIsLeave
<1>6. ASSUME NEW p \in Page, ReadHistory(p) \/ ReadFlag(p) \/ ResumeGate(p) \/ ResumeBegin(p) \/ Refresh(p)
      PROVE  StreamsStay
  <2>1. /\ UNCHANGED <<phase, events, target, got>> /\ p \in Watcher
        /\ pc[p] \notin {"closed", "gone"}
        /\ \E stage \in PagePcs \cup {"streaming"} : pc' = [pc EXCEPT ![p] = stage]
    BY <1>6 DEF ReadHistory, ReadFlag, ResumeGate, ResumeBegin, Refresh, Watcher, PagePcs
  <2>2. Ended(p) = "no" /\ Ended(p)' = "no" /\ \A v \in Watcher : v # p => Ended(v)' = Ended(v)
    BY <2>1, EndedIs DEF IInv, TypeOK, PagePcs
  <2> QED
    BY <2>1, <2>2 DEF StreamsStay
<1>7. ASSUME NEW p \in Page, ResumeAttach(p) PROVE StreamsStay \/ Streams!Next
  <2>1. /\ p \in Watcher /\ pc[p] = "asking" /\ target[p] = None
        /\ UNCHANGED <<phase, events, got>>
    BY <1>7 DEF ResumeAttach, JoinInv, PagePcs, Watcher
  <2>2. CASE pc' = [pc EXCEPT ![p] = "notfound"] /\ target' = target
    <3>1. Ended(p) = "no" /\ Ended(p)' = "no" /\ \A v \in Watcher : v # p => Ended(v)' = Ended(v)
      BY <2>1, <2>2, EndedIs DEF IInv, TypeOK
    <3> QED
      BY <2>1, <2>2, <3>1 DEF StreamsStay
  <2>3. CASE /\ active[PageOf[p]] # None /\ pc' = [pc EXCEPT ![p] = "attached"]
             /\ target' = [target EXCEPT ![p] = active[PageOf[p]]]
    <3>1. \A v \in Watcher : Ended(v)' = Ended(v)
      BY <2>1, <2>3, EndedIs DEF IInv, TypeOK
    <3>2. active[PageOf[p]] \in Turn
      BY <2>3, ChatRunsAssumption DEF IInv, TypeOK
    <3> QED
      BY <2>1, <2>3, <3>1, <3>2, JoinIsJoin DEF IInv
  <2> QED
    BY <1>7, <2>2, <2>3 DEF ResumeAttach
<1>8. ASSUME NEW c \in Conv, SoftDelete(c) PROVE StreamsStay
  BY <1>8, EndedIs DEF SoftDelete, StreamsStay
<1>9. CASE Restart
  <2> DEFINE W == {w \in Watcher : pc[w] \in Open \cup {"read", "asking"}}
  <2>1. /\ UNCHANGED <<events, target, got>>
        /\ pc' = [w \in Watcher |-> IF pc[w] \in Open \cup {"read", "asking"} THEN "gone" ELSE pc[w]]
        /\ \A t \in Turn : phase'[t] = "done" <=> phase[t] = "done"
    BY <1>9 DEF Restart
  <2>2. \A w \in W : Ended(w) = "no" /\ Ended(w)' = "left"
    BY <2>1, EndedIs DEF Open
  <2>3. \A w \in Watcher \ W : Ended(w)' = Ended(w)
    BY <2>1, EndedIs
  <2>4. W \in SUBSET Watcher
    OBVIOUS
  <2> HIDE DEF W
  <2> QED
    BY <2>1, <2>2, <2>3, <2>4, LeavingIsLeave
<1>10. CASE UNCHANGED vars
  BY <1>10, EndedIs, StreamsStutter DEF StreamsStay
<1> QED
  BY <1>1, <1>2, <1>3, <1>4, <1>5, <1>6, <1>7, <1>8, <1>9, <1>10, StreamsStutter,
     YieldIsReceive, EndIsComplete DEF Next, PostStep, StreamStep, PageStep

\* server.py's queues, snapshots and registry implement one log per turn that
\* every response stream reads from its first frame, and that is complete
\* only when the log is sealed and was read to its end.
THEOREM StreamsImplementLogs == Spec => ImplementsStreams
<1>1. Init => JoinInv
  BY DEF Init, JoinInv
<1>2. IInv /\ JoinInv /\ [Next]_vars => JoinInv'
  BY JoinInvStep DEF IInv
<1>3. IInv /\ IInv' /\ JoinInv /\ [Next]_vars => [Streams!Next]_(Streams!vars)
  BY StepIsStreamStep
<1> QED
  BY <1>1, <1>2, <1>3, StreamsInit, IInvHolds, PTL DEF Spec, ImplementsStreams, Streams!Spec

=============================================================================
