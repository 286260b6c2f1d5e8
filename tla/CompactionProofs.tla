-------------------------- MODULE CompactionProofs --------------------------
(***************************************************************************)
(* Proofs about Compaction, for any turns, numbers of calls and retries,   *)
(* tail sizes and restarts: one compaction at a time, no row lost on its   *)
(* way into the checkpoint, no call parted from its result, and a cursor   *)
(* and retries that only go forward.                                       *)
(***************************************************************************)
EXTENDS Compaction, SequenceTheorems, TLAPS

\* Which tasks may be at work: a forced one while its turn waits for it, a
\* background one after its turn.
TaskInv ==
  \A t \in Turn :
    /\ task[<<t, "forced">>] # "none" => pc[t] = "compacting" /\ task[<<t, "forced">>] \in Running
    /\ task[<<t, "background">>] # "none" => pc[t] = "over"

\* Calls and results are written by a turn when it is over, and a call is
\* answered at most once, behind the row that announces it.
RowsInv ==
  /\ \A k \in 1 .. Len(rows) : \A id \in rows[k].calls : pc[id[1]] = "over"
  /\ \A k \in 1 .. Len(rows) : rows[k].answers # None => pc[rows[k].answers[1]] = "over"
  /\ \A k \in 1 .. Len(rows) : rows[k].answers # None =>
       \E a \in 1 .. k - 1 : rows[k].answers \in rows[a].calls
  /\ \A j, k \in 1 .. Len(rows) :
       rows[j].answers = rows[k].answers /\ rows[j].answers # None => j = k

\* No result after the cut answers a call before it.
Whole(cut) ==
  \A a \in 1 .. cut : \A k \in cut + 1 .. Len(rows) : rows[k].answers \notin rows[a].calls

\* Nobody moves the cursor while a compaction works from what it read of it.
ReadInv ==
  \A c \in Task :
    task[c] \in {"full", "asking", "saving"} => read[c] = [cursor |-> cursor, summary |-> summary]

\* What a compaction will save moves the cursor forward to a whole cut, and
\* holds or deliberately leaves out every row before it, but for the calls
\* it does not show and the results of calls that were trimmed.
Sound(f) ==
  /\ f.through \in cursor + 1 .. Len(rows)
  /\ f.covers \subseteq 1 .. f.through
  /\ f.without \subseteq 1 .. f.through
  /\ \A k \in (1 .. f.through) \ (f.covers \cup f.without \cup dropped) :
       rows[k].calls # {} \/ \E a \in f.without \cup dropped : rows[k].answers \in rows[a].calls
  /\ Whole(f.through)
FoldInv == \A c \in Task : task[c] \in {"asking", "saving"} => Sound(fold[c])

\* The request of a turn replays from no later than the cursor; from before
\* it once a compaction made room.
SentInv ==
  \A t \in Turn :
    /\ pc[t] \in {"appending", "running", "compacting"} =>
         sent[t] \in [from : Nat, own : BOOLEAN] /\ sent[t].from <= cursor
    /\ pc[t] = "rebuilding" =>
         sent[t] \in [from : Nat, own : BOOLEAN] /\ sent[t].from < cursor

IInv ==
  /\ TypeOK /\ InFlightIsOne /\ TaskInv /\ RowsInv
  /\ ReadInv /\ FoldInv /\ FoldedIsKept /\ NoPairIsSplit /\ SentInv

-----------------------------------------------------------------------------
(***************************************************************************)
(* How the rows grow.                                                      *)
(***************************************************************************)

\* The rows a turn writes when it ends.
LEMMA BlockRows ==
  ASSUME NEW t \in Turn, NEW called \in 0 .. MaxCalls, NEW answered \in 0 .. called
  PROVE  /\ Block(t, called, answered) \in Seq(Row)
         /\ Len(Block(t, called, answered)) = answered + 1
         /\ Block(t, called, answered)[1] =
              [turn |-> t, calls |-> {t} \X (1 .. called), answers |-> None]
         /\ \A k \in 2 .. answered + 1 : Block(t, called, answered)[k] =
              [turn |-> t, calls |-> {}, answers |-> <<t, k - 1>>]
<1> DEFINE head == <<[turn |-> t, calls |-> {t} \X (1 .. called), answers |-> None]>>
           tail == [k \in 1 .. answered |-> [turn |-> t, calls |-> {}, answers |-> <<t, k>>]]
<1>0. called \in Nat /\ answered \in Nat
  BY CompactionAssumption
<1>1. {t} \X (1 .. called) \subseteq CallId /\ \A k \in 1 .. answered : <<t, k>> \in CallId
  BY CompactionAssumption DEF CallId
<1>2. head \in Seq(Row) /\ Len(head) = 1
  BY <1>1 DEF Row
<1>3. tail \in Seq(Row) /\ Len(tail) = answered
  <2>1. tail \in [1 .. answered -> Row]
    BY <1>1 DEF Row
  <2> QED
    BY <2>1, <1>0, SeqDef
<1>4. Block(t, called, answered) = head \o tail
  BY DEF Block
<1> HIDE DEF head, tail
<1>5. /\ head \o tail \in Seq(Row)
      /\ Len(head \o tail) = answered + 1
      /\ \A i \in 1 .. answered + 1 : (head \o tail)[i] = IF i <= 1 THEN head[i] ELSE tail[i - 1]
  <2>1. /\ head \o tail \in Seq(Row)
        /\ Len(head \o tail) = Len(head) + Len(tail)
        /\ \A i \in 1 .. Len(head) + Len(tail) :
             (head \o tail)[i] = IF i <= Len(head) THEN head[i] ELSE tail[i - Len(head)]
    BY <1>2, <1>3, ConcatProperties
  <2>2. Len(head) + Len(tail) = answered + 1
    BY <1>0, <1>2, <1>3
  <2> QED
    BY <2>1, <2>2, <1>2
<1>6. head[1] = [turn |-> t, calls |-> {t} \X (1 .. called), answers |-> None]
  BY DEF head
<1>7. \A k \in 2 .. answered + 1 : tail[k - 1] = [turn |-> t, calls |-> {}, answers |-> <<t, k - 1>>]
  BY DEF tail
<1> QED
  <2>1. 1 \in 1 .. answered + 1 /\ \A k \in 2 .. answered + 1 : k \in 1 .. answered + 1 /\ ~(k <= 1)
    BY <1>0
  <2>2. (head \o tail)[1] = head[1] /\ \A k \in 2 .. answered + 1 : (head \o tail)[k] = tail[k - 1]
    BY <2>1, <1>5
  <2> QED
    BY <2>2, <1>4, <1>5, <1>6, <1>7

\* Rows are appended, and speak of one turn's calls, each answered once.
Grown(t) ==
  /\ rows' \in Seq(Row)
  /\ Len(rows') >= Len(rows)
  /\ \A k \in 1 .. Len(rows) : rows'[k] = rows[k]
  /\ \A k \in Len(rows) + 1 .. Len(rows') :
       /\ rows'[k].answers # None => rows'[k].answers[1] = t
       /\ \A id \in rows'[k].calls : id[1] = t
       /\ rows'[k].answers # None =>
            \E a \in Len(rows) + 1 .. k - 1 : rows'[k].answers \in rows'[a].calls
  /\ \A j, k \in Len(rows) + 1 .. Len(rows') :
       rows'[j].answers = rows'[k].answers /\ rows'[j].answers # None => j = k

\* The message of the user announces and answers nothing.
LEMMA UserRowGrows ==
  ASSUME rows \in Seq(Row), NEW t \in Turn, rows' = Append(rows, UserRow(t))
  PROVE  Grown(t) /\ Len(rows') = Len(rows) + 1
         /\ rows'[Len(rows) + 1].calls = {} /\ rows'[Len(rows) + 1].answers = None
<1>1. UserRow(t) \in Row
  BY DEF UserRow, Row
<1>2. Len(rows) \in Nat
  BY LenProperties
<1> QED
  BY <1>1, <1>2, AppendProperties DEF Grown, UserRow

\* The end of a turn appends its block.
LEMMA BlockGrows ==
  ASSUME rows \in Seq(Row), NEW t \in Turn,
         NEW called \in 0 .. MaxCalls, NEW answered \in 0 .. called,
         rows' = rows \o Block(t, called, answered)
  PROVE  Grown(t)
<1> DEFINE blk == Block(t, called, answered)
<1>1. blk \in Seq(Row) /\ Len(blk) = answered + 1
  BY BlockRows
<1>2. \A k \in 1 .. Len(blk) :
        /\ blk[k].answers # None => k > 1 /\ blk[k].answers = <<t, k - 1>>
        /\ \A id \in blk[k].calls : id[1] = t
        /\ blk[k].answers # None => blk[k].answers \in blk[1].calls
  <2>0. called \in Nat /\ answered \in Nat
    BY CompactionAssumption
  <2>1. /\ blk[1] = [turn |-> t, calls |-> {t} \X (1 .. called), answers |-> None]
        /\ \A k \in 2 .. answered + 1 :
             blk[k] = [turn |-> t, calls |-> {}, answers |-> <<t, k - 1>>]
    BY BlockRows
  <2> HIDE DEF blk
  <2>2. ASSUME NEW k \in 2 .. answered + 1
        PROVE  blk[k].answers = <<t, k - 1>> /\ blk[k].calls = {} /\ blk[k].answers \in blk[1].calls
    <3>0. k - 1 \in 1 .. called
      BY <2>0
    <3>a. <<t, k - 1>> \in {t} \X (1 .. called)
      BY <3>0
    <3> DEFINE id == <<t, k - 1>>
    <3>1. blk[k] = [turn |-> t, calls |-> {}, answers |-> id]
      BY <2>1
    <3>b. id \in {t} \X (1 .. called)
      BY <3>a
    <3> HIDE DEF id
    <3>2. blk[k].answers = id /\ blk[k].calls = {}
      BY <3>1
    <3>3. blk[1].calls = {t} \X (1 .. called)
      BY <2>1
    <3>4. blk[k].answers \in blk[1].calls
      BY <3>2, <3>3, <3>b
    <3> QED
      BY <3>2, <3>4 DEF id
  <2> QED
    BY <1>1, <2>0, <2>1, <2>2
<1>3. Len(rows) \in Nat
  BY LenProperties
<1> HIDE DEF blk
<1>4. /\ rows' \in Seq(Row)
      /\ Len(rows') = Len(rows) + Len(blk)
      /\ \A i \in 1 .. Len(rows) + Len(blk) :
           rows'[i] = IF i <= Len(rows) THEN rows[i] ELSE blk[i - Len(rows)]
  BY <1>1, ConcatProperties DEF blk
<1>5. \A k \in Len(rows) + 1 .. Len(rows') : k - Len(rows) \in 1 .. Len(blk) /\ rows'[k] = blk[k - Len(rows)]
  <2> SUFFICES ASSUME NEW k \in Len(rows) + 1 .. Len(rows')
               PROVE  k - Len(rows) \in 1 .. Len(blk) /\ rows'[k] = blk[k - Len(rows)]
    OBVIOUS
  <2>1. Len(blk) \in Nat
    BY <1>1, LenProperties
  <2> DEFINE n == Len(rows)  m == Len(blk)
  <2>2. k \in n + 1 .. n + m
    BY <1>4
  <2> HIDE DEF n, m
  <2>3. k - n \in 1 .. m /\ k \in 1 .. n + m /\ ~(k <= n)
    BY <1>3, <2>1, <2>2 DEF n, m
  <2> QED
    BY <1>4, <2>3 DEF n, m
<1>6. \A k \in Len(rows) + 1 .. Len(rows') :
        /\ rows'[k].answers # None => rows'[k].answers = <<t, k - Len(rows) - 1>>
        /\ \A id \in rows'[k].calls : id[1] = t
  BY <1>2, <1>5
<1>8. ASSUME NEW k \in Len(rows) + 1 .. Len(rows'), rows'[k].answers # None
      PROVE  \E a \in Len(rows) + 1 .. k - 1 : rows'[k].answers \in rows'[a].calls
  <2>1. k - Len(rows) \in 1 .. Len(blk) /\ rows'[k] = blk[k - Len(rows)]
    BY <1>8, <1>5
  <2>2. k - Len(rows) > 1 /\ rows'[k].answers \in blk[1].calls
    BY <1>8, <1>2, <2>1
  <2>3. Len(rows) + 1 \in Len(rows) + 1 .. k - 1 /\ Len(rows) + 1 \in Len(rows) + 1 .. Len(rows')
    BY <2>2, <1>3
  <2>4. rows'[Len(rows) + 1] = blk[1]
    <3>1. rows'[Len(rows) + 1] = blk[(Len(rows) + 1) - Len(rows)]
      BY <2>3, <1>5
    <3>2. (Len(rows) + 1) - Len(rows) = 1
      BY <1>3
    <3> QED
      BY <3>1, <3>2
  <2> QED
    BY <2>2, <2>3, <2>4
<1>7. \A j, k \in Len(rows) + 1 .. Len(rows') :
        rows'[j].answers = rows'[k].answers /\ rows'[j].answers # None => j = k
  <2> SUFFICES ASSUME NEW j \in Len(rows) + 1 .. Len(rows'), NEW k \in Len(rows) + 1 .. Len(rows'),
                      rows'[j].answers = rows'[k].answers, rows'[j].answers # None
               PROVE  j = k
    OBVIOUS
  <2>1. <<t, j - Len(rows) - 1>> = <<t, k - Len(rows) - 1>>
    BY <1>6
  <2>2. j - Len(rows) - 1 = k - Len(rows) - 1
    BY <2>1
  <2> QED
    BY <2>2, <1>3
<1> QED
  <2>1. Len(rows') >= Len(rows) /\ \A k \in 1 .. Len(rows) : rows'[k] = rows[k]
    <3>1. Len(blk) \in Nat
      BY <1>1, LenProperties
    <3> QED
      BY <3>1, <1>3, <1>4
  <2>2. \A k \in Len(rows) + 1 .. Len(rows') :
          rows'[k].answers # None => rows'[k].answers[1] = t
    <3> SUFFICES ASSUME NEW k \in Len(rows) + 1 .. Len(rows'), rows'[k].answers # None
                 PROVE  rows'[k].answers[1] = t
      OBVIOUS
    <3>1. rows'[k].answers = <<t, k - Len(rows) - 1>>
      BY <1>6
    <3> QED
      BY <3>1
  <2> QED
    BY <2>1, <2>2, <1>4, <1>6, <1>7, <1>8 DEF Grown
-----------------------------------------------------------------------------
(***************************************************************************)
(* The shape of the state.                                                 *)
(***************************************************************************)

\* A task's name, part by part.
LEMMA TaskParts ==
  /\ \A t \in Turn : <<t, "forced">> \in Task /\ <<t, "background">> \in Task
  /\ \A c \in Task : c[1] \in Turn /\ c = <<c[1], c[2]>> /\ c[2] \in {"forced", "background"}
  BY DEF Task

\* Before the first turn nothing runs and nothing is folded.
LEMMA InitIInv == Init => IInv
<1> SUFFICES ASSUME Init PROVE IInv
  OBVIOUS
<1>1. rows \in Seq(Row) /\ Len(rows) = 0
  BY EmptySeq DEF Init
<1>2. TypeOK
  <2>1. /\ read \in [Task -> [cursor : Nat, summary : SUBSET Nat]]
        /\ fold \in [Task -> [through : Nat, covers : SUBSET Nat, without : SUBSET Nat]]
    BY DEF Init, Nothing, NoFold
  <2>2. /\ pc \in [Turn -> Pcs] /\ attempt \in [Turn -> 0 .. MaxRetries]
        /\ task \in [Task -> {"none", "scheduled"} \cup Running]
        /\ restarts \in 0 .. MaxRestarts
    BY CompactionAssumption DEF Init, Pcs
  <2>3. /\ cursor \in 0 .. Len(rows) /\ summary \subseteq 1 .. Len(rows)
        /\ dropped \subseteq 1 .. Len(rows) /\ inFlight \in BOOLEAN
    <3>1. cursor = 0 /\ summary = {} /\ dropped = {} /\ inFlight = FALSE
      BY DEF Init
    <3>2. 0 \in 0 .. Len(rows)
      BY <1>1
    <3> QED
      BY <3>1, <3>2
  <2>4. /\ asked \in [Turn -> 0 .. Len(rows)]
        /\ sent \in [Turn -> [from : 0 .. Len(rows), own : BOOLEAN] \cup {None}]
    BY <1>1 DEF Init
  <2> QED
    BY <1>1, <2>1, <2>2, <2>3, <2>4 DEF TypeOK
<1>3. InFlightIsOne /\ ReadInv /\ FoldInv
  BY DEF Init, InFlightIsOne, Running, ReadInv, FoldInv
<1>4. TaskInv /\ SentInv
  BY TaskParts DEF Init, TaskInv, SentInv
<1>5. RowsInv /\ FoldedIsKept /\ NoPairIsSplit
  BY <1>1 DEF Init, RowsInv, FoldedIsKept, NoPairIsSplit
<1> QED
  BY <1>2, <1>3, <1>4, <1>5 DEF IInv

\* What indices into the rows range over only grows.
LEMMA GrownRanges ==
  ASSUME TypeOK, NEW t \in Turn, Grown(t), UNCHANGED <<cursor, summary, dropped>>
  PROVE  /\ rows' \in Seq(Row) /\ cursor' \in 0 .. Len(rows')
         /\ summary' \subseteq 1 .. Len(rows') /\ dropped' \subseteq 1 .. Len(rows')
         /\ 0 .. Len(rows) \subseteq 0 .. Len(rows') /\ Len(rows) \in Nat /\ Len(rows') \in Nat
<1>1. Len(rows) \in Nat /\ Len(rows') \in Nat
  BY LenProperties DEF TypeOK, Grown
<1> QED
  BY <1>1 DEF TypeOK, Grown

\* The end of a compaction keeps the shape of what it ends.
LEMMA ReturnTypes ==
  ASSUME TypeOK, NEW c \in Task, NEW result \in BOOLEAN, Return(c, result)
  PROVE  /\ inFlight' \in BOOLEAN /\ pc' \in [Turn -> Pcs]
         /\ task' \in [Task -> {"none", "scheduled"} \cup Running]
         /\ read' \in [Task -> [cursor : Nat, summary : SUBSET Nat]]
         /\ fold' \in [Task -> [through : Nat, covers : SUBSET Nat, without : SUBSET Nat]]
<1>1. pc' \in [Turn -> Pcs]
  BY TaskParts DEF Return, TypeOK, Pcs
<1> QED
  BY <1>1 DEF Return, TypeOK, Nothing, NoFold, Running

\* The cuts lie between the cursor and the last row.
LEMMA CutRange ==
  ASSUME NEW from \in Nat, NEW upto \in Nat, from <= upto, NEW kind,
         NEW cut \in Cuts(from, upto, kind)
  PROVE  cut \in from .. upto
<1>1. CASE kind = "forced"
  BY <1>1 DEF Cuts, Aligned
<1>2. CASE kind # "forced"
  <2>1. PICK wanted \in from .. Least(IF upto - from >= 1 THEN upto - 1 ELSE from,
                                      IF upto - from >= KeepRecent THEN upto - KeepRecent ELSE from) :
          cut \in Aligned(from, upto, wanted)
    BY <1>2 DEF Cuts
  <2>2. wanted <= upto
    BY <2>1, CompactionAssumption DEF Least
  <2> QED
    BY <2>1, <2>2 DEF Aligned
<1> QED
  BY <1>1, <1>2

\* A checkpoint that is written has the shape of one.
LEMMA WrittenTypes ==
  ASSUME TypeOK, NEW c \in Task, Sound(fold[c]), Written(c)
  PROVE  /\ rows' = rows /\ cursor' = fold[c].through
         /\ cursor' \in 0 .. Len(rows') /\ summary' \subseteq 1 .. Len(rows')
         /\ dropped' \subseteq 1 .. Len(rows')
<1>1. Len(rows) \in Nat
  BY LenProperties DEF TypeOK
<1>2. cursor' = fold[c].through /\ rows' = rows
  BY <1>1 DEF Written, Sound, Least, TypeOK
<1>3. fold[c].through \in 0 .. Len(rows) /\ fold[c].covers \subseteq 1 .. Len(rows)
        /\ fold[c].without \subseteq 1 .. Len(rows)
  BY <1>1 DEF Sound, TypeOK
<1> QED
  BY <1>2, <1>3 DEF Written, TypeOK

\* Every action keeps the shape of the state.
LEMMA TypeStep == TypeOK /\ ReadInv /\ FoldInv /\ [Next]_vars => TypeOK'
<1> SUFFICES ASSUME TypeOK, ReadInv, FoldInv, [Next]_vars PROVE TypeOK'
  OBVIOUS
<1> USE DEF store, turns, tasks
<1>0. Len(rows) \in Nat
  BY LenProperties DEF TypeOK
<1>1. CASE UNCHANGED vars
  BY <1>1 DEF vars, TypeOK
<1>2. ASSUME NEW t \in Turn, Create(t) PROVE TypeOK'
  <2>1. rows' = Append(rows, UserRow(t)) /\ Len(rows) = 0
    BY <1>2 DEF Create, UserRow
  <2>2. Grown(t) /\ Len(rows') = 1
    BY <2>1, UserRowGrows DEF TypeOK
  <2> QED
    BY <1>2, <2>2, GrownRanges DEF Create, TypeOK, Pcs
<1>3. ASSUME NEW t \in Turn, FetchPrior(t) PROVE TypeOK'
  BY <1>3 DEF FetchPrior, TypeOK, Pcs
<1>4. ASSUME NEW t \in Turn, AppendUser(t) PROVE TypeOK'
  <2>1. Grown(t) /\ Len(rows') = Len(rows) + 1
    BY <1>4, UserRowGrows DEF AppendUser, TypeOK
  <2>2. sent' \in [Turn -> [from : 0 .. Len(rows'), own : BOOLEAN] \cup {None}]
    BY <1>0, <1>4, <2>1, GrownRanges DEF AppendUser, TypeOK
  <2>3. asked' \in [Turn -> 0 .. Len(rows')]
    <3>1. asked' = [asked EXCEPT ![t] = Len(rows')] /\ Len(rows') \in 0 .. Len(rows')
      BY <1>0, <1>4, <2>1 DEF AppendUser
    <3>2. asked \in [Turn -> 0 .. Len(rows')]
      BY <1>4, <2>1, GrownRanges DEF AppendUser, TypeOK
    <3> QED
      BY <3>1, <3>2
  <2>4. pc' \in [Turn -> Pcs]
    BY <1>4 DEF AppendUser, TypeOK, Pcs
  <2>5. UNCHANGED <<cursor, summary, dropped, inFlight, attempt, task, read, fold, restarts>>
    BY <1>4 DEF AppendUser
  <2> QED
    BY <2>1, <2>2, <2>3, <2>4, <2>5, GrownRanges DEF TypeOK
<1>5. ASSUME NEW t \in Turn, Overflow(t) PROVE TypeOK'
  <2>1. attempt' \in [Turn -> 0 .. MaxRetries]
    BY <1>5, CompactionAssumption DEF Overflow, TypeOK
  <2> QED
    BY <1>5, <2>1, TaskParts DEF Overflow, Enter, TypeOK, Pcs, Running
<1>6. ASSUME NEW t \in Turn, Rebuild(t) PROVE TypeOK'
  BY <1>6 DEF Rebuild, TypeOK, Pcs
<1>7. ASSUME NEW t \in Turn, FlushTurn(t) PROVE TypeOK'
  <2>1. Grown(t)
    <3>1. CASE rows' = rows
      BY <1>0, <3>1 DEF Grown, TypeOK
    <3>2. CASE \E called \in 0 .. MaxCalls : \E answered \in 0 .. called :
                 rows' = rows \o Block(t, called, answered)
      BY <3>2, BlockGrows DEF TypeOK
    <3>3. (IF pc[t] = "running" THEN 0 .. MaxCalls ELSE {0}) \subseteq 0 .. MaxCalls
      BY CompactionAssumption
    <3> QED
      BY <1>7, <3>1, <3>2, <3>3 DEF FlushTurn
  <2>2. UNCHANGED <<cursor, summary, dropped, inFlight, read, fold, restarts>>
    BY <1>7 DEF FlushTurn
  <2>3. asked' \in [Turn -> 0 .. Len(rows')]
    BY <1>7, <2>1, <2>2, GrownRanges DEF FlushTurn, TypeOK
  <2>4. sent' \in [Turn -> [from : 0 .. Len(rows'), own : BOOLEAN] \cup {None}]
    BY <1>7, <2>1, <2>2, GrownRanges DEF FlushTurn, TypeOK
  <2>5. /\ pc' \in [Turn -> Pcs] /\ attempt' \in [Turn -> 0 .. MaxRetries]
        /\ task' \in [Task -> {"none", "scheduled"} \cup Running]
    <3>1. pc' = [pc EXCEPT ![t] = "over"] /\ attempt' = [attempt EXCEPT ![t] = 0]
          /\ task' = [task EXCEPT ![<<t, "background">>] = "scheduled"]
      BY <1>7 DEF FlushTurn
    <3>2. 0 \in 0 .. MaxRetries /\ "over" \in Pcs
      BY CompactionAssumption DEF Pcs
    <3> QED
      BY <3>1, <3>2, TaskParts DEF TypeOK
  <2> QED
    BY <2>1, <2>2, <2>3, <2>4, <2>5, GrownRanges DEF TypeOK
<1>8. ASSUME NEW c \in Task, BackgroundStart(c) PROVE TypeOK'
  BY <1>8 DEF BackgroundStart, Enter, TypeOK, Running
<1>9. ASSUME NEW c \in Task, Measure(c) PROVE TypeOK'
  <2>1. CASE Return(c, FALSE)
    BY <1>9, <2>1, ReturnTypes DEF Measure, TypeOK
  <2>2. CASE UNCHANGED <<inFlight, pc, read, fold>>
    BY <1>9, <2>2 DEF Measure, Return, TypeOK, Running
  <2> QED
    BY <1>9, <2>1, <2>2 DEF Measure
<1>10. ASSUME NEW c \in Task, FetchMeta(c) PROVE TypeOK'
  BY <1>0, <1>10 DEF FetchMeta, TypeOK, Running
<1>11. ASSUME NEW c \in Task, FetchFull(c) PROVE TypeOK'
  <2>1. CASE Return(c, FALSE) /\ UNCHANGED <<store, attempt, asked, sent, restarts>>
    BY <2>1, ReturnTypes DEF TypeOK
  <2>2. ASSUME NEW cut \in Cuts(cursor, Len(rows), c[2]), NEW start \in cursor .. cut - 1,
               NEW unshown \in Unshown(start, cut),
               fold' = [fold EXCEPT ![c] = Capped(summary, cursor, cut, start, unshown)],
               task' = [task EXCEPT ![c] = "asking"],
               UNCHANGED <<store, inFlight, pc, read, attempt, asked, sent, restarts>>
        PROVE  TypeOK'
    <3>1. cursor \in Nat /\ cut \in Nat /\ summary \subseteq Nat
      BY <1>0, CutRange DEF TypeOK
    <3>a. (start + 1 .. cut) \ unshown \subseteq Nat /\ cursor + 1 .. start \subseteq Nat
      BY <3>1
    <3>2. Capped(summary, cursor, cut, start, unshown)
            \in [through : Nat, covers : SUBSET Nat, without : SUBSET Nat]
      BY <3>1, <3>a DEF Capped
    <3> QED
      BY <2>2, <3>2 DEF TypeOK, Running
  <2>3. read[c] = [cursor |-> cursor, summary |-> summary]
    BY <1>11 DEF FetchFull, ReadInv
  <2>4. UNCHANGED <<store, attempt, asked, sent, restarts>>
    BY <1>11 DEF FetchFull
  <2>6. read[c].cursor = cursor /\ read[c].summary = summary
    BY <2>3
  <2>5. PICK cut \in Cuts(cursor, Len(rows), c[2]) :
          \/ Return(c, FALSE)
          \/ /\ cut > cursor
             /\ \E start \in cursor .. cut - 1 : \E unshown \in Unshown(start, cut) :
                  fold' = [fold EXCEPT ![c] = Capped(summary, cursor, cut, start, unshown)]
             /\ task' = [task EXCEPT ![c] = "asking"]
             /\ UNCHANGED <<inFlight, pc, read>>
    BY <1>11, <2>6 DEF FetchFull
  <2> QED
    BY <2>1, <2>2, <2>4, <2>5
<1>12. ASSUME NEW c \in Task, Summarized(c) PROVE TypeOK'
  BY <1>12 DEF Summarized, TypeOK, Running
<1>13. ASSUME NEW c \in Task, SaveSummary(c) PROVE TypeOK'
  <2>1. Sound(fold[c])
    BY <1>13 DEF SaveSummary, FoldInv
  <2> QED
    BY <1>13, <2>1, WrittenTypes, ReturnTypes DEF SaveSummary, TypeOK
<1>14. ASSUME NEW c \in Task, CompactionFails(c) PROVE TypeOK'
  <2>1. CASE task[c] = "saving" /\ Written(c)
    <3>1. Sound(fold[c])
      BY <2>1 DEF FoldInv
    <3> QED
      BY <1>14, <2>1, <3>1, WrittenTypes, ReturnTypes DEF CompactionFails, TypeOK
  <2>2. CASE UNCHANGED store
    BY <1>14, <2>2, ReturnTypes DEF CompactionFails, TypeOK
  <2> QED
    BY <1>14, <2>1, <2>2 DEF CompactionFails
<1>15. CASE Restart
  <2>1. /\ read' \in [Task -> [cursor : Nat, summary : SUBSET Nat]]
        /\ fold' \in [Task -> [through : Nat, covers : SUBSET Nat, without : SUBSET Nat]]
    BY <1>15 DEF Restart, Nothing, NoFold
  <2>2. /\ pc' \in [Turn -> Pcs] /\ attempt' \in [Turn -> 0 .. MaxRetries]
        /\ task' \in [Task -> {"none", "scheduled"} \cup Running]
        /\ asked' \in [Turn -> 0 .. Len(rows)]
    BY <1>0, <1>15, CompactionAssumption DEF Restart, TypeOK, Pcs
  <2>3. UNCHANGED store /\ sent' = [t \in Turn |-> None] /\ inFlight' = FALSE
        /\ restarts' \in 0 .. MaxRestarts
    BY <1>15, CompactionAssumption DEF Restart, TypeOK
  <2> QED
    BY <2>1, <2>2, <2>3 DEF TypeOK
<1> QED
  BY <1>1, <1>2, <1>3, <1>4, <1>5, <1>6, <1>7, <1>8, <1>9, <1>10, <1>11, <1>12, <1>13,
     <1>14, <1>15
  DEF Next
-----------------------------------------------------------------------------
(***************************************************************************)
(* One compaction at a time.                                               *)
(***************************************************************************)

Mutex == InFlightIsOne /\ TaskInv

\* Tasks and turns that do not move keep it.
LEMMA StillMutex ==
  ASSUME Mutex, UNCHANGED <<inFlight, task>>,
         \A t \in Turn : pc[t] \in {"compacting", "over"} => pc'[t] = pc[t]
  PROVE  Mutex'
  BY DEF Mutex, InFlightIsOne, TaskInv

\* So does a task that goes on.
LEMMA OnwardMutex ==
  ASSUME TypeOK, Mutex, NEW c \in Task, task[c] \in Running, NEW v \in Running,
         task' = [task EXCEPT ![c] = v], UNCHANGED <<inFlight, pc>>
  PROVE  Mutex'
<1>1. InFlightIsOne'
  BY DEF Mutex, InFlightIsOne, TypeOK
<1>2. \A e \in Task : (task'[e] # "none" => task[e] # "none")
                      /\ (task'[e] = task[e] \/ task'[e] \in Running)
  BY DEF TypeOK, Running
<1>3. TaskInv'
  BY <1>2, TaskParts DEF Mutex, TaskInv
<1> QED
  BY <1>1, <1>3 DEF Mutex

\* Whoever finds nobody in flight is alone.
LEMMA EnterIsAlone ==
  ASSUME TypeOK, InFlightIsOne, NEW c \in Task, Enter(c)
  PROVE  InFlightIsOne'
<1>1. \A d \in Task : task[d] \notin Running
  BY DEF InFlightIsOne, Enter
<1>2. \A d \in Task \ {c} : task'[d] \notin Running
  BY <1>1 DEF Enter, TypeOK
<1>3. task'[c] \in Running
  BY DEF Enter, TypeOK, Running
<1> QED
  BY <1>2, <1>3 DEF InFlightIsOne, Enter

\* A compaction that returns leaves nobody in flight.
LEMMA ReturnMutex ==
  ASSUME TypeOK, Mutex, NEW c \in Task, NEW result \in BOOLEAN, task[c] \in Running,
         Return(c, result)
  PROVE  Mutex'
<1>1. \A d \in Task : task'[d] \notin Running
  BY DEF Return, TypeOK, Mutex, InFlightIsOne, Running
<1>2. InFlightIsOne'
  BY <1>1 DEF Return, InFlightIsOne
<1>3. TaskInv'
  <2> SUFFICES ASSUME NEW t \in Turn
               PROVE  /\ task'[<<t, "forced">>] # "none" =>
                           pc'[t] = "compacting" /\ task'[<<t, "forced">>] \in Running
                      /\ task'[<<t, "background">>] # "none" => pc'[t] = "over"
    BY DEF TaskInv
  <2>1. task' = [task EXCEPT ![c] = "none"] /\ \A q \in Turn \ {c[1]} : pc'[q] = pc[q]
    BY DEF Return, TypeOK
  <2>2. CASE c = <<t, "forced">>
    <3>1. pc[t] = "compacting" /\ task'[c] = "none"
      BY <2>1, <2>2 DEF Mutex, TaskInv, TypeOK, Running
    <3>2. task[<<t, "background">>] = "none"
      BY <3>1 DEF Mutex, TaskInv
    <3>3. task'[<<t, "background">>] = "none"
      BY <2>1, <2>2, <3>2, TaskParts DEF TypeOK
    <3> QED
      BY <2>2, <3>1, <3>3
  <2>3. CASE c = <<t, "background">>
    <3>1. pc[t] = "over" /\ task'[c] = "none"
      BY <2>1, <2>3 DEF Mutex, TaskInv, TypeOK, Running
    <3>2. task[<<t, "forced">>] = "none"
      BY <3>1 DEF Mutex, TaskInv
    <3>3. task'[<<t, "forced">>] = "none"
      BY <2>1, <2>3, <3>2, TaskParts DEF TypeOK
    <3> QED
      BY <2>3, <3>1, <3>3
  <2>4. CASE c # <<t, "forced">> /\ c # <<t, "background">>
    <3>1. c[1] # t
      BY <2>4, TaskParts
    <3> QED
      BY <2>1, <2>4, <3>1, TaskParts DEF Mutex, TaskInv, TypeOK
  <2> QED
    BY <2>2, <2>3, <2>4
<1> QED
  BY <1>2, <1>3 DEF Mutex

\* Every step keeps at most one compaction at work.
LEMMA MutexStep == TypeOK /\ Mutex /\ [Next]_vars => Mutex'
<1> SUFFICES ASSUME TypeOK, Mutex, [Next]_vars PROVE Mutex'
  OBVIOUS
<1> USE DEF store, turns, tasks
<1>1. CASE UNCHANGED vars
  BY <1>1, StillMutex DEF vars
<1>2. ASSUME NEW t \in Turn, Create(t) \/ FetchPrior(t) \/ AppendUser(t) \/ Rebuild(t)
      PROVE  Mutex'
  BY <1>2, StillMutex DEF Create, FetchPrior, AppendUser, Rebuild, TypeOK
<1>3. ASSUME NEW t \in Turn, Overflow(t) PROVE Mutex'
  <2>1. CASE Enter(<<t, "forced">>) /\ pc' = [pc EXCEPT ![t] = "compacting"]
    <3>1. InFlightIsOne'
      BY <2>1, EnterIsAlone, TaskParts DEF Mutex
    <3>2. pc[t] = "running" /\ task' = [task EXCEPT ![<<t, "forced">>] = "meta"]
      BY <1>3, <2>1 DEF Overflow, Enter
    <3>3. task[<<t, "background">>] = "none" /\ task[<<t, "forced">>] = "none"
      BY <3>2 DEF Mutex, TaskInv
    <3>4. /\ \A s \in Turn : s # t => pc'[s] = pc[s]
          /\ pc'[t] = "compacting" /\ pc[t] = "running"
      BY <2>1, <3>2 DEF TypeOK
    <3>5. task'[<<t, "forced">>] = "meta" /\ task'[<<t, "background">>] = "none"
      BY <3>2, <3>3, TaskParts DEF TypeOK
    <3>6. \A s \in Turn : s # t => /\ task'[<<s, "forced">>] = task[<<s, "forced">>]
                                   /\ task'[<<s, "background">>] = task[<<s, "background">>]
      BY <3>2, TaskParts DEF TypeOK
    <3>7. TaskInv'
      <4> SUFFICES ASSUME NEW s \in Turn
                   PROVE  /\ task'[<<s, "forced">>] # "none"
                               => pc'[s] = "compacting" /\ task'[<<s, "forced">>] \in Running
                          /\ task'[<<s, "background">>] # "none" => pc'[s] = "over"
        BY DEF TaskInv
      <4>1. CASE s = t
        BY <3>4, <3>5, <4>1 DEF Running
      <4>2. CASE s # t
        BY <3>4, <3>6, <4>2 DEF Mutex, TaskInv
      <4> QED
        BY <4>1, <4>2
    <3> QED
      BY <3>1, <3>7 DEF Mutex
  <2>2. CASE pc' = [pc EXCEPT ![t] = "refused"] /\ UNCHANGED <<inFlight, task>>
    BY <1>3, <2>2, StillMutex DEF Overflow, TypeOK
  <2> QED
    BY <1>3, <2>1, <2>2 DEF Overflow
<1>4. ASSUME NEW t \in Turn, FlushTurn(t) PROVE Mutex'
  <2>1. /\ pc[t] \in {"running", "rebuilding", "refused"} /\ pc' = [pc EXCEPT ![t] = "over"]
        /\ task' = [task EXCEPT ![<<t, "background">>] = "scheduled"] /\ UNCHANGED inFlight
    BY <1>4 DEF FlushTurn
  <2>2. task[<<t, "background">>] = "none" /\ task[<<t, "forced">>] = "none"
    BY <2>1 DEF Mutex, TaskInv
  <2>3. \A c \in Task : task'[c] \in Running <=> task[c] \in Running
    BY <2>1, <2>2, TaskParts DEF TypeOK, Running
  <2>4. TaskInv'
    BY <2>1, <2>2, TaskParts DEF Mutex, TaskInv, TypeOK
  <2> QED
    BY <2>1, <2>3, <2>4 DEF Mutex, InFlightIsOne
<1>5. ASSUME NEW c \in Task, BackgroundStart(c) PROVE Mutex'
  <2>1. UNCHANGED pc /\ c[2] = "background" /\ task[c] = "scheduled"
    BY <1>5 DEF BackgroundStart
  <2>2. CASE Enter(c)
    <3>1. task' = [task EXCEPT ![c] = "measuring"]
      BY <2>1, <2>2 DEF Enter
    <3>2. \A d \in Task : d # c => task'[d] = task[d]
      BY <3>1 DEF TypeOK
    <3>3. \A t \in Turn : task'[<<t, "forced">>] = task[<<t, "forced">>]
      BY <2>1, <3>2, TaskParts
    <3>4. \A t \in Turn : task'[<<t, "background">>] # "none" => task[<<t, "background">>] # "none"
      BY <2>1, <3>2, TaskParts
    <3>5. TaskInv'
      BY <2>1, <3>3, <3>4 DEF Mutex, TaskInv
    <3> QED
      BY <2>2, <3>5, EnterIsAlone DEF Mutex
  <2>3. CASE task' = [task EXCEPT ![c] = "none"] /\ UNCHANGED inFlight
    <3>1. \A d \in Task : task'[d] \in Running <=> task[d] \in Running
      BY <2>1, <2>3 DEF TypeOK, Running
    <3>2. TaskInv'
      BY <2>1, <2>3, TaskParts DEF Mutex, TaskInv, TypeOK
    <3> QED
      BY <2>3, <3>1, <3>2 DEF Mutex, InFlightIsOne
  <2> QED
    BY <1>5, <2>2, <2>3 DEF BackgroundStart
<1>6. ASSUME NEW c \in Task, Measure(c) PROVE Mutex'
  BY <1>6, ReturnMutex, OnwardMutex DEF Measure, Running
<1>7. ASSUME NEW c \in Task, FetchMeta(c) PROVE Mutex'
  BY <1>7, OnwardMutex DEF FetchMeta, Running
<1>8. ASSUME NEW c \in Task, FetchFull(c) PROVE Mutex'
  BY <1>8, ReturnMutex, OnwardMutex DEF FetchFull, Running
<1>9. ASSUME NEW c \in Task, Summarized(c) PROVE Mutex'
  BY <1>9, OnwardMutex DEF Summarized, Running
<1>10. ASSUME NEW c \in Task, SaveSummary(c) PROVE Mutex'
  BY <1>10, ReturnMutex DEF SaveSummary, Running
<1>11. ASSUME NEW c \in Task, CompactionFails(c) PROVE Mutex'
  BY <1>11, ReturnMutex DEF CompactionFails, Running
<1>12. CASE Restart
  BY <1>12, TaskParts DEF Restart, Mutex, InFlightIsOne, TaskInv, Running
<1> QED
  BY <1>1, <1>2, <1>3, <1>4, <1>5, <1>6, <1>7, <1>8, <1>9, <1>10, <1>11, <1>12 DEF Next
-----------------------------------------------------------------------------
(***************************************************************************)
(* Calls, results and cuts.                                                *)
(***************************************************************************)

\* A turn that is over stays over.
LEMMA OverIsFinal ==
  TypeOK /\ Mutex /\ [Next]_vars => \A t \in Turn : pc[t] = "over" => pc'[t] = "over"
<1> SUFFICES ASSUME TypeOK, Mutex, [Next]_vars, NEW q \in Turn, pc[q] = "over"
             PROVE  pc'[q] = "over"
  OBVIOUS
<1> USE DEF turns
<1>1. ASSUME NEW c \in Task, NEW result \in BOOLEAN, task[c] \in Running, Return(c, result)
      PROVE  pc'[q] = "over"
  <2>1. CASE c = <<q, "forced">>
    BY <1>1, <2>1 DEF Mutex, TaskInv, Running
  <2>2. CASE c # <<q, "forced">>
    BY <1>1, <2>2, TaskParts DEF Return, TypeOK
  <2> QED
    BY <2>1, <2>2
<1>2. CASE UNCHANGED vars
  BY <1>2 DEF vars
<1>3. ASSUME NEW t \in Turn,
             Create(t) \/ FetchPrior(t) \/ AppendUser(t) \/ Overflow(t) \/ Rebuild(t) \/ FlushTurn(t)
      PROVE  pc'[q] = "over"
  BY <1>3 DEF Create, FetchPrior, AppendUser, Overflow, Rebuild, FlushTurn, TypeOK
<1>4. ASSUME NEW c \in Task, BackgroundStart(c) \/ FetchMeta(c) \/ Summarized(c)
      PROVE  pc'[q] = "over"
  BY <1>4 DEF BackgroundStart, FetchMeta, Summarized
<1>5. ASSUME NEW c \in Task, Measure(c) \/ FetchFull(c) \/ SaveSummary(c) \/ CompactionFails(c)
      PROVE  pc'[q] = "over"
  BY <1>1, <1>5 DEF Measure, FetchFull, SaveSummary, CompactionFails, Running
<1>6. CASE Restart
  BY <1>6 DEF Restart
<1> QED
  BY <1>2, <1>3, <1>4, <1>5, <1>6 DEF Next

\* The rows a step adds are a message of a user, or all of a turn that ends.
Plain == \A k \in Len(rows) + 1 .. Len(rows') : rows'[k].calls = {} /\ rows'[k].answers = None
RowsGrow ==
  \/ rows' = rows
  \/ \E t \in Turn : Grown(t) /\ (Plain \/ (pc[t] # "over" /\ pc'[t] = "over"))

LEMMA RowsOnlyGrow == TypeOK /\ ReadInv /\ FoldInv /\ [Next]_vars => RowsGrow
<1> SUFFICES ASSUME TypeOK, ReadInv, FoldInv, [Next]_vars PROVE RowsGrow
  OBVIOUS
<1> USE DEF store
<1>0. Len(rows) \in Nat
  BY LenProperties DEF TypeOK
<1>1. ASSUME NEW t \in Turn, rows' = Append(rows, UserRow(t)) PROVE RowsGrow
  BY <1>0, <1>1, UserRowGrows DEF TypeOK, RowsGrow, Plain
<1>2. CASE UNCHANGED vars
  BY <1>2 DEF vars, RowsGrow
<1>3. ASSUME NEW t \in Turn, Create(t) PROVE RowsGrow
  <2>1. rows' = Append(rows, UserRow(t))
    BY <1>3 DEF Create, UserRow
  <2> QED
    BY <1>1, <2>1
<1>4. ASSUME NEW t \in Turn, AppendUser(t) PROVE RowsGrow
  BY <1>1, <1>4 DEF AppendUser
<1>5. ASSUME NEW t \in Turn, FlushTurn(t) PROVE RowsGrow
  <2>1. pc[t] # "over" /\ pc'[t] = "over"
    BY <1>5 DEF FlushTurn, TypeOK
  <2>2. (IF pc[t] = "running" THEN 0 .. MaxCalls ELSE {0}) \subseteq 0 .. MaxCalls
    BY CompactionAssumption
  <2>3. rows' = rows \/ Grown(t)
    BY <1>5, <2>2, BlockGrows DEF FlushTurn, TypeOK
  <2> QED
    BY <2>1, <2>3 DEF RowsGrow
<1>6. ASSUME NEW t \in Turn, FetchPrior(t) \/ Overflow(t) \/ Rebuild(t) PROVE RowsGrow
  BY <1>6 DEF FetchPrior, Overflow, Rebuild, RowsGrow
<1>7. ASSUME NEW c \in Task,
             \/ BackgroundStart(c) \/ Measure(c) \/ FetchMeta(c) \/ FetchFull(c)
             \/ Summarized(c) \/ SaveSummary(c) \/ CompactionFails(c)
      PROVE  RowsGrow
  BY <1>7 DEF BackgroundStart, Measure, FetchMeta, FetchFull, Summarized, SaveSummary,
              CompactionFails, Written, RowsGrow
<1>8. CASE Restart
  BY <1>8 DEF Restart, RowsGrow
<1> QED
  BY <1>2, <1>3, <1>4, <1>5, <1>6, <1>7, <1>8 DEF Next

\* Calls and results stay those of turns that are over, answered once.
LEMMA RowsStep ==
  ASSUME TypeOK, RowsInv, RowsGrow, \A t \in Turn : pc[t] = "over" => pc'[t] = "over"
  PROVE  RowsInv'
<1>0. Len(rows) \in Nat /\ \A k \in 1 .. Len(rows) : rows[k] \in Row
  BY LenProperties, ElementOfSeq DEF TypeOK
<1>1. \A k \in 1 .. Len(rows) :
        /\ \A id \in rows[k].calls : id[1] \in Turn
        /\ rows[k].answers # None => rows[k].answers[1] \in Turn
  BY <1>0 DEF Row, CallId
<1>2. CASE rows' = rows
  BY <1>1, <1>2 DEF RowsInv
<1>3. ASSUME NEW t \in Turn, Grown(t), Plain \/ (pc[t] # "over" /\ pc'[t] = "over")
      PROVE  RowsInv'
  <2>0. Len(rows') \in Nat /\ \A k \in 1 .. Len(rows') : k \in 1 .. Len(rows) \/ k \in Len(rows) + 1 .. Len(rows')
    BY <1>0, <1>3, LenProperties DEF Grown
  <2>1. \A k \in 1 .. Len(rows') : \A id \in rows'[k].calls : pc'[id[1]] = "over"
    BY <1>1, <1>3, <2>0 DEF Grown, Plain, RowsInv
  <2>2. \A k \in 1 .. Len(rows') : rows'[k].answers # None => pc'[rows'[k].answers[1]] = "over"
    BY <1>1, <1>3, <2>0 DEF Grown, Plain, RowsInv
  <2>5. ASSUME NEW k \in 1 .. Len(rows'), rows'[k].answers # None
        PROVE  \E a \in 1 .. k - 1 : rows'[k].answers \in rows'[a].calls
    <3>1. CASE k \in 1 .. Len(rows)
      <4>1. rows'[k] = rows[k] /\ \A a \in 1 .. k - 1 : rows'[a] = rows[a]
        BY <1>0, <1>3, <3>1 DEF Grown
      <4> QED
        BY <2>5, <3>1, <4>1 DEF RowsInv
    <3>2. CASE k \in Len(rows) + 1 .. Len(rows')
      <4>1. PICK a \in Len(rows) + 1 .. k - 1 : rows'[k].answers \in rows'[a].calls
        BY <1>3, <2>5, <3>2 DEF Grown
      <4>2. a \in 1 .. k - 1
        BY <1>0
      <4> QED
        BY <4>1, <4>2
    <3> QED
      BY <2>0, <3>1, <3>2
  <2>3. ASSUME NEW j \in 1 .. Len(rows), NEW k \in Len(rows) + 1 .. Len(rows'),
               rows'[j].answers = rows'[k].answers, rows'[j].answers # None
        PROVE  FALSE
    <3>1. rows'[k].answers[1] = t /\ ~Plain
      BY <1>3, <2>3 DEF Grown, Plain
    <3>2. pc[rows[j].answers[1]] = "over"
      BY <1>3, <2>3 DEF Grown, RowsInv
    <3> QED
      BY <1>3, <2>3, <3>1, <3>2 DEF Grown
  <2>4. \A j, k \in 1 .. Len(rows') :
          rows'[j].answers = rows'[k].answers /\ rows'[j].answers # None => j = k
    BY <1>3, <2>0, <2>3 DEF Grown, RowsInv
  <2> QED
    BY <2>1, <2>2, <2>4, <2>5 DEF RowsInv
<1> QED
  BY <1>2, <1>3 DEF RowsGrow

\* What no result after a cut answers, no later row will answer either.
LEMMA WholeStays ==
  ASSUME TypeOK, RowsInv, RowsGrow, NEW cut \in 0 .. Len(rows), Whole(cut)
  PROVE  \A a \in 1 .. cut : \A k \in cut + 1 .. Len(rows') : rows'[k].answers \notin rows'[a].calls
<1>0. Len(rows) \in Nat /\ \A k \in 1 .. Len(rows) : rows[k] \in Row
  BY LenProperties, ElementOfSeq DEF TypeOK
<1>1. CASE rows' = rows
  BY <1>1 DEF Whole
<1>2. ASSUME NEW t \in Turn, Grown(t), Plain \/ (pc[t] # "over" /\ pc'[t] = "over"),
             NEW a \in 1 .. cut, NEW k \in cut + 1 .. Len(rows'), rows'[k].answers \in rows'[a].calls
      PROVE  FALSE
  <2>1. a \in 1 .. Len(rows) /\ rows'[a] = rows[a] /\ rows[a] \in Row
    BY <1>0, <1>2 DEF Grown
  <2>2. CASE k \in cut + 1 .. Len(rows)
    BY <1>0, <1>2, <2>1, <2>2 DEF Grown, Whole
  <2>3. CASE k \in Len(rows) + 1 .. Len(rows')
    <3>1. rows'[k].answers \in CallId
      BY <1>2, <2>1 DEF Row
    <3>2. rows'[k].answers # None
      BY <3>1, CompactionAssumption DEF CallId
    <3>3. rows'[k].answers[1] = t /\ pc[t] # "over"
      BY <1>2, <2>3, <3>2 DEF Grown, Plain
    <3>4. pc[rows'[k].answers[1]] = "over"
      BY <1>2, <2>1 DEF RowsInv
    <3> QED
      BY <3>3, <3>4
  <2>4. k \in cut + 1 .. Len(rows) \/ k \in Len(rows) + 1 .. Len(rows')
    <3>1. Len(rows') \in Nat
      BY <1>2, LenProperties DEF Grown
    <3> QED
      BY <1>0, <1>2, <3>1
  <2> QED
    BY <2>2, <2>3, <2>4
<1> QED
  BY <1>1, <1>2 DEF RowsGrow
-----------------------------------------------------------------------------
(***************************************************************************)
(* Checkpoint and cursor.                                                  *)
(***************************************************************************)

FoldAll == ReadInv /\ FoldInv /\ FoldedIsKept /\ NoPairIsSplit

\* A cut a compaction chooses leaves pairs whole.
LEMMA CutIsWhole ==
  ASSUME TypeOK, RowsInv, NoPairIsSplit, NEW kind, NEW cut \in Cuts(cursor, Len(rows), kind),
         cut > cursor
  PROVE  Whole(cut)
<1>0. Len(rows) \in Nat /\ cursor \in Nat /\ \A k \in 1 .. Len(rows) : rows[k] \in Row
  BY LenProperties, ElementOfSeq DEF TypeOK
<1>1. cut \in cursor .. Len(rows)
  BY <1>0, CutRange DEF TypeOK
<1>2. ~Forbidden(cursor, Len(rows), cut)
  BY <1>0, <1>1 DEF Cuts, Aligned
<1> SUFFICES ASSUME NEW a \in 1 .. cut, NEW k \in cut + 1 .. Len(rows), rows[k].answers \in rows[a].calls
             PROVE  FALSE
  BY DEF Whole
<1>3. CASE a \in 1 .. cursor
  BY <1>0, <1>1, <1>3 DEF NoPairIsSplit
<1>4. CASE a \in cursor + 1 .. cut
  <2> DEFINE id == rows[k].answers
             found == {j \in cursor + 1 .. Len(rows) : rows[j].answers = id}
  <2>1. a \in 1 .. Len(rows) /\ k \in 1 .. Len(rows) /\ k \in cursor + 1 .. Len(rows) /\ cut < k
    BY <1>0, <1>1
  <2>2. id # None
    BY <1>0, <2>1, CompactionAssumption DEF Row, CallId
  <2>3. \A j \in found : j = k
    BY <1>0, <2>1, <2>2 DEF RowsInv
  <2>4. k \in found
    BY <2>1
  <2>5. found # {} /\ \A j \in found : cut < j
    BY <2>1, <2>3, <2>4
  <2> QED
    BY <1>2, <1>4, <2>5 DEF Forbidden
<1> QED
  BY <1>0, <1>1, <1>3, <1>4

\* Rows may be appended, and tasks end or go on with what they hold.
LEMMA FoldStays ==
  ASSUME TypeOK, RowsInv, RowsGrow, FoldAll, UNCHANGED <<cursor, summary, dropped>>,
         NEW S \in SUBSET Task,
         \A c \in Task \ S : task'[c] \notin {"full", "asking", "saving"},
         \A c \in S : /\ read'[c] = read[c] /\ fold'[c] = fold[c]
                      /\ task'[c] \in {"full", "asking", "saving"} => task[c] \in {"full", "asking", "saving"}
                      /\ task'[c] \in {"asking", "saving"} => task[c] \in {"asking", "saving"}
  PROVE  FoldAll'
<1>0. Len(rows) \in Nat /\ Len(rows') \in Nat /\ Len(rows) <= Len(rows') /\ cursor \in 0 .. Len(rows)
  <2>1. Len(rows) \in Nat /\ cursor \in 0 .. Len(rows)
    BY LenProperties DEF TypeOK
  <2>2. ASSUME NEW t \in Turn, Grown(t) PROVE Len(rows') \in Nat /\ Len(rows) <= Len(rows')
    BY <2>1, <2>2, LenProperties DEF Grown
  <2> QED
    BY <2>1, <2>2 DEF RowsGrow
<1>a. \A k \in 1 .. Len(rows) : rows'[k] = rows[k]
  BY DEF RowsGrow, Grown
<1>1. ReadInv'
  BY DEF FoldAll, ReadInv
<1>2. FoldInv'
  <2> SUFFICES ASSUME NEW c \in S, task'[c] \in {"asking", "saving"}
               PROVE  Sound(fold[c])'
    BY DEF FoldInv
  <2>1. Sound(fold[c])
    BY DEF FoldAll, FoldInv
  <2>0. PICK f : f = fold[c]
    OBVIOUS
  <2>2. Sound(f) /\ fold'[c] = f
    BY <2>0, <2>1
  <2>3. f.through \in cursor + 1 .. Len(rows) /\ Whole(f.through)
    BY <2>2 DEF Sound
  <2>4. f.through \in 0 .. Len(rows)
    BY <1>0, <2>3
  <2>5. \A a \in 1 .. f.through : \A k \in f.through + 1 .. Len(rows') : rows'[k].answers \notin rows'[a].calls
    BY <2>3, <2>4, WholeStays
  <2>6. f.through \in cursor' + 1 .. Len(rows')
    BY <1>0, <2>3
  <2>7. f.covers \subseteq 1 .. f.through /\ f.without \subseteq 1 .. f.through
    BY <2>2 DEF Sound
  <2>8. \A k \in 1 .. f.through : k \in 1 .. Len(rows) /\ rows'[k] = rows[k]
    BY <1>0, <1>a, <2>3
  <2>9. \A k \in (1 .. f.through) \ (f.covers \cup f.without \cup dropped) :
          rows'[k].calls # {} \/ \E a \in f.without \cup dropped : rows'[k].answers \in rows'[a].calls
    <3> SUFFICES ASSUME NEW k \in (1 .. f.through) \ (f.covers \cup f.without \cup dropped),
                        rows[k].calls = {}
                 PROVE  \E a \in f.without \cup dropped : rows'[k].answers \in rows'[a].calls
      BY <2>8
    <3>1. PICK a \in f.without \cup dropped : rows[k].answers \in rows[a].calls
      BY <2>2 DEF Sound
    <3>2. a \in 1 .. Len(rows)
      BY <2>7, <2>8 DEF TypeOK
    <3> QED
      BY <1>a, <2>8, <3>1, <3>2
  <2>10. Sound(f)'
    BY <2>5, <2>6, <2>7, <2>9 DEF Sound, Whole
  <2> QED
    BY <2>2, <2>10 DEF Sound, Whole
<1>3. FoldedIsKept'
  <2>1. \A k \in 1 .. cursor : k \in 1 .. Len(rows)
    BY <1>0
  <2>2. dropped \subseteq 1 .. Len(rows)
    BY DEF TypeOK
  <2> QED
    BY <1>a, <2>1, <2>2 DEF FoldAll, FoldedIsKept
<1>4. NoPairIsSplit'
  <2>1. Whole(cursor)
    BY DEF FoldAll, NoPairIsSplit, Whole
  <2>2. \A a \in 1 .. cursor : \A k \in cursor + 1 .. Len(rows') : rows'[k].answers \notin rows'[a].calls
    BY <1>0, <2>1, WholeStays
  <2> QED
    BY <2>2 DEF NoPairIsSplit
<1> QED
  BY <1>1, <1>2, <1>3, <1>4 DEF FoldAll

\* A sound checkpoint that is written when nobody else is at work.
LEMMA WrittenIsKept ==
  ASSUME TypeOK, NEW c \in Task, Sound(fold[c]), Written(c), \A d \in Task : task'[d] \notin Running
  PROVE  FoldAll'
<1>1. rows' = rows /\ cursor' = fold[c].through
  BY WrittenTypes
<1>2. ReadInv' /\ FoldInv'
  BY DEF ReadInv, FoldInv, Running
<1>3. FoldedIsKept'
  BY <1>1 DEF FoldedIsKept, Written, Sound
<1>4. NoPairIsSplit'
  BY <1>1 DEF NoPairIsSplit, Sound, Whole
<1> QED
  BY <1>2, <1>3, <1>4 DEF FoldAll

\* A row that may be missed when the rows from the first one on are shown:
\* it announces calls, or its call is among those trimmed before.
Missable(k, first) ==
  rows[k].calls # {} \/ \E a \in cursor + 1 .. first - 1 : rows[k].answers \in rows[a].calls

\* What the call does not show of the rows it is given: the call of a result
\* that is dropped was trimmed, for a cut never parts the two.
LEMMA UnshownIsMissable ==
  ASSUME TypeOK, RowsInv, NoPairIsSplit, NEW cut \in cursor .. Len(rows), NEW start \in cursor .. cut - 1,
         NEW unshown \in Unshown(start, cut), NEW k \in unshown
  PROVE  k \in start + 1 .. cut /\ Missable(k, start + 1)
<1>0. Len(rows) \in Nat /\ cursor \in Nat
  BY LenProperties DEF TypeOK
<1>1. CASE unshown \in Wordless(start, cut)
  BY <1>1 DEF Wordless, Missable
<1>2. CASE unshown = Parted(start, cut)
  <2>1. /\ k \in start + 1 .. cut /\ rows[k].answers # None
        /\ \A a \in start + 1 .. k - 1 : rows[k].answers \notin rows[a].calls
    BY <1>2 DEF Parted
  <2>2. k \in 1 .. Len(rows) /\ k \in cursor + 1 .. Len(rows)
    BY <1>0, <2>1
  <2>3. PICK a \in 1 .. k - 1 : rows[k].answers \in rows[a].calls
    BY <2>1, <2>2 DEF RowsInv
  <2>4. a \notin start + 1 .. k - 1
    BY <2>1, <2>3
  <2>5. a \notin 1 .. cursor
    BY <2>2, <2>3 DEF NoPairIsSplit
  <2>6. a \in cursor + 1 .. (start + 1) - 1
    BY <1>0, <2>2, <2>3, <2>4, <2>5
  <2> QED
    BY <2>1, <2>3, <2>6 DEF Missable
<1> QED
  BY <1>1, <1>2 DEF Unshown

\* What FetchFull prepares is sound.
LEMMA CappedIsSound ==
  ASSUME TypeOK, RowsInv, FoldedIsKept, NoPairIsSplit, NEW kind,
         NEW cut \in Cuts(cursor, Len(rows), kind), cut > cursor, NEW start \in cursor .. cut - 1,
         NEW unshown \in Unshown(start, cut)
  PROVE  Sound(Capped(summary, cursor, cut, start, unshown))
<1>0. Len(rows) \in Nat /\ cursor \in Nat
  BY LenProperties DEF TypeOK
<1>1. cut \in cursor .. Len(rows)
  BY <1>0, CutRange DEF TypeOK
<1>2. Whole(cut)
  BY CutIsWhole
<1> DEFINE covers == summary \cup ((start + 1 .. cut) \ unshown)
           without == cursor + 1 .. start
<1>3. covers \subseteq 1 .. cut /\ without \subseteq 1 .. cut /\ cut \in cursor + 1 .. Len(rows)
  BY <1>0, <1>1 DEF FoldedIsKept
<1>4. ASSUME NEW k \in (1 .. cut) \ (covers \cup without \cup dropped)
      PROVE  rows[k].calls # {} \/ \E a \in without \cup dropped : rows[k].answers \in rows[a].calls
  <2>1. CASE k \in 1 .. cursor
    BY <1>4, <2>1 DEF FoldedIsKept
  <2>2. CASE k \in start + 1 .. cut
    <3>1. k \in unshown
      BY <1>4, <2>2
    <3>2. Missable(k, start + 1)
      BY <1>1, <3>1, UnshownIsMissable
    <3>3. (start + 1) - 1 = start
      BY <1>0, <1>1
    <3> QED
      BY <3>2, <3>3 DEF Missable
  <2> QED
    BY <1>0, <1>1, <1>4, <2>1, <2>2
<1>5. Capped(summary, cursor, cut, start, unshown) = [through |-> cut, without |-> without, covers |-> covers]
  BY DEF Capped
<1> HIDE DEF covers, without
<1> QED
  BY <1>2, <1>3, <1>4, <1>5 DEF Sound

\* Every step keeps the checkpoint whole.
LEMMA FoldStep ==
  TypeOK /\ Mutex /\ RowsInv /\ FoldAll /\ [Next]_vars => FoldAll'
<1> SUFFICES ASSUME TypeOK, Mutex, RowsInv, FoldAll, [Next]_vars PROVE FoldAll'
  OBVIOUS
<1> USE DEF store, tasks
<1>0. RowsGrow
  BY RowsOnlyGrow DEF FoldAll
<1>1. CASE UNCHANGED vars
  BY <1>0, <1>1, FoldStays DEF vars
<1>2. ASSUME NEW t \in Turn, Create(t) \/ FetchPrior(t) \/ AppendUser(t) \/ Rebuild(t) PROVE FoldAll'
  BY <1>0, <1>2, FoldStays DEF Create, FetchPrior, AppendUser, Rebuild
<1>3. ASSUME NEW t \in Turn, Overflow(t) PROVE FoldAll'
  <2>1. \A c \in Task : task'[c] = task[c] \/ task'[c] \in {"meta", "measuring"}
    BY <1>3, TaskParts DEF Overflow, Enter, TypeOK
  <2>2. UNCHANGED <<cursor, summary, dropped, read, fold>>
    BY <1>3 DEF Overflow
  <2> QED
    BY <1>0, <2>1, <2>2, FoldStays
<1>4. ASSUME NEW t \in Turn, FlushTurn(t) PROVE FoldAll'
  <2>1. \A c \in Task : task'[c] = task[c] \/ task'[c] = "scheduled"
    BY <1>4, TaskParts DEF FlushTurn, TypeOK
  <2>2. UNCHANGED <<cursor, summary, dropped, read, fold>>
    BY <1>4 DEF FlushTurn
  <2> QED
    BY <1>0, <2>1, <2>2, FoldStays
<1>5. ASSUME NEW c \in Task, BackgroundStart(c) PROVE FoldAll'
  <2>1. \A d \in Task : task'[d] = task[d] \/ task'[d] \in {"meta", "measuring", "none"}
    BY <1>5 DEF BackgroundStart, Enter, TypeOK
  <2>2. UNCHANGED <<cursor, summary, dropped, read, fold>>
    BY <1>5 DEF BackgroundStart
  <2> QED
    BY <1>0, <2>1, <2>2, FoldStays
<1>6. ASSUME NEW c \in Task, NEW result \in BOOLEAN, task[c] \in Running, Return(c, result)
      PROVE  \A d \in Task : task'[d] \notin Running
  BY <1>6, ReturnMutex DEF Mutex, InFlightIsOne, Return
<1>7. ASSUME NEW c \in Task, NEW result \in BOOLEAN, task[c] \in Running, Return(c, result),
             UNCHANGED store
      PROVE  FoldAll'
  <2>1. \A d \in Task : task'[d] \notin {"full", "asking", "saving"}
    BY <1>6, <1>7 DEF Running
  <2> QED
    BY <1>0, <1>7, <2>1, FoldStays, {} \in SUBSET Task
<1>8. ASSUME NEW c \in Task, NEW result \in BOOLEAN, task[c] = "saving", Return(c, result), Written(c)
      PROVE  FoldAll'
  <2>1. Sound(fold[c])
    BY <1>8 DEF FoldAll, FoldInv
  <2>2. task[c] \in Running
    BY <1>8 DEF Running
  <2> QED
    BY <1>6, <1>8, <2>1, <2>2, WrittenIsKept
<1>9. ASSUME NEW c \in Task, Measure(c) PROVE FoldAll'
  <2>1. CASE Return(c, FALSE)
    BY <1>7, <1>9, <2>1 DEF Measure, Running
  <2>2. CASE task' = [task EXCEPT ![c] = "meta"] /\ UNCHANGED <<read, fold>>
    BY <1>0, <1>9, <2>2, FoldStays DEF Measure, TypeOK
  <2> QED
    BY <1>9, <2>1, <2>2 DEF Measure
<1>10. ASSUME NEW c \in Task, FetchMeta(c) PROVE FoldAll'
  <2>1. /\ task[c] = "meta" /\ task' = [task EXCEPT ![c] = "full"] /\ UNCHANGED <<store, fold>>
        /\ read' = [read EXCEPT ![c] = [cursor |-> cursor, summary |-> summary]]
    BY <1>10 DEF FetchMeta
  <2>2. \A d \in Task \ {c} : task[d] \notin Running /\ task'[d] = task[d]
    BY <2>1 DEF Mutex, InFlightIsOne, Running, TypeOK
  <2>3. ReadInv'
    BY <2>1, <2>2 DEF ReadInv, TypeOK, Running
  <2>4. FoldInv'
    BY <2>1, <2>2 DEF FoldInv, TypeOK, Running
  <2> QED
    BY <2>1, <2>3, <2>4 DEF FoldAll, FoldedIsKept, NoPairIsSplit
<1>11. ASSUME NEW c \in Task, FetchFull(c) PROVE FoldAll'
  <2>1. task[c] = "full" /\ read[c] = [cursor |-> cursor, summary |-> summary] /\ UNCHANGED store
    BY <1>11 DEF FetchFull, FoldAll, ReadInv
  <2>2. read[c].cursor = cursor /\ read[c].summary = summary
    BY <2>1
  <2>3. PICK cut \in Cuts(cursor, Len(rows), c[2]) :
          \/ Return(c, FALSE)
          \/ /\ cut > cursor
             /\ \E start \in cursor .. cut - 1 : \E unshown \in Unshown(start, cut) :
                  fold' = [fold EXCEPT ![c] = Capped(summary, cursor, cut, start, unshown)]
             /\ task' = [task EXCEPT ![c] = "asking"]
             /\ UNCHANGED <<inFlight, pc, read>>
    BY <1>11, <2>2 DEF FetchFull
  <2>4. CASE Return(c, FALSE)
    BY <1>7, <2>1, <2>4 DEF Running
  <2>5. ASSUME cut > cursor, NEW start \in cursor .. cut - 1,
               NEW unshown \in Unshown(start, cut),
               fold' = [fold EXCEPT ![c] = Capped(summary, cursor, cut, start, unshown)],
               task' = [task EXCEPT ![c] = "asking"], UNCHANGED read
        PROVE  FoldAll'
    <3>1. Sound(Capped(summary, cursor, cut, start, unshown))
      BY <2>5, CappedIsSound DEF FoldAll
    <3>2. \A d \in Task \ {c} : task[d] \notin Running /\ task'[d] = task[d]
      BY <2>1, <2>5 DEF Mutex, InFlightIsOne, Running, TypeOK
    <3>3. fold'[c] = Capped(summary, cursor, cut, start, unshown)
      BY <2>5 DEF TypeOK
    <3>4. Sound(fold[c])'
      BY <2>1, <3>1, <3>3 DEF Sound, Whole
    <3>5. FoldInv'
      BY <3>2, <3>4 DEF FoldInv, Running
    <3>6. ReadInv'
      BY <2>1, <2>5, <3>2 DEF ReadInv, Running
    <3> QED
      BY <2>1, <3>5, <3>6 DEF FoldAll, FoldedIsKept, NoPairIsSplit
  <2> QED
    BY <2>3, <2>4, <2>5
<1>12. ASSUME NEW c \in Task, Summarized(c) PROVE FoldAll'
  BY <1>0, <1>12, FoldStays DEF Summarized, TypeOK
<1>13. ASSUME NEW c \in Task, SaveSummary(c) PROVE FoldAll'
  BY <1>8, <1>13 DEF SaveSummary
<1>14. ASSUME NEW c \in Task, CompactionFails(c) PROVE FoldAll'
  BY <1>7, <1>8, <1>14 DEF CompactionFails, Running
<1>15. CASE Restart
  <2>1. \A d \in Task : task'[d] = "none"
    BY <1>15 DEF Restart
  <2> QED
    BY <1>0, <1>15, <2>1, FoldStays, {} \in SUBSET Task DEF Restart
<1> QED
  BY <1>1, <1>2, <1>3, <1>4, <1>5, <1>9, <1>10, <1>11, <1>12, <1>13, <1>14, <1>15 DEF Next
-----------------------------------------------------------------------------
(***************************************************************************)
(* The cursor and the retries.                                             *)
(***************************************************************************)

\* Only a checkpoint that is written moves the cursor, and it moves it on.
LEMMA CursorStep == TypeOK /\ FoldInv /\ [Next]_vars => cursor <= cursor'
<1> SUFFICES ASSUME TypeOK, FoldInv, [Next]_vars PROVE cursor <= cursor'
  OBVIOUS
<1> USE DEF store
<1>0. cursor \in Nat /\ Len(rows) \in Nat
  BY LenProperties DEF TypeOK
<1>1. ASSUME NEW c \in Task, task[c] = "saving", Written(c) PROVE cursor <= cursor'
  BY <1>0, <1>1, WrittenTypes DEF FoldInv, Sound
<1>2. CASE UNCHANGED cursor
  BY <1>0, <1>2
<1>3. ASSUME NEW c \in Task, SaveSummary(c) \/ CompactionFails(c) PROVE cursor <= cursor'
  BY <1>1, <1>2, <1>3 DEF SaveSummary, CompactionFails
<1>4. UNCHANGED cursor \/ \E c \in Task : SaveSummary(c) \/ CompactionFails(c)
  BY DEF Next, vars, Create, FetchPrior, AppendUser, Overflow, Rebuild, FlushTurn,
         BackgroundStart, Measure, FetchMeta, FetchFull, Summarized, Restart
<1> QED
  BY <1>2, <1>3, <1>4

\* Every step keeps the requests of the turns behind the cursor.
LEMMA SentStep == TypeOK /\ Mutex /\ FoldInv /\ SentInv /\ [Next]_vars => SentInv'
<1> SUFFICES ASSUME TypeOK, Mutex, FoldInv, SentInv, [Next]_vars PROVE SentInv'
  OBVIOUS
<1> USE DEF store
<1>0. cursor \in Nat /\ cursor' \in Nat /\ cursor <= cursor'
  <2>2. cursor \in Nat /\ Len(rows) \in Nat
    BY LenProperties DEF TypeOK
  <2>3. UNCHANGED cursor \/ \E c \in Task : task[c] = "saving" /\ Written(c)
    BY DEF Next, vars, Create, FetchPrior, AppendUser, Overflow, Rebuild, FlushTurn,
           BackgroundStart, Measure, FetchMeta, FetchFull, Summarized, Restart,
           SaveSummary, CompactionFails
  <2>4. cursor' \in Nat
    BY <2>2, <2>3, WrittenTypes DEF FoldInv, Sound
  <2> QED
    BY <2>2, <2>4, CursorStep DEF TypeOK
<1>1. ASSUME UNCHANGED sent,
             \A q \in Turn : \/ pc'[q] = pc[q]
                             \/ pc'[q] \in {"refused", "over"}
                             \/ pc'[q] \in {"running", "compacting"} /\ pc[q] \in {"appending", "running"}
      PROVE  SentInv'
  BY <1>0, <1>1 DEF SentInv
<1>2. ASSUME NEW c \in Task, task[c] \in Running, Return(c, FALSE), UNCHANGED sent
      PROVE  SentInv'
  BY <1>1, <1>2 DEF Return, TypeOK
<1>3. CASE UNCHANGED vars
  BY <1>1, <1>3 DEF vars, turns
<1>4. ASSUME NEW t \in Turn, Create(t) PROVE SentInv'
  BY <1>0, <1>4 DEF Create, SentInv, TypeOK
<1>5. ASSUME NEW t \in Turn, FetchPrior(t) PROVE SentInv'
  BY <1>0, <1>5 DEF FetchPrior, SentInv, TypeOK
<1>6. ASSUME NEW t \in Turn, AppendUser(t) PROVE SentInv'
  BY <1>1, <1>6 DEF AppendUser, TypeOK
<1>7. ASSUME NEW t \in Turn, Overflow(t) PROVE SentInv'
  BY <1>1, <1>7 DEF Overflow, TypeOK
<1>8. ASSUME NEW t \in Turn, Rebuild(t) PROVE SentInv'
  BY <1>0, <1>8 DEF Rebuild, SentInv, TypeOK
<1>9. ASSUME NEW t \in Turn, FlushTurn(t) PROVE SentInv'
  BY <1>0, <1>9 DEF FlushTurn, SentInv, TypeOK
<1>10. ASSUME NEW c \in Task, BackgroundStart(c) \/ FetchMeta(c) \/ Summarized(c) PROVE SentInv'
  BY <1>1, <1>10 DEF BackgroundStart, FetchMeta, Summarized, turns
<1>11. ASSUME NEW c \in Task, Measure(c) PROVE SentInv'
  BY <1>1, <1>2, <1>11 DEF Measure, Running
<1>12. ASSUME NEW c \in Task, FetchFull(c) PROVE SentInv'
  BY <1>1, <1>2, <1>12 DEF FetchFull, Running
<1>13. ASSUME NEW c \in Task, SaveSummary(c) PROVE SentInv'
  <2>1. cursor < cursor'
    <3>1. Sound(fold[c]) /\ cursor' = fold[c].through
      BY <1>13, WrittenTypes DEF SaveSummary, FoldInv
    <3>2. Len(rows) \in Nat
      BY LenProperties DEF TypeOK
    <3> QED
      BY <1>0, <3>1, <3>2 DEF Sound
  <2>2. UNCHANGED sent
    BY <1>13 DEF SaveSummary
  <2>3. \A q \in Turn : pc'[q] = pc[q] \/ (pc[q] = "compacting" /\ pc'[q] = "rebuilding")
    <3>1. pc' = [pc EXCEPT ![c[1]] = IF c[2] = "forced" THEN "rebuilding" ELSE @]
      BY <1>13 DEF SaveSummary, Return
    <3>2. task[c] # "none"
      BY <1>13 DEF SaveSummary
    <3>3. ASSUME c[2] = "forced" PROVE pc[c[1]] = "compacting"
      <4>1. c = <<c[1], "forced">> /\ c[1] \in Turn
        BY <3>3, TaskParts
      <4>2. task[<<c[1], "forced">>] # "none"
        BY <3>2, <4>1
      <4> QED
        BY <4>1, <4>2 DEF Mutex, TaskInv
    <3> QED
      BY <3>1, <3>3, TaskParts DEF TypeOK
  <2> QED
    BY <1>0, <2>1, <2>2, <2>3 DEF SentInv
<1>14. ASSUME NEW c \in Task, CompactionFails(c) PROVE SentInv'
  BY <1>2, <1>14 DEF CompactionFails, Running
<1>15. CASE Restart
  BY <1>15 DEF Restart, SentInv, TypeOK
<1> QED
  BY <1>3, <1>4, <1>5, <1>6, <1>7, <1>8, <1>9, <1>10, <1>11, <1>12, <1>13, <1>14, <1>15 DEF Next

-----------------------------------------------------------------------------
(***************************************************************************)
(* The transcript and its gist (Transcript).                               *)
(***************************************************************************)

\* What a compaction will save adds the newest rows of its span to the
\* checkpoint there is, less those that may be missed.
AddsTo(f) ==
  \E first \in cursor + 1 .. f.through :
    /\ summary \subseteq f.covers /\ f.covers \subseteq summary \cup (first .. f.through)
    /\ \A k \in first .. f.through : k \in f.covers \/ Missable(k, first)
GistInv == \A c \in Task : task[c] \in {"asking", "saving"} => AddsTo(fold[c])

\* A step that leaves the checkpoint alone, and the folds in hand too unless
\* they add to it.
LEMMA GistStays ==
  ASSUME TypeOK, RowsGrow, FoldInv, GistInv, UNCHANGED <<cursor, summary>>,
         \A c \in Task : task'[c] \in {"asking", "saving"} =>
           (task[c] \in {"asking", "saving"} /\ fold'[c] = fold[c]) \/ AddsTo(fold[c])'
  PROVE  GistInv'
<1> SUFFICES ASSUME NEW c \in Task, task'[c] \in {"asking", "saving"},
                    task[c] \in {"asking", "saving"}, fold'[c] = fold[c]
             PROVE  AddsTo(fold[c])'
  BY DEF GistInv
<1>1. AddsTo(fold[c]) /\ fold[c].through \in cursor + 1 .. Len(rows)
  BY DEF GistInv, FoldInv, Sound
<1>2. PICK f : f = fold[c]
  OBVIOUS
<1>3. PICK first \in cursor + 1 .. f.through :
        /\ summary \subseteq f.covers /\ f.covers \subseteq summary \cup (first .. f.through)
        /\ \A k \in first .. f.through : k \in f.covers \/ Missable(k, first)
  BY <1>1, <1>2 DEF AddsTo
<1>4. cursor \in Nat /\ f.through \in cursor + 1 .. Len(rows) /\ Len(rows) \in Nat
  BY <1>1, <1>2, LenProperties DEF TypeOK
<1>5. \A k \in 1 .. Len(rows) : rows'[k] = rows[k]
  BY DEF RowsGrow, Grown
<1>6. ASSUME NEW k \in first .. f.through, Missable(k, first) PROVE Missable(k, first)'
  <2>1. k \in 1 .. Len(rows) /\ \A a \in cursor + 1 .. first - 1 : a \in 1 .. Len(rows)
    BY <1>3, <1>4
  <2> QED
    BY <1>5, <1>6, <2>1 DEF Missable
<1>7. AddsTo(f)'
  BY <1>3, <1>6 DEF AddsTo
<1> QED
  BY <1>2, <1>7 DEF AddsTo

\* Only FetchFull prepares a fold, from a checkpoint nobody else can move.
LEMMA GistStep == TypeOK /\ Mutex /\ RowsInv /\ FoldAll /\ GistInv /\ [Next]_vars => GistInv'
<1> SUFFICES ASSUME TypeOK, Mutex, RowsInv, FoldAll, GistInv, [Next]_vars PROVE GistInv'
  OBVIOUS
<1> USE DEF store, tasks
<1>0. RowsGrow /\ FoldInv
  BY RowsOnlyGrow DEF FoldAll
<1>1. CASE UNCHANGED vars
  BY <1>0, <1>1, GistStays DEF vars
<1>2. ASSUME NEW t \in Turn, Create(t) \/ FetchPrior(t) \/ AppendUser(t) \/ Rebuild(t) PROVE GistInv'
  BY <1>0, <1>2, GistStays DEF Create, FetchPrior, AppendUser, Rebuild
<1>3. ASSUME NEW t \in Turn, Overflow(t) PROVE GistInv'
  <2>1. \A c \in Task : task'[c] = task[c] \/ task'[c] \in {"meta", "measuring"}
    BY <1>3, TaskParts DEF Overflow, Enter, TypeOK
  <2>2. UNCHANGED <<cursor, summary, fold>>
    BY <1>3 DEF Overflow
  <2> QED
    BY <1>0, <2>1, <2>2, GistStays
<1>4. ASSUME NEW t \in Turn, FlushTurn(t) PROVE GistInv'
  <2>1. \A c \in Task : task'[c] = task[c] \/ task'[c] = "scheduled"
    BY <1>4, TaskParts DEF FlushTurn, TypeOK
  <2>2. UNCHANGED <<cursor, summary, fold>>
    BY <1>4 DEF FlushTurn
  <2> QED
    BY <1>0, <2>1, <2>2, GistStays
<1>5. ASSUME NEW c \in Task, BackgroundStart(c) \/ FetchMeta(c) PROVE GistInv'
  <2>1. \A d \in Task : task'[d] = task[d] \/ task'[d] \in {"meta", "measuring", "none", "full"}
    BY <1>5 DEF BackgroundStart, FetchMeta, Enter, TypeOK
  <2>2. UNCHANGED <<cursor, summary, fold>>
    BY <1>5 DEF BackgroundStart, FetchMeta
  <2> QED
    BY <1>0, <2>1, <2>2, GistStays
<1>6. ASSUME NEW c \in Task, NEW result \in BOOLEAN, task[c] \in Running, Return(c, result)
      PROVE  GistInv'
  <2>1. \A d \in Task : task'[d] \notin Running
    BY <1>6, ReturnMutex DEF Mutex, InFlightIsOne, Return
  <2> QED
    BY <2>1 DEF GistInv, Running
<1>7. ASSUME NEW c \in Task, Measure(c) PROVE GistInv'
  <2>1. CASE Return(c, FALSE)
    BY <1>6, <1>7, <2>1 DEF Measure, Running
  <2>2. CASE task' = [task EXCEPT ![c] = "meta"] /\ UNCHANGED <<read, fold>>
    BY <1>0, <1>7, <2>2, GistStays DEF Measure, TypeOK
  <2> QED
    BY <1>7, <2>1, <2>2 DEF Measure
<1>8. ASSUME NEW c \in Task, FetchFull(c) PROVE GistInv'
  <2>1. task[c] = "full" /\ read[c] = [cursor |-> cursor, summary |-> summary] /\ UNCHANGED store
    BY <1>8 DEF FetchFull, FoldAll, ReadInv
  <2>2. read[c].cursor = cursor /\ read[c].summary = summary
    BY <2>1
  <2>3. PICK cut \in Cuts(cursor, Len(rows), c[2]) :
          \/ Return(c, FALSE)
          \/ /\ cut > cursor
             /\ \E start \in cursor .. cut - 1 : \E unshown \in Unshown(start, cut) :
                  fold' = [fold EXCEPT ![c] = Capped(summary, cursor, cut, start, unshown)]
             /\ task' = [task EXCEPT ![c] = "asking"]
             /\ UNCHANGED <<inFlight, pc, read>>
    BY <1>8, <2>2 DEF FetchFull
  <2>4. CASE Return(c, FALSE)
    BY <1>6, <2>1, <2>4 DEF Running
  <2>5. ASSUME cut > cursor, NEW start \in cursor .. cut - 1,
               NEW unshown \in Unshown(start, cut),
               fold' = [fold EXCEPT ![c] = Capped(summary, cursor, cut, start, unshown)],
               task' = [task EXCEPT ![c] = "asking"]
        PROVE  GistInv'
    <3>1. fold'[c] = Capped(summary, cursor, cut, start, unshown)
      BY <2>5 DEF TypeOK
    <3>2. cut \in cursor .. Len(rows) /\ cursor \in Nat /\ Len(rows) \in Nat
      <4>1. Len(rows) \in Nat /\ cursor \in 0 .. Len(rows)
        BY LenProperties DEF TypeOK
      <4>2. cut \in cursor .. Len(rows)
        BY <4>1, CutRange
      <4> QED
        BY <4>1, <4>2
    <3>3. start + 1 \in cursor + 1 .. cut
      BY <2>5, <3>2
    <3>a. \A k \in unshown : Missable(k, start + 1)
      BY <3>2, UnshownIsMissable DEF FoldAll
    <3> DEFINE f == Capped(summary, cursor, cut, start, unshown)
    <3>b. f.through = cut /\ f.covers = summary \cup ((start + 1 .. cut) \ unshown)
      BY DEF Capped
    <3> HIDE DEF f
    <3>c. AddsTo(f)
      BY <3>3, <3>a, <3>b DEF AddsTo
    <3>4. AddsTo(fold[c])'
      BY <2>1, <3>1, <3>c DEF AddsTo, Missable, f
    <3>5. \A d \in Task \ {c} : task'[d] = task[d] /\ fold'[d] = fold[d]
      BY <2>5 DEF TypeOK
    <3> QED
      BY <1>0, <2>1, <3>4, <3>5, GistStays
  <2> QED
    BY <2>3, <2>4, <2>5
<1>9. ASSUME NEW c \in Task, Summarized(c) PROVE GistInv'
  BY <1>0, <1>9, GistStays DEF Summarized, TypeOK
<1>10. ASSUME NEW c \in Task, SaveSummary(c) \/ CompactionFails(c) PROVE GistInv'
  BY <1>6, <1>10 DEF SaveSummary, CompactionFails, Running
<1>11. CASE Restart
  <2>1. \A d \in Task : task'[d] = "none"
    BY <1>11 DEF Restart
  <2> QED
    BY <2>1 DEF GistInv
<1> QED
  BY <1>1, <1>2, <1>3, <1>4, <1>5, <1>7, <1>8, <1>9, <1>10, <1>11 DEF Next

LEMMA TranscriptInit == Init => History!Init
  BY DEF Init, History!Init

\* A checkpoint that is written is a fold: its cut is whole and it adds to
\* the gist.
LEMMA WrittenIsFold ==
  ASSUME TypeOK, FoldInv, GistInv, NEW c \in Task, task[c] = "saving", Written(c)
  PROVE  History!Next
<1>1. Sound(fold[c]) /\ AddsTo(fold[c])
  BY DEF FoldInv, GistInv
<1>2. PICK n : n = fold[c].through
  OBVIOUS
<1>3. cursor \in Nat /\ Len(rows) \in Nat /\ n \in cursor + 1 .. Len(rows) /\ Whole(n)
  BY <1>1, <1>2, LenProperties DEF Sound, TypeOK
<1>4. cursor' = n /\ rows' = rows
  BY <1>1, <1>2, WrittenTypes
<1>5. PICK first \in cursor + 1 .. n :
        /\ summary \subseteq summary' /\ summary' \subseteq summary \cup (first .. n)
        /\ \A k \in first .. n : k \in summary' \/ Missable(k, first)
  BY <1>1, <1>2 DEF AddsTo, Written
<1>6. n \in 1 .. Len(rows) /\ first \in 1 .. n /\ cursor < first /\ first <= n
  BY <1>3, <1>5
<1>7. History!Fold(n, first)
  BY <1>3, <1>4, <1>5, <1>6 DEF History!Fold, History!Unparted, History!Missable, Missable, Whole
<1> QED
  BY <1>6, <1>7 DEF History!Next

\* A step is a block of rows, a checkpoint, or nothing of the transcript.
LEMMA TranscriptStep ==
  IInv /\ IInv' /\ GistInv /\ [Next]_vars => [History!Next]_(History!vars)
<1> SUFFICES ASSUME IInv, IInv', GistInv, [Next]_vars PROVE [History!Next]_(History!vars)
  OBVIOUS
<1> USE DEF IInv, store
<1>1. CASE \E c \in Task : task[c] = "saving" /\ Written(c)
  BY <1>1, WrittenIsFold
<1>2. CASE UNCHANGED <<rows, cursor, summary>>
  BY <1>2 DEF History!vars
<1>3. CASE UNCHANGED <<cursor, summary>>
  <2>1. RowsGrow
    BY RowsOnlyGrow
  <2>2. CASE rows' # rows
    <3>1. PICK t \in Turn : Grown(t)
      BY <2>1, <2>2 DEF RowsGrow
    <3>2. /\ rows' \in Seq(Row) /\ Len(rows') > Len(rows)
          /\ \A k \in 1 .. Len(rows) : rows'[k] = rows[k]
      BY <2>2, <3>1, LenProperties DEF Grown, TypeOK
    <3>3. History!Say
      BY <1>3, <3>2 DEF History!Say, History!Unparted, NoPairIsSplit
    <3> QED
      BY <3>3 DEF History!Next
  <2> QED
    BY <1>2, <1>3, <2>2
<1>4. \/ UNCHANGED <<cursor, summary>>
      \/ \E c \in Task : task[c] = "saving" /\ Written(c)
  BY DEF Next, vars, Create, FetchPrior, AppendUser, Overflow, Rebuild, FlushTurn,
         BackgroundStart, Measure, FetchMeta, FetchFull, Summarized, SaveSummary, CompactionFails, Restart
<1> QED
  BY <1>1, <1>3, <1>4

-----------------------------------------------------------------------------
(***************************************************************************)
(* The theorems.                                                           *)
(***************************************************************************)

\* One step of the whole invariant.
LEMMA IInvStep == IInv /\ [Next]_vars => IInv'
<1> SUFFICES ASSUME IInv, [Next]_vars PROVE IInv'
  OBVIOUS
<1>1. Mutex /\ FoldAll
  BY DEF IInv, Mutex, FoldAll
<1>2. TypeOK' /\ Mutex'
  BY <1>1, TypeStep, MutexStep DEF IInv
<1>3. RowsInv'
  BY <1>1, OverIsFinal, RowsOnlyGrow, RowsStep DEF IInv
<1>4. FoldAll' /\ SentInv'
  BY <1>1, FoldStep, SentStep DEF IInv
<1> QED
  BY <1>2, <1>3, <1>4 DEF IInv, Mutex, FoldAll

LEMMA Invariance == Spec => []IInv
  BY InitIInv, IInvStep, PTL DEF Spec

\* The state has its shape, and a turn retries at most max_overflow_retries
\* times (run_graph), for any turns and any bounds.
THEOREM TypeCorrect == Spec => []TypeOK
<1>1. IInv => TypeOK
  BY DEF IInv
<1> QED
  BY <1>1, Invariance, PTL

\* _in_flight holds a conversation exactly while one compaction is at work
\* on it (compact).
THEOREM OneCompactionAtATime == Spec => []InFlightIsOne
<1>1. IInv => InFlightIsOne
  BY DEF IInv
<1> QED
  BY <1>1, Invariance, PTL

\* A row leaves the replay set only into the checkpoint or by the input cap,
\* with what goes along with that: announcements that a flat transcript does
\* not show, and the results of trimmed calls, which a replay does not show
\* (compact, _cap_input, _summarize, save_summary).
THEOREM NoRowIsLost == Spec => []FoldedIsKept
<1>1. IInv => FoldedIsKept
  BY DEF IInv
<1> QED
  BY <1>1, Invariance, PTL

\* The cursor never parts a call from its result (_align_cutoff), for any
\* number of calls per turn and whatever is appended while a compaction runs.
THEOREM PairsStayWhole == Spec => []NoPairIsSplit
<1>1. IInv => NoPairIsSplit
  BY DEF IInv
<1> QED
  BY <1>1, Invariance, PTL

\* An older checkpoint never replaces a newer one (compact, save_summary).
THEOREM CursorOnlyAdvances == Spec => CursorAdvances
<1>1. IInv /\ [Next]_vars => [cursor <= cursor']_cursor
  BY CursorStep DEF IInv
<1> QED
  BY <1>1, Invariance, PTL DEF Spec, CursorAdvances

\* A retry replays fewer of the rows than the request that was too long
\* (run_graph, rebuild_after_compaction).
THEOREM RetriesAreSmaller == Spec => RetriesShrink
<1> DEFINE Shrinks == \A t \in Turn :
             pc[t] = "rebuilding" /\ pc'[t] = "running" => sent'[t].from > sent[t].from
<1>1. IInv /\ [Next]_vars => [Shrinks]_vars
  <2> SUFFICES ASSUME IInv, Next, NEW t \in Turn, pc[t] = "rebuilding", pc'[t] = "running"
               PROVE  sent'[t].from > sent[t].from
    OBVIOUS
  <2>1. sent[t].from < cursor
    BY DEF IInv, SentInv
  <2>2. CASE Rebuild(t)
    BY <2>1, <2>2 DEF Rebuild, IInv, TypeOK
  <2>3. ASSUME NEW q \in Turn \ {t},
               Create(q) \/ FetchPrior(q) \/ AppendUser(q) \/ Overflow(q) \/ Rebuild(q) \/ FlushTurn(q)
        PROVE  FALSE
    BY <2>3 DEF Create, FetchPrior, AppendUser, Overflow, Rebuild, FlushTurn, IInv, TypeOK
  <2>4. ASSUME Create(t) \/ FetchPrior(t) \/ AppendUser(t) \/ Overflow(t) \/ FlushTurn(t)
        PROVE  FALSE
    BY <2>4 DEF Create, FetchPrior, AppendUser, Overflow, FlushTurn, IInv, TypeOK
  <2>5. ASSUME NEW c \in Task,
               \/ BackgroundStart(c) \/ Measure(c) \/ FetchMeta(c) \/ FetchFull(c)
               \/ Summarized(c) \/ SaveSummary(c) \/ CompactionFails(c)
        PROVE  FALSE
    BY <2>5 DEF BackgroundStart, Measure, FetchMeta, FetchFull, Summarized, SaveSummary,
                CompactionFails, Return, turns, IInv, TypeOK
  <2>6. CASE Restart
    BY <2>6 DEF Restart
  <2> QED
    BY <2>2, <2>3, <2>4, <2>5, <2>6 DEF Next
<1> QED
  BY <1>1, Invariance, PTL DEF Spec, RetriesShrink

\* Appends and checkpoints, with all that goes on around them, are a
\* transcript whose gist only grows (compact, append_messages, save_summary).
THEOREM CompactionImplementsTranscript == Spec => ImplementsTranscript
<1>1. Init => GistInv
  BY DEF Init, GistInv
<1>2. IInv /\ GistInv /\ [Next]_vars => GistInv'
  BY GistStep DEF IInv, Mutex, FoldAll
<1>3. IInv /\ IInv' /\ GistInv /\ [Next]_vars => [History!Next]_(History!vars)
  BY TranscriptStep
<1> QED
  BY <1>1, <1>2, <1>3, TranscriptInit, Invariance, PTL DEF Spec, ImplementsTranscript, History!Spec

=============================================================================
