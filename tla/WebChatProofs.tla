----------------------------- MODULE WebChatProofs -----------------------------
(***************************************************************************)
(* Proofs about WebChat and the tables of SqlBackend, for any              *)
(* conversations, calls, blocks of messages, server processes, readers and *)
(* requests: the messages of a conversation are numbered without a gap     *)
(* whichever processes number them, a reader's two statements leave none   *)
(* out, a request that is refused or repeated has stored nothing, and the  *)
(* tables implement InMemoryBackend.                                       *)
(***************************************************************************)
EXTENDS WebChat, FiniteSetTheorems, SequenceTheorems, TLAPS

\* How many messages a conversation has.
Size(c) == Cardinality(rows[c])

\* The messages are finitely many and numbered from 0 without a gap; before
\* the conversation is created there are none.
Filled(c) ==
  /\ conv[c] = "absent" => rows[c] = {}
  /\ IsFiniteSet(rows[c])
  /\ \A r, q \in rows[c] : r.seq = q.seq => r = q
  /\ \A r \in rows[c] : r.seq < Size(c)
  /\ \A k \in 0 .. Size(c) - 1 : \E r \in rows[c] : r.seq = k

FilledInv == \A c \in Conv : Filled(c)

\* A conversation is created by one call; an open transaction numbers its
\* block from a place that the conversation has reached.
BegunInv ==
  \A o \in Op :
    /\ o \in Creates /\ tx[o] = "idle" => conv[ConvOf[o]] = "absent"
    /\ tx[o] = "begun" =>
         /\ conv[ConvOf[o]] # "absent"
         /\ conv[ConvOf[o]] = "kept" => next[o] <= Size(ConvOf[o])

\* What save_summary is about to write is within the messages.
CountInv ==
  \A k \in Saver, c \in Conv : count[k] # None /\ count[k].conv = c =>
    /\ count[k].folded = count[k].through
    /\ conv[c] # "absent"
    /\ conv[c] = "kept" => count[k].through <= Size(c)

\* The cursor is the number of messages folded.
CursorInv ==
  \A c \in Conv :
    /\ cursor[c] = summary[c]
    /\ cursor[c] <= Size(c)

\* What a reader has got of the conversation's row is still within it.
HeadInv ==
  \A r \in Reader, c \in Conv : head[r] # None /\ head[r].conv = c =>
    /\ head[r].from = head[r].summary
    /\ conv[c] # "absent"
    /\ conv[c] = "kept" => head[r].summary <= Size(c)

SqlInv == SqlTypeOK /\ FilledInv /\ BegunInv /\ CountInv /\ CursorInv /\ HeadInv

\* A request that has not been admitted, or was answered with an error that
\* says so.
Unsent == {"idle", "looking", "exchanging", "caching", "sending", "dropping"}

Refused(t) == call[t] \in {"returned", "answered"} /\ status[t] \in {401, 404, 502}

\* ... has stored nothing; a stream has begun with 200; one attempt is dropped.
RequestOK(t) ==
  /\ call[t] \in Unsent \/ Refused(t) => tx[UserOp[t]] = "idle" /\ tx[ReplyOp[t]] = "idle"
  /\ call[t] = "admitted" => tx[ReplyOp[t]] = "idle"
  /\ call[t] = "streaming" => status[t] = 200
  /\ call[t] = "dropping" => attempt[t] = 0

RequestInv == \A t \in Turn : RequestOK(t)

IInv == TypeOK /\ SqlInv /\ RequestInv

-----------------------------------------------------------------------------
(***************************************************************************)
(* What a step of the whole does to the tables.                            *)
(***************************************************************************)
SqlStep ==
  \/ UNCHANGED sqlVars
  \/ \E o \in Op : CreateConversation(o) \/ BeginAppend(o) \/ CommitAppend(o)
  \/ \E r \in Reader : ReadHead(r) \/ ReadRows(r)
  \/ \E k \in Saver : CountRows(k) \/ UpdateSummary(k)
  \/ \E c \in Conv : SoftDelete(c) \/ Rename(c) \/ Erase(c)
  \/ \E s \in Server : SqlRestart(s)

LEMMA StepOfTables == [Next]_vars => SqlStep
<1> SUFFICES ASSUME [Next]_vars PROVE SqlStep
  OBVIOUS
<1>1. CASE UNCHANGED vars
  BY <1>1 DEF vars, SqlStep
<1>2. ASSUME NEW t \in Turn,
             \/ Submit(t) \/ Hit(t) \/ Miss(t) \/ Exchange(t) \/ Cache(t)
             \/ Admit(t) \/ Start(t) \/ Finish(t) \/ Return(t) \/ Drop(t)
      PROVE  UNCHANGED sqlVars
  BY <1>2 DEF Submit, Hit, Miss, Exchange, Cache, Admit, Start, Finish, Return, Drop
<1>3. ASSUME NEW t \in Turn, StoreMessage(t) \/ StoreReply(t) PROVE SqlStep
  <2>1. UserOp[t] \in Op /\ ReplyOp[t] \in Op
    BY WebAssumption
  <2> QED
    BY <1>3, <2>1 DEF StoreMessage, StoreReply, SqlStep
<1>4. CASE Tick
  BY <1>4 DEF Tick, SqlStep
<1>5. CASE Others
  BY <1>5 DEF Others, Sidebar, SqlStep
<1>6. ASSUME NEW s \in Server, Restart(s) PROVE SqlStep
  BY <1>6 DEF Restart, SqlStep
<1> QED
  BY <1>1, <1>2, <1>3, <1>4, <1>5, <1>6 DEF Next, SqlStep

-----------------------------------------------------------------------------
(***************************************************************************)
(* The numbering of a block.                                               *)
(***************************************************************************)

\* Rows numbered from 0 without a gap.
Message == [seq : Nat, op : Op, part : Nat]

Numbered(S) ==
  /\ IsFiniteSet(S)
  /\ \A r, q \in S : r.seq = q.seq => r = q
  /\ \A r \in S : r.seq < Cardinality(S)
  /\ \A k \in 0 .. Cardinality(S) - 1 : \E r \in S : r.seq = k

\* As many of them come before a row as its number says.
LEMMA RankIsSeq ==
  ASSUME NEW S \in SUBSET Message, Numbered(S), NEW r \in S
  PROVE  r.seq \in Nat /\ Cardinality({q \in S : q.seq < r.seq}) = r.seq
<1>1. r.seq \in Nat /\ r.seq < Cardinality(S) /\ Cardinality(S) \in Nat
  BY FS_CardinalityType DEF Numbered, Message
<1>2. \A q \in S : q.seq \in Nat
  BY DEF Message
<1> DEFINE below == {q \in S : q.seq < r.seq}
           number == [q \in below |-> q.seq]
<1>3. ExistsBijection(below, 0 .. r.seq - 1)
  <2>1. number \in [below -> 0 .. r.seq - 1]
    BY <1>1, <1>2
  <2>2. ASSUME NEW q \in below, NEW m \in below, number[q] = number[m] PROVE q = m
    BY <2>2 DEF Numbered
  <2>3. ASSUME NEW k \in 0 .. r.seq - 1 PROVE \E q \in below : number[q] = k
    <3>1. k \in 0 .. Cardinality(S) - 1 /\ k < r.seq
      BY <1>1
    <3>2. PICK q \in S : q.seq = k
      BY <3>1 DEF Numbered
    <3> QED
      BY <3>1, <3>2
  <2> HIDE DEF number, below
  <2>4. number \in Bijection(below, 0 .. r.seq - 1)
    BY <2>1, <2>2, <2>3 DEF Bijection, Injection, Surjection, IsInjective
  <2> QED
    BY <2>4 DEF ExistsBijection
<1>4. IsFiniteSet(0 .. r.seq - 1) /\ Cardinality(0 .. r.seq - 1) = r.seq
  <2> HIDE DEF number, below
  <2>1. r.seq - 1 \in Int /\ 0 \in Int /\ (0 > r.seq - 1 <=> r.seq = 0)
    BY <1>1
  <2>2. /\ IsFiniteSet(0 .. r.seq - 1)
        /\ Cardinality(0 .. r.seq - 1) = IF 0 > r.seq - 1 THEN 0 ELSE r.seq - 1 - 0 + 1
    BY <2>1, FS_Interval
  <2> QED
    BY <1>1, <2>1, <2>2
<1>5. IsFiniteSet(below)
  BY FS_Subset DEF Numbered
<1>6. Cardinality(below) = Cardinality(0 .. r.seq - 1)
  <2> HIDE DEF below
  <2> QED
    BY <1>3, <1>4, <1>5, FS_Bijection
<1> QED
  BY <1>1, <1>4, <1>6

\* The rows in the order of seq: each is at its number.
InOrder(S) == [i \in 1 .. Cardinality(S) |-> LET r == Nth(S, i) IN <<r.op, r.part>>]

LEMMA RowsInOrder ==
  ASSUME NEW S \in SUBSET Message, Numbered(S)
  PROVE  /\ Cardinality(S) \in Nat
         /\ InOrder(S) \in [1 .. Cardinality(S) -> Op \X Nat]
         /\ \A r \in S : /\ r.seq + 1 \in 1 .. Cardinality(S)
                        /\ InOrder(S)[r.seq + 1] = <<r.op, r.part>>
<1>1. Cardinality(S) \in Nat
  BY FS_CardinalityType DEF Numbered
<1>2. ASSUME NEW r \in S
      PROVE  /\ r.seq + 1 \in 1 .. Cardinality(S)
             /\ Nth(S, r.seq + 1) = r
  <2>1. r.seq \in Nat /\ r.seq < Cardinality(S) /\ Cardinality({q \in S : q.seq < r.seq}) = r.seq
    BY RankIsSeq DEF Numbered
  <2>2. \A m \in S : Cardinality({q \in S : q.seq < m.seq}) = r.seq + 1 - 1 => m = r
    <3> SUFFICES ASSUME NEW m \in S, Cardinality({q \in S : q.seq < m.seq}) = r.seq + 1 - 1
                 PROVE  m = r
      OBVIOUS
    <3>1. m.seq = r.seq
      BY <2>1, RankIsSeq
    <3> QED
      BY <3>1 DEF Numbered
  <2>3. Cardinality({q \in S : q.seq < r.seq}) = r.seq + 1 - 1
    BY <2>1
  <2> QED
    BY <1>1, <2>1, <2>2, <2>3 DEF Nth
<1>3. ASSUME NEW i \in 1 .. Cardinality(S) PROVE Nth(S, i) \in S
  <2>1. i - 1 \in 0 .. Cardinality(S) - 1
    BY <1>1
  <2>2. PICK r \in S : r.seq = i - 1
    BY <2>1 DEF Numbered
  <2>3. r.seq + 1 = i
    BY <2>2
  <2> QED
    BY <1>2, <2>2, <2>3
<1>4. \A r \in S : r.op \in Op /\ r.part \in Nat
  BY DEF Message
<1>5. InOrder(S) \in [1 .. Cardinality(S) -> Op \X Nat]
  BY <1>3, <1>4 DEF InOrder
<1> QED
  BY <1>1, <1>2, <1>5 DEF InOrder

\* The messages of a conversation: one per row, each at its number.
LEMMA MessagesInOrder ==
  ASSUME NEW c \in Conv, SqlTypeOK, Filled(c)
  PROVE  /\ Messages(c) \in [1 .. Size(c) -> Op \X Nat]
         /\ Size(c) \in Nat
         /\ Len(Messages(c)) = Size(c)
         /\ \A r \in rows[c] : Messages(c)[r.seq + 1] = <<r.op, r.part>>
<1>1. rows[c] \in SUBSET Message /\ Numbered(rows[c])
  BY DEF SqlTypeOK, Message, Filled, Numbered, Size
<1>2. Messages(c) = InOrder(rows[c])
  BY DEF Messages, InOrder
<1>3. /\ Size(c) \in Nat
      /\ Messages(c) \in [1 .. Size(c) -> Op \X Nat]
      /\ \A r \in rows[c] : Messages(c)[r.seq + 1] = <<r.op, r.part>>
  BY <1>1, <1>2, RowsInOrder DEF Size
<1> QED
  BY <1>3

\* A block has as many rows as its call has messages.
LEMMA BatchSize ==
  ASSUME NEW o \in Op, next[o] \in Nat
  PROVE  /\ IsFiniteSet(Batch(o))
         /\ Cardinality(Batch(o)) = RowsOf[o]
         /\ Batch(o) \subseteq [seq : Nat, op : Op, part : Nat]
<1>0. RowsOf[o] \in Nat
  BY SqlAssumption
<1> DEFINE f == [i \in 1 .. RowsOf[o] |-> [seq |-> next[o] + i - 1, op |-> o, part |-> i]]
<1>1. f \in Bijection(1 .. RowsOf[o], Batch(o))
  <2>1. f \in [1 .. RowsOf[o] -> Batch(o)]
    BY DEF Batch
  <2>2. \A i, j \in 1 .. RowsOf[o] : f[i] = f[j] => i = j
    OBVIOUS
  <2>3. \A b \in Batch(o) : \E i \in 1 .. RowsOf[o] : f[i] = b
    BY DEF Batch
  <2> QED
    BY <2>1, <2>2, <2>3 DEF Bijection, Injection, Surjection, IsInjective
<1>2. ExistsBijection(1 .. RowsOf[o], Batch(o))
  BY <1>1 DEF ExistsBijection
<1>3. IsFiniteSet(1 .. RowsOf[o]) /\ Cardinality(1 .. RowsOf[o]) = RowsOf[o]
  <2>1. 1 \in Int /\ RowsOf[o] \in Int
    BY <1>0
  <2>2. /\ IsFiniteSet(1 .. RowsOf[o])
        /\ Cardinality(1 .. RowsOf[o]) = IF 1 > RowsOf[o] THEN 0 ELSE RowsOf[o] - 1 + 1
    BY <2>1, FS_Interval
  <2> QED
    BY <1>0, <2>2
<1>4. Batch(o) \subseteq [seq : Nat, op : Op, part : Nat]
  BY <1>0 DEF Batch
<1> QED
  BY <1>2, <1>3, <1>4, FS_Bijection

\* The next seq is the number of messages there are.
LEMMA NextSeqIsSize ==
  ASSUME SqlTypeOK, NEW c \in Conv, Filled(c)
  PROVE  NextSeq(c) = Size(c) /\ Size(c) \in Nat
<1> DEFINE S == {r.seq : r \in rows[c]}
           IsTop(n) == n \in S /\ \A r \in rows[c] : r.seq <= n
<1>1. Size(c) \in Nat
  BY FS_CardinalityType DEF Filled, Size
<1>2. CASE rows[c] = {}
  BY <1>2, FS_EmptySet DEF NextSeq, Size
<1>3. CASE rows[c] # {}
  <2>1. Size(c) > 0
    BY <1>1, <1>3, FS_EmptySet DEF Filled, Size
  <2>2. PICK top \in rows[c] : top.seq = Size(c) - 1
    BY <1>1, <2>1 DEF Filled
  <2>3. \A r \in rows[c] : r.seq \in Nat
    BY DEF SqlTypeOK
  <2>4. IsTop(Size(c) - 1)
    BY <1>1, <2>2, <2>3 DEF Filled
  <2>5. \A n \in S : (\A r \in rows[c] : r.seq <= n) => n = Size(c) - 1
    BY <1>1, <2>2, <2>3 DEF Filled
  <2> DEFINE m == CHOOSE n \in S : \A r \in rows[c] : r.seq <= n
  <2>6. m = Size(c) - 1
    BY <2>4, <2>5
  <2>7. NextSeq(c) = 1 + m
    BY <1>3 DEF NextSeq
  <2> HIDE DEF m
  <2> QED
    BY <1>1, <2>6, <2>7
<1> QED
  BY <1>1, <1>2, <1>3

\* A block that the schema accepts continues the numbering.
LEMMA AppendFills ==
  ASSUME SqlTypeOK, NEW o \in Op, Filled(ConvOf[o]), Accepts(o),
         next[o] <= Size(ConvOf[o]),
         NEW S, S = rows[ConvOf[o]] \cup Batch(o)
  PROVE  /\ IsFiniteSet(S)
         /\ Cardinality(S) = Size(ConvOf[o]) + RowsOf[o]
         /\ \A r, q \in S : r.seq = q.seq => r = q
         /\ \A r \in S : r.seq < Cardinality(S)
         /\ \A k \in 0 .. Cardinality(S) - 1 : \E r \in S : r.seq = k
<1> DEFINE c == ConvOf[o]
           n == Size(c)
<1>0. c \in Conv /\ RowsOf[o] \in Nat /\ next[o] \in Nat
  BY SqlAssumption DEF SqlTypeOK
<1>1. n \in Nat
  BY <1>0, NextSeqIsSize
<1>2. /\ IsFiniteSet(Batch(o)) /\ Cardinality(Batch(o)) = RowsOf[o]
      /\ Batch(o) \subseteq [seq : Nat, op : Op, part : Nat]
  BY <1>0, BatchSize
<1>3. rows[c] \cap Batch(o) = {}
  BY DEF Accepts
<1>4. IsFiniteSet(S) /\ Cardinality(S) = n + RowsOf[o]
  <2>1. IsFiniteSet(rows[c]) /\ Cardinality(rows[c]) = n
    BY DEF Filled, Size
  <2>2. /\ IsFiniteSet(rows[c] \cup Batch(o))
        /\ Cardinality(rows[c] \cup Batch(o)) =
             Cardinality(rows[c]) + Cardinality(Batch(o)) - Cardinality(rows[c] \cap Batch(o))
    BY <1>2, <2>1, FS_Union
  <2>3. Cardinality(rows[c] \cap Batch(o)) = 0
    BY <1>3, FS_EmptySet
  <2> QED
    BY <1>0, <1>1, <1>2, <2>1, <2>2, <2>3
<1>5. CASE RowsOf[o] = 0
  <2>1. Batch(o) = {}
    BY <1>5 DEF Batch
  <2>2. S = rows[c] /\ Cardinality(S) = n
    BY <1>1, <1>4, <1>5, <2>1
  <2>3. \A r, q \in S : r.seq = q.seq => r = q
    BY <2>2 DEF Filled
  <2>4. \A r \in S : r.seq < Cardinality(S)
    BY <2>2 DEF Filled
  <2>5. \A k \in 0 .. Cardinality(S) - 1 : \E r \in S : r.seq = k
    BY <2>2 DEF Filled
  <2> QED
    BY <1>4, <2>3, <2>4, <2>5
<1>6. CASE RowsOf[o] > 0
  <2>1. [seq |-> next[o], op |-> o, part |-> 1] \in Batch(o)
    <3>1. 1 \in 1 .. RowsOf[o] /\ next[o] + 1 - 1 = next[o]
      BY <1>0, <1>6
    <3> QED
      BY <3>1 DEF Batch
  <2>2. \A r \in rows[c] : r.seq # next[o]
    BY <2>1 DEF Accepts
  <2>3. next[o] = n
    <3>1. next[o] < n => next[o] \in 0 .. n - 1
      BY <1>0, <1>1
    <3> QED
      BY <1>0, <1>1, <2>2, <3>1 DEF Filled
  <2>4. \A b \in Batch(o) : /\ b.part \in 1 .. RowsOf[o]
                            /\ b = [seq |-> n + b.part - 1, op |-> o, part |-> b.part]
    BY <2>3 DEF Batch
  <2>5. \A r \in rows[c] : r.seq \in Nat /\ r.seq < n
    BY <1>0 DEF Filled, SqlTypeOK
  <2>6. \A r, q \in S : r.seq = q.seq => r = q
    <3>1. \A r, q \in Batch(o) : r.seq = q.seq => r = q
      BY <1>0, <1>1, <2>4
    <3>2. \A r \in rows[c], q \in Batch(o) : r.seq # q.seq
      BY DEF Accepts
    <3>3. \A r, q \in rows[c] : r.seq = q.seq => r = q
      BY DEF Filled
    <3> QED
      BY <3>1, <3>2, <3>3
  <2>7. \A r \in S : r.seq < n + RowsOf[o]
    <3>1. \A b \in Batch(o) : b.seq < n + RowsOf[o]
      BY <1>0, <1>1, <2>4
    <3> QED
      BY <1>0, <1>1, <2>5, <3>1
  <2>8. ASSUME NEW k \in 0 .. n + RowsOf[o] - 1 PROVE \E r \in S : r.seq = k
    <3>1. CASE k < n
      BY <1>0, <1>1, <3>1 DEF Filled
    <3>2. CASE k >= n
      <4>1. k - n + 1 \in 1 .. RowsOf[o] /\ next[o] + (k - n + 1) - 1 = k
        BY <1>0, <1>1, <2>3, <3>2
      <4>2. [seq |-> k, op |-> o, part |-> k - n + 1] \in Batch(o)
        BY <4>1 DEF Batch
      <4> QED
        BY <4>2
    <3> QED
      BY <1>0, <1>1, <3>1, <3>2
  <2>9. \A r \in S : r.seq < Cardinality(S)
    BY <1>4, <2>7
  <2>10. 0 .. Cardinality(S) - 1 = 0 .. n + RowsOf[o] - 1
    BY <1>0, <1>1, <1>4
  <2>11. \A k \in 0 .. Cardinality(S) - 1 : \E r \in S : r.seq = k
    BY <2>8, <2>10
  <2> QED
    BY <1>4, <2>6, <2>9, <2>11
<1>7. RowsOf[o] = 0 \/ RowsOf[o] > 0
  BY <1>0
<1> QED
  BY <1>5, <1>6, <1>7

-----------------------------------------------------------------------------
(***************************************************************************)
(* The types.                                                              *)
(***************************************************************************)

LEMMA ClampedType ==
  ASSUME NEW c \in Conv, Filled(c), NEW through \in Nat, through <= Size(c)
  PROVE  Clamped(through, c) = through
<1>1. Size(c) \in Nat
  BY FS_CardinalityType DEF Filled, Size
<1> QED
  BY <1>1 DEF Clamped, Size

LEMMA SqlTypeStep == SqlTypeOK /\ FilledInv /\ SqlStep => SqlTypeOK'
<1> SUFFICES ASSUME SqlTypeOK, FilledInv, SqlStep PROVE SqlTypeOK'
  OBVIOUS
<1> USE SqlAssumption DEF SqlTypeOK, txVars, convVars
<1>1. CASE UNCHANGED sqlVars
  BY <1>1 DEF sqlVars
<1>2. ASSUME NEW o \in Op, CreateConversation(o) PROVE SqlTypeOK'
  <2> HIDE DEF SqlTypeOK
  <2>1. [seq |-> 0, op |-> o, part |-> 1] \in [seq : Nat, op : Op, part : Nat]
    OBVIOUS
  <2>2. rows' \in [Conv -> SUBSET [seq : Nat, op : Op, part : Nat]]
    BY <1>2, <2>1 DEF CreateConversation, SqlTypeOK
  <2>3. tx' \in [Op -> {"idle", "begun", "stored", "failed", "killed"}]
    BY <1>2 DEF CreateConversation, SqlTypeOK
  <2>4. conv' = conv \/ conv' = [conv EXCEPT ![ConvOf[o]] = "kept"]
    BY <1>2 DEF CreateConversation
  <2>5. conv' \in [Conv -> {"absent", "kept", "erased"}]
    BY <2>4 DEF SqlTypeOK
  <2>6. UNCHANGED <<deleted, renamed, summary, cursor, tokens, lock, next, head, count, restarts>>
    BY <1>2 DEF CreateConversation
  <2> QED
    BY <2>2, <2>3, <2>5, <2>6 DEF SqlTypeOK
<1>3. ASSUME NEW o \in Op, BeginAppend(o) PROVE SqlTypeOK'
  <2>1. NextSeq(ConvOf[o]) \in Nat
    BY NextSeqIsSize DEF FilledInv
  <2> HIDE DEF SqlTypeOK
  <2>2. tx' = [tx EXCEPT ![o] = "begun"] \/ tx' = [tx EXCEPT ![o] = "failed"]
    BY <1>3 DEF BeginAppend
  <2>3. lock' = lock \/ lock' = [lock EXCEPT ![ServerOf[o]] = o]
    BY <1>3 DEF BeginAppend, Locked
  <2>4. next' = next \/ next' = [next EXCEPT ![o] = NextSeq(ConvOf[o])]
    BY <1>3 DEF BeginAppend
  <2>5. UNCHANGED <<convVars, head, count, restarts>>
    BY <1>3 DEF BeginAppend
  <2>6. tx' \in [Op -> {"idle", "begun", "stored", "failed", "killed"}]
    BY <2>2 DEF SqlTypeOK
  <2>7. lock' \in [Server -> Op \cup {None}]
    BY <2>3 DEF SqlTypeOK
  <2>8. next' \in [Op -> Nat]
    BY <2>1, <2>4 DEF SqlTypeOK
  <2> QED
    BY <2>5, <2>6, <2>7, <2>8 DEF SqlTypeOK
<1>4. ASSUME NEW o \in Op, CommitAppend(o) PROVE SqlTypeOK'
  <2>1. Batch(o) \subseteq [seq : Nat, op : Op, part : Nat]
    BY BatchSize
  <2> QED
    BY <1>4, <2>1 DEF CommitAppend, Unlocked
<1>5. ASSUME NEW r \in Reader, ReadHead(r) \/ ReadRows(r) PROVE SqlTypeOK'
  BY <1>5 DEF ReadHead, ReadRows
<1>6. ASSUME NEW k \in Saver, CountRows(k) PROVE SqlTypeOK'
  <2>1. PICK c \in Conv, through \in 1 .. MaxCut :
          /\ through <= Size(c)
          /\ count' = [count EXCEPT ![k] = [conv |-> c, through |-> through,
                                            folded |-> Clamped(through, c)]]
    BY <1>6 DEF CountRows, Size
  <2>2. through \in Nat /\ Clamped(through, c) \in Nat
    BY <2>1, ClampedType DEF FilledInv
  <2> QED
    BY <1>6, <2>1, <2>2 DEF CountRows
<1>7. ASSUME NEW k \in Saver, UpdateSummary(k) PROVE SqlTypeOK'
  BY <1>7 DEF UpdateSummary
<1>8. ASSUME NEW c \in Conv, SoftDelete(c) \/ Rename(c) PROVE SqlTypeOK'
  BY <1>8 DEF SoftDelete, Rename
<1>9. ASSUME NEW c \in Conv, Erase(c) PROVE SqlTypeOK'
  BY <1>9 DEF Erase
<1>10. ASSUME NEW s \in Server, SqlRestart(s) PROVE SqlTypeOK'
  BY <1>10 DEF SqlRestart
<1> QED
  BY <1>1, <1>2, <1>3, <1>4, <1>5, <1>6, <1>7, <1>8, <1>9, <1>10 DEF SqlStep

-----------------------------------------------------------------------------
(***************************************************************************)
(* The numbering, and those who work from an earlier reading of it.        *)
(***************************************************************************)

\* A conversation is not created again, and grows while it is there.
Monotone ==
  \A c \in Conv : conv[c] # "absent" =>
    /\ conv'[c] # "absent"
    /\ conv'[c] = "kept" => conv[c] = "kept" /\ Size(c) <= Size(c)'

LEMMA StoreStep ==
  SqlTypeOK /\ FilledInv /\ BegunInv /\ SqlStep => FilledInv' /\ Monotone
<1> SUFFICES ASSUME SqlTypeOK, FilledInv, BegunInv, SqlStep PROVE FilledInv' /\ Monotone
  OBVIOUS
<1> USE SqlAssumption
<1>0. \A c \in Conv : Size(c) \in Nat
  BY NextSeqIsSize DEF FilledInv
<1>1. ASSUME UNCHANGED <<conv, rows>> PROVE FilledInv' /\ Monotone
  BY <1>0, <1>1 DEF FilledInv, Filled, Size, Monotone
<1>2. ASSUME NEW o \in Op, CreateConversation(o) PROVE FilledInv' /\ Monotone
  <2> DEFINE c == ConvOf[o]
             row == [seq |-> 0, op |-> o, part |-> 1]
  <2>0. c \in Conv
    OBVIOUS
  <2>1. CASE UNCHANGED <<conv, rows>>
    BY <1>1, <2>1
  <2>2. CASE conv' = [conv EXCEPT ![c] = "kept"] /\ rows' = [rows EXCEPT ![c] = {row}]
    <3>1. conv[c] = "absent"
      BY <1>2 DEF BegunInv, CreateConversation
    <3>2. \A d \in Conv \ {c} : conv'[d] = conv[d] /\ rows'[d] = rows[d]
      BY <2>2 DEF SqlTypeOK
    <3>3. rows'[c] = {row} /\ row.seq = 0
      BY <2>0, <2>2 DEF SqlTypeOK
    <3> HIDE DEF row
    <3>4. Size(c)' = 1 /\ IsFiniteSet(rows'[c])
      <4>1. IsFiniteSet({row}) /\ Cardinality({row}) = 1
        BY FS_Singleton
      <4> QED
        BY <3>3, <4>1 DEF Size
    <3>5. Filled(c)'
      BY <2>0, <2>2, <3>3, <3>4 DEF Filled, SqlTypeOK
    <3>6. \A d \in Conv \ {c} : Filled(d)' /\ Size(d)' = Size(d)
      BY <3>2 DEF FilledInv, Filled, Size
    <3> QED
      BY <1>0, <3>1, <3>2, <3>5, <3>6 DEF FilledInv, Monotone
  <2> QED
    BY <1>2, <2>1, <2>2 DEF CreateConversation
<1>3. ASSUME NEW o \in Op, CommitAppend(o) PROVE FilledInv' /\ Monotone
  <2> DEFINE c == ConvOf[o]
  <2>0. c \in Conv /\ RowsOf[o] \in Nat
    OBVIOUS
  <2>1. CASE UNCHANGED rows
    BY <1>1, <1>3, <2>1 DEF CommitAppend
  <2>2. CASE Accepts(o) /\ rows' = [rows EXCEPT ![c] = @ \cup Batch(o)]
    <3>1. next[o] <= Size(c)
      BY <1>3, <2>2 DEF CommitAppend, Accepts, BegunInv
    <3>2. rows'[c] = rows[c] \cup Batch(o)
      BY <2>0, <2>2 DEF SqlTypeOK
    <3>3. \A d \in Conv \ {c} : rows'[d] = rows[d]
      BY <2>2 DEF SqlTypeOK
    <3>4. /\ IsFiniteSet(rows'[c])
          /\ Cardinality(rows'[c]) = Size(c) + RowsOf[o]
          /\ \A r, q \in rows'[c] : r.seq = q.seq => r = q
          /\ \A r \in rows'[c] : r.seq < Cardinality(rows'[c])
          /\ \A k \in 0 .. Cardinality(rows'[c]) - 1 : \E r \in rows'[c] : r.seq = k
      BY <2>0, <2>2, <3>1, <3>2, AppendFills DEF FilledInv
    <3>5. UNCHANGED conv /\ conv[c] = "kept"
      BY <1>3, <2>2 DEF CommitAppend, Accepts
    <3>6. Filled(c)' /\ Size(c) <= Size(c)'
      BY <1>0, <2>0, <3>4, <3>5 DEF Filled, Size
    <3>7. \A d \in Conv \ {c} : Filled(d)' /\ Size(d)' = Size(d)
      BY <3>3, <3>5 DEF FilledInv, Filled, Size
    <3> QED
      BY <1>0, <3>5, <3>6, <3>7 DEF FilledInv, Monotone
  <2> QED
    BY <1>3, <2>1, <2>2 DEF CommitAppend
<1>4. ASSUME NEW c \in Conv, Erase(c) PROVE FilledInv' /\ Monotone
  <2>1. rows'[c] = {} /\ conv'[c] = "erased" /\ conv[c] = "kept"
    BY <1>4 DEF Erase, SqlTypeOK
  <2>2. \A d \in Conv \ {c} : conv'[d] = conv[d] /\ rows'[d] = rows[d]
    BY <1>4 DEF Erase, SqlTypeOK
  <2>3. Size(c)' = 0 /\ IsFiniteSet(rows'[c])
    BY <2>1, FS_EmptySet DEF Size
  <2>4. Filled(c)'
    BY <2>1, <2>3 DEF Filled
  <2>5. \A d \in Conv \ {c} : Filled(d)' /\ Size(d)' = Size(d)
    BY <2>2 DEF FilledInv, Filled, Size
  <2> QED
    BY <1>0, <2>1, <2>2, <2>4, <2>5 DEF FilledInv, Monotone
<1>5. \/ UNCHANGED <<conv, rows>>
      \/ \E o \in Op : CreateConversation(o) \/ CommitAppend(o)
      \/ \E c \in Conv : Erase(c)
  BY DEF SqlStep, sqlVars, convVars, BeginAppend, ReadHead, ReadRows, CountRows, UpdateSummary,
         SoftDelete, Rename, SqlRestart
<1> QED
  BY <1>1, <1>2, <1>3, <1>4, <1>5

LEMMA BegunStep ==
  SqlTypeOK /\ SqlTypeOK' /\ FilledInv /\ FilledInv' /\ BegunInv /\ Monotone /\ SqlStep => BegunInv'
<1> SUFFICES ASSUME SqlTypeOK, SqlTypeOK', FilledInv, FilledInv', BegunInv, Monotone, SqlStep
             PROVE  BegunInv'
  OBVIOUS
<1> USE SqlAssumption
<1>0. \A c \in Conv : Size(c) \in Nat /\ Size(c)' \in Nat
  BY FS_CardinalityType DEF FilledInv, Filled, Size
<1>1. ASSUME \A o \in Op : \/ tx'[o] = tx[o] /\ next'[o] = next[o]
                           \/ tx'[o] \notin {"idle", "begun"},
             \A o \in Creates : tx'[o] = "idle" /\ conv[ConvOf[o]] = "absent"
                               => conv'[ConvOf[o]] = "absent"
      PROVE  BegunInv'
  <2> SUFFICES ASSUME NEW o \in Op
               PROVE  /\ o \in Creates /\ tx'[o] = "idle" => conv'[ConvOf[o]] = "absent"
                      /\ tx'[o] = "begun" =>
                           /\ conv'[ConvOf[o]] # "absent"
                           /\ conv'[ConvOf[o]] = "kept" => next'[o] <= Size(ConvOf[o])'
    BY DEF BegunInv, Size
  <2>1. o \in Creates /\ tx'[o] = "idle" => conv'[ConvOf[o]] = "absent"
    BY <1>1 DEF BegunInv
  <2>2. ASSUME tx'[o] = "begun"
        PROVE  /\ conv'[ConvOf[o]] # "absent"
               /\ conv'[ConvOf[o]] = "kept" => next'[o] <= Size(ConvOf[o])'
    <3>1. tx[o] = "begun" /\ next'[o] = next[o] /\ ConvOf[o] \in Conv /\ next[o] \in Nat
      BY <1>1, <2>2 DEF SqlTypeOK
    <3> QED
      BY <1>0, <3>1 DEF BegunInv, Monotone
  <2> QED
    BY <2>1, <2>2
<1>2. ASSUME NEW o \in Op, CreateConversation(o) PROVE BegunInv'
  <2>1. \A p \in Op : \/ tx'[p] = tx[p] /\ next'[p] = next[p]
                      \/ tx'[p] \notin {"idle", "begun"}
    BY <1>2 DEF CreateConversation, SqlTypeOK
  <2>2. tx'[o] # "idle" /\ \A d \in Conv \ {ConvOf[o]} : conv'[d] = conv[d]
    BY <1>2 DEF CreateConversation, SqlTypeOK
  <2>3. \A p \in Creates : tx'[p] = "idle" /\ conv[ConvOf[p]] = "absent"
                           => conv'[ConvOf[p]] = "absent"
    BY <1>2, <2>2 DEF CreateConversation
  <2> QED
    BY <1>1, <2>1, <2>3
<1>3. ASSUME NEW o \in Op, BeginAppend(o) PROVE BegunInv'
  <2>1. CASE conv[ConvOf[o]] = "kept"
    <3>1. next'[o] = Size(ConvOf[o]) /\ UNCHANGED <<conv, rows>>
      BY <1>3, <2>1, NextSeqIsSize DEF BeginAppend, FilledInv, SqlTypeOK, convVars
    <3>2. \A p \in Op \ {o} : tx'[p] = tx[p] /\ next'[p] = next[p]
      BY <1>3, <2>1 DEF BeginAppend, SqlTypeOK
    <3>3. o \notin Creates
      BY <1>3 DEF BeginAppend
    <3> QED
      BY <1>0, <2>1, <3>1, <3>2, <3>3 DEF BegunInv, Size
  <2>2. CASE conv[ConvOf[o]] # "kept"
    BY <1>1, <1>3, <2>2 DEF BeginAppend, SqlTypeOK, convVars
  <2> QED
    BY <2>1, <2>2
<1>4. ASSUME NEW o \in Op, CommitAppend(o) PROVE BegunInv'
  BY <1>1, <1>4 DEF CommitAppend, SqlTypeOK
<1>5. ASSUME NEW s \in Server, SqlRestart(s) PROVE BegunInv'
  <2>1. \A o \in Op : o \in Creates \/ tx'[o] = "begun" => tx'[o] = tx[o] \/ tx'[o] = "killed"
    BY <1>5 DEF SqlRestart
  <2>2. \A o \in Op : tx'[o] = "begun" => next'[o] = next[o] /\ tx[o] = "begun"
    BY <1>5 DEF SqlRestart
  <2>3. UNCHANGED <<conv, rows>>
    BY <1>5 DEF SqlRestart, convVars
  <2> QED
    BY <2>1, <2>2, <2>3 DEF BegunInv, Size
<1>6. ASSUME UNCHANGED <<tx, next>>, \A c \in Conv : conv[c] = "absent" => conv'[c] = "absent"
      PROVE  BegunInv'
  BY <1>1, <1>6
<1>7. ASSUME NEW c \in Conv, SoftDelete(c) \/ Rename(c) \/ Erase(c) PROVE BegunInv'
  BY <1>6, <1>7 DEF SoftDelete, Rename, Erase, SqlTypeOK, txVars
<1>8. ASSUME \/ UNCHANGED sqlVars
             \/ \E r \in Reader : ReadHead(r) \/ ReadRows(r)
             \/ \E k \in Saver : CountRows(k) \/ UpdateSummary(k)
      PROVE  BegunInv'
  BY <1>6, <1>8 DEF ReadHead, ReadRows, CountRows, UpdateSummary, sqlVars, txVars, convVars
<1> QED
  BY <1>2, <1>3, <1>4, <1>5, <1>7, <1>8 DEF SqlStep

\* What save_summary is about to write stays within the messages.
LEMMA CountStep ==
  SqlTypeOK /\ SqlTypeOK' /\ FilledInv /\ FilledInv' /\ CountInv /\ Monotone /\ SqlStep => CountInv'
<1> SUFFICES ASSUME SqlTypeOK, SqlTypeOK', FilledInv, FilledInv', CountInv, Monotone, SqlStep
             PROVE  CountInv'
  OBVIOUS
<1>0. \A c \in Conv : Size(c) \in Nat /\ Size(c)' \in Nat
  BY FS_CardinalityType DEF FilledInv, Filled, Size
<1>1. ASSUME \A k \in Saver : count'[k] = count[k] \/ count'[k] = None
      PROVE  CountInv'
  <2> SUFFICES ASSUME NEW k \in Saver, NEW c \in Conv, count'[k] # None, count'[k].conv = c
               PROVE  /\ count'[k].folded = count'[k].through
                      /\ conv'[c] # "absent"
                      /\ conv'[c] = "kept" => count'[k].through <= Size(c)'
    BY DEF CountInv
  <2>1. count'[k] = count[k] /\ count[k] \in [conv : Conv, through : Nat, folded : Nat]
    BY <1>1 DEF SqlTypeOK
  <2> QED
    BY <1>0, <2>1 DEF CountInv, Monotone
<1>2. ASSUME NEW k \in Saver, CountRows(k) PROVE CountInv'
  <2>1. PICK c \in Conv, through \in 1 .. MaxCut :
          /\ through <= Size(c)
          /\ count' = [count EXCEPT ![k] = [conv |-> c, through |-> through,
                                            folded |-> Clamped(through, c)]]
    BY <1>2 DEF CountRows, Size
  <2>2. Clamped(through, c) = through
    BY <2>1, ClampedType, SqlAssumption DEF FilledInv
  <2>3. count'[k] = [conv |-> c, through |-> through, folded |-> through]
    BY <2>1, <2>2 DEF SqlTypeOK
  <2>4. conv[c] # "absent"
    <3>1. Size(c) # 0
      BY <2>1
    <3> QED
      BY <3>1, FS_EmptySet DEF FilledInv, Filled, Size
  <2>5. \A j \in Saver \ {k} : count'[j] = count[j]
    BY <2>1 DEF SqlTypeOK
  <2>6. UNCHANGED <<conv, rows>>
    BY <1>2 DEF CountRows, convVars
  <2> QED
    BY <2>1, <2>3, <2>4, <2>5, <2>6 DEF CountInv, Size
<1>3. \/ UNCHANGED count
      \/ \E k \in Saver : CountRows(k) \/ UpdateSummary(k)
  BY DEF SqlStep, sqlVars, CreateConversation, BeginAppend, CommitAppend, ReadHead, ReadRows,
         SoftDelete, Rename, Erase, SqlRestart
<1>4. ASSUME NEW k \in Saver, UpdateSummary(k) PROVE CountInv'
  BY <1>1, <1>4 DEF UpdateSummary, SqlTypeOK
<1> QED
  BY <1>1, <1>2, <1>3, <1>4

\* The cursor counts folded messages.
LEMMA CursorStep ==
  /\ SqlTypeOK /\ SqlTypeOK' /\ FilledInv /\ FilledInv' /\ BegunInv /\ CountInv /\ CursorInv
  /\ Monotone /\ SqlStep
  => CursorInv'
<1> SUFFICES ASSUME SqlTypeOK, SqlTypeOK', FilledInv, FilledInv', BegunInv, CountInv, CursorInv,
                    Monotone, SqlStep
             PROVE  CursorInv'
  OBVIOUS
<1> USE SqlAssumption
<1>0. \A c \in Conv : Size(c) \in Nat /\ Size(c)' \in Nat
  BY FS_CardinalityType DEF FilledInv, Filled, Size
<1>1. ASSUME UNCHANGED <<summary, cursor>>, \A c \in Conv : Size(c) <= Size(c)'
      PROVE  CursorInv'
  BY <1>0, <1>1 DEF CursorInv, SqlTypeOK
<1>2. ASSUME NEW o \in Op, CreateConversation(o) \/ CommitAppend(o) PROVE CursorInv'
  <2>1. \A c \in Conv : conv[c] = "absent" => Size(c) = 0
    BY FS_EmptySet DEF FilledInv, Filled, Size
  <2>2. \A c \in Conv : conv'[c] = "kept" \/ rows'[c] = rows[c]
    BY <1>2 DEF CreateConversation, CommitAppend, Accepts, SqlTypeOK
  <2>3. \A c \in Conv : Size(c) <= Size(c)'
    BY <1>0, <2>1, <2>2 DEF Monotone, Size
  <2> QED
    BY <1>1, <1>2, <2>3 DEF CreateConversation, CommitAppend
<1>3. ASSUME NEW k \in Saver, UpdateSummary(k) PROVE CursorInv'
  <2> DEFINE c == count[k].conv
  <2>1. count[k] \in [conv : Conv, through : Nat, folded : Nat] /\ count[k] # None
    BY <1>3 DEF UpdateSummary, SqlTypeOK
  <2>2. UNCHANGED rows
    BY <1>3 DEF UpdateSummary
  <2>3. CASE conv[c] = "kept"
    <3>1. count[k].folded = count[k].through /\ count[k].through <= Size(c)
      BY <2>1, <2>3 DEF CountInv
    <3>2. /\ summary' = [summary EXCEPT ![c] = count[k].through]
          /\ cursor' = [cursor EXCEPT ![c] = count[k].folded]
      BY <1>3, <2>3 DEF UpdateSummary
    <3>3. \A d \in Conv : Size(d)' = Size(d)
      BY <2>2 DEF Size
    <3> QED
      BY <2>1, <3>1, <3>2, <3>3 DEF CursorInv, SqlTypeOK
  <2>4. CASE conv[c] # "kept"
    BY <1>3, <2>2, <2>4 DEF UpdateSummary, CursorInv, Size
  <2> QED
    BY <2>3, <2>4
<1>4. ASSUME NEW c \in Conv, Erase(c) PROVE CursorInv'
  <2>1. \A d \in Conv \ {c} : rows'[d] = rows[d] /\ summary'[d] = summary[d] /\ cursor'[d] = cursor[d]
    BY <1>4 DEF Erase, SqlTypeOK
  <2>2. summary'[c] = 0 /\ cursor'[c] = 0
    BY <1>4 DEF Erase, SqlTypeOK
  <2> QED
    BY <1>0, <2>1, <2>2 DEF CursorInv, Size
<1>5. \/ UNCHANGED <<summary, cursor, rows>>
      \/ \E o \in Op : CreateConversation(o) \/ CommitAppend(o)
      \/ \E k \in Saver : UpdateSummary(k)
      \/ \E c \in Conv : Erase(c)
  BY DEF SqlStep, sqlVars, convVars, BeginAppend, ReadHead, ReadRows, CountRows,
         SoftDelete, Rename, SqlRestart
<1>6. CASE UNCHANGED <<summary, cursor, rows>>
  BY <1>6 DEF CursorInv, Size
<1> QED
  BY <1>2, <1>3, <1>4, <1>5, <1>6

\* What a reader has got of the conversation's row stays within the messages.
LEMMA HeadStep ==
  /\ SqlTypeOK /\ SqlTypeOK' /\ FilledInv /\ FilledInv' /\ CursorInv /\ HeadInv
  /\ Monotone /\ SqlStep
  => HeadInv'
<1> SUFFICES ASSUME SqlTypeOK, SqlTypeOK', FilledInv, FilledInv', CursorInv, HeadInv,
                    Monotone, SqlStep
             PROVE  HeadInv'
  OBVIOUS
<1>0. \A c \in Conv : Size(c) \in Nat /\ Size(c)' \in Nat
  BY FS_CardinalityType DEF FilledInv, Filled, Size
<1>1. ASSUME \A r \in Reader : head'[r] = head[r] \/ head'[r] = None
      PROVE  HeadInv'
  <2> SUFFICES ASSUME NEW r \in Reader, NEW c \in Conv, head'[r] # None, head'[r].conv = c
               PROVE  /\ head'[r].from = head'[r].summary
                      /\ conv'[c] # "absent"
                      /\ conv'[c] = "kept" => head'[r].summary <= Size(c)'
    BY DEF HeadInv
  <2>1. head'[r] = head[r] /\ head[r] \in [conv : Conv, summary : Nat, from : Nat, given : BOOLEAN]
    BY <1>1 DEF SqlTypeOK
  <2> QED
    BY <1>0, <2>1 DEF HeadInv, Monotone
<1>2. ASSUME NEW r \in Reader, ReadHead(r) PROVE HeadInv'
  <2>1. PICK c \in Conv :
          /\ conv[c] = "kept"
          /\ head' = [head EXCEPT ![r] = [conv |-> c, summary |-> summary[c], from |-> cursor[c],
                                         given |-> renamed[c]]]
    BY <1>2 DEF ReadHead
  <2>2. head'[r] = [conv |-> c, summary |-> summary[c], from |-> cursor[c], given |-> renamed[c]]
    BY <2>1 DEF SqlTypeOK
  <2>3. \A q \in Reader \ {r} : head'[q] = head[q]
    BY <2>1 DEF SqlTypeOK
  <2>4. UNCHANGED <<conv, rows>>
    BY <1>2 DEF ReadHead, convVars
  <2> QED
    BY <2>1, <2>2, <2>3, <2>4 DEF HeadInv, CursorInv, Size
<1>3. UNCHANGED head \/ \E r \in Reader : ReadHead(r) \/ ReadRows(r)
  BY DEF SqlStep, sqlVars, CreateConversation, BeginAppend, CommitAppend, CountRows,
         UpdateSummary, SoftDelete, Rename, Erase, SqlRestart
<1>4. ASSUME NEW r \in Reader, ReadRows(r) PROVE HeadInv'
  BY <1>1, <1>4 DEF ReadRows, SqlTypeOK
<1> QED
  BY <1>1, <1>2, <1>3, <1>4

LEMMA SqlInvStep == SqlInv /\ SqlStep => SqlInv'
  BY SqlTypeStep, StoreStep, BegunStep, CountStep, CursorStep, HeadStep DEF SqlInv

-----------------------------------------------------------------------------
(***************************************************************************)
(* The requests.                                                           *)
(***************************************************************************)

LEMMA TypeStep == TypeOK /\ SqlTypeOK' /\ RequestInv /\ [Next]_vars => TypeOK'
<1> SUFFICES ASSUME TypeOK, SqlTypeOK', RequestInv, [Next]_vars PROVE TypeOK'
  OBVIOUS
<1> USE WebAssumption DEF TypeOK, Moves, Answers
<1>1. CASE UNCHANGED vars
  BY <1>1 DEF vars, webVars
<1>2. ASSUME NEW t \in Turn, Submit(t) \/ Hit(t) \/ Miss(t) \/ Exchange(t) \/ Cache(t) PROVE TypeOK'
  BY <1>2 DEF Submit, Hit, Usable, Miss, Exchange, Cache
<1>3. ASSUME NEW t \in Turn, Admit(t) \/ Start(t) \/ Finish(t) PROVE TypeOK'
  BY <1>3 DEF Admit, Start, Finish
<1>4. ASSUME NEW t \in Turn, Return(t) PROVE TypeOK'
  BY <1>4 DEF Return
<1>5. ASSUME NEW t \in Turn, Drop(t) PROVE TypeOK'
  <2>1. attempt[t] = 0
    BY <1>5 DEF Drop, RequestInv, RequestOK
  <2> QED
    BY <1>5, <2>1 DEF Drop
<1>6. ASSUME NEW t \in Turn, StoreMessage(t) \/ StoreReply(t) PROVE TypeOK'
  BY <1>6 DEF StoreMessage, StoreReply, webVars
<1>7. CASE Tick
  BY <1>7 DEF Tick
<1>8. CASE Others
  BY <1>8 DEF Others, webVars
<1>9. ASSUME NEW s \in Server, Restart(s) PROVE TypeOK'
  BY <1>9 DEF Restart
<1> QED
  BY <1>1, <1>2, <1>3, <1>4, <1>5, <1>6, <1>7, <1>8, <1>9 DEF Next

\* The steps of a request leave the others alone and keep their word.
LEMMA RequestStep == TypeOK /\ RequestInv /\ [Next]_vars => RequestInv'
<1> SUFFICES ASSUME TypeOK, RequestInv, [Next]_vars PROVE RequestInv'
  OBVIOUS
<1> DEFINE Idle(t) == tx[UserOp[t]] = "idle" /\ tx[ReplyOp[t]] = "idle"
           Same(t) == /\ call'[t] = call[t] /\ status'[t] = status[t] /\ attempt'[t] = attempt[t]
                      /\ tx[UserOp[t]] = "idle" => tx'[UserOp[t]] = "idle"
                      /\ tx[ReplyOp[t]] = "idle" => tx'[ReplyOp[t]] = "idle"
<1>0. \A t \in Turn : Same(t) => RequestOK(t)'
  BY DEF RequestInv, RequestOK, Refused
<1>1. CASE UNCHANGED vars
  BY <1>0, <1>1 DEF vars, webVars, sqlVars, txVars, RequestInv
<1>2. ASSUME NEW t \in Turn, \A u \in Turn \ {t} : Same(u), RequestOK(t)' PROVE RequestInv'
  BY <1>0, <1>2 DEF RequestInv
<1>3. ASSUME NEW t \in Turn, Submit(t) \/ Hit(t) \/ Miss(t) \/ Cache(t) \/ Drop(t) PROVE RequestInv'
  <2>1. UNCHANGED <<status, tx>> /\ call[t] \in Unsent /\ call'[t] \in Unsent \ {"dropping"}
    BY <1>3 DEF Submit, Hit, Miss, Cache, Drop, Moves, Unsent, TypeOK, sqlVars, txVars
  <2>2. \A u \in Turn \ {t} : Same(u)
    BY <1>3, <2>1 DEF Submit, Hit, Miss, Cache, Drop, Moves, TypeOK
  <2>3. RequestOK(t)'
    BY <2>1 DEF RequestInv, RequestOK, Refused, Unsent
  <2> QED
    BY <1>2, <2>2, <2>3
<1>4. ASSUME NEW t \in Turn, Exchange(t) \/ Admit(t) PROVE RequestInv'
  <2>1. UNCHANGED <<tx, attempt>> /\ Idle(t)
    BY <1>4 DEF Exchange, Admit, Moves, Unsent, RequestInv, RequestOK, sqlVars, txVars
  <2>2. \A u \in Turn \ {t} : Same(u)
    BY <1>4, <2>1 DEF Exchange, Admit, Moves, Answers, TypeOK
  <2>3. call'[t] \in {"caching", "answered", "returned", "admitted"}
    BY <1>4 DEF Exchange, Admit, Moves, TypeOK
  <2>4. RequestOK(t)'
    BY <2>1, <2>3 DEF RequestOK
  <2> QED
    BY <1>2, <2>2, <2>4
<1>5. ASSUME NEW t \in Turn, Start(t) PROVE RequestInv'
  <2>1. UNCHANGED <<tx, attempt>> /\ \A u \in Turn \ {t} : Same(u)
    BY <1>5 DEF Start, Moves, Answers, TypeOK, sqlVars, txVars
  <2>2. \/ call'[t] = "streaming" /\ status'[t] = 200
        \/ call'[t] = "returned" /\ status'[t] = 500
    BY <1>5 DEF Start, Moves, Answers, TypeOK
  <2>3. RequestOK(t)'
    BY <2>2 DEF RequestOK, Refused, Unsent
  <2> QED
    BY <1>2, <2>1, <2>3
<1>6. ASSUME NEW t \in Turn, Finish(t) PROVE RequestInv'
  <2>1. \A u \in Turn \ {t} : Same(u)
    BY <1>6 DEF Finish, Moves, TypeOK, sqlVars, txVars
  <2>2. call'[t] = "answered" /\ status'[t] = 200
    BY <1>6 DEF Finish, Moves, TypeOK, RequestInv, RequestOK
  <2>3. RequestOK(t)'
    BY <2>2 DEF RequestOK, Refused, Unsent
  <2> QED
    BY <1>2, <2>1, <2>3
<1>7. ASSUME NEW t \in Turn, Return(t) PROVE RequestInv'
  <2>1. UNCHANGED <<tx, attempt, status>> /\ \A u \in Turn \ {t} : Same(u)
    BY <1>7 DEF Return, Moves, TypeOK, sqlVars, txVars
  <2>2. /\ call[t] = "returned"
        /\ \/ call'[t] = "dropping" /\ status[t] = 401 /\ attempt[t] = 0
           \/ call'[t] = "answered"
    BY <1>7 DEF Return, Retries, Moves, TypeOK
  <2>3. RequestOK(t)'
    BY <2>1, <2>2 DEF RequestInv, RequestOK, Refused, Unsent
  <2> QED
    BY <1>2, <2>1, <2>3
<1>8. ASSUME NEW t \in Turn, StoreMessage(t) \/ StoreReply(t) PROVE RequestInv'
  <2> DEFINE o == IF call[t] = "admitted" THEN UserOp[t] ELSE ReplyOp[t]
  <2>1. UNCHANGED <<call, status, attempt>> /\ call[t] \in {"admitted", "streaming"}
    BY <1>8 DEF StoreMessage, StoreReply, webVars
  <2>2. CreateConversation(o) \/ BeginAppend(o) \/ CommitAppend(o)
    BY <1>8 DEF StoreMessage, StoreReply
  <2>3. \A p \in Op \ {o} : tx'[p] = tx[p]
    BY <2>2 DEF CreateConversation, BeginAppend, CommitAppend, TypeOK, SqlTypeOK
  <2>4. \A u \in Turn \ {t} : Same(u)
    <3>1. \A u \in Turn \ {t} : UserOp[u] \in Op \ {o} /\ ReplyOp[u] \in Op \ {o}
      BY WebAssumption
    <3> QED
      BY <2>1, <2>3, <3>1
  <2>5. call[t] = "admitted" => ReplyOp[t] \in Op \ {o}
    BY WebAssumption
  <2>6. RequestOK(t)'
    BY <2>1, <2>3, <2>5 DEF RequestInv, RequestOK, Refused, Unsent
  <2> QED
    BY <1>2, <2>4, <2>6
<1>9. CASE Tick
  BY <1>0, <1>9 DEF Tick, sqlVars, txVars, RequestInv
<1>10. CASE Others
  <2>1. UNCHANGED tx
    BY <1>10 DEF Others, Sidebar, ReadHead, ReadRows, CountRows, UpdateSummary, SoftDelete, Rename, Erase,
                 txVars
  <2> QED
    BY <1>0, <1>10, <2>1 DEF Others, webVars, RequestInv
<1>11. ASSUME NEW s \in Server, Restart(s) PROVE RequestInv'
  <2>1. \A o \in Op : tx[o] = "idle" => tx'[o] = "idle"
    BY <1>11 DEF Restart, SqlRestart
  <2>2. ASSUME NEW t \in Turn PROVE RequestOK(t)'
    <3>0. UserOp[t] \in Op /\ ReplyOp[t] \in Op
      BY WebAssumption
    <3>1. CASE call'[t] = call[t] /\ status'[t] = status[t]
      BY <1>0, <1>11, <2>1, <3>0, <3>1 DEF Restart
    <3>2. CASE call[t] = "admitted" /\ call'[t] = "answered" /\ status'[t] = 500
      BY <3>2 DEF RequestOK, Refused, Unsent
    <3>3. CASE call[t] = "streaming" /\ call'[t] = "answered" /\ status'[t] = status[t]
      BY <3>3 DEF RequestInv, RequestOK, Refused, Unsent
    <3> QED
      BY <1>11, <3>1, <3>2, <3>3 DEF Restart
  <2> QED
    BY <2>2 DEF RequestInv
<1> QED
  BY <1>1, <1>3, <1>4, <1>5, <1>6, <1>7, <1>8, <1>9, <1>10, <1>11 DEF Next

-----------------------------------------------------------------------------
(***************************************************************************)
(* The theorems.                                                           *)
(***************************************************************************)

LEMMA InitIInv == Init => IInv
<1> SUFFICES ASSUME Init PROVE IInv
  OBVIOUS
<1> USE SqlAssumption, WebAssumption DEF Init, SqlInit
<1>1. SqlTypeOK
  BY DEF SqlTypeOK
<1>2. TypeOK
  BY <1>1 DEF TypeOK
<1>3. \A c \in Conv : rows[c] = {} /\ Size(c) = 0
  BY FS_EmptySet DEF Size
<1>4. FilledInv
  BY <1>3, FS_EmptySet DEF FilledInv, Filled
<1>5. BegunInv /\ CountInv /\ CursorInv /\ HeadInv
  BY <1>3 DEF BegunInv, CountInv, CursorInv, HeadInv
<1>6. RequestInv
  BY DEF RequestInv, RequestOK, Refused, Unsent
<1> QED
  BY <1>1, <1>2, <1>4, <1>5, <1>6 DEF IInv, SqlInv

LEMMA IInvStep == IInv /\ [Next]_vars => IInv'
<1> SUFFICES ASSUME IInv, [Next]_vars PROVE IInv'
  OBVIOUS
<1>1. SqlInv'
  BY StepOfTables, SqlInvStep DEF IInv
<1> QED
  BY <1>1, TypeStep, RequestStep DEF IInv, SqlInv

LEMMA Invariance == Spec => []IInv
  BY InitIInv, IInvStep, PTL DEF Spec

\* The tables and the requests have their shape, and a request is sent at most
\* twice (route.ts), for any number of processes, requests and restarts.
THEOREM TypeCorrect == Spec => []TypeOK
<1>1. IInv => TypeOK
  BY DEF IInv
<1> QED
  BY <1>1, Invariance, PTL

\* seq is a dense position from 0 (sqlschema.py), whichever processes number
\* the blocks and whatever fails between their reads and their writes.
THEOREM SeqStaysDense == Spec => []SeqIsDense
<1>1. IInv => SeqIsDense
  <2> SUFFICES ASSUME IInv, NEW c \in Conv PROVE Dense(rows[c])
    BY DEF SeqIsDense
  <2>1. Filled(c) /\ Size(c) \in Nat
    BY FS_CardinalityType DEF IInv, SqlInv, FilledInv, Filled, Size
  <2>2. \A r \in rows[c] : r.seq \in Nat
    BY DEF IInv, SqlInv, SqlTypeOK
  <2>3. \A r \in rows[c] : \A n \in 0 .. r.seq : n \in 0 .. Size(c) - 1
    BY <2>1, <2>2 DEF Filled
  <2> QED
    BY <2>1, <2>3 DEF Filled, Dense
<1> QED
  BY <1>1, Invariance, PTL

\* What fetch_history returns is what the summary does not fold, to the last
\* message.
LEMMA FetchedIsTail ==
  ASSUME IInv, NEW r \in Reader, head[r] # None, conv[head[r].conv] = "kept"
  PROVE  {m.seq : m \in Fetched(r)} = head[r].summary .. (Size(head[r].conv) - 1)
<1> DEFINE c == head[r].conv
           from == head[r].summary
<1>1. c \in Conv /\ from \in Nat /\ head[r].from = from /\ from <= Size(c)
  BY DEF IInv, SqlInv, SqlTypeOK, HeadInv
<1>2. Filled(c) /\ Size(c) \in Nat
  BY <1>1, FS_CardinalityType DEF IInv, SqlInv, FilledInv, Filled, Size
<1>3. \A m \in rows[c] : m.seq \in 0 .. Size(c) - 1
  BY <1>1, <1>2 DEF Filled, IInv, SqlInv, SqlTypeOK
<1>4. \A m \in Fetched(r) : m.seq \in from .. Size(c) - 1
  BY <1>1, <1>2, <1>3 DEF Fetched
<1>5. ASSUME NEW k \in from .. Size(c) - 1 PROVE \E m \in Fetched(r) : m.seq = k
  <2>1. k \in 0 .. Size(c) - 1 /\ k >= from
    BY <1>1, <1>2
  <2>2. PICK m \in rows[c] : m.seq = k
    BY <1>2, <2>1 DEF Filled
  <2>3. m \in Fetched(r)
    BY <1>1, <2>1, <2>2 DEF Fetched
  <2> QED
    BY <2>2, <2>3
<1> QED
  BY <1>4, <1>5

\* The title in the tables is that of the first of the messages in order.
LEMMA TitleAgrees ==
  ASSUME IInv, NEW c \in Conv
  PROVE  Titled(renamed[c], c) = Backend!Title(c)
<1>1. Filled(c) /\ Size(c) \in Nat
  BY FS_CardinalityType DEF IInv, SqlInv, FilledInv, Filled, Size
<1>2. Len(Messages(c)) = Size(c) /\ DOMAIN Messages(c) = 1 .. Size(c)
  BY <1>1, MessagesInOrder DEF IInv, SqlInv
<1>3. {<<m.op, m.part>> : m \in {q \in rows[c] : q.seq = 0}}
        = {Messages(c)[k] : k \in {1} \cap DOMAIN Messages(c)}
  <2>1. CASE Size(c) = 0
    BY <1>1, <1>2, <2>1, FS_EmptySet DEF Filled, Size
  <2>2. CASE Size(c) > 0
    <3>1. PICK m \in rows[c] : m.seq = 0
      BY <1>1, <2>2 DEF Filled
    <3>2. {q \in rows[c] : q.seq = 0} = {m}
      BY <1>1, <3>1 DEF Filled
    <3>3. Messages(c)[1] = <<m.op, m.part>>
      <4>1. Messages(c)[m.seq + 1] = <<m.op, m.part>>
        BY <1>1, MessagesInOrder DEF IInv, SqlInv
      <4> QED
        BY <3>1, <4>1
    <3>4. {1} \cap DOMAIN Messages(c) = {1}
      BY <1>1, <1>2, <2>2
    <3> QED
      BY <3>2, <3>3, <3>4
  <2> QED
    BY <1>1, <2>1, <2>2
<1> QED
  BY <1>3 DEF Titled, Backend!Title

\* A read of several statements leaves no message out, whatever is appended or
\* folded in between, and what a conversation is called and who lists it are as
\* in a single process.
THEOREM ReadingsAgree == Spec => []ReadsAgree
<1>1. IInv => ReadsAgree
  <2> SUFFICES ASSUME IInv PROVE ReadsAgree
    OBVIOUS
  <2>1. ASSUME NEW r \in Reader, head[r] # None, conv[head[r].conv] = "kept"
        PROVE  /\ {m.seq : m \in Fetched(r)} = head[r].summary .. (Size(head[r].conv) - 1)
               /\ Meta(r).folded <= Meta(r).count
               /\ head[r].given = renamed[head[r].conv] => Meta(r).title = Backend!Title(head[r].conv)
    <3>1. head[r].conv \in Conv /\ head[r].from <= Size(head[r].conv)
      BY <2>1 DEF IInv, SqlInv, SqlTypeOK, HeadInv
    <3>2. Meta(r).folded <= Meta(r).count
      BY <3>1 DEF Meta, Size
    <3>3. head[r].given = renamed[head[r].conv] => Meta(r).title = Backend!Title(head[r].conv)
      BY <3>1, TitleAgrees DEF Meta
    <3> QED
      BY <2>1, <3>2, <3>3, FetchedIsTail
  <2>2. Listing = Backend!Listing
    <3>1. \A c \in Conv : /\ Titled(renamed[c], c) = Backend!Title(c)
                         /\ Cardinality(rows[c]) = Len(Messages(c))
      BY TitleAgrees, MessagesInOrder DEF IInv, SqlInv, FilledInv, Size
    <3> QED
      BY <3>1 DEF Listing, Backend!Listing
  <2> QED
    BY <2>1, <2>2 DEF ReadsAgree, Size
<1> QED
  BY <1>1, Invariance, PTL

\* A request that is sent again has stored nothing, nor has one whose answer
\* says that it was refused (route.ts).
THEOREM RetriesAreSafe == Spec => []RefusedStoresNothing
<1>1. IInv => RefusedStoresNothing
  BY DEF IInv, RequestInv, RequestOK, Refused, Unsent, RefusedStoresNothing
<1> QED
  BY <1>1, Invariance, PTL

-----------------------------------------------------------------------------
(***************************************************************************)
(* Server processes that share the tables are the backend of a single      *)
(* process: every step of WebChat is, in the tables, a step of             *)
(* InMemoryBackend or none.  The rows in the order of seq are the          *)
(* messages, so that a block is appended where it was numbered to stand; a *)
(* call that holds an open transaction has not happened; and a process     *)
(* that dies fails one call at most, the one that holds its lock.          *)
(***************************************************************************)

\* An open transaction appends, and holds the lock of its process.
LockInv == \A o \in Op : tx[o] = "begun" => o \notin Creates /\ lock[ServerOf[o]] = o

LEMMA LockStep == SqlTypeOK /\ LockInv /\ SqlStep => LockInv'
<1> SUFFICES ASSUME SqlTypeOK, LockInv, SqlStep PROVE LockInv'
  OBVIOUS
<1> USE SqlAssumption
<1>1. ASSUME UNCHANGED lock, \A o \in Op : tx'[o] = "begun" => tx[o] = "begun"
      PROVE  LockInv'
  BY <1>1 DEF LockInv
<1>2. ASSUME NEW o \in Op, CreateConversation(o) PROVE LockInv'
  <2>1. \A p \in Op : tx'[p] = "begun" => tx[p] = "begun"
    BY <1>2 DEF CreateConversation, SqlTypeOK
  <2> QED
    BY <1>1, <1>2, <2>1 DEF CreateConversation
<1>3. ASSUME NEW o \in Op, BeginAppend(o) PROVE LockInv'
  <2>1. CASE UNCHANGED lock /\ tx' = [tx EXCEPT ![o] = "failed"]
    BY <1>1, <2>1 DEF SqlTypeOK
  <2>2. CASE lock' = Locked(o) /\ tx' = [tx EXCEPT ![o] = "begun"]
    <3>1. \A p \in Op : tx[p] = "begun" => ServerOf[p] # ServerOf[o]
      BY <1>3 DEF BeginAppend, Free, LockInv
    <3>2. o \notin Creates
      BY <1>3 DEF BeginAppend
    <3> QED
      BY <2>2, <3>1, <3>2 DEF Locked, LockInv, SqlTypeOK
  <2> QED
    BY <1>3, <2>1, <2>2 DEF BeginAppend
<1>4. ASSUME NEW o \in Op, CommitAppend(o) PROVE LockInv'
  <2>1. tx[o] = "begun" /\ lock' = Unlocked(o)
    BY <1>4 DEF CommitAppend
  <2>2. tx' = [tx EXCEPT ![o] = "stored"] \/ tx' = [tx EXCEPT ![o] = "failed"]
    BY <1>4 DEF CommitAppend
  <2>3. \A p \in Op : tx'[p] = "begun" => p # o /\ tx[p] = "begun"
    BY <2>2 DEF SqlTypeOK
  <2>4. \A p \in Op : tx'[p] = "begun" => ServerOf[p] # ServerOf[o]
    BY <2>1, <2>3 DEF LockInv
  <2> QED
    BY <2>1, <2>3, <2>4 DEF Unlocked, LockInv, SqlTypeOK
<1>5. ASSUME NEW s \in Server, SqlRestart(s) PROVE LockInv'
  <2>1. \A p \in Op : tx'[p] = "begun" => tx[p] = "begun" /\ ServerOf[p] # s
    BY <1>5 DEF SqlRestart, SqlTypeOK
  <2> QED
    BY <1>5, <2>1 DEF SqlRestart, LockInv, SqlTypeOK
<1>6. ASSUME UNCHANGED txVars PROVE LockInv'
  BY <1>1, <1>6 DEF txVars
<1>7. \/ UNCHANGED txVars
      \/ \E o \in Op : CreateConversation(o) \/ BeginAppend(o) \/ CommitAppend(o)
      \/ \E s \in Server : SqlRestart(s)
  BY DEF SqlStep, sqlVars, ReadHead, ReadRows, CountRows, UpdateSummary, SoftDelete, Rename, Erase
<1> QED
  BY <1>2, <1>3, <1>4, <1>5, <1>6, <1>7

\* What a step is mapped by.
TablesInv == SqlInv /\ LockInv

LEMMA TablesInvariance == Spec => []TablesInv
<1>1. Init => LockInv
  BY DEF Init, SqlInit, LockInv
<1>2. IInv /\ LockInv /\ [Next]_vars => LockInv'
  BY LockStep, StepOfTables DEF IInv, SqlInv
<1>3. IInv /\ LockInv => TablesInv
  BY DEF IInv, TablesInv
<1> QED
  BY <1>1, <1>2, <1>3, Invariance, PTL DEF Spec

-----------------------------------------------------------------------------
(***************************************************************************)
(* A block of rows, numbered from the end on, stands at the end.           *)
(***************************************************************************)

Block(o) == [i \in 1 .. RowsOf[o] |-> <<o, i>>]

LEMMA BlockAtEnd ==
  ASSUME NEW S \in SUBSET Message, Numbered(S), NEW o \in Op,
         NEW T \in SUBSET Message, Numbered(T),
         Cardinality(T) = Cardinality(S) + RowsOf[o],
         S \subseteq T,
         \A i \in 1 .. RowsOf[o] : [seq |-> Cardinality(S) + i - 1, op |-> o, part |-> i] \in T
  PROVE  InOrder(T) = InOrder(S) \o Block(o)
<1> DEFINE n == Cardinality(S)
           m == RowsOf[o]
           s == InOrder(S)
           t == InOrder(T)
<1>1. n \in Nat /\ m \in Nat /\ Cardinality(T) = n + m
  BY SqlAssumption, RowsInOrder
<1>2. s \in [1 .. n -> Op \X Nat] /\ t \in [1 .. n + m -> Op \X Nat]
  BY <1>1, RowsInOrder
<1>3. Block(o) \in [1 .. m -> Op \X Nat]
  BY <1>1 DEF Block
<1>4. ASSUME NEW i \in 1 .. n PROVE t[i] = s[i]
  <2>1. i - 1 \in 0 .. n - 1
    BY <1>1
  <2>2. PICK r \in S : r.seq = i - 1
    BY <2>1 DEF Numbered
  <2>3. s[r.seq + 1] = <<r.op, r.part>> /\ t[r.seq + 1] = <<r.op, r.part>>
    BY RowsInOrder
  <2>4. r.seq + 1 = i
    BY <2>2
  <2> QED
    BY <2>3, <2>4
<1>5. ASSUME NEW i \in 1 .. m PROVE t[n + i] = <<o, i>>
  <2> DEFINE b == [seq |-> n + i - 1, op |-> o, part |-> i]
  <2>1. b \in T
    OBVIOUS
  <2>2. t[b.seq + 1] = <<b.op, b.part>>
    BY <2>1, RowsInOrder
  <2>3. b.seq + 1 = n + i /\ b.op = o /\ b.part = i
    BY <1>1
  <2> QED
    BY <2>2, <2>3
<1> HIDE DEF s, t, n, m
<1>6. s \in Seq(Op \X Nat) /\ Len(s) = n /\ Block(o) \in Seq(Op \X Nat) /\ Len(Block(o)) = m
  BY <1>1, <1>2, <1>3
<1>7. /\ s \o Block(o) \in Seq(Op \X Nat)
      /\ Len(s \o Block(o)) = n + m
      /\ \A i \in 1 .. n + m : (s \o Block(o))[i] = IF i <= n THEN s[i] ELSE Block(o)[i - n]
  BY <1>6, ConcatProperties
<1>8. t \in Seq(Op \X Nat) /\ Len(t) = n + m
  BY <1>1, <1>2
<1>9. ASSUME NEW i \in 1 .. n + m PROVE t[i] = (s \o Block(o))[i]
  <2>1. CASE i <= n
    <3>1. i \in 1 .. n
      BY <1>1, <2>1
    <3>2. t[i] = s[i]
      BY <1>4, <3>1
    <3> QED
      BY <1>7, <2>1, <3>2
  <2>2. CASE i > n
    <3>1. i - n \in 1 .. m /\ n + (i - n) = i
      BY <1>1, <2>2
    <3>2. t[i] = <<o, i - n>>
      BY <1>5, <3>1
    <3>3. Block(o)[i - n] = <<o, i - n>>
      BY <3>1 DEF Block, m
    <3>4. ~(i <= n)
      BY <1>1, <2>2
    <3> QED
      BY <1>7, <3>2, <3>3, <3>4
  <2>3. n \in Nat /\ i \in Int
    BY <1>1
  <2>4. i <= n \/ i > n
    BY <2>3
  <2> QED
    BY <2>1, <2>2, <2>4
<1>10. t = s \o Block(o)
  BY <1>7, <1>8, <1>9, SeqEqual
<1> QED
  BY <1>10 DEF s, t

-----------------------------------------------------------------------------
(***************************************************************************)
(* Each step of the tables, as a step of the backend they implement.       *)
(***************************************************************************)

\* What the abstract backend sees of the tables.
Kept == [c \in Conv |-> conv[c] = "kept"]
Done == [o \in Op |-> Outcome(o)]

LEMMA MessagesOfRows ==
  ASSUME SqlInv
  PROVE  \A c \in Conv : /\ rows[c] \in SUBSET Message
                        /\ Numbered(rows[c])
                        /\ Messages(c) = InOrder(rows[c])
  BY DEF SqlInv, SqlTypeOK, FilledInv, Filled, Size, Numbered, Message, Messages, InOrder

\* A call ends as its transaction does.
LEMMA CallEnds ==
  ASSUME SqlTypeOK, NEW o \in Op, tx[o] \in {"idle", "begun"},
         NEW state \in {"stored", "failed", "killed"}, tx' = [tx EXCEPT ![o] = state],
         NEW outcome \in {"stored", "failed"},
         outcome = IF state = "stored" THEN "stored" ELSE "failed"
  PROVE  Backend!Ends(o, outcome)
<1>1. Done[o] = "pending"
  BY DEF Done, Outcome
<1>2. \A p \in Op : Outcome(p)' = IF p = o THEN outcome ELSE Outcome(p)
  BY DEF Outcome, SqlTypeOK
<1>3. Done' = [Done EXCEPT ![o] = outcome]
  BY <1>2 DEF Done
<1> QED
  BY <1>1, <1>3 DEF Backend!Ends, Done

\* The backend sees nothing of what leaves the tables and the outcomes alone.
LEMMA Unseen ==
  ASSUME UNCHANGED convVars, \A o \in Op : Outcome(o)' = Outcome(o)
  PROVE  UNCHANGED Backend!vars
<1>1. \A c \in Conv : Messages(c)' = Messages(c)
  BY DEF convVars, Messages
<1> QED
  BY <1>1 DEF Backend!vars, Backend!folds, Backend!marks, convVars

LEMMA FailIsFail ==
  ASSUME SqlTypeOK, NEW o \in Op, tx[o] \in {"idle", "begun"},
         NEW state \in {"failed", "killed"}, tx' = [tx EXCEPT ![o] = state],
         UNCHANGED convVars
  PROVE  Backend!Fail(o)
<1>1. Backend!Ends(o, "failed")
  BY CallEnds
<1>2. \A c \in Conv : Messages(c)' = Messages(c)
  BY DEF convVars, Messages
<1> QED
  BY <1>1, <1>2 DEF Backend!Fail, Backend!folds, Backend!marks, convVars

LEMMA CreateIsCreate ==
  ASSUME SqlInv, SqlInv', NEW o \in Op, CreateConversation(o)
  PROVE  Backend!Create(o) \/ Backend!Fail(o)
<1> DEFINE c == ConvOf[o]
           row == [seq |-> 0, op |-> o, part |-> 1]
<1>1. c \in Conv /\ RowsOf[o] = 1 /\ tx[o] = "idle" /\ o \in Creates
  BY SqlAssumption DEF CreateConversation
<1>2. CASE /\ conv' = [conv EXCEPT ![c] = "kept"]
           /\ rows' = [rows EXCEPT ![c] = {row}]
           /\ tx' = [tx EXCEPT ![o] = "stored"]
  <2>1. Backend!Ends(o, "stored")
    BY <1>1, <1>2, CallEnds DEF SqlInv
  <2>2. Kept' = [Kept EXCEPT ![c] = TRUE]
    BY <1>1, <1>2 DEF Kept, SqlInv, SqlTypeOK
  <2>3. \A d \in Conv : Messages(d)' = IF d = c THEN Block(o) ELSE Messages(d)
    <3>1. rows'[c] = {row} /\ row \in rows'[c] /\ row.seq = 0 /\ row.op = o /\ row.part = 1
      BY <1>1, <1>2 DEF SqlInv, SqlTypeOK
    <3>2. Cardinality(rows'[c]) = 1
      BY <3>1, FS_Singleton
    <3>3. rows'[c] \in SUBSET Message /\ Numbered(rows'[c]) /\ Messages(c)' = InOrder(rows'[c])
      BY <1>1 DEF SqlInv, SqlTypeOK, FilledInv, Filled, Size, Numbered, Message, Messages, InOrder
    <3> HIDE DEF row
    <3>4. InOrder(rows'[c])[1] = <<o, 1>> /\ InOrder(rows'[c]) \in [1 .. 1 -> Op \X Nat]
      <4>1. InOrder(rows'[c])[row.seq + 1] = <<row.op, row.part>>
        BY <3>1, <3>3, RowsInOrder
      <4>2. InOrder(rows'[c]) \in [1 .. 1 -> Op \X Nat]
        BY <3>2, <3>3, RowsInOrder
      <4> QED
        BY <3>1, <4>1, <4>2
    <3>5. InOrder(rows'[c]) = Block(o)
      BY <1>1, <3>4 DEF Block
    <3>6. \A d \in Conv \ {c} : Messages(d)' = Messages(d)
      <4>1. \A d \in Conv \ {c} : rows'[d] = rows[d]
        BY <1>2 DEF SqlInv, SqlTypeOK
      <4> QED
        BY <4>1 DEF Messages
    <3> QED
      BY <3>3, <3>5, <3>6
  <2>4. UNCHANGED <<deleted, renamed, summary, cursor, tokens>>
    BY DEF CreateConversation
  <2>5. [d \in Conv |-> Messages(d)]' = [[d \in Conv |-> Messages(d)] EXCEPT ![c] = Block(o)]
    BY <2>3
  <2> QED
    BY <1>1, <2>1, <2>2, <2>4, <2>5
       DEF Backend!Create, Backend!Batch, Backend!folds, Backend!marks, Kept, Block
<1>3. CASE tx' = [tx EXCEPT ![o] = "failed"] /\ UNCHANGED <<conv, rows>>
  <2>1. UNCHANGED convVars
    BY <1>3 DEF CreateConversation, convVars
  <2> QED
    BY <1>1, <1>3, <2>1, FailIsFail DEF SqlInv
<1> QED
  BY <1>2, <1>3 DEF CreateConversation

\* The rows of a block that the schema accepts, or none, are appended.
LEMMA AppendIsExtend ==
  ASSUME SqlInv, SqlInv', LockInv, NEW o \in Op, CommitAppend(o)
  PROVE  Backend!Extend(o) \/ Backend!Fail(o)
<1> DEFINE c == ConvOf[o]
<1>1. c \in Conv /\ RowsOf[o] \in Nat /\ tx[o] = "begun"
  BY SqlAssumption DEF CommitAppend
<1>2. o \notin Creates
  BY <1>1 DEF LockInv
<1>3. CASE /\ Accepts(o)
           /\ rows' = [rows EXCEPT ![c] = @ \cup Batch(o)]
           /\ tokens' = [tokens EXCEPT ![c] = @ + TokensOf[o]]
           /\ tx' = [tx EXCEPT ![o] = "stored"]
  <2>1. conv[c] = "kept" /\ UNCHANGED <<conv, deleted, renamed, summary, cursor>>
    BY <1>3 DEF Accepts, CommitAppend
  <2>2. Backend!Ends(o, "stored")
    BY <1>1, <1>3, CallEnds DEF SqlInv
  <2>3. Messages(c)' = Messages(c) \o Block(o)
    <3>1. rows'[c] = rows[c] \cup Batch(o)
      BY <1>1, <1>3 DEF SqlInv, SqlTypeOK
    <3>2. /\ rows[c] \in SUBSET Message /\ Numbered(rows[c]) /\ Messages(c) = InOrder(rows[c])
          /\ rows'[c] \in SUBSET Message /\ Numbered(rows'[c]) /\ Messages(c)' = InOrder(rows'[c])
      BY <1>1 DEF SqlInv, SqlTypeOK, FilledInv, Filled, Size, Numbered, Message, Messages, InOrder
    <3>3. Filled(c) /\ next[o] <= Size(c)
      BY <1>1, <2>1 DEF SqlInv, FilledInv, BegunInv
    <3>4. Cardinality(rows'[c]) = Cardinality(rows[c]) + RowsOf[o]
      BY <1>3, <3>1, <3>3, AppendFills DEF SqlInv, Size
    <3>5. \A i \in 1 .. RowsOf[o] :
            [seq |-> Cardinality(rows[c]) + i - 1, op |-> o, part |-> i] \in rows'[c]
      <4> SUFFICES ASSUME NEW i \in 1 .. RowsOf[o]
                   PROVE  [seq |-> Cardinality(rows[c]) + i - 1, op |-> o, part |-> i] \in rows'[c]
        OBVIOUS
      <4>1. next[o] \in Nat /\ Cardinality(rows[c]) \in Nat /\ next[o] <= Cardinality(rows[c])
        BY <3>2, <3>3, RowsInOrder DEF SqlInv, SqlTypeOK, Size
      <4>2. 1 \in 1 .. RowsOf[o] /\ next[o] + 1 - 1 = next[o]
        BY <1>1, <4>1
      <4>3. [seq |-> next[o], op |-> o, part |-> 1] \in Batch(o)
        BY <4>2 DEF Batch
      <4>4. \A r \in rows[c] : r.seq # next[o]
        BY <1>3, <4>3 DEF Accepts
      <4>5. next[o] = Cardinality(rows[c])
        <5>1. next[o] < Cardinality(rows[c]) => next[o] \in 0 .. Cardinality(rows[c]) - 1
          BY <4>1
        <5> QED
          BY <3>2, <4>1, <4>4, <5>1 DEF Numbered
      <4> QED
        BY <3>1, <4>5 DEF Batch
    <3>6. rows[c] \subseteq rows'[c]
      BY <3>1
    <3>7. InOrder(rows'[c]) = InOrder(rows[c]) \o Block(o)
      BY <3>2, <3>4, <3>5, <3>6, BlockAtEnd
    <3> QED
      BY <3>2, <3>7
  <2>4. \A d \in Conv \ {c} : Messages(d)' = Messages(d)
    BY <1>3 DEF Messages, SqlInv, SqlTypeOK
  <2>5. [d \in Conv |-> Messages(d)]'
          = [[d \in Conv |-> Messages(d)] EXCEPT ![c] = @ \o Block(o)]
    BY <1>1, <2>3, <2>4
  <2> QED
    BY <1>1, <1>2, <1>3, <2>1, <2>2, <2>5
       DEF Backend!Extend, Backend!Batch, Backend!folds, Backend!marks, Block
<1>4. CASE tx' = [tx EXCEPT ![o] = "failed"] /\ UNCHANGED <<rows, tokens>>
  <2>1. UNCHANGED convVars
    BY <1>4 DEF CommitAppend, convVars
  <2> QED
    BY <1>1, <1>4, <2>1, FailIsFail DEF SqlInv
<1> QED
  BY <1>3, <1>4 DEF CommitAppend

\* The checkpoint and its cursor change together, within the messages.
LEMMA UpdateIsSave ==
  ASSUME SqlInv, NEW k \in Saver, UpdateSummary(k)
  PROVE  \/ \E c \in Conv : \E through \in 0 .. Len(Messages(c)) : Backend!SaveSummary(c, through)
         \/ UNCHANGED Backend!vars
<1> DEFINE c == count[k].conv
           through == count[k].through
<1>1. /\ count[k] # None /\ c \in Conv /\ through \in Nat
      /\ UNCHANGED <<conv, deleted, renamed, tokens, rows, tx>>
  BY DEF UpdateSummary, SqlInv, SqlTypeOK, txVars
<1>2. \A d \in Conv : Messages(d)' = Messages(d)
  BY <1>1 DEF Messages
<1>3. \A o \in Op : Outcome(o)' = Outcome(o)
  BY <1>1 DEF Outcome
<1>4. CASE conv[c] = "kept"
  <2>1. count[k].folded = through /\ through <= Size(c)
    BY <1>1, <1>4 DEF SqlInv, CountInv
  <2>2. Len(Messages(c)) = Size(c) /\ Size(c) \in Nat
    BY <1>1, MessagesInOrder DEF SqlInv, FilledInv
  <2>3. through \in 0 .. Len(Messages(c))
    BY <1>1, <2>1, <2>2
  <2>4. /\ summary' = [summary EXCEPT ![c] = through]
        /\ cursor' = [cursor EXCEPT ![c] = through]
    BY <1>4, <2>1 DEF UpdateSummary
  <2>5. (IF through < Len(Messages(c)) THEN through ELSE Len(Messages(c))) = through
    BY <1>1, <2>1, <2>2
  <2>6. Backend!SaveSummary(c, through)
    BY <1>1, <1>2, <1>3, <1>4, <2>4, <2>5 DEF Backend!SaveSummary, Backend!marks
  <2> QED
    BY <1>1, <2>3, <2>6
<1>5. CASE conv[c] # "kept"
  <2>1. UNCHANGED convVars
    BY <1>1, <1>5 DEF UpdateSummary, convVars
  <2> QED
    BY <1>3, <2>1, Unseen
<1> QED
  BY <1>4, <1>5

\* The sidebar's operations, and the deletion of a conversation.
LEMMA MarksAreMarks ==
  ASSUME SqlInv, NEW c \in Conv, SoftDelete(c) \/ Rename(c) \/ Erase(c)
  PROVE  Backend!SoftDelete(c) \/ Backend!Rename(c) \/ Backend!Erase(c)
<1>1. conv[c] = "kept" /\ UNCHANGED tx
  BY DEF SoftDelete, Rename, Erase, txVars
<1>2. \A o \in Op : Outcome(o)' = Outcome(o)
  BY <1>1 DEF Outcome
<1>3. CASE SoftDelete(c) \/ Rename(c)
  <2>1. UNCHANGED <<conv, rows, summary, cursor, tokens>>
    BY <1>3 DEF SoftDelete, Rename
  <2>2. \A d \in Conv : Messages(d)' = Messages(d)
    BY <2>1 DEF Messages
  <2>3. CASE SoftDelete(c)
    BY <1>1, <1>2, <2>1, <2>2, <2>3 DEF SoftDelete, Backend!SoftDelete, Backend!folds
  <2>4. CASE Rename(c)
    BY <1>1, <1>2, <2>1, <2>2, <2>4 DEF Rename, Backend!Rename, Backend!folds
  <2> QED
    BY <1>3, <2>3, <2>4
<1>4. CASE Erase(c)
  <2>1. Kept' = [Kept EXCEPT ![c] = FALSE]
    BY <1>1, <1>4 DEF Erase, Kept, SqlInv, SqlTypeOK
  <2>2. rows'[c] = {} /\ \A d \in Conv \ {c} : rows'[d] = rows[d]
    BY <1>4 DEF Erase, SqlInv, SqlTypeOK
  <2>3. \A d \in Conv : Messages(d)' = IF d = c THEN <<>> ELSE Messages(d)
    <3>1. Cardinality(rows'[c]) = 0
      BY <2>2, FS_EmptySet
    <3>2. Messages(c)' = <<>>
      BY <3>1 DEF Messages
    <3> QED
      BY <2>2, <3>2 DEF Messages
  <2>4. [d \in Conv |-> Messages(d)]' = [[d \in Conv |-> Messages(d)] EXCEPT ![c] = <<>>]
    BY <2>3
  <2> QED
    BY <1>1, <1>2, <1>4, <2>1, <2>4 DEF Erase, Backend!Erase, Kept
<1> QED
  BY <1>3, <1>4

\* A process that dies rolls back the transaction that holds its lock.
LEMMA RestartIsFail ==
  ASSUME SqlInv, LockInv, NEW s \in Server, SqlRestart(s)
  PROVE  (\E o \in Op : Backend!Fail(o)) \/ UNCHANGED Backend!vars
<1>1. UNCHANGED convVars
  BY DEF SqlRestart
<1>2. CASE \E o \in Op : ServerOf[o] = s /\ tx[o] = "begun"
  <2>1. PICK o \in Op : ServerOf[o] = s /\ tx[o] = "begun"
    BY <1>2
  <2>2. \A p \in Op : ServerOf[p] = s /\ tx[p] = "begun" => p = o
    BY <2>1 DEF LockInv
  <2>3. tx' = [tx EXCEPT ![o] = "killed"]
    BY <2>1, <2>2 DEF SqlRestart, SqlInv, SqlTypeOK
  <2> QED
    BY <1>1, <2>1, <2>3, FailIsFail DEF SqlInv
<1>3. CASE ~ \E o \in Op : ServerOf[o] = s /\ tx[o] = "begun"
  <2>1. tx' = tx
    BY <1>3 DEF SqlRestart, SqlInv, SqlTypeOK
  <2> QED
    BY <1>1, <2>1, Unseen DEF Outcome
<1> QED
  BY <1>2, <1>3

\* The step simulation.
LEMMA StepIsStep == TablesInv /\ TablesInv' /\ SqlStep => [Backend!Next]_(Backend!vars)
<1> SUFFICES ASSUME TablesInv, TablesInv', SqlStep PROVE [Backend!Next]_(Backend!vars)
  OBVIOUS
<1> USE DEF TablesInv
<1>1. ASSUME NEW o \in Op, CreateConversation(o) PROVE Backend!Next
  BY <1>1, CreateIsCreate DEF Backend!Next
<1>2. ASSUME NEW o \in Op, BeginAppend(o) PROVE [Backend!Next]_(Backend!vars)
  <2>1. UNCHANGED convVars /\ tx[o] = "idle"
    BY <1>2 DEF BeginAppend
  <2>2. CASE tx' = [tx EXCEPT ![o] = "begun"]
    BY <2>1, <2>2, Unseen DEF Outcome, SqlInv, SqlTypeOK
  <2>3. CASE tx' = [tx EXCEPT ![o] = "failed"]
    BY <2>1, <2>3, FailIsFail DEF Backend!Next, SqlInv
  <2> QED
    BY <1>2, <2>2, <2>3 DEF BeginAppend
<1>3. ASSUME NEW o \in Op, CommitAppend(o) PROVE Backend!Next
  BY <1>3, AppendIsExtend DEF Backend!Next
<1>4. ASSUME NEW r \in Reader, ReadHead(r) \/ ReadRows(r) PROVE UNCHANGED Backend!vars
  BY <1>4, Unseen DEF ReadHead, ReadRows, txVars, Outcome
<1>5. ASSUME NEW k \in Saver, CountRows(k) PROVE UNCHANGED Backend!vars
  BY <1>5, Unseen DEF CountRows, txVars, Outcome
<1>6. ASSUME NEW k \in Saver, UpdateSummary(k) PROVE [Backend!Next]_(Backend!vars)
  <2>1. CASE \E c \in Conv : \E through \in 0 .. Len(Messages(c)) : Backend!SaveSummary(c, through)
    BY <2>1 DEF Backend!Next
  <2> QED
    BY <1>6, <2>1, UpdateIsSave
<1>7. ASSUME NEW c \in Conv, SoftDelete(c) \/ Rename(c) \/ Erase(c) PROVE Backend!Next
  BY <1>7, MarksAreMarks DEF Backend!Next
<1>8. ASSUME NEW s \in Server, SqlRestart(s) PROVE [Backend!Next]_(Backend!vars)
  BY <1>8, RestartIsFail DEF Backend!Next
<1>9. CASE UNCHANGED sqlVars
  BY <1>9, Unseen DEF sqlVars, txVars, Outcome
<1> QED
  BY <1>1, <1>2, <1>3, <1>4, <1>5, <1>6, <1>7, <1>8, <1>9 DEF SqlStep

\* The SQL backend behaves like the in-memory one ("the same protocol",
\* sqlbackend.py:3-16): a block is stored whole, once and in order, with its
\* tokens, and a summary and its cursor change together, in every process.
THEOREM Refinement == Spec => ImplementsBackend
<1>1. Init => Backend!Init
  <2> SUFFICES ASSUME Init PROVE Backend!Init
    OBVIOUS
  <2>1. \A c \in Conv : Messages(c) = <<>>
    BY FS_EmptySet DEF Init, SqlInit, Messages
  <2> QED
    BY <2>1 DEF Init, SqlInit, Backend!Init, Outcome
<1>2. TablesInv /\ TablesInv' /\ [Next]_vars => [Backend!Next]_(Backend!vars)
  BY StepIsStep, StepOfTables
<1> QED
  BY <1>1, <1>2, TablesInvariance, PTL DEF Spec, ImplementsBackend, Backend!Spec

=============================================================================
