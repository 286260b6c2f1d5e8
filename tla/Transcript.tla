----------------------------- MODULE Transcript -----------------------------
(***************************************************************************)
(* What the compaction of a conversation promises its reader (the model),  *)
(* said without cursors that are read and written back, flags or retries.  *)
(* What was said is never changed, only added to.  The reader has a gist   *)
(* of the rows up to some place, and the rows behind it word for word.     *)
(* The place moves forward only, to where no result is parted from its     *)
(* call.  Whatever has entered the gist stays in it, and each time the     *)
(* newest of the rows that go behind the place enter it: the oldest of     *)
(* them may be too much to take in, and with them go the results of their  *)
(* calls, which say nothing without them.                                  *)
(*                                                                         *)
(* Compaction implements this specification.                               *)
(***************************************************************************)
EXTENDS Naturals, Sequences

CONSTANT Row    \* records of the calls a row announces and the one it answers

VARIABLES
  said,       \* the rows of the conversation
  place,      \* how many of them the reader has only the gist of
  gist        \* the rows that the gist is of

vars == <<said, place, gist>>

Init ==
  /\ said = <<>>
  /\ place = 0
  /\ gist = {}

\* No row behind the place n answers a call before it.
Unparted(n) ==
  \A a \in 1 .. n : \A k \in n + 1 .. Len(said) : said[k].answers \notin said[a].calls

\* Rows are added, none of which answers what the reader has only the gist of.
Say ==
  /\ said' \in Seq(Row)
  /\ Len(said') > Len(said)
  /\ \A k \in 1 .. Len(said) : said'[k] = said[k]
  /\ Unparted(place)'
  /\ UNCHANGED <<place, gist>>

\* A row that may be missed when the rows from the first one on are taken
\* in: it announces calls, or its call is among those passed over.
Missable(k, first) ==
  said[k].calls # {} \/ \E a \in place + 1 .. first - 1 : said[k].answers \in said[a].calls

\* The rows from the first one on, up to n, enter the gist.
Fold(n, first) ==
  /\ place < first
  /\ first <= n
  /\ Unparted(n)
  /\ place' = n
  /\ gist \subseteq gist' /\ gist' \subseteq gist \cup (first .. n)
  /\ \A k \in first .. n : k \in gist' \/ Missable(k, first)
  /\ UNCHANGED said

Next ==
  \/ Say
  \/ \E n \in 1 .. Len(said) : \E first \in 1 .. n : Fold(n, first)

Spec == Init /\ [][Next]_vars

=============================================================================
