------------------------------ MODULE MCChatRuns ------------------------------
(***************************************************************************)
(* Instances of ChatRuns for TLC: two turns of one conversation, so that   *)
(* the second may overlap the first, and pages that come back to it.       *)
(***************************************************************************)
EXTENDS ChatRuns

CONSTANTS c1, t1, t2, p1

MCConvOf == [t \in {t1, t2} |-> c1]
MCConvOf1 == [t \in {t1} |-> c1]
MCPageOf == [p \in {p1} |-> c1]

=============================================================================
