------------------------------- MODULE MCReplay -------------------------------
(***************************************************************************)
(* Instances of Replay and Attachments for TLC: the images A and B, the    *)
(* documents D and E of three characters and of one, and a file X that is  *)
(* refused.  Bob has sent A before; Ann has sent B and D and has a         *)
(* conversation with them.  She now uploads A twice, or E, and sends what  *)
(* she has in that conversation or in a new one.                           *)
(***************************************************************************)
EXTENDS Replay, TLC

CONSTANTS ann, bob, A, B, D, E, X, u1, u2, u3, u4, u5, c1, c2

MCKindOf == (A :> "image") @@ (B :> "image") @@ (D :> "document")
            @@ (E :> "document") @@ (X :> "other")
MCLengthOf == (A :> 0) @@ (B :> 0) @@ (D :> 3) @@ (E :> 1) @@ (X :> 0)
MCOffers == (u1 :> {<<ann, A>>, <<ann, E>>, <<ann, X>>}) @@ (u2 :> {<<ann, D>>})
            @@ (u3 :> {<<ann, A>>}) @@ (u4 :> {<<bob, A>>}) @@ (u5 :> {<<ann, B>>})
MCOwnerOf == (c1 :> ann) @@ (c2 :> ann)
MCSaid == (c1 :> <<<<u5>>, <<u2, u5>>>>) @@ (c2 :> <<>>)

=============================================================================
