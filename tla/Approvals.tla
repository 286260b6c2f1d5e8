------------------------------ MODULE Approvals ------------------------------
(***************************************************************************)
(* What the propose/confirm contract promises, said without tokens in a    *)
(* store, markers, expiry or a clock.  A request either makes an offer, or *)
(* is approved for one that was made and runs what that offer said, for    *)
(* whom and with which parameters it said.  Each time an offer is made it  *)
(* can be approved once, and each approval runs at most once.  A request   *)
(* may give up at any time before it has run; an approval it held is gone. *)
(*                                                                         *)
(* WriteActions implements this specification.                             *)
(***************************************************************************)
EXTENDS Naturals

CONSTANTS
  Request,    \* the calls of the program
  Offer,      \* what can be offered: records with a subject and parameters
  None        \* no offer, nothing

VARIABLES
  open,       \* open[k]: how often offer k can still be approved
  phase,      \* how far a request is
  held,       \* the offer that a request was approved for and has not run
  ran         \* what a request ran, or None

vars == <<open, phase, held, ran>>

Said(k) == [subject |-> k.subject, params |-> k.params]

Init ==
  /\ open = [k \in Offer |-> 0]
  /\ phase = [r \in Request |-> "new"]
  /\ held = [r \in Request |-> None]
  /\ ran = [r \in Request |-> None]

MakeOffer(r, k) ==
  /\ phase[r] = "new"
  /\ phase' = [phase EXCEPT ![r] = "offered"]
  /\ open' = [open EXCEPT ![k] = @ + 1]
  /\ UNCHANGED <<held, ran>>

Approve(r, k) ==
  /\ phase[r] = "new"
  /\ open[k] > 0
  /\ phase' = [phase EXCEPT ![r] = "approved"]
  /\ open' = [open EXCEPT ![k] = @ - 1]
  /\ held' = [held EXCEPT ![r] = k]
  /\ UNCHANGED ran

Run(r) ==
  /\ phase[r] = "approved"
  /\ phase' = [phase EXCEPT ![r] = "ran"]
  /\ held' = [held EXCEPT ![r] = None]
  /\ ran' = [ran EXCEPT ![r] = Said(held[r])]
  /\ UNCHANGED open

\* Any number of requests give up at once: one is refused or fails, or the
\* process stops.
GiveUp(R) ==
  /\ \A r \in R : phase[r] \in {"new", "approved"}
  /\ phase' = [r \in Request |-> IF r \in R THEN "over" ELSE phase[r]]
  /\ held' = [r \in Request |-> IF r \in R THEN None ELSE held[r]]
  /\ UNCHANGED <<open, ran>>

Next ==
  \/ \E r \in Request, k \in Offer : MakeOffer(r, k) \/ Approve(r, k)
  \/ \E r \in Request : Run(r)
  \/ \E R \in SUBSET Request : GiveUp(R)

Spec == Init /\ [][Next]_vars

=============================================================================
