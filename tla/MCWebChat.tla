------------------------------- MODULE MCWebChat -------------------------------
(***************************************************************************)
(* Instances of WebChat and SqlBackend for TLC: a request that starts a    *)
(* conversation and one that continues it, in two server processes.        *)
(***************************************************************************)
EXTENDS WebChat, TLC

CONSTANTS c1, p1, p2, t1, t2

MCOp == {"ask1", "reply1", "ask2", "reply2"}
MCConvOf == [o \in MCOp |-> c1]
MCRowsOf == [o \in MCOp |-> IF o = "reply1" THEN 2 ELSE 1]
MCTokensOf == [o \in MCOp |-> IF o \in {"reply1", "reply2"} THEN 1 ELSE 0]
MCServerOf == [o \in MCOp |-> IF o \in {"ask1", "reply1"} THEN p1 ELSE p2]
MCUserOp == (t1 :> "ask1") @@ (t2 :> "ask2")
MCReplyOp == (t1 :> "reply1") @@ (t2 :> "reply2")

=============================================================================
