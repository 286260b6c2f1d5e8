-------------------------------- MODULE WebChat --------------------------------
(***************************************************************************)
(* A chat request on its way through the front-end's server to the tables: *)
(* route.ts and auth.ts exchange the session's cookie for a token, cached  *)
(* in Redis, and send the request to agentserv, which verifies the token   *)
(* (server.py, verify_jwt), asks whose conversation it is, and stores the  *)
(* message (SqlBackend).                                                   *)
(*                                                                         *)
(* One session; its token is the time at which it expires.  The clock of   *)
(* agentserv may be ahead of the others, the case that the one retry of    *)
(* route.ts is for.  A client that leaves its stream is ChatRuns' matter.  *)
(***************************************************************************)
EXTENDS SqlBackend

CONSTANTS
  Turn,        \* chat requests
  UserOp,      \* UserOp[t]: the call that stores the message of the user
  ReplyOp,     \* ReplyOp[t]: the call of _persist_turn
  Life,        \* how long a token is valid
  Window,      \* REFRESH_WINDOW_SECONDS
  Ahead,       \* by how much agentserv's clock is ahead
  MaxTime      \* bound: the last tick of the clock

ASSUME WebAssumption ==
  /\ UserOp \in [Turn -> Op]
  /\ ReplyOp \in [Turn -> Op \ Creates]
  /\ \A t, u \in Turn :
       /\ UserOp[t] # ReplyOp[u]
       /\ t # u => UserOp[t] # UserOp[u] /\ ReplyOp[t] # ReplyOp[u]
  /\ \A t \in Turn : ServerOf[UserOp[t]] = ServerOf[ReplyOp[t]]
  /\ Life \in Nat /\ Window \in Nat /\ Ahead \in Nat /\ MaxTime \in Nat

VARIABLES
  now,       \* the time
  cached,    \* the token in Redis, or None
  call,      \* call[t]: where the request is
  attempt,   \* attempt[t]: the attempt of the loop in route.ts, 0 or 1
  jwt,       \* jwt[t]: the token of the attempt, or None
  status     \* status[t]: the status of agentserv, then of the answer, or None

webVars == <<now, cached, call, attempt, jwt, status>>
vars == <<sqlVars, webVars>>

Init ==
  /\ SqlInit
  /\ now = 0
  /\ cached = None
  /\ call = [t \in Turn |-> "idle"]
  /\ attempt = [t \in Turn |-> 0]
  /\ jwt = [t \in Turn |-> None]
  /\ status = [t \in Turn |-> None]

-----------------------------------------------------------------------------
Moves(t, from, to) == /\ call[t] = from
                      /\ call' = [call EXCEPT ![t] = to]

Answers(t, code) == status' = [status EXCEPT ![t] = code]

\* The panel posts: to a new conversation, or to one that it was told of.
Submit(t) ==
  /\ UserOp[t] \in Creates \/ conv[ConvOf[UserOp[t]]] # "absent"
  /\ Moves(t, "idle", "looking")
  /\ UNCHANGED <<sqlVars, now, cached, attempt, jwt, status>>

\* The cached token is used while more of it is left than the window...
Usable == cached # None /\ cached > now + Window

Hit(t) ==
  /\ Usable
  /\ Moves(t, "looking", "sending")
  /\ jwt' = [jwt EXCEPT ![t] = cached]
  /\ UNCHANGED <<sqlVars, now, cached, attempt, status>>

\* ... and Redis may fail, or have dropped it.
Miss(t) ==
  /\ Moves(t, "looking", "exchanging")
  /\ UNCHANGED <<sqlVars, now, cached, attempt, jwt, status>>

\* The business backend mints a token, finds no session (401), or fails.
Exchange(t) ==
  /\ \/ /\ Moves(t, "exchanging", "caching")
        /\ jwt' = [jwt EXCEPT ![t] = now + Life]
        /\ UNCHANGED status
     \/ /\ Moves(t, "exchanging", "answered")
        /\ \E code \in {401, 502} : Answers(t, code)
        /\ UNCHANGED jwt
  /\ UNCHANGED <<sqlVars, now, cached, attempt>>

\* redis.set, best effort; another request may have stored one since.
Cache(t) ==
  /\ Moves(t, "caching", "sending")
  /\ cached' \in {cached, jwt[t]}
  /\ UNCHANGED <<sqlVars, now, attempt, jwt, status>>

-----------------------------------------------------------------------------
\* agentserv: the token, then the conversation.
Expired(t) == jwt[t] <= now + Ahead

\* owned_meta, for a request that continues a conversation.
Found(t) == LET c == ConvOf[UserOp[t]] IN
            UserOp[t] \in Creates \/ (conv[c] = "kept" /\ ~deleted[c])

\* verify_jwt, a dependency of the route, and then the call of owned_meta.
Admit(t) ==
  /\ \/ /\ Moves(t, "sending", "returned")
        /\ Expired(t)
        /\ Answers(t, 401)
     \/ /\ Moves(t, "sending", "returned")
        /\ ~Expired(t)
        /\ ~Found(t)
        /\ Answers(t, 404)
     \/ /\ Moves(t, "sending", "admitted")
        /\ ~Expired(t)
        /\ Found(t)
        /\ UNCHANGED status
  /\ jwt' = [jwt EXCEPT ![t] = None]
  /\ UNCHANGED <<sqlVars, now, cached, attempt>>

\* The message of the user is stored; what follows may still raise.
StoreMessage(t) ==
  LET o == UserOp[t] IN
  /\ call[t] = "admitted"
  /\ CreateConversation(o) \/ BeginAppend(o) \/ CommitAppend(o)
  /\ UNCHANGED webVars

Start(t) ==
  /\ \/ /\ tx[UserOp[t]] = "stored"
        /\ Moves(t, "admitted", "streaming")
        /\ Answers(t, 200)
     \/ /\ tx[UserOp[t]] \in {"stored", "failed"}
        /\ Moves(t, "admitted", "returned")
        /\ Answers(t, 500)
  /\ UNCHANGED <<sqlVars, now, cached, attempt, jwt>>

\* _persist_turn at the end of the run, and the end of the stream.
StoreReply(t) ==
  LET o == ReplyOp[t] IN
  /\ call[t] = "streaming"
  /\ BeginAppend(o) \/ CommitAppend(o)
  /\ UNCHANGED webVars

Finish(t) ==
  /\ tx[ReplyOp[t]] \in {"stored", "failed"}
  /\ Moves(t, "streaming", "answered")
  /\ UNCHANGED <<sqlVars, now, cached, attempt, jwt, status>>

-----------------------------------------------------------------------------
\* Mutant: after any error.
RetriesAny(t) == status[t] # 200 /\ attempt[t] = 0

\* The one retry of route.ts, after "token expired".
Retries(t) == status[t] = 401 /\ attempt[t] = 0

Return(t) ==
  /\ IF Retries(t) THEN Moves(t, "returned", "dropping")
                   ELSE Moves(t, "returned", "answered")
  /\ UNCHANGED <<sqlVars, now, cached, attempt, jwt, status>>

\* invalidateJwtCache, best effort, and the second attempt.
Drop(t) ==
  /\ Moves(t, "dropping", "looking")
  /\ cached' \in {cached, None}
  /\ attempt' = [attempt EXCEPT ![t] = @ + 1]
  /\ UNCHANGED <<sqlVars, now, jwt, status>>

-----------------------------------------------------------------------------
Tick ==
  /\ now < MaxTime
  /\ now' = now + 1
  /\ UNCHANGED <<sqlVars, cached, call, attempt, jwt, status>>

\* A server process stops: the connections of its requests break, which the
\* front-end answers with a 500 unless the stream has begun.
Restart(s) ==
  LET Lost == {t \in Turn : ServerOf[UserOp[t]] = s /\ call[t] \in {"admitted", "streaming"}} IN
  /\ SqlRestart(s)
  /\ call' = [t \in Turn |-> IF t \in Lost THEN "answered" ELSE call[t]]
  /\ status' = [t \in Turn |-> IF t \in Lost /\ call[t] = "admitted" THEN 500 ELSE status[t]]
  /\ UNCHANGED <<now, cached, attempt, jwt>>

\* The sidebar's requests.
Sidebar(c) == SoftDelete(c) \/ Rename(c)

\* Other requests on the conversation: reading it, folding it, the sidebar.
Others ==
  /\ \/ \E r \in Reader : ReadHead(r) \/ ReadRows(r)
     \/ \E k \in Saver : CountRows(k) \/ UpdateSummary(k)
     \/ \E c \in Conv : Sidebar(c) \/ Erase(c)
  /\ UNCHANGED webVars

Next ==
  \/ \E t \in Turn : \/ Submit(t) \/ Hit(t) \/ Miss(t) \/ Exchange(t) \/ Cache(t)
                     \/ Admit(t) \/ StoreMessage(t) \/ Start(t) \/ StoreReply(t) \/ Finish(t)
                     \/ Return(t) \/ Drop(t)
  \/ Tick \/ Others
  \/ \E s \in Server : Restart(s)

Spec == Init /\ [][Next]_vars

-----------------------------------------------------------------------------
(***************************************************************************)
(* Properties.                                                             *)
(***************************************************************************)

\* The types, the ones of the tables included.
TypeOK ==
  /\ SqlTypeOK
  /\ now \in 0..MaxTime
  /\ cached \in Nat \cup {None}
  /\ call \in [Turn -> {"idle", "looking", "exchanging", "caching", "sending", "admitted",
                        "streaming", "returned", "dropping", "answered"}]
  /\ attempt \in [Turn -> {0, 1}]
  /\ jwt \in [Turn -> Nat \cup {None}]
  /\ status \in [Turn -> {None, 200, 401, 404, 500, 502}]

\* "One built-in retry" (route.ts:57): the request is sent again only while
\* nothing of it was stored, so that no message is stored twice; and an answer
\* that the panel shows as refused is one.
RefusedStoresNothing ==
  \A t \in Turn :
    \/ call[t] = "answered" /\ status[t] \in {401, 404, 502}
    \/ attempt[t] = 1 /\ call[t] \in {"looking", "exchanging", "caching", "sending"}
    => tx[UserOp[t]] = "idle" /\ tx[ReplyOp[t]] = "idle"

=============================================================================
