---------------------------- MODULE WriteActions ----------------------------
(***************************************************************************)
(* Write actions behind propose/confirm (backend-py: action.py,            *)
(* proposal.py, executor.py).                                              *)
(*                                                                         *)
(* A request either proposes (dry_run): the action is validated and a      *)
(* token is put in the proposal store; or it confirms: the token is looked *)
(* up and compared, marked used, forgotten, and the mutation runs between  *)
(* capture_before and an audit record.  A token is an HMAC over subject,   *)
(* action, parameters and the second it was issued in, so two proposals    *)
(* for the same parameters in one second have the same token.              *)
(*                                                                         *)
(* Store "memory" is InMemoryProposalStore: its calls never suspend and it *)
(* dies with the process.  Store "shared" is what proposal.py asks of a    *)
(* production store: every call suspends and the store survives.           *)
(***************************************************************************)
EXTENDS Naturals, FiniteSets

CONSTANTS
  Subject,     \* callers (ctx.user_id)
  Param,       \* fingerprints of parameters
  Request,     \* calls of RegistryExecutor.invoke, or of the HTTP mount
  None,        \* no token, no entry
  TTL,         \* lifetime of an entry and of a used marker, in clock ticks
  Second,      \* clock ticks per second: iat counts seconds
  MaxClock,    \* bound: the last tick
  MaxCrashes   \* bound: how often the process dies

ASSUME WriteActionsAssumption ==
  /\ TTL \in Nat
  /\ Second \in Nat \ {0}
  /\ MaxClock \in Nat
  /\ MaxCrashes \in Nat
  /\ None \notin Nat

Token == [subject : Subject, params : Param, iat : {t \div Second : t \in 0 .. MaxClock}]

VARIABLES
  store,      \* which proposal store the process was started with
  now,        \* the clock
  stored,     \* the store's entries: when the proposal of a token expires
  marked,     \* the "used:" markers: when the marker of a token expires
  pc,         \* how far a request is
  ask,        \* its caller, parameters and token
  mutated,    \* the requests whose handle() took effect
  audit,      \* the audit records of a request
  \* History variables, read by properties only:
  issued,     \* how often a token was put in the store
  spent,      \* how often it was marked used
  lapsed,     \* the requests whose failure record was cut short by a raise
  crashes     \* how often the process died

tables == <<stored, marked>>
effects == <<mutated, audit, lapsed>>
counts == <<issued, spent>>
vars == <<store, now, tables, pc, ask, effects, counts, crashes>>

Idle == [subject |-> None, params |-> None, token |-> None]

Init ==
  /\ store \in {"memory", "shared"}
  /\ now = 0
  /\ stored = [k \in Token |-> None]
  /\ marked = [k \in Token |-> None]
  /\ pc = [r \in Request |-> "none"]
  /\ ask = [r \in Request |-> Idle]
  /\ mutated = {}
  /\ audit = [r \in Request |-> {}]
  /\ issued = [k \in Token |-> 0]
  /\ spent = [k \in Token |-> 0]
  /\ lapsed = {}
  /\ crashes = 0

\* An entry that is there and has not expired: `exp < now` is expired.
Fresh(table, k) == table[k] # None /\ table[k] >= now

Expiry == now + TTL

\* A request inside issue or consume.  No other coroutine runs while the
\* in-memory store is at work.
MidCall == {"minted", "matched", "spent"}
MayRun(r) == store = "memory" => \A q \in Request \ {r} : pc[q] \notin MidCall

Step(r, from, to) ==
  /\ pc[r] = from
  /\ MayRun(r)
  /\ pc' = [pc EXCEPT ![r] = to]

-----------------------------------------------------------------------------
\* A call that ends before it touches the store: rules or validate_target
\* refuse it, or it is no dry run and has no token (PROPOSAL_REQUIRED).
Refuse(r) ==
  /\ Step(r, "none", "refused")
  /\ UNCHANGED <<store, now, tables, ask, effects, counts, crashes>>

(***************************************************************************)
(* Propose.                                                                *)
(***************************************************************************)

\* A dry run that rules and validate_target let through.
Propose(r, s, p) ==
  /\ Step(r, "none", "drafting")
  /\ ask' = [ask EXCEPT ![r] = [subject |-> s, params |-> p, token |-> None]]
  /\ UNCHANGED <<store, now, tables, effects, counts, crashes>>

\* issue computes the token ...
Mint(r) ==
  /\ Step(r, "drafting", "minted")
  /\ ask' = [ask EXCEPT ![r].token =
       [subject |-> ask[r].subject, params |-> ask[r].params, iat |-> now \div Second]]
  /\ UNCHANGED <<store, now, tables, effects, counts, crashes>>

\* ... and puts it in the store, over an entry of the same token.
Put(r) ==
  LET k == ask[r].token IN
  /\ Step(r, "minted", "proposed")
  /\ stored' = [stored EXCEPT ![k] = Expiry]
  /\ issued' = [issued EXCEPT ![k] = @ + 1]
  /\ UNCHANGED <<store, now, marked, ask, effects, spent, crashes>>

-----------------------------------------------------------------------------
(***************************************************************************)
(* Confirm.                                                                *)
(***************************************************************************)

\* A validated call without dry_run, with whatever token the model or the
\* client supplies, issued or not.
Confirm(r, s, p, k) ==
  /\ Step(r, "none", "checking")
  /\ k.iat <= now \div Second
  /\ ask' = [ask EXCEPT ![r] = [subject |-> s, params |-> p, token |-> k]]
  /\ UNCHANGED <<store, now, tables, effects, counts, crashes>>

\* The entry of a token names its subject, action and fingerprint.
MatchesSubject(r) == ask[r].token.subject = ask[r].subject
Matches(r) ==
  /\ ask[r].token.subject = ask[r].subject
  /\ ask[r].token.params = ask[r].params

\* consume: get, which drops an expired entry, and the comparison.
Lookup(r) ==
  LET k == ask[r].token
      found == Fresh(stored, k) IN
  /\ Step(r, "checking", IF found /\ Matches(r) THEN "matched" ELSE "refused")
  /\ stored' = [stored EXCEPT ![k] = IF found THEN @ ELSE None]
  /\ UNCHANGED <<store, now, marked, ask, effects, counts, crashes>>

MarkAlways(r) ==
  LET k == ask[r].token IN
  /\ Step(r, "matched", "spent")
  /\ marked' = [marked EXCEPT ![k] = Expiry]
  /\ spent' = [spent EXCEPT ![k] = @ + 1]
  /\ UNCHANGED <<store, now, stored, ask, effects, issued, crashes>>

\* ... add: set-if-absent of the marker.
Mark(r) ==
  LET k == ask[r].token IN
  \/ /\ Step(r, "matched", "refused")
     /\ Fresh(marked, k)
     /\ UNCHANGED <<store, now, tables, ask, effects, counts, crashes>>
  \/ /\ Step(r, "matched", "spent")
     /\ ~Fresh(marked, k)
     /\ marked' = [marked EXCEPT ![k] = Expiry]
     /\ spent' = [spent EXCEPT ![k] = @ + 1]
     /\ UNCHANGED <<store, now, stored, ask, effects, issued, crashes>>

\* ... forget.
Forget(r) ==
  /\ Step(r, "spent", "approved")
  /\ stored' = [stored EXCEPT ![ask[r].token] = None]
  /\ UNCHANGED <<store, now, marked, ask, effects, counts, crashes>>

\* capture_before is outside the try: what it raises leaves no record.
CaptureBefore(r) ==
  /\ \E to \in {"ready", "raised"} : Step(r, "approved", to)
  /\ UNCHANGED <<store, now, tables, ask, effects, counts, crashes>>

\* A handle() that raises may have taken effect by then.
Handle(r) ==
  /\ \/ Step(r, "ready", "handled") /\ mutated' = mutated \cup {r}
     \/ Step(r, "ready", "failing") /\ \E done \in SUBSET {r} : mutated' = mutated \cup done
  /\ UNCHANGED <<store, now, tables, ask, audit, lapsed, counts, crashes>>

CaptureAfter(r) ==
  /\ \E to \in {"captured", "failing"} : Step(r, "handled", to)
  /\ UNCHANGED <<store, now, tables, ask, effects, counts, crashes>>

\* A record that is made, and one that something raises in: a hook that is
\* part of it (summarize, extract_target_id), before the sink is called, or
\* the sink, which may have kept the record.
WriteAudit(r, status) == audit' = [audit EXCEPT ![r] = @ \cup {status}]
BreakAudit(r, status) == \E kept \in SUBSET {status} : audit' = [audit EXCEPT ![r] = @ \cup kept]

\* The success record.  What raises up to here ends in `except`; the answer
\* made after it raises to the caller, when handle() returned no mapping or
\* success_message raises.
AuditSuccess(r) ==
  /\ \/ \E to \in {"ok", "raised"} : Step(r, "captured", to) /\ WriteAudit(r, "success")
     \/ Step(r, "captured", "failing") /\ BreakAudit(r, "success")
  /\ UNCHANGED <<store, now, tables, ask, mutated, lapsed, counts, crashes>>

RaiseOnly(r) ==
  /\ Step(r, "failing", "raised")
  /\ UNCHANGED <<store, now, tables, ask, effects, counts, crashes>>

\* `except`: the failure record, whose own summarize may raise, then raise.
AuditFailure(r) ==
  /\ Step(r, "failing", "raised")
  /\ \/ WriteAudit(r, "failed") /\ UNCHANGED lapsed
     \/ BreakAudit(r, "failed") /\ lapsed' = lapsed \cup {r}
  /\ UNCHANGED <<store, now, tables, ask, mutated, counts, crashes>>

-----------------------------------------------------------------------------
\* The clock.  A store answers the two calls of consume within a tick: the
\* marker outlives the entry by no more than the entry's age at confirmation.
Tick ==
  /\ now < MaxClock
  /\ \A r \in Request : pc[r] # "matched"
  /\ now' = now + 1
  /\ UNCHANGED <<store, tables, pc, ask, effects, counts, crashes>>

\* The process dies with its requests, and the in-memory store with it.
Final == {"none", "refused", "proposed", "ok", "raised", "dead"}
Crash ==
  /\ crashes < MaxCrashes
  /\ crashes' = crashes + 1
  /\ pc' = [r \in Request |-> IF pc[r] \in Final THEN pc[r] ELSE "dead"]
  /\ IF store = "shared" THEN UNCHANGED tables
     ELSE /\ stored' = [k \in Token |-> None]
          /\ marked' = [k \in Token |-> None]
  /\ UNCHANGED <<store, now, ask, effects, counts>>

Next ==
  \/ \E r \in Request :
       \/ \E s \in Subject, p \in Param :
            Propose(r, s, p) \/ \E k \in Token : Confirm(r, s, p, k)
       \/ Refuse(r)
       \/ Mint(r) \/ Put(r)
       \/ Lookup(r) \/ Mark(r) \/ Forget(r)
       \/ CaptureBefore(r) \/ Handle(r) \/ CaptureAfter(r)
       \/ AuditSuccess(r) \/ AuditFailure(r)
  \/ Tick
  \/ Crash

Spec == Init /\ [][Next]_vars

-----------------------------------------------------------------------------
(***************************************************************************)
(* Properties.                                                             *)
(***************************************************************************)

Pcs == Final \cup MidCall
         \cup {"drafting", "checking", "approved", "ready", "handled", "captured", "failing"}
Ask == [subject : Subject \cup {None}, params : Param \cup {None},
        token : Token \cup {None}]
Until(t) == 0 .. t \cup {None}

\* The shape of the state: no entry or marker outlives its TTL.
TypeOK ==
  /\ store \in {"memory", "shared"}
  /\ now \in 0 .. MaxClock
  /\ stored \in [Token -> Until(now + TTL)]
  /\ marked \in [Token -> Until(now + TTL)]
  /\ pc \in [Request -> Pcs]
  /\ ask \in [Request -> Ask]
  /\ \A r \in Request :
       /\ pc[r] = "drafting" => ask[r].subject \in Subject /\ ask[r].params \in Param
       /\ pc[r] \in {"checking"} \cup MidCall => ask[r].token \in Token
  /\ mutated \subseteq Request
  /\ audit \in [Request -> SUBSET {"success", "failed"}]
  /\ issued \in [Token -> Nat]
  /\ spent \in [Token -> Nat]
  /\ lapsed \subseteq Request
  /\ crashes \in 0 .. MaxCrashes

\* "It is consumed atomically on first use": a token is spent at most as
\* often as it was put in the store, whatever confirmations race, however
\* late they come and wherever the process died.
OneShot == \A k \in Token : spent[k] <= issued[k]

\* The mutations that ran for a caller and parameters are no more than the
\* proposals of exactly those that the caller was shown: an approval is not
\* replayed, and parameters do not change between what was seen and what runs.
MutationsWereProposed ==
  \A s \in Subject, p \in Param :
    LET Of(R) == {r \in R : ask[r].subject = s /\ ask[r].params = p} IN
    Cardinality(Of(mutated)) <= Cardinality(Of({r \in Request : pc[r] = "proposed"}))

\* What a finished request and its audit trail say of each other: ok means
\* one success record and that the mutation happened, and a success record
\* means that it happened, though the caller may have got an error.  An error
\* after the mutation leaves a record, success or failed, unless the failure
\* record itself was cut short, by the action's summary or by the sink.
AuditAccountsForMutations ==
  \A r \in Request :
    /\ pc[r] = "ok" => audit[r] = {"success"} /\ r \in mutated
    /\ "success" \in audit[r] => r \in mutated
    /\ pc[r] = "raised" /\ r \in mutated /\ audit[r] = {} => r \in lapsed

(***************************************************************************)
(* The store, its markers and the calls around them are offers that can be *)
(* approved once each time they are made (Approvals).                      *)
(***************************************************************************)

Waiting == {"none", "drafting", "minted", "checking", "matched"}
Cleared == {"spent", "approved", "ready"}
Progress(r) ==
  CASE r \in mutated -> "ran"
    [] pc[r] \in Waiting -> "new"
    [] pc[r] \in Cleared -> "approved"
    [] pc[r] = "proposed" -> "offered"
    [] OTHER -> "over"
Asked(r) == [subject |-> ask[r].subject, params |-> ask[r].params]

Promised == INSTANCE Approvals WITH
  Offer <- Token,
  open <- [k \in Token |-> issued[k] - spent[k]],
  phase <- [r \in Request |-> Progress(r)],
  held <- [r \in Request |-> IF Progress(r) = "approved" THEN ask[r].token ELSE None],
  ran <- [r \in Request |-> IF r \in mutated THEN Asked(r) ELSE None]

\* The propose/confirm contract: what runs was offered, to the same caller
\* and with the same parameters, and approved, and an approval is used up by
\* the request that got it, however confirmations race, entries and markers
\* expire or the process dies.
ImplementsApprovals == Promised!Spec

=============================================================================
