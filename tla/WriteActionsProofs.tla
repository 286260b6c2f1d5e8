------------------------ MODULE WriteActionsProofs ------------------------
(***************************************************************************)
(* Proofs about WriteActions, for any callers, parameters and requests,    *)
(* any TTL, clock and number of restarts: the state has its shape, a token *)
(* is spent at most as often as it was issued, no more mutations ran than  *)
(* were proposed, and the audit trail accounts for every one of them.      *)
(***************************************************************************)
EXTENDS WriteActions, FunctionTheorems, FiniteSetTheorems, TLAPS

\* A token that was spent as often as it was issued, and whose entry is
\* still there, has a used marker that lives at least as long as the entry.
\* This is what a second confirmation runs into, late or after a restart.
MarkerInv ==
  \A k \in Token :
    stored[k] # None /\ spent[k] = issued[k] => marked[k] # None /\ marked[k] >= stored[k]

\* A request between the lookup and the marker holds a token that can still
\* be spent, or it will find the marker of whoever was faster.
RaceInv ==
  \A r \in Request :
    pc[r] = "matched" =>
      LET k == ask[r].token IN spent[k] < issued[k] \/ Fresh(marked, k)

IInv == TypeOK /\ OneShot /\ MarkerInv /\ RaceInv

-----------------------------------------------------------------------------
(***************************************************************************)
(* The shape of the state.                                                 *)
(***************************************************************************)

\* The second of a tick of the clock is the iat of some token.
LEMMA MintedIsToken ==
  ASSUME NEW s \in Subject, NEW p \in Param, now \in 0 .. MaxClock
  PROVE  [subject |-> s, params |-> p, iat |-> now \div Second] \in Token
  BY DEF Token

\* Before the first request the shape is right and there is nothing to race.
LEMMA InitIInv == Init => IInv
<1> SUFFICES ASSUME Init PROVE IInv
  OBVIOUS
<1> USE DEF Init
<1>1. TypeOK
  <2>1. ask \in [Request -> Ask]
    BY DEF Idle, Ask
  <2>2. pc \in [Request -> Pcs]
    BY DEF Pcs, Final
  <2>3. stored \in [Token -> Until(now + TTL)] /\ marked \in [Token -> Until(now + TTL)]
    BY DEF Until
  <2> QED
    BY <2>1, <2>2, <2>3, WriteActionsAssumption DEF TypeOK, MidCall
<1>2. OneShot
  BY DEF OneShot
<1>3. MarkerInv /\ RaceInv
  BY DEF MarkerInv, RaceInv
<1> QED
  BY <1>1, <1>2, <1>3 DEF IInv

\* A record, whole or cut short, keeps the shape of the audit trail.
LEMMA AuditRecords ==
  ASSUME TypeOK, NEW r \in Request, NEW status \in {"success", "failed"},
         WriteAudit(r, status) \/ BreakAudit(r, status)
  PROVE  audit' \in [Request -> SUBSET {"success", "failed"}]
<1>1. PICK kept \in SUBSET {status} : audit' = [audit EXCEPT ![r] = @ \cup kept]
  BY DEF WriteAudit, BreakAudit
<1> QED
  BY <1>1 DEF TypeOK

\* Every action keeps the shape of the state.
LEMMA TypeStep == TypeOK /\ [Next]_vars => TypeOK'
<1> SUFFICES ASSUME TypeOK, [Next]_vars PROVE TypeOK'
  OBVIOUS
<1> USE WriteActionsAssumption DEF TypeOK, tables, effects, counts
<1>1. CASE UNCHANGED vars
  BY <1>1 DEF vars
<1>2. ASSUME NEW r \in Request, Refuse(r) PROVE TypeOK'
  BY <1>2 DEF Refuse, Step, Pcs, Final, MidCall
<1>3. ASSUME NEW r \in Request, NEW s \in Subject, NEW p \in Param, Propose(r, s, p)
      PROVE  TypeOK'
  BY <1>3 DEF Propose, Step, Pcs, Final, MidCall, Ask
<1>4. ASSUME NEW r \in Request, NEW s \in Subject, NEW p \in Param, NEW k \in Token,
             Confirm(r, s, p, k)
      PROVE  TypeOK'
  BY <1>4 DEF Confirm, Step, Pcs, Final, MidCall, Ask
<1>5. ASSUME NEW r \in Request, Mint(r) PROVE TypeOK'
  <2> DEFINE k == [subject |-> ask[r].subject, params |-> ask[r].params,
                   iat |-> now \div Second]
  <2>1. k \in Token
    BY <1>5, MintedIsToken DEF Mint, Step
  <2> HIDE DEF k
  <2>2. ask' = [ask EXCEPT ![r].token = k]
    BY <1>5 DEF Mint, k
  <2>3. ask' \in [Request -> Ask]
    BY <2>1, <2>2 DEF Ask
  <2> QED
    BY <1>5, <2>1, <2>2, <2>3 DEF Mint, Step, Pcs, Final, MidCall, Ask
<1>6. ASSUME NEW r \in Request, Put(r) PROVE TypeOK'
  BY <1>6 DEF Put, Step, Pcs, Final, MidCall, Until, Expiry
<1>7. ASSUME NEW r \in Request, Lookup(r) PROVE TypeOK'
  BY <1>7 DEF Lookup, Step, Pcs, Final, MidCall, Until
<1>8. ASSUME NEW r \in Request, Mark(r) PROVE TypeOK'
  BY <1>8 DEF Mark, Step, Pcs, Final, MidCall, Until, Expiry
<1>9. ASSUME NEW r \in Request, Forget(r) PROVE TypeOK'
  BY <1>9 DEF Forget, Step, Pcs, Final, MidCall, Until
<1>10. ASSUME NEW r \in Request, CaptureBefore(r) PROVE TypeOK'
  BY <1>10 DEF CaptureBefore, Step, Pcs, Final, MidCall
<1>11. ASSUME NEW r \in Request, Handle(r) PROVE TypeOK'
  BY <1>11 DEF Handle, Step, Pcs, Final, MidCall
<1>12. ASSUME NEW r \in Request, CaptureAfter(r) PROVE TypeOK'
  BY <1>12 DEF CaptureAfter, Step, Pcs, Final, MidCall
<1>13. ASSUME NEW r \in Request, AuditSuccess(r) PROVE TypeOK'
  <2>1. WriteAudit(r, "success") \/ BreakAudit(r, "success")
    BY <1>13 DEF AuditSuccess
  <2>2. audit' \in [Request -> SUBSET {"success", "failed"}] /\ lapsed' \subseteq Request
    BY <1>13, <2>1, AuditRecords DEF AuditSuccess
  <2>3. pc' \in [Request -> Pcs] /\ \A q \in Request : pc'[q] = pc[q] \/ pc'[q] \in {"ok", "failing", "raised"}
    BY <1>13 DEF AuditSuccess, Step, Pcs, Final
  <2>4. UNCHANGED <<store, now, stored, marked, ask, mutated, issued, spent, crashes>>
    BY <1>13 DEF AuditSuccess
  <2> QED
    BY <2>2, <2>3, <2>4 DEF MidCall
<1>14. ASSUME NEW r \in Request, AuditFailure(r) PROVE TypeOK'
  <2>1. WriteAudit(r, "failed") \/ BreakAudit(r, "failed")
    BY <1>14 DEF AuditFailure
  <2>2. audit' \in [Request -> SUBSET {"success", "failed"}] /\ lapsed' \subseteq Request
    BY <1>14, <2>1, AuditRecords DEF AuditFailure
  <2>3. pc' \in [Request -> Pcs] /\ \A q \in Request : pc'[q] = pc[q] \/ pc'[q] \in {"ok", "failing", "raised"}
    BY <1>14 DEF AuditFailure, Step, Pcs, Final
  <2>4. UNCHANGED <<store, now, stored, marked, ask, mutated, issued, spent, crashes>>
    BY <1>14 DEF AuditFailure
  <2> QED
    BY <2>2, <2>3, <2>4 DEF MidCall
<1>15. CASE Tick
  <2>1. Until(now + TTL) \subseteq Until(now' + TTL)
    BY <1>15 DEF Tick, Until
  <2> QED
    BY <1>15, <2>1 DEF Tick
<1>16. CASE Crash
  <2>1. pc' \in [Request -> Pcs]
    BY <1>16 DEF Crash, Pcs, Final
  <2>2. \A r \in Request : pc'[r] \notin {"checking", "drafting"} \cup MidCall
    BY <1>16 DEF Crash, Pcs, Final, MidCall
  <2>3. stored' \in [Token -> Until(now' + TTL)] /\ marked' \in [Token -> Until(now' + TTL)]
    BY <1>16 DEF Crash, Until
  <2> QED
    BY <1>16, <2>1, <2>2, <2>3 DEF Crash
<1> QED
  BY <1>1, <1>2, <1>3, <1>4, <1>5, <1>6, <1>7, <1>8, <1>9, <1>10, <1>11, <1>12, <1>13,
     <1>14, <1>15, <1>16
  DEF Next

-----------------------------------------------------------------------------
(***************************************************************************)
(* One use per issue.                                                      *)
(***************************************************************************)

SpendInv == OneShot /\ MarkerInv /\ RaceInv

\* A step that leaves the store, the clock and the counts alone, and finds
\* no new entry for a request to be matched with, keeps the invariant.
LEMMA QuietStep ==
  ASSUME SpendInv, UNCHANGED <<now, stored, marked, issued, spent>>,
         \A r \in Request : pc'[r] = "matched" => pc[r] = "matched" /\ ask'[r] = ask[r]
  PROVE  SpendInv'
  BY DEF SpendInv, OneShot, MarkerInv, RaceInv, Fresh

\* Only Put, Lookup, Mark, Forget, Tick and Crash touch what the invariant
\* is about; Lookup is where the life of the marker is needed.
LEMMA SpendStep == TypeOK /\ SpendInv /\ [Next]_vars => SpendInv'
<1> SUFFICES ASSUME TypeOK, SpendInv, [Next]_vars PROVE SpendInv'
  OBVIOUS
<1> USE WriteActionsAssumption DEF tables, effects, counts
<1>1. CASE UNCHANGED vars
  BY <1>1, QuietStep DEF vars
<1>2. ASSUME NEW r \in Request, Refuse(r) PROVE SpendInv'
  BY <1>2, QuietStep DEF Refuse, Step, TypeOK
<1>3. ASSUME NEW r \in Request, NEW s \in Subject, NEW p \in Param, Propose(r, s, p)
      PROVE  SpendInv'
  BY <1>3, QuietStep DEF Propose, Step, TypeOK
<1>4. ASSUME NEW r \in Request, NEW s \in Subject, NEW p \in Param, NEW k \in Token,
             Confirm(r, s, p, k)
      PROVE  SpendInv'
  BY <1>4, QuietStep DEF Confirm, Step, TypeOK
<1>5. ASSUME NEW r \in Request, Mint(r) PROVE SpendInv'
  BY <1>5, QuietStep DEF Mint, Step, TypeOK
<1>6. ASSUME NEW r \in Request, Put(r) PROVE SpendInv'
  BY <1>6 DEF Put, Step, TypeOK, Until, SpendInv, OneShot, MarkerInv, RaceInv, Fresh, Expiry
<1>7. ASSUME NEW r \in Request, Lookup(r) PROVE SpendInv'
  <2> DEFINE k == ask[r].token
  <2>1. k \in Token
    BY <1>7 DEF Lookup, Step, TypeOK, MidCall
  <2>2. OneShot' /\ MarkerInv'
    BY <1>7, <2>1 DEF Lookup, Step, TypeOK, Until, SpendInv, OneShot, MarkerInv
  <2>3. ASSUME pc'[r] = "matched" PROVE spent[k] < issued[k] \/ Fresh(marked, k)
    <3>1. Fresh(stored, k)
      BY <1>7, <2>3 DEF Lookup, Step, TypeOK
    <3>2. CASE spent[k] < issued[k]
      BY <3>2
    <3>3. CASE spent[k] = issued[k]
      BY <3>1, <3>3, <2>1 DEF SpendInv, MarkerInv, Fresh, TypeOK, Until
    <3> QED
      BY <3>2, <3>3, <2>1 DEF SpendInv, OneShot, TypeOK
  <2>4. RaceInv'
    BY <1>7, <2>3 DEF Lookup, Step, TypeOK, SpendInv, RaceInv, Fresh
  <2> QED
    BY <2>2, <2>4 DEF SpendInv
<1>8. ASSUME NEW r \in Request, Mark(r) PROVE SpendInv'
  <2> DEFINE k == ask[r].token
  <2>1. CASE Step(r, "matched", "refused") /\ UNCHANGED <<now, tables, ask, counts>>
    BY <2>1, QuietStep DEF Step, TypeOK
  <2>2. CASE /\ Step(r, "matched", "spent") /\ ~Fresh(marked, k)
             /\ marked' = [marked EXCEPT ![k] = Expiry]
             /\ spent' = [spent EXCEPT ![k] = @ + 1]
             /\ UNCHANGED <<now, stored, ask, issued>>
    <3>1. k \in Token /\ pc[r] = "matched"
      BY <2>2 DEF Step, TypeOK, MidCall
    <3>2. spent[k] < issued[k]
      BY <2>2, <3>1 DEF SpendInv, RaceInv
    <3>3. OneShot'
      BY <2>2, <3>1, <3>2 DEF SpendInv, OneShot, TypeOK
    <3>4. now + TTL \in Nat /\ (stored[k] # None => now + TTL >= stored[k])
      BY <3>1 DEF TypeOK, Until
    <3>5. MarkerInv'
      BY <2>2, <3>1, <3>4 DEF SpendInv, MarkerInv, TypeOK, Expiry
    <3>6. Fresh(marked, k)'
      BY <2>2, <3>1, <3>4 DEF Fresh, Expiry, TypeOK
    <3>7. \A j \in Token \ {k} : spent'[j] = spent[j] /\ marked'[j] = marked[j]
      BY <2>2, <3>1 DEF TypeOK
    <3>8. \A q \in Request : pc'[q] = "matched" => pc[q] = "matched" /\ ask[q].token \in Token
      BY <2>2 DEF Step, TypeOK, MidCall
    <3>9. RaceInv'
      BY <2>2, <3>6, <3>7, <3>8 DEF SpendInv, RaceInv, Fresh
    <3> QED
      BY <3>3, <3>5, <3>9 DEF SpendInv
  <2> QED
    BY <1>8, <2>1, <2>2 DEF Mark
<1>9. ASSUME NEW r \in Request, Forget(r) PROVE SpendInv'
  BY <1>9 DEF Forget, Step, TypeOK, SpendInv, OneShot, MarkerInv, RaceInv, Fresh
<1>10. ASSUME NEW r \in Request, CaptureBefore(r) PROVE SpendInv'
  BY <1>10, QuietStep DEF CaptureBefore, Step, TypeOK
<1>11. ASSUME NEW r \in Request, Handle(r) PROVE SpendInv'
  BY <1>11, QuietStep DEF Handle, Step, TypeOK
<1>12. ASSUME NEW r \in Request, CaptureAfter(r) PROVE SpendInv'
  BY <1>12, QuietStep DEF CaptureAfter, Step, TypeOK
<1>13. ASSUME NEW r \in Request, AuditSuccess(r) PROVE SpendInv'
  BY <1>13, QuietStep DEF AuditSuccess, Step, TypeOK
<1>14. ASSUME NEW r \in Request, AuditFailure(r) PROVE SpendInv'
  BY <1>14, QuietStep DEF AuditFailure, Step, TypeOK
<1>15. CASE Tick
  BY <1>15 DEF Tick, SpendInv, OneShot, MarkerInv, RaceInv
<1>16. CASE Crash
  <2>1. \A r \in Request : pc'[r] # "matched"
    BY <1>16 DEF Crash, Final
  <2> QED
    BY <1>16, <2>1 DEF Crash, SpendInv, OneShot, MarkerInv, RaceInv
<1> QED
  BY <1>1, <1>2, <1>3, <1>4, <1>5, <1>6, <1>7, <1>8, <1>9, <1>10, <1>11, <1>12, <1>13,
     <1>14, <1>15, <1>16
  DEF Next

-----------------------------------------------------------------------------
(***************************************************************************)
(* The audit trail.                                                        *)
(***************************************************************************)

\* Where a request must be for its mutation to have happened, and for its
\* trail to hold anything.
Trail ==
  \A r \in Request :
    /\ pc[r] \in {"handled", "captured"} => r \in mutated
    /\ pc[r] \notin {"handled", "captured", "failing", "ok", "raised", "dead"} => r \notin mutated
    /\ pc[r] \notin {"failing", "ok", "raised", "dead"} => audit[r] = {}

AuditInv == Trail /\ AuditAccountsForMutations

\* Before the first request the trail is empty.
LEMMA InitAudit == Init => AuditInv
  BY DEF Init, AuditInv, Trail, AuditAccountsForMutations

\* A step of a request that has not come to its mutation, or of none.
LEMMA EarlyStep ==
  ASSUME AuditInv, UNCHANGED <<mutated, audit, lapsed>>,
         \A r \in Request :
           pc'[r] = pc[r] \/ (/\ pc[r] \notin {"handled", "captured", "failing", "ok", "raised", "dead"}
                              /\ pc'[r] \notin {"handled", "captured", "ok"})
  PROVE  AuditInv'
  BY DEF AuditInv, Trail, AuditAccountsForMutations

\* Every step keeps requests and their trail in agreement.
LEMMA AuditStep == TypeOK /\ AuditInv /\ [Next]_vars => AuditInv'
<1> SUFFICES ASSUME TypeOK, AuditInv, [Next]_vars PROVE AuditInv'
  OBVIOUS
<1> USE DEF effects
<1>1. CASE UNCHANGED vars
  BY <1>1, EarlyStep DEF vars
<1>2. ASSUME NEW r \in Request, Refuse(r) PROVE AuditInv'
  BY <1>2, EarlyStep DEF Refuse, Step, TypeOK
<1>3. ASSUME NEW r \in Request, NEW s \in Subject, NEW p \in Param, Propose(r, s, p)
      PROVE  AuditInv'
  BY <1>3, EarlyStep DEF Propose, Step, TypeOK
<1>4. ASSUME NEW r \in Request, NEW s \in Subject, NEW p \in Param, NEW k \in Token,
             Confirm(r, s, p, k)
      PROVE  AuditInv'
  BY <1>4, EarlyStep DEF Confirm, Step, TypeOK
<1>5. ASSUME NEW r \in Request, Mint(r) \/ Put(r) \/ Lookup(r) \/ Mark(r) \/ Forget(r)
      PROVE  AuditInv'
  BY <1>5, EarlyStep DEF Mint, Put, Lookup, Mark, Forget, Step, TypeOK
<1>6. ASSUME NEW r \in Request, CaptureBefore(r) PROVE AuditInv'
  BY <1>6, EarlyStep DEF CaptureBefore, Step, TypeOK
<1>7. ASSUME NEW r \in Request, Handle(r) PROVE AuditInv'
  BY <1>7 DEF Handle, Step, TypeOK, AuditInv, Trail, AuditAccountsForMutations
<1>8. ASSUME NEW r \in Request, CaptureAfter(r) PROVE AuditInv'
  BY <1>8 DEF CaptureAfter, Step, TypeOK, AuditInv, Trail, AuditAccountsForMutations
<1>9. ASSUME NEW r \in Request, AuditSuccess(r) PROVE AuditInv'
  <2>1. r \in mutated /\ audit[r] = {} /\ pc[r] = "captured" /\ UNCHANGED mutated
    BY <1>9 DEF AuditSuccess, Step, AuditInv, Trail
  <2>2. \A q \in Request \ {r} : pc'[q] = pc[q] /\ audit'[q] = audit[q] /\ (q \in lapsed => q \in lapsed')
    BY <1>9 DEF AuditSuccess, WriteAudit, BreakAudit, Step, TypeOK
  <2>3. \/ pc'[r] \in {"ok", "raised"} /\ audit'[r] = {"success"}
        \/ pc'[r] = "failing"
    BY <1>9, <2>1 DEF AuditSuccess, WriteAudit, Step, TypeOK
  <2> QED
    BY <2>1, <2>2, <2>3 DEF AuditInv, Trail, AuditAccountsForMutations
<1>10. ASSUME NEW r \in Request, AuditFailure(r) PROVE AuditInv'
  <2>1. pc[r] = "failing" /\ pc'[r] = "raised" /\ UNCHANGED mutated
    BY <1>10 DEF AuditFailure, Step, TypeOK
  <2>2. \A q \in Request \ {r} : pc'[q] = pc[q] /\ audit'[q] = audit[q] /\ (q \in lapsed => q \in lapsed')
    BY <1>10 DEF AuditFailure, WriteAudit, BreakAudit, Step, TypeOK
  <2>3. PICK kept \in SUBSET {"failed"} : audit' = [audit EXCEPT ![r] = @ \cup kept]
    BY <1>10 DEF AuditFailure, WriteAudit, BreakAudit
  <2>4. "success" \in audit'[r] => "success" \in audit[r]
    BY <2>3 DEF TypeOK
  <2>5. "failed" \in audit'[r] \/ r \in lapsed'
    BY <1>10 DEF AuditFailure, WriteAudit, TypeOK
  <2> QED
    BY <2>1, <2>2, <2>4, <2>5 DEF AuditInv, Trail, AuditAccountsForMutations
<1>11. CASE Tick
  BY <1>11, EarlyStep DEF Tick
<1>12. CASE Crash
  BY <1>12 DEF Crash, TypeOK, Final, AuditInv, Trail, AuditAccountsForMutations
<1> QED
  BY <1>1, <1>2, <1>3, <1>4, <1>5, <1>6, <1>7, <1>8, <1>9, <1>10, <1>11, <1>12 DEF Next

-----------------------------------------------------------------------------
(***************************************************************************)
(* Mutations and proposals.                                                *)
(***************************************************************************)

\* The requests that were made, finitely many of all that may be.
Active == {r \in Request : pc[r] # "none"}

\* A request that may mutate, and one that did.
Approved(r) == pc[r] \in {"spent", "approved", "ready"} \/ r \in mutated

\* The token of a proposal, and the one an approval went by, is for the
\* caller and the parameters of that request.
HoldsOwnToken ==
  \A r \in Request :
    pc[r] \in {"minted", "proposed", "matched"} \/ Approved(r) => ask[r].token \in Token /\ Matches(r)

\* A token was issued as often as there are proposals that hold it, and
\* spent at least as often as there are requests that it approved.
Proposers(k) == {r \in Request : pc[r] = "proposed" /\ ask[r].token = k}
Spenders(k) == {r \in Request : Approved(r) /\ ask[r].token = k}
CountInv == \A k \in Token :
  issued[k] = Cardinality(Proposers(k)) /\ Cardinality(Spenders(k)) <= spent[k]

ApprovalInv == IsFiniteSet(Active) /\ HoldsOwnToken /\ CountInv

LEMMA SmallerInjects ==
  ASSUME NEW S, NEW T, IsFiniteSet(S), IsFiniteSet(T), Cardinality(S) <= Cardinality(T)
  PROVE  Injection(S, T) # {}
<1> DEFINE m == Cardinality(S)
           n == Cardinality(T)
<1>1. m \in Nat /\ n \in Nat /\ m <= n
  BY FS_CardinalityType
<1>2. ExistsBijection(1 .. m, S) /\ ExistsBijection(1 .. n, T)
  BY FS_CardinalityType
<1>3. PICK g \in Bijection(S, 1 .. m) : TRUE
  BY <1>2, Fun_ExistsBijSymmetric DEF ExistsBijection
<1>4. PICK h \in Bijection(1 .. n, T) : TRUE
  BY <1>2 DEF ExistsBijection
<1>5. 1 .. m \subseteq 1 .. n
  BY <1>1
<1> HIDE DEF m, n
<1>6. /\ g \in [S -> 1 .. m] /\ \A x, y \in S : g[x] = g[y] => x = y
      /\ h \in [1 .. n -> T] /\ \A i, j \in 1 .. n : h[i] = h[j] => i = j
  BY <1>3, <1>4 DEF Bijection, Injection, IsInjective
<1>7. [x \in S |-> h[g[x]]] \in Injection(S, T)
  BY <1>5, <1>6 DEF Injection, IsInjective
<1> QED
  BY <1>7

\* If of every token there are no more in M than in P, M is no larger than P.
PartOf(R, f, k) == {r \in R : f[r] = k}
LEMMA PartsAreSmaller ==
  ASSUME NEW M, NEW P, NEW K, NEW f, IsFiniteSet(M), IsFiniteSet(P),
         \A r \in M : f[r] \in K,
         \A k \in K : Cardinality(PartOf(M, f, k)) <= Cardinality(PartOf(P, f, k))
  PROVE  Cardinality(M) <= Cardinality(P)
<1> DEFINE In(R, k) == PartOf(R, f, k)
           pairing(k) == CHOOSE g : g \in Injection(In(M, k), In(P, k))
<1>1. ASSUME NEW k \in K PROVE pairing(k) \in Injection(In(M, k), In(P, k))
  <2>1. IsFiniteSet(In(M, k)) /\ IsFiniteSet(In(P, k))
    BY FS_Subset DEF PartOf
  <2>2. Injection(In(M, k), In(P, k)) # {}
    BY <2>1, SmallerInjects
  <2> QED
    BY <2>2
<1> HIDE DEF pairing
<1>2. \A r \in M : pairing(f[r])[r] \in In(P, f[r])
  BY <1>1 DEF Injection, PartOf
<1>3. ASSUME NEW r \in M, NEW q \in M, pairing(f[r])[r] = pairing(f[q])[q] PROVE r = q
  <2>1. f[r] = f[q]
    BY <1>2, <1>3 DEF PartOf
  <2> QED
    BY <1>1, <1>3, <2>1 DEF Injection, IsInjective, PartOf
<1> DEFINE F == [r \in M |-> pairing(f[r])[r]]
<1>4. F \in Injection(M, P)
  BY <1>2, <1>3 DEF Injection, IsInjective, PartOf
<1> QED
  BY <1>4, FS_Injection

LEMMA InitApproval == Init => ApprovalInv
<1> SUFFICES ASSUME Init PROVE ApprovalInv
  OBVIOUS
<1>1. Active = {} /\ \A r \in Request : pc[r] = "none" /\ ~Approved(r)
  BY DEF Init, Active, Approved
<1>2. \A k \in Token : Proposers(k) = {} /\ Spenders(k) = {}
  BY <1>1 DEF Proposers, Spenders
<1> QED
  BY <1>1, <1>2, FS_EmptySet DEF Init, ApprovalInv, HoldsOwnToken, CountInv

LEMMA CountedAreFinite ==
  ASSUME Trail, ApprovalInv
  PROVE  \A k : IsFiniteSet(Proposers(k)) /\ IsFiniteSet(Spenders(k))
<1>1. \A k : Proposers(k) \subseteq Active /\ Spenders(k) \subseteq Active
  BY DEF Trail, Active, Proposers, Spenders, Approved
<1> QED
  BY <1>1, FS_Subset DEF ApprovalInv

\* A step that neither issues nor spends, of a request or of none.
LEMMA OtherStep ==
  ASSUME TypeOK, Trail, ApprovalInv, UNCHANGED <<issued, spent>>,
         NEW R, IsFiniteSet(R), \A r \in Request \ R : pc'[r] = pc[r] \/ (pc[r] # "none" /\ pc'[r] = "dead"),
         mutated' \subseteq Request,
         \A r \in Request : pc'[r] = "proposed" <=> pc[r] = "proposed",
         \A r \in Request : Approved(r)' => Approved(r),
         \A r \in Request : pc[r] = "proposed" \/ Approved(r) => ask'[r] = ask[r],
         \A r \in Request : pc'[r] \in {"minted", "matched"} =>
           \/ pc'[r] = pc[r] /\ ask'[r] = ask[r]
           \/ (ask[r].token \in Token /\ Matches(r))'
  PROVE  ApprovalInv'
<1>1. IsFiniteSet(Active')
  <2>1. Active' \subseteq Active \cup R
    BY DEF Active
  <2> QED
    BY <2>1, FS_Union, FS_Subset DEF ApprovalInv
<1>2. HoldsOwnToken'
  <2> SUFFICES ASSUME NEW r \in Request, (pc[r] \in {"minted", "proposed", "matched"} \/ Approved(r))'
               PROVE  (ask[r].token \in Token /\ Matches(r))'
    BY DEF HoldsOwnToken
  <2>1. CASE pc'[r] = "proposed" \/ Approved(r)'
    BY <2>1 DEF ApprovalInv, HoldsOwnToken, Matches
  <2>2. CASE pc'[r] \in {"minted", "matched"}
    BY <2>2 DEF ApprovalInv, HoldsOwnToken, Matches
  <2> QED
    BY <2>1, <2>2
<1>3. CountInv'
  <2>1. ASSUME NEW k \in Token PROVE Proposers(k)' = Proposers(k) /\ Spenders(k)' \subseteq Spenders(k)
    BY DEF Proposers, Spenders
  <2>2. ASSUME NEW k \in Token PROVE Cardinality(Spenders(k)') <= spent[k]
    <3>1. IsFiniteSet(Spenders(k)) /\ IsFiniteSet(Spenders(k)') /\ Cardinality(Spenders(k)') <= Cardinality(Spenders(k))
      BY <2>1, CountedAreFinite, FS_Subset
    <3>2. Cardinality(Spenders(k)) \in Nat /\ Cardinality(Spenders(k)') \in Nat /\ spent[k] \in Nat
      BY <3>1, FS_CardinalityType DEF TypeOK
    <3>3. Cardinality(Spenders(k)) <= spent[k]
      BY DEF ApprovalInv, CountInv
    <3> QED
      BY <3>1, <3>2, <3>3
  <2> QED
    BY <2>1, <2>2 DEF ApprovalInv, CountInv
<1> QED
  BY <1>1, <1>2, <1>3 DEF ApprovalInv

\* Only Propose and Mint write what a request asks for, Put adds to the
\* proposals and Mark to the approvals.
LEMMA ApprovalStep == TypeOK /\ Trail /\ ApprovalInv /\ [Next]_vars => ApprovalInv'
<1> SUFFICES ASSUME TypeOK, Trail, ApprovalInv, [Next]_vars PROVE ApprovalInv'
  OBVIOUS
<1> USE DEF effects, counts
<1>1. CASE UNCHANGED vars
  BY <1>1, OtherStep, FS_EmptySet DEF vars, TypeOK, Approved
<1>2. ASSUME NEW r \in Request,
             \/ Refuse(r)
             \/ \E s \in Subject, p \in Param : Propose(r, s, p) \/ \E k \in Token : Confirm(r, s, p, k)
      PROVE  ApprovalInv'
  <2>1. IsFiniteSet({r}) /\ ~Approved(r) /\ pc[r] = "none"
    BY <1>2, FS_Singleton DEF Refuse, Propose, Confirm, Step, Trail, Approved
  <2>2. /\ UNCHANGED <<issued, spent, mutated>> /\ \A q \in Request \ {r} : pc'[q] = pc[q] /\ ask'[q] = ask[q]
        /\ pc'[r] \in {"refused", "drafting", "checking"}
    BY <1>2 DEF Refuse, Propose, Confirm, Step, TypeOK
  <2> QED
    BY <2>1, <2>2, OtherStep DEF TypeOK, Approved
<1>3. ASSUME NEW r \in Request, Mint(r) PROVE ApprovalInv'
  <2>1. /\ UNCHANGED <<issued, spent, mutated>> /\ \A q \in Request \ {r} : pc'[q] = pc[q] /\ ask'[q] = ask[q]
        /\ pc[r] = "drafting" /\ pc'[r] = "minted"
    BY <1>3 DEF Mint, Step, TypeOK
  <2>2. IsFiniteSet({r}) /\ ~Approved(r)
    BY <2>1, FS_Singleton DEF Trail, Approved
  <2>3. (ask[r].token \in Token /\ Matches(r))'
    <3> DEFINE k == [subject |-> ask[r].subject, params |-> ask[r].params, iat |-> now \div Second]
    <3>1. k \in Token /\ k.subject = ask[r].subject /\ k.params = ask[r].params
      BY <1>3, MintedIsToken DEF Mint, Step, TypeOK
    <3> HIDE DEF k
    <3>2. ask' = [ask EXCEPT ![r].token = k]
      BY <1>3 DEF Mint, k
    <3>3. ask'[r].token = k /\ ask'[r].subject = ask[r].subject /\ ask'[r].params = ask[r].params
      BY <3>2 DEF TypeOK, Ask
    <3> QED
      BY <3>1, <3>3 DEF Matches
  <2> QED
    BY <2>1, <2>2, <2>3, OtherStep DEF TypeOK, Approved
<1>4. ASSUME NEW r \in Request, Put(r) PROVE ApprovalInv'
  <2>1. PICK k \in Token : k = ask[r].token
    BY <1>4 DEF Put, Step, TypeOK, MidCall
  <2>2. /\ UNCHANGED <<ask, spent, mutated>> /\ pc[r] = "minted" /\ pc' = [pc EXCEPT ![r] = "proposed"]
        /\ issued' = [issued EXCEPT ![k] = @ + 1]
    BY <1>4, <2>1 DEF Put, Step
  <2>3. \A q \in Request : Approved(q)' = Approved(q)
    BY <2>2 DEF TypeOK, Approved, Trail
  <2>4. Active' = Active
    BY <2>2 DEF Active, TypeOK
  <2>5. HoldsOwnToken'
    BY <2>2, <2>3 DEF ApprovalInv, HoldsOwnToken, Matches, TypeOK
  <2>6. ASSUME NEW j \in Token
        PROVE  issued'[j] = Cardinality(Proposers(j)') /\ Cardinality(Spenders(j)') <= spent'[j]
    <3>1. Spenders(j)' = Spenders(j) /\ Proposers(j)' = IF j = k THEN Proposers(j) \cup {r} ELSE Proposers(j)
      BY <2>1, <2>2, <2>3 DEF Spenders, Proposers, TypeOK
    <3>2. IsFiniteSet(Proposers(j)) /\ r \notin Proposers(j)
      BY <2>2, CountedAreFinite DEF Proposers
    <3>3. Cardinality(Proposers(j) \cup {r}) = Cardinality(Proposers(j)) + 1
      BY <3>2, FS_AddElement
    <3>4. issued'[j] = IF j = k THEN issued[j] + 1 ELSE issued[j]
      BY <2>2 DEF TypeOK
    <3> QED
      BY <2>2, <3>1, <3>3, <3>4 DEF ApprovalInv, CountInv
  <2> QED
    BY <2>4, <2>5, <2>6 DEF ApprovalInv, CountInv
<1>5. ASSUME NEW r \in Request, Lookup(r) PROVE ApprovalInv'
  <2>1. /\ UNCHANGED <<issued, spent, mutated, ask>> /\ \A q \in Request \ {r} : pc'[q] = pc[q]
        /\ pc[r] = "checking" /\ pc'[r] \in {"refused", "matched"}
        /\ pc'[r] = "matched" => Matches(r)
    BY <1>5 DEF Lookup, Step, TypeOK
  <2>2. ask[r].token \in Token
    BY <2>1 DEF TypeOK
  <2>3. IsFiniteSet({r}) /\ \A q \in Request : Matches(q)' = Matches(q)
    BY <2>1, FS_Singleton DEF Matches
  <2> QED
    BY <2>1, <2>2, <2>3, OtherStep DEF TypeOK, Approved
<1>6. ASSUME NEW r \in Request, Mark(r), pc'[r] = "spent" PROVE ApprovalInv'
  <2>1. PICK k \in Token : k = ask[r].token
    BY <1>6 DEF Mark, Step, TypeOK, MidCall
  <2>2. /\ UNCHANGED <<ask, issued, mutated>> /\ pc[r] = "matched" /\ pc' = [pc EXCEPT ![r] = "spent"]
        /\ spent' = [spent EXCEPT ![k] = @ + 1]
    BY <1>6, <2>1 DEF Mark, Step, TypeOK
  <2>3. \A q \in Request : Approved(q)' <=> Approved(q) \/ q = r
    BY <2>2 DEF TypeOK, Approved
  <2>4. Active' = Active
    BY <2>2 DEF Active, TypeOK
  <2>5. HoldsOwnToken'
    BY <2>2, <2>3 DEF ApprovalInv, HoldsOwnToken, Matches, TypeOK
  <2>6. ASSUME NEW j \in Token
        PROVE  issued'[j] = Cardinality(Proposers(j)') /\ Cardinality(Spenders(j)') <= spent'[j]
    <3>1. Proposers(j)' = Proposers(j) /\ Spenders(j)' = IF j = k THEN Spenders(j) \cup {r} ELSE Spenders(j)
      BY <2>1, <2>2, <2>3 DEF Spenders, Proposers, TypeOK
    <3>2. IsFiniteSet(Spenders(j)) /\ Cardinality(Spenders(j)) \in Nat
      BY CountedAreFinite, FS_CardinalityType
    <3>3. \/ Cardinality(Spenders(j) \cup {r}) = Cardinality(Spenders(j))
          \/ Cardinality(Spenders(j) \cup {r}) = Cardinality(Spenders(j)) + 1
      BY <3>2, FS_AddElement
    <3>4. Cardinality(Spenders(j) \cup {r}) <= Cardinality(Spenders(j)) + 1
      BY <3>2, <3>3
    <3>5. spent[j] \in Nat /\ spent'[j] = IF j = k THEN spent[j] + 1 ELSE spent[j]
      BY <2>2 DEF TypeOK
    <3>6. issued'[j] = Cardinality(Proposers(j)') /\ Cardinality(Spenders(j)) <= spent[j]
      BY <2>2, <3>1 DEF ApprovalInv, CountInv
    <3> QED
      BY <3>1, <3>2, <3>3, <3>4, <3>5, <3>6
  <2> QED
    BY <2>4, <2>5, <2>6 DEF ApprovalInv, CountInv
<1>7. ASSUME NEW r \in Request,
             \/ Mark(r) /\ pc'[r] # "spent"
             \/ Forget(r) \/ CaptureBefore(r) \/ Handle(r) \/ CaptureAfter(r) \/ AuditSuccess(r) \/ AuditFailure(r)
      PROVE  ApprovalInv'
  <2>1. /\ UNCHANGED <<issued, spent, ask>> /\ \A q \in Request \ {r} : pc'[q] = pc[q]
        /\ pc[r] # "proposed" /\ pc'[r] \notin {"proposed", "minted", "matched"}
        /\ mutated \subseteq mutated' /\ mutated' \subseteq mutated \cup {r}
    <3>1. CASE Mark(r) /\ pc'[r] # "spent"
      BY <3>1 DEF Mark, Step, TypeOK
    <3>2. CASE Forget(r) \/ CaptureBefore(r) \/ Handle(r) \/ CaptureAfter(r)
      BY <3>2 DEF Forget, CaptureBefore, Handle, CaptureAfter, Step, TypeOK
    <3>3. CASE AuditSuccess(r) \/ AuditFailure(r)
      BY <3>3 DEF AuditSuccess, AuditFailure, Step, TypeOK
    <3> QED
      BY <1>7, <3>1, <3>2, <3>3
  <2>2. IsFiniteSet({r})
    BY FS_Singleton
  <2>3. Approved(r)' => Approved(r)
    <3>1. CASE Mark(r) /\ pc'[r] # "spent"
      <4>1. pc'[r] = "refused" /\ mutated' = mutated
        BY <3>1 DEF Mark, Step, TypeOK
      <4> QED
        BY <4>1 DEF Approved
    <3>2. CASE Forget(r) \/ CaptureBefore(r) \/ Handle(r)
      <4>1. pc[r] \in {"spent", "approved", "ready"}
        BY <3>2 DEF Forget, CaptureBefore, Handle, Step
      <4> QED
        BY <4>1 DEF Approved
    <3>3. CASE CaptureAfter(r) \/ AuditSuccess(r) \/ AuditFailure(r)
      <4>1. mutated' = mutated /\ pc'[r] \notin {"spent", "approved", "ready"}
        BY <3>3 DEF CaptureAfter, AuditSuccess, AuditFailure, Step, TypeOK
      <4> QED
        BY <4>1 DEF Approved
    <3> QED
      BY <1>7, <3>1, <3>2, <3>3
  <2> QED
    BY <2>1, <2>2, <2>3, OtherStep DEF TypeOK, Approved
<1>8. CASE Tick
  <2>1. UNCHANGED <<issued, spent, ask, pc, mutated>>
    BY <1>8 DEF Tick
  <2> QED
    BY <2>1, OtherStep, FS_EmptySet DEF TypeOK, Approved
<1>9. CASE Crash
  <2>1. /\ UNCHANGED <<issued, spent, ask, mutated>>
        /\ \A q \in Request : pc'[q] = IF pc[q] \in Final THEN pc[q] ELSE "dead"
    BY <1>9 DEF Crash
  <2>2. \A q \in Request : pc'[q] = pc[q] \/ (pc[q] # "none" /\ pc'[q] = "dead")
    BY <2>1 DEF Final
  <2>3. \A q \in Request : pc'[q] = "proposed" <=> pc[q] = "proposed"
    BY <2>1 DEF Final
  <2> QED
    BY <2>1, <2>2, <2>3, OtherStep, FS_EmptySet DEF TypeOK, Approved
<1> QED
  BY <1>1, <1>2, <1>3, <1>4, <1>5, <1>6, <1>7, <1>8, <1>9 DEF Next

\* What the counts say of a caller and parameters: of every token of theirs
\* there are no more mutations than proposals.
LEMMA ApprovalsCover ==
  ASSUME TypeOK, OneShot, Trail, ApprovalInv
  PROVE  MutationsWereProposed
<1> SUFFICES ASSUME NEW s \in Subject, NEW p \in Param
             PROVE  Cardinality({r \in mutated : ask[r].subject = s /\ ask[r].params = p})
                      <= Cardinality({r \in {q \in Request : pc[q] = "proposed"} :
                                        ask[r].subject = s /\ ask[r].params = p})
  BY DEF MutationsWereProposed
<1> DEFINE M == {r \in mutated : ask[r].subject = s /\ ask[r].params = p}
           P == {r \in {q \in Request : pc[q] = "proposed"} : ask[r].subject = s /\ ask[r].params = p}
           K == {k \in Token : k.subject = s /\ k.params = p}
           f == [r \in Request |-> ask[r].token]
<1>1. IsFiniteSet(M) /\ IsFiniteSet(P)
  <2>1. M \subseteq Active /\ P \subseteq Active
    BY DEF Active, Trail, TypeOK
  <2> QED
    BY <2>1, FS_Subset DEF ApprovalInv
<1>2. \A r \in M : f[r] \in K
  BY DEF ApprovalInv, HoldsOwnToken, Approved, Matches, TypeOK
<1>3. ASSUME NEW k \in K
      PROVE  Cardinality(PartOf(M, f, k)) <= Cardinality(PartOf(P, f, k))
  <2>1. PartOf(M, f, k) \subseteq Spenders(k)
    <3>1. \A r \in M : r \in Request /\ Approved(r) /\ f[r] = ask[r].token
      BY DEF Approved, TypeOK
    <3> HIDE DEF M, f
    <3> QED
      BY <3>1 DEF Spenders, PartOf
  <2>2. PartOf(P, f, k) = Proposers(k)
    <3>1. \A r \in P : r \in Request /\ pc[r] = "proposed" /\ f[r] = ask[r].token
      OBVIOUS
    <3>2. \A r \in Proposers(k) : r \in P /\ f[r] = k
      BY DEF Proposers, ApprovalInv, HoldsOwnToken, Matches
    <3> HIDE DEF P, f
    <3> QED
      BY <3>1, <3>2 DEF Proposers, PartOf
  <2>3. IsFiniteSet(Spenders(k)) /\ IsFiniteSet(Proposers(k))
    BY CountedAreFinite
  <2>4. /\ Cardinality(PartOf(M, f, k)) <= Cardinality(Spenders(k))
        /\ Cardinality(PartOf(M, f, k)) \in Nat
    BY <2>1, <2>3, FS_Subset, FS_CardinalityType
  <2>5. Cardinality(Spenders(k)) \in Nat /\ Cardinality(Proposers(k)) \in Nat
    BY <2>3, FS_CardinalityType
  <2>6. /\ Cardinality(Spenders(k)) <= spent[k] /\ spent[k] <= issued[k]
        /\ issued[k] = Cardinality(Proposers(k)) /\ spent[k] \in Nat
    BY DEF ApprovalInv, CountInv, OneShot, TypeOK
  <2> HIDE DEF M, P, K, f
  <2> QED
    BY <2>2, <2>4, <2>5, <2>6
<1> HIDE DEF M, P, K, f
<1>4. \A r \in M : f[r] \in K
  BY <1>2
<1>5. Cardinality(M) <= Cardinality(P)
  BY ONLY <1>1, <1>3, <1>4, PartsAreSmaller
<1> QED
  BY <1>5 DEF M, P

-----------------------------------------------------------------------------
(***************************************************************************)
(* The contract: offers and approvals (Approvals).                         *)
(***************************************************************************)

\* Progress, a value at a time: the trail of a request that mutated shows
\* that it was neither waiting, nor approved, nor a proposal.
LEMMA ProgressIs ==
  ASSUME Trail, NEW r \in Request
  PROVE  /\ Progress(r) = "ran" <=> r \in mutated
         /\ Progress(r) = "new" <=> pc[r] \in Waiting
         /\ Progress(r) = "approved" <=> pc[r] \in Cleared
         /\ Progress(r) = "offered" <=> pc[r] = "proposed"
         /\ Progress(r) \in {"ran", "new", "approved", "offered", "over"}
  BY DEF Progress, Trail, Waiting, Cleared

LEMMA ProgressIsPrimed ==
  ASSUME Trail', NEW r \in Request
  PROVE  /\ Progress(r)' = "ran" <=> r \in mutated'
         /\ Progress(r)' = "new" <=> pc'[r] \in Waiting
         /\ Progress(r)' = "approved" <=> pc'[r] \in Cleared
         /\ Progress(r)' = "offered" <=> pc'[r] = "proposed"
         /\ Progress(r)' \in {"ran", "new", "approved", "offered", "over"}
  BY DEF Progress, Trail, Waiting, Cleared

\* What a request asks for is what the offer it was approved for said.
LEMMA AskedWasSaid ==
  ASSUME TypeOK, ApprovalInv, NEW r \in Request, Approved(r)
  PROVE  ask[r].token \in Token /\ Promised!Said(ask[r].token) = Asked(r)
  BY DEF ApprovalInv, HoldsOwnToken, Matches, Promised!Said, Asked

\* Before the first request nothing was offered.
LEMMA PromisedInit == Init => Promised!Init
<1> SUFFICES ASSUME Init PROVE Promised!Init
  OBVIOUS
<1>1. Trail
  BY InitAudit DEF AuditInv
<1>2. \A r \in Request : Progress(r) = "new" /\ r \notin mutated
  BY <1>1, ProgressIs DEF Init, Waiting
<1>3. \A k \in Token : issued[k] - spent[k] = 0
  BY DEF Init
<1> QED
  BY <1>2, <1>3 DEF Promised!Init

\* A step in which requests go on waiting, stay what they are, or give up.
LEMMA NothingRuns ==
  ASSUME UNCHANGED <<issued, spent, mutated>>,
         \A r \in Request :
           \/ Progress(r)' = Progress(r)
           \/ Progress(r) \in {"new", "approved"} /\ Progress(r)' = "over",
         \A r \in Request : r \in mutated \/ Progress(r)' = "approved" => ask'[r] = ask[r]
  PROVE  Promised!Next
<1>0. PICK R : R = {r \in Request : Progress(r) \in {"new", "approved"} /\ Progress(r)' = "over"}
  OBVIOUS
<1>1. \A r \in Request : Progress(r)' = IF r \in R THEN "over" ELSE Progress(r)
  BY <1>0
<1>2. \A r \in R : r \in Request /\ Progress(r) \in {"new", "approved"}
  BY <1>0
<1>3. R \in SUBSET Request
  BY <1>2
<1>4. \A r \in Request :
        (IF Progress(r) = "approved" THEN ask[r].token ELSE None)'
          = IF r \in R THEN None ELSE IF Progress(r) = "approved" THEN ask[r].token ELSE None
  BY <1>1
<1>5. \A r \in Request : (IF r \in mutated THEN Asked(r) ELSE None)' = IF r \in mutated THEN Asked(r) ELSE None
  BY DEF Asked
<1>6. Promised!GiveUp(R)
  BY <1>1, <1>2, <1>4, <1>5 DEF Promised!GiveUp
<1> QED
  BY <1>3, <1>6 DEF Promised!Next

\* What the refinement needs of the state, on both sides of a step.
PromiseInv == TypeOK /\ SpendInv /\ AuditInv /\ ApprovalInv

\* Put makes an offer, setting the marker is an approval, a handle that takes
\* effect runs it, and whatever else ends a request, a crash too, gives up.
LEMMA PromisedStep == PromiseInv /\ PromiseInv' /\ [Next]_vars => [Promised!Next]_(Promised!vars)
<1> SUFFICES ASSUME PromiseInv, PromiseInv', [Next]_vars PROVE Promised!Next
  OBVIOUS
<1> USE DEF PromiseInv, tables, effects, counts
<1>a. Trail /\ Trail'
  BY DEF AuditInv
<1>b. \A r \in Request :
        /\ Progress(r) = "ran" <=> r \in mutated
        /\ Progress(r) = "new" <=> pc[r] \in Waiting
        /\ Progress(r) = "approved" <=> pc[r] \in Cleared
        /\ Progress(r) = "offered" <=> pc[r] = "proposed"
        /\ Progress(r) \in {"ran", "new", "approved", "offered", "over"}
  BY <1>a, ProgressIs
<1>c. \A r \in Request :
        /\ Progress(r)' = "ran" <=> r \in mutated'
        /\ Progress(r)' = "new" <=> pc'[r] \in Waiting
        /\ Progress(r)' = "approved" <=> pc'[r] \in Cleared
        /\ Progress(r)' = "offered" <=> pc'[r] = "proposed"
        /\ Progress(r)' \in {"ran", "new", "approved", "offered", "over"}
  BY <1>a, ProgressIsPrimed
<1>1. CASE UNCHANGED vars
  BY <1>1, <1>b, <1>c, NothingRuns DEF vars
<1>2. ASSUME NEW r \in Request,
             \/ Refuse(r)
             \/ \E s \in Subject, p \in Param : Propose(r, s, p) \/ \E k \in Token : Confirm(r, s, p, k)
      PROVE  Promised!Next
  <2>1. /\ UNCHANGED <<issued, spent, mutated>> /\ \A q \in Request \ {r} : pc'[q] = pc[q] /\ ask'[q] = ask[q]
        /\ pc[r] = "none" /\ pc'[r] \in {"refused", "drafting", "checking"}
    BY <1>2 DEF Refuse, Propose, Confirm, Step, TypeOK
  <2>2. r \notin mutated
    BY <2>1, <1>a DEF Trail
  <2> QED
    BY <2>1, <2>2, <1>b, <1>c, NothingRuns DEF Waiting, Cleared
<1>3. ASSUME NEW r \in Request, Mint(r) PROVE Promised!Next
  <2>1. /\ UNCHANGED <<issued, spent, mutated>> /\ \A q \in Request \ {r} : pc'[q] = pc[q] /\ ask'[q] = ask[q]
        /\ pc[r] = "drafting" /\ pc'[r] = "minted"
    BY <1>3 DEF Mint, Step, TypeOK
  <2>2. r \notin mutated
    BY <2>1, <1>a DEF Trail
  <2> QED
    BY <2>1, <2>2, <1>b, <1>c, NothingRuns DEF Waiting, Cleared
<1>4. ASSUME NEW r \in Request, Put(r) PROVE Promised!Next
  <2>1. PICK k \in Token : k = ask[r].token
    BY <1>4 DEF Put, Step, TypeOK, MidCall
  <2>2. /\ UNCHANGED <<ask, spent, mutated>> /\ pc[r] = "minted" /\ pc' = [pc EXCEPT ![r] = "proposed"]
        /\ issued' = [issued EXCEPT ![k] = @ + 1]
    BY <1>4, <2>1 DEF Put, Step
  <2>3. Progress(r) = "new" /\ Progress(r)' = "offered"
    BY <2>2, <1>b, <1>c DEF Waiting, TypeOK
  <2>4. \A q \in Request \ {r} : Progress(q)' = Progress(q)
    BY <2>2, <1>b, <1>c DEF TypeOK
  <2>5. \A j \in Token : issued'[j] - spent'[j] = IF j = k THEN issued[j] - spent[j] + 1 ELSE issued[j] - spent[j]
    BY <2>2 DEF TypeOK
  <2>6. \A q \in Request : Asked(q)' = Asked(q)
    BY <2>2 DEF Asked
  <2>7. Promised!MakeOffer(r, k)
    BY <2>1, <2>2, <2>3, <2>4, <2>5, <2>6 DEF Promised!MakeOffer
  <2> QED
    BY <2>7 DEF Promised!Next
<1>5. ASSUME NEW r \in Request, Lookup(r) PROVE Promised!Next
  <2>1. /\ UNCHANGED <<issued, spent, mutated, ask>> /\ \A q \in Request \ {r} : pc'[q] = pc[q]
        /\ pc[r] = "checking" /\ pc'[r] \in {"refused", "matched"}
    BY <1>5 DEF Lookup, Step, TypeOK
  <2>2. r \notin mutated
    BY <2>1, <1>a DEF Trail
  <2> QED
    BY <2>1, <2>2, <1>b, <1>c, NothingRuns DEF Waiting, Cleared
<1>6. ASSUME NEW r \in Request, Mark(r) PROVE Promised!Next
  <2>0. PICK k \in Token : k = ask[r].token
    BY <1>6 DEF Mark, Step, TypeOK, MidCall
  <2>1. CASE Step(r, "matched", "refused") /\ UNCHANGED <<ask, issued, spent, mutated>>
    <3>1. /\ \A q \in Request \ {r} : pc'[q] = pc[q]
          /\ pc[r] = "matched" /\ pc'[r] = "refused"
      BY <2>1 DEF Step, TypeOK
    <3>2. r \notin mutated
      BY <3>1, <1>a DEF Trail
    <3> QED
      BY <2>1, <3>1, <3>2, <1>b, <1>c, NothingRuns DEF Waiting, Cleared
  <2>2. CASE /\ Step(r, "matched", "spent") /\ ~Fresh(marked, k)
             /\ spent' = [spent EXCEPT ![k] = @ + 1]
             /\ UNCHANGED <<ask, issued, mutated>>
    <3>1. pc[r] = "matched" /\ pc' = [pc EXCEPT ![r] = "spent"]
      BY <2>2 DEF Step
    <3>2. issued[k] - spent[k] > 0
      <4>1. spent[k] < issued[k]
        BY <2>0, <2>2, <3>1 DEF SpendInv, RaceInv
      <4> QED
        BY <4>1 DEF TypeOK
    <3>3. Progress(r) = "new" /\ Progress(r)' = "approved"
      BY <3>1, <1>b, <1>c DEF Waiting, Cleared, TypeOK
    <3>4. \A q \in Request \ {r} : Progress(q)' = Progress(q)
      BY <2>2, <3>1, <1>b, <1>c DEF TypeOK
    <3>5. \A j \in Token : issued'[j] - spent'[j] = IF j = k THEN issued[j] - spent[j] - 1 ELSE issued[j] - spent[j]
      BY <2>2 DEF TypeOK
    <3>6. \A q \in Request : Asked(q)' = Asked(q)
      BY <2>2 DEF Asked
    <3>7. ask'[r].token = k
      BY <2>0, <2>2
    <3>8. \A q \in Request :
            (IF Progress(q) = "approved" THEN ask[q].token ELSE None)'
              = IF q = r THEN k ELSE IF Progress(q) = "approved" THEN ask[q].token ELSE None
      BY <2>2, <3>3, <3>4, <3>7
    <3>9. Promised!Approve(r, k)
      BY <2>2, <3>1, <3>2, <3>3, <3>4, <3>5, <3>6, <3>8 DEF Promised!Approve
    <3> QED
      BY <3>9 DEF Promised!Next
  <2> QED
    BY <1>6, <2>0, <2>1, <2>2 DEF Mark
<1>7. ASSUME NEW r \in Request, Forget(r) \/ CaptureBefore(r) PROVE Promised!Next
  <2>1. /\ UNCHANGED <<issued, spent, ask, mutated>> /\ \A q \in Request \ {r} : pc'[q] = pc[q]
        /\ pc[r] \in {"spent", "approved"} /\ pc'[r] \in {"approved", "ready", "raised"}
    BY <1>7 DEF Forget, CaptureBefore, Step, TypeOK
  <2>2. r \notin mutated
    BY <2>1, <1>a DEF Trail
  <2> QED
    BY <2>1, <2>2, <1>b, <1>c, NothingRuns DEF Waiting, Cleared
<1>8. ASSUME NEW r \in Request, Handle(r) PROVE Promised!Next
  <2>1. /\ UNCHANGED <<issued, spent, ask>> /\ \A q \in Request \ {r} : pc'[q] = pc[q]
        /\ pc[r] = "ready"
    BY <1>8 DEF Handle, Step, TypeOK
  <2>2. r \notin mutated /\ Approved(r)
    BY <2>1, <1>a DEF Trail, Approved
  <2>3. CASE pc'[r] = "failing" /\ mutated' = mutated
    BY <2>1, <2>2, <2>3, <1>b, <1>c, NothingRuns DEF Waiting, Cleared
  <2>4. CASE mutated' = mutated \cup {r}
    <3>1. Progress(r) = "approved" /\ Progress(r)' = "ran"
      BY <2>1, <2>4, <1>b, <1>c DEF Cleared
    <3>2. \A q \in Request \ {r} : Progress(q)' = Progress(q) /\ (q \in mutated' <=> q \in mutated)
      BY <2>1, <2>4, <1>b, <1>c
    <3>3. Promised!Said(ask[r].token) = Asked(r)
      BY <2>2, AskedWasSaid
    <3>4. \A q \in Request : Asked(q)' = Asked(q)
      BY <2>1 DEF Asked
    <3>5. r \in mutated'
      BY <2>4
    <3>6. \A q \in Request :
            (IF q \in mutated THEN Asked(q) ELSE None)'
              = IF q = r THEN Promised!Said(ask[r].token) ELSE IF q \in mutated THEN Asked(q) ELSE None
      BY <3>2, <3>3, <3>4, <3>5
    <3>7. Promised!Run(r)
      BY <2>1, <3>1, <3>2, <3>6 DEF Promised!Run
    <3> QED
      BY <3>7 DEF Promised!Next
  <2>5. \/ pc'[r] = "failing" /\ mutated' = mutated
        \/ mutated' = mutated \cup {r}
    <3>1. CASE Step(r, "ready", "handled") /\ mutated' = mutated \cup {r}
      BY <3>1
    <3>2. ASSUME Step(r, "ready", "failing"), NEW done \in SUBSET {r}, mutated' = mutated \cup done
          PROVE  \/ pc'[r] = "failing" /\ mutated' = mutated
                 \/ mutated' = mutated \cup {r}
      <4>1. pc'[r] = "failing"
        BY <3>2 DEF Step, TypeOK
      <4>2. done = {} \/ done = {r}
        OBVIOUS
      <4> QED
        BY <3>2, <4>1, <4>2
    <3> QED
      BY <1>8, <3>1, <3>2 DEF Handle
  <2> QED
    BY <2>3, <2>4, <2>5
<1>9. ASSUME NEW r \in Request, CaptureAfter(r) \/ AuditSuccess(r) \/ AuditFailure(r) PROVE Promised!Next
  <2>1. /\ UNCHANGED <<issued, spent, ask, mutated>> /\ \A q \in Request \ {r} : pc'[q] = pc[q]
        /\ pc[r] \in {"handled", "captured", "failing"}
        /\ pc'[r] \in {"captured", "failing", "ok", "raised"}
    BY <1>9 DEF CaptureAfter, AuditSuccess, AuditFailure, Step, TypeOK
  <2> QED
    BY <2>1, <1>b, <1>c, NothingRuns DEF Waiting, Cleared
<1>10. CASE Tick
  <2>1. UNCHANGED <<issued, spent, ask, pc, mutated>>
    BY <1>10 DEF Tick
  <2> QED
    BY <2>1, <1>b, <1>c, NothingRuns
<1>11. CASE Crash
  <2>1. /\ UNCHANGED <<issued, spent, ask, mutated>>
        /\ \A q \in Request : pc'[q] = IF pc[q] \in Final THEN pc[q] ELSE "dead"
    BY <1>11 DEF Crash
  <2>2. \A q \in Request : pc'[q] = pc[q] \/ (pc[q] # "proposed" /\ pc'[q] = "dead")
    BY <2>1 DEF Final
  <2> QED
    BY <2>1, <2>2, <1>b, <1>c, NothingRuns DEF Waiting, Cleared
<1> QED
  BY <1>1, <1>2, <1>3, <1>4, <1>5, <1>6, <1>7, <1>8, <1>9, <1>10, <1>11 DEF Next

-----------------------------------------------------------------------------
(***************************************************************************)
(* The theorems.                                                           *)
(***************************************************************************)

LEMMA Invariance == Spec => []IInv
<1>1. Init => IInv
  BY InitIInv
<1>2. IInv /\ [Next]_vars => IInv'
  BY TypeStep, SpendStep DEF IInv, SpendInv
<1> QED
  BY <1>1, <1>2, PTL DEF Spec

\* The state has its shape, and no entry or marker outlives its TTL
\* (InMemoryProposalStore), for any requests and any clock.
THEOREM TypeCorrect == Spec => []TypeOK
<1>1. IInv => TypeOK
  BY DEF IInv
<1> QED
  BY <1>1, Invariance, PTL

\* A token is spent at most as often as it was put in the store, whatever
\* confirmations race, expire or die (consume, InMemoryProposalStore.add).
THEOREM SpentAtMostOncePerIssue == Spec => []OneShot
<1>1. IInv => OneShot
  BY DEF IInv
<1> QED
  BY <1>1, Invariance, PTL

LEMMA AuditInvariance == Spec => []AuditInv
<1>1. Init => AuditInv
  BY InitAudit
<1>2. IInv /\ AuditInv /\ [Next]_vars => AuditInv'
  BY AuditStep DEF IInv
<1> QED
  BY <1>1, <1>2, Invariance, PTL DEF Spec

\* What a finished call and its audit trail say of each other (_run_write):
\* ok and a success record mean the mutation happened, and an error after the
\* mutation left a record unless the failure record itself was cut short, by
\* the summary of the failure or by the sink.
THEOREM TrailAccountsForMutations == Spec => []AuditAccountsForMutations
<1>1. AuditInv => AuditAccountsForMutations
  BY DEF AuditInv
<1> QED
  BY <1>1, AuditInvariance, PTL

LEMMA ApprovalInvariance == Spec => []ApprovalInv
<1>1. Init => ApprovalInv
  BY InitApproval
<1>2. IInv /\ AuditInv /\ ApprovalInv /\ [Next]_vars => ApprovalInv'
  BY ApprovalStep DEF IInv, AuditInv
<1> QED
  BY <1>1, <1>2, Invariance, AuditInvariance, PTL DEF Spec

\* For a caller and parameters no more mutations ran than proposals of
\* exactly those were shown, whatever tokens the two were made of, whatever
\* confirmations raced and wherever the process died (execute, consume).
THEOREM MutationsAreProposed == Spec => []MutationsWereProposed
<1>1. IInv /\ AuditInv /\ ApprovalInv => MutationsWereProposed
  BY ApprovalsCover DEF IInv, AuditInv
<1> QED
  BY <1>1, Invariance, AuditInvariance, ApprovalInvariance, PTL

\* The proposals, the confirmations and the writes of _run_write are offers
\* and approvals: what runs was offered with its caller and parameters, and
\* an approval is used up by the one request that got it.
THEOREM WritesImplementApprovals == Spec => ImplementsApprovals
<1>1. IInv /\ AuditInv /\ ApprovalInv => PromiseInv
  BY DEF IInv, SpendInv, PromiseInv
<1>2. PromiseInv /\ PromiseInv' /\ [Next]_vars => [Promised!Next]_(Promised!vars)
  BY PromisedStep
<1> QED
  BY <1>1, <1>2, PromisedInit, Invariance, AuditInvariance, ApprovalInvariance, PTL
  DEF Spec, ImplementsApprovals, Promised!Spec

=============================================================================
