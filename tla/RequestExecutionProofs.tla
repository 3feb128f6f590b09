----------------------- MODULE RequestExecutionProofs -----------------------
(***************************************************************************)
(* Proofs about the gates and the requests that go through them, for any   *)
(* number of requests, credentials, providers, limiters, limits and        *)
(* retries: what holds of the gates alone; that the request loop           *)
(* implements them, so that it holds of the requests, too; and what holds  *)
(* while the configuration stays as it is and the credits fallback, which  *)
(* goes past the gates, is off.  Then about the records of what requests   *)
(* used: that no subscription to the usage queue has a gap, and that what  *)
(* the queue keeps is popped once and in order, for any number of records  *)
(* and subscribers, any capacity, retention and compaction.                *)
(***************************************************************************)
EXTENDS RequestExecution, UsagePipeline, FiniteSetTheorems, SequenceTheorems, WellFoundedInduction,
        TLAPS

-----------------------------------------------------------------------------
(* The gates alone. *)

\* What a request has in its hands at each phase.
PhaseOK ==
    \A r \in Requests :
        /\ phase[r] = "outside" <=> asked[r] = Nil
        /\ phase[r] \in {"outside", "limitRead"} => at[r] = Nil
        /\ phase[r] = "queued" => at[r] \in Limiters

\* The channel's capacity.
SemsFit == \A l \in Limiters : sem[l] <= limit[l]

IndInv == TypeOK /\ PhaseOK /\ PermitAccounting /\ SemsFit

\* The holders of a limiter are finitely many, so they can be counted.
LEMMA HoldersFinite ==
    ASSUME NEW l
    PROVE  IsFiniteSet(Holders(l)) /\ Cardinality(Holders(l)) \in Nat
  <1>1. Holders(l) \in SUBSET Requests
    BY DEF Holders
  <1>2. IsFiniteSet(Holders(l))
    BY <1>1, RequestsFinite, FS_Subset
  <1> QED
    BY <1>2, FS_CardinalityType

\* Nobody holds a permit at the start.
LEMMA InitIndInv == GateInit => IndInv
  <1> SUFFICES ASSUME GateInit PROVE IndInv
    OBVIOUS
  <1>1. TypeOK
    BY DEF GateInit, TypeOK, Phases
  <1>2. PhaseOK
    BY DEF GateInit, PhaseOK
  <1>3. ASSUME NEW l \in Limiters PROVE sem[l] = Cardinality(Holders(l))
    <2>1. Holders(l) = {}
      BY DEF GateInit, Holders
    <2> QED
      BY <2>1, FS_EmptySet DEF GateInit
  <1>4. SemsFit
    BY DEF GateInit, SemsFit
  <1> QED
    BY <1>1, <1>2, <1>3, <1>4 DEF IndInv, PermitAccounting

\* A step that leaves the permits alone leaves the accounting alone.
LEMMA SameHolders ==
    ASSUME PermitAccounting, sem' = sem, \A l \in Limiters : Holders(l)' = Holders(l)
    PROVE  PermitAccounting'
  BY DEF PermitAccounting

\* Reloading the configuration touches no permit.
LEMMA ReloadIndInv == IndInv /\ Reload => IndInv'
  <1> SUFFICES ASSUME IndInv, Reload PROVE IndInv'
    OBVIOUS
  <1> USE DEF IndInv, Reload
  <1>1. TypeOK'
    BY DEF TypeOK
  <1>2. PhaseOK' /\ SemsFit'
    BY DEF PhaseOK, SemsFit
  <1>3. PermitAccounting'
    BY DEF PermitAccounting, Holders
  <1> QED
    BY <1>1, <1>2, <1>3

\* An ungated call is admitted without a limiter: it holds no permit.
LEMMA ReadLimitIndInv ==
    ASSUME IndInv, NEW r \in Requests, NEW p \in Providers, ReadLimit(r, p)
    PROVE  IndInv'
  <1> USE DEF IndInv, ReadLimit
  <1>1. TypeOK'
    BY DEF TypeOK, Phases, Asked
  <1>2. PhaseOK'
    <2>1. [provider |-> p, limit |-> cfg[p]] \in Asked
      BY DEF TypeOK, Asked
    <2>2. asked'[r] # Nil /\ at[r] = Nil
      BY <2>1, NilIsNotAsked DEF TypeOK, PhaseOK
    <2> QED
      BY <2>2 DEF PhaseOK, TypeOK, Phases
  <1>3. \A l \in Limiters : Holders(l)' = Holders(l)
    BY NilIsNoLimiter DEF Holders, PhaseOK, TypeOK
  <1>4. PermitAccounting'
    BY <1>3, SameHolders
  <1>5. SemsFit'
    BY DEF SemsFit
  <1> QED
    BY <1>1, <1>2, <1>4, <1>5

\* A request that finds or replaces the gate holds no permit yet, and nobody
\* holds one of a limiter nobody refers to.
LEMMA LimiterForIndInv ==
    ASSUME IndInv, NEW r \in Requests, LimiterFor(r)
    PROVE  IndInv'
  <1> USE DEF IndInv, LimiterFor
  <1>1. asked[r] \in Asked /\ asked[r].provider \in Providers /\ asked[r].limit \in Nat
    BY LimitsAreNat DEF PhaseOK, TypeOK, Asked
  <1>2. CASE KeepGate(r)
    <2>1. at'[r] \in Limiters
      BY <1>1, <1>2 DEF KeepGate, TypeOK
    <2>2. TypeOK'
      BY <1>2, <2>1 DEF KeepGate, TypeOK, Phases
    <2>3. PhaseOK'
      BY <1>2, <2>1 DEF KeepGate, TypeOK, PhaseOK
    <2>4. \A l \in Limiters : Holders(l)' = Holders(l)
      BY <1>2 DEF KeepGate, Holders, TypeOK
    <2>5. PermitAccounting'
      BY <1>2, <2>4, SameHolders DEF KeepGate
    <2>6. SemsFit'
      BY <1>2 DEF KeepGate, SemsFit
    <2> QED
      BY <2>2, <2>3, <2>5, <2>6
  <1>3. CASE ReplaceGate(r)
    <2>1. PICK l \in Unreferenced :
            /\ gate' = [gate EXCEPT ![asked[r].provider] = l]
            /\ limit' = [limit EXCEPT ![l] = asked[r].limit]
            /\ sem' = [sem EXCEPT ![l] = 0]
            /\ at' = [at EXCEPT ![r] = l]
      BY <1>3 DEF ReplaceGate
    <2>2. l \in Limiters /\ \A q \in Requests : at[q] # l
      BY DEF Unreferenced
    <2>3. TypeOK'
      BY <1>1, <2>1, <2>2 DEF TypeOK, Phases
    <2>4. PhaseOK'
      BY <2>1, <2>2 DEF TypeOK, PhaseOK
    <2>5. \A k \in Limiters : Holders(k)' = Holders(k)
      BY <2>1, <2>2 DEF Holders, TypeOK
    <2>6. Holders(l) = {}
      BY <2>2 DEF Holders
    <2>7. PermitAccounting'
      <3>1. ASSUME NEW k \in Limiters PROVE sem'[k] = Cardinality(Holders(k)')
        <4>1. CASE k = l
          BY <4>1, <2>1, <2>2, <2>5, <2>6, FS_EmptySet DEF TypeOK
        <4>2. CASE k # l
          BY <4>2, <2>1, <2>5 DEF TypeOK, PermitAccounting
        <4> QED
          BY <4>1, <4>2
      <3> QED
        BY <3>1 DEF PermitAccounting
    <2>8. SemsFit'
      BY <1>1, <2>1, <2>2 DEF TypeOK, SemsFit
    <2> QED
      BY <2>3, <2>4, <2>7, <2>8
  <1> QED
    BY <1>2, <1>3

\* An admitted request adds one element to the channel and one holder.
LEMMA AdmitIndInv ==
    ASSUME IndInv, NEW r \in Requests, Admit(r)
    PROVE  IndInv'
  <1> USE DEF IndInv, Admit
  <1>1. at[r] \in Limiters
    BY DEF PhaseOK
  <1>2. TypeOK'
    BY <1>1 DEF TypeOK, Phases
  <1>3. PhaseOK'
    BY DEF PhaseOK, TypeOK
  <1>4. Holders(at[r])' = Holders(at[r]) \cup {r} /\ r \notin Holders(at[r])
    BY DEF Holders, TypeOK
  <1>5. ASSUME NEW l \in Limiters, l # at[r] PROVE Holders(l)' = Holders(l)
    BY <1>5 DEF Holders, TypeOK
  <1>6. ASSUME NEW l \in Limiters PROVE sem'[l] = Cardinality(Holders(l)')
    <2>1. CASE l = at[r]
      <3>1. Cardinality(Holders(l)') = Cardinality(Holders(l)) + 1
        BY <1>4, <2>1, HoldersFinite, FS_AddElement
      <3> QED
        BY <3>1, <2>1, <1>1 DEF TypeOK, PermitAccounting
    <2>2. CASE l # at[r]
      BY <2>2, <1>5, <1>1 DEF TypeOK, PermitAccounting
    <2> QED
      BY <2>1, <2>2
  <1>7. SemsFit'
    BY <1>1 DEF SemsFit, TypeOK
  <1> QED
    BY <1>2, <1>3, <1>6, <1>7 DEF PermitAccounting

\* A request that gives up waiting never held a permit.
LEMMA GiveUpIndInv ==
    ASSUME IndInv, NEW r \in Requests, GiveUp(r)
    PROVE  IndInv'
  <1> USE DEF IndInv, GiveUp
  <1>1. TypeOK'
    BY DEF TypeOK, Phases
  <1>2. PhaseOK'
    BY DEF PhaseOK, TypeOK
  <1>3. \A l \in Limiters : Holders(l)' = Holders(l)
    BY DEF Holders, TypeOK
  <1>4. PermitAccounting'
    BY <1>3, SameHolders
  <1>5. SemsFit'
    BY DEF SemsFit
  <1> QED
    BY <1>1, <1>2, <1>4, <1>5

\* Whoever releases a permit is one of its limiter's holders, so the channel
\* is not empty.
LEMMA HolderOccupies ==
    ASSUME IndInv, NEW r \in Requests, phase[r] = "admitted", at[r] # Nil
    PROVE  sem[at[r]] > 0
  <1>1. at[r] \in Limiters
    BY DEF IndInv, TypeOK
  <1>2. Holders(at[r]) # {}
    BY DEF Holders
  <1>3. Cardinality(Holders(at[r])) # 0
    BY <1>2, HoldersFinite, FS_EmptySet
  <1> QED
    BY <1>1, <1>3, HoldersFinite DEF IndInv, PermitAccounting, TypeOK

\* A release takes one element from the channel and one holder away.
LEMMA ReleaseIndInv ==
    ASSUME IndInv, NEW r \in Requests, Release(r)
    PROVE  IndInv'
  <1> USE DEF IndInv, Release
  <1>1. PhaseOK'
    BY DEF PhaseOK, TypeOK
  <1>2. CASE at[r] = Nil
    <2>1. TypeOK' /\ SemsFit'
      BY <1>2 DEF TypeOK, Phases, SemsFit
    <2>2. \A l \in Limiters : Holders(l)' = Holders(l)
      BY <1>2, NilIsNoLimiter DEF Holders, TypeOK
    <2>3. PermitAccounting'
      BY <1>2, <2>2, SameHolders
    <2> QED
      BY <1>1, <2>1, <2>3
  <1>3. CASE at[r] # Nil
    <2>1. at[r] \in Limiters
      BY <1>3 DEF TypeOK
    <2>2. sem' = [sem EXCEPT ![at[r]] = sem[at[r]] - 1] /\ sem[at[r]] \in Nat \ {0}
      BY <1>3, <2>1, HolderOccupies DEF TakeBack, TypeOK
    <2>3. TypeOK'
      BY <2>1, <2>2 DEF TypeOK, Phases
    <2>4. SemsFit'
      BY <2>1, <2>2 DEF SemsFit, TypeOK
    <2>5. ASSUME NEW l \in Limiters, l = at[r]
          PROVE  Holders(l)' = Holders(l) \ {r} /\ r \in Holders(l)
      BY <1>3, <2>5, NilIsNoLimiter DEF Holders, TypeOK
    <2>6. ASSUME NEW l \in Limiters, l # at[r] PROVE Holders(l)' = Holders(l)
      BY <2>6, NilIsNoLimiter DEF Holders, TypeOK
    <2>7. ASSUME NEW l \in Limiters PROVE sem'[l] = Cardinality(Holders(l)')
      <3>1. CASE l = at[r]
        <4>1. Cardinality(Holders(l)') = Cardinality(Holders(l)) - 1
          BY <2>5, <3>1, HoldersFinite, FS_RemoveElement
        <4> QED
          BY <4>1, <3>1, <2>1, <2>2 DEF TypeOK, PermitAccounting
      <3>2. CASE l # at[r]
        BY <3>2, <2>1, <2>2, <2>6 DEF TypeOK, PermitAccounting
      <3> QED
        BY <3>1, <3>2
    <2> QED
      BY <1>1, <2>3, <2>4, <2>7 DEF PermitAccounting
  <1> QED
    BY <1>2, <1>3

\* No step of a gate, and no stutter, breaks the invariant.
LEMMA NextIndInv == IndInv /\ [GateNext]_gateVars => IndInv'
  <1> SUFFICES ASSUME IndInv, [GateNext]_gateVars PROVE IndInv'
    OBVIOUS
  <1>1. CASE UNCHANGED gateVars
    BY <1>1 DEF IndInv, TypeOK, PhaseOK, PermitAccounting, SemsFit, Holders, gateVars
  <1>2. CASE Reload
    BY <1>2, ReloadIndInv
  <1>3. ASSUME NEW r \in Requests, RequestStep(r) PROVE IndInv'
    BY <1>3, ReadLimitIndInv, LimiterForIndInv, AdmitIndInv, GiveUpIndInv, ReleaseIndInv
       DEF RequestStep
  <1> QED
    BY <1>1, <1>2, <1>3 DEF GateNext

\* The invariant holds in every state of every behaviour of the gates.
THEOREM GateIndInv == GateSpec => []IndInv
  <1> QED
    BY InitIndInv, NextIndInv, PTL DEF GateSpec

\* The gates' state keeps its type.
THEOREM GateTypeOK == GateSpec => []TypeOK
  <1>1. IndInv => TypeOK
    BY DEF IndInv
  <1> QED
    BY <1>1, GateIndInv, PTL

\* A limiter's channel holds exactly one element per outstanding permit, however
\* often the configuration is reloaded: permits neither leak nor return twice.
THEOREM GateAccounting == GateSpec => []PermitAccounting
  <1>1. IndInv => PermitAccounting
    BY DEF IndInv
  <1> QED
    BY <1>1, GateIndInv, PTL

\* No limiter admits more calls than the limit it was created with.
THEOREM GateWithinOwnLimit == GateSpec => []WithinOwnLimit
  <1>1. IndInv => WithinOwnLimit
    BY DEF IndInv, PermitAccounting, SemsFit, WithinOwnLimit
  <1> QED
    BY <1>1, GateIndInv, PTL

\* Permit.Release never finds the channel empty: its warning cannot be logged.
THEOREM GateNoReleaseWithoutAcquire == GateSpec => []NoReleaseWithoutAcquire
  <1>1. IndInv => NoReleaseWithoutAcquire
    BY HolderOccupies DEF NoReleaseWithoutAcquire
  <1> QED
    BY <1>1, GateIndInv, PTL

-----------------------------------------------------------------------------
(* Requests that go through the gates. *)

\* Every step of a request is a step of its gate or leaves the gates alone.
LEMMA RoundUsesGate ==
    ASSUME NEW r \in Requests, Round(r)
    PROVE  RequestStep(r) \/ UNCHANGED gateVars
  <1>1. CASE PickUnusable(r) \/ PickFails(r)
    BY <1>1 DEF PickUnusable, PickFails
  <1>2. CASE Pick(r)
    <2>1. PICK a \in Auths : ReadLimit(r, ProviderOf[a])
      BY <1>2 DEF Pick
    <2>2. ProviderOf[a] \in Providers
      BY ExecutionAssumption
    <2> QED
      BY <2>1, <2>2 DEF RequestStep
  <1>3. CASE LookUpGate(r) \/ Admitted(r) \/ NotAdmitted(r)
    BY <1>3 DEF LookUpGate, Admitted, NotAdmitted, RequestStep
  <1> QED
    BY <1>1, <1>2, <1>3 DEF Round

\* The end of a call or of its stream releases the permit or leaves the gates alone.
LEMMA CallUsesGate ==
    ASSUME NEW r \in Requests, Call(r)
    PROVE  RequestStep(r) \/ UNCHANGED gateVars
  <1>1. CASE StreamCloses(r) \/ StreamDropped(r)
    BY <1>1 DEF StreamCloses, StreamDropped, LeaveStream, RequestStep
  <1>2. CASE CallSucceeds(r) \/ CallAbandoned(r) \/ CallInvalid(r) \/ NextCredential(r)
    BY <1>2 DEF CallSucceeds, CallAbandoned, CallInvalid, NextCredential, RequestStep
  <1>3. CASE StreamOpens(r) \/ NextModel(r) \/ StreamErrs(r)
    BY <1>3 DEF StreamOpens, NextModel, StreamErrs
  <1> QED
    BY <1>1, <1>2, <1>3 DEF Call

\* Waits, retries and the credits fallback take no permit.
LEMMA BetweenLeavesGate ==
    ASSUME NEW r \in Requests, Between(r)
    PROVE  UNCHANGED gateVars
  BY DEF Between, Retry, WaitOver, WaitCancelled, Answer, TryCredits, CreditsPick,
         CreditsExhausted, CreditsSucceed, CreditsFail

\* Every step of the whole system is a step of the gates or stutters.
LEMMA StepUsesGate == [Next]_vars => [GateNext]_gateVars
  <1> SUFFICES ASSUME [Next]_vars PROVE [GateNext]_gateVars
    OBVIOUS
  <1>1. CASE UNCHANGED vars
    BY <1>1 DEF vars
  <1>2. CASE ReloadConfig
    BY <1>2 DEF ReloadConfig, GateNext
  <1>3. ASSUME NEW r \in Requests, Serve(r) PROVE [GateNext]_gateVars
    BY <1>3, RoundUsesGate, CallUsesGate, BetweenLeavesGate DEF Serve, GateNext
  <1>4. ASSUME NEW r \in Requests, Cancel(r) PROVE [GateNext]_gateVars
    BY <1>4 DEF Cancel
  <1> QED
    BY <1>1, <1>2, <1>3, <1>4 DEF Next, StableNext

\* What is proved of the gates holds of the request loop.
LEMMA ExecutionImplementsGate == Spec => GateSpec
  <1>1. Init => GateInit
    BY DEF Init
  <1> QED
    BY <1>1, StepUsesGate, PTL DEF Spec, GateSpec

\* No path through a request - success, failure, retry, cancellation, a stream
\* that breaks off - leaks a permit or returns one twice.
THEOREM ExecutionAccounting == Spec => []PermitAccounting
  <1> QED
    BY ExecutionImplementsGate, GateAccounting, PTL

-----------------------------------------------------------------------------
(* Permits against calls, calls against results.                            *)

\* Calls begun and not recorded that a request still owes a result for.
Due(q) == IF \/ q.pc \in {"call", "creditsCall"}
             \/ q.pc = "stream" /\ ~q.erred
          THEN 1 ELSE 0

\* What holds of a request q whose gate is in phase ph.  Two parts are there for
\* the induction: an error chunk is only remembered inside its stream, and only a
\* request with a round left waits for one.
Sound(q, ph) ==
    /\ ph = "admitted" => q.pc \in {"call", "stream"}
    /\ ph \in {"limitRead", "queued"} => q.pc = "acquire"
    /\ q.pc = "call" => ph = "admitted"
    /\ q.open >= Due(q) /\ (q.cancelled \/ q.open = Due(q))
    /\ q.erred => q.pc = "stream"
    /\ q.pc = "wait" => q.round < MaxRetry

ExecInv == ExecTypeOK /\ \A r \in Requests : Sound(req[r], phase[r])

\* The invariant is one of each request: a step that moves one of them need only
\* be looked at there.
LEMMA OneRequestMoves ==
    ASSUME ExecInv, TypeOK', NEW r \in Requests, NEW q \in Requested, NEW ph,
           req' = [req EXCEPT ![r] = q], phase' = [phase EXCEPT ![r] = ph],
           Sound(q, ph)
    PROVE  ExecInv'
  <1>1. ExecTypeOK'
    BY DEF ExecInv, ExecTypeOK
  <1>2. ASSUME NEW s \in Requests PROVE Sound(req[s], phase[s])'
    <2>1. CASE s = r
      <3>1. req'[s] = q /\ phase'[s] = ph
        BY <2>1 DEF ExecInv, ExecTypeOK, TypeOK
      <3> QED
        BY <3>1 DEF Sound, Due
    <2>2. CASE s # r
      <3>1. req'[s] = req[s] /\ phase'[s] = phase[s]
        BY <2>2 DEF ExecInv, ExecTypeOK, TypeOK
      <3> QED
        BY <3>1 DEF ExecInv, Sound, Due
    <2> QED
      BY <2>1, <2>2
  <1> QED
    BY <1>1, <1>2 DEF ExecInv

\* The same for a step that leaves the gates alone.
LEMMA OneRequestMovesAlone ==
    ASSUME ExecInv, NEW r \in Requests, NEW q \in Requested,
           req' = [req EXCEPT ![r] = q], UNCHANGED gateVars,
           Sound(q, phase[r])
    PROVE  ExecInv'
  <1>1. TypeOK'
    BY DEF ExecInv, ExecTypeOK, TypeOK, gateVars
  <1>2. phase' = [phase EXCEPT ![r] = phase[r]]
    BY DEF ExecInv, ExecTypeOK, TypeOK, gateVars
  <1> QED
    BY <1>1, <1>2, OneRequestMoves

\* One field of a request may be changed for another value of its type.
LEMMA FieldChanges ==
    ASSUME NEW q \in Requested
    PROVE  /\ \A pc \in {"pick", "acquire", "call", "stream", "failed",
                          "wait", "creditsPick", "creditsCall", "done"} :
                  [q EXCEPT !.pc = pc] \in Requested
           /\ \A S \in SUBSET Auths : /\ [q EXCEPT !.tried = S] \in Requested
                                      /\ [q EXCEPT !.attempted = S] \in Requested
           /\ \A e \in Errors : /\ [q EXCEPT !.err = e] \in Requested
                                 /\ [q EXCEPT !.lastErr = e] \in Requested
           /\ \A n \in 0..PoolSize : [q EXCEPT !.pool = n] \in Requested
           /\ \A n \in 0..MaxRetry : [q EXCEPT !.round = n] \in Requested
           /\ \A n \in Int : [q EXCEPT !.open = n] \in Requested
           /\ \A b \in BOOLEAN : /\ [q EXCEPT !.cancelled = b] \in Requested
                                 /\ [q EXCEPT !.erred = b] \in Requested
           /\ \A p \in Providers : [q EXCEPT !.onto = p] \in Requested
  BY DEF Requested

\* A round that ended with an error is in range and keeps the books of the request.
LEMMA FailsKeeps ==
    ASSUME NEW q \in Requested, NEW e \in Errors
    PROVE  /\ Fails(q, e) \in Requested
           /\ Fails(q, e).pc = "failed" /\ ~Fails(q, e).erred
           /\ Fails(q, e).open = q.open /\ Fails(q, e).cancelled = q.cancelled
  <1> DEFINE a == Arriving(q.stream)
             b == [a EXCEPT !.pc = "failed"]
             c == [b EXCEPT !.err = e]
             d == [c EXCEPT !.round = q.round]
             f == [d EXCEPT !.open = q.open]
             g == [f EXCEPT !.cancelled = q.cancelled]
  <1>1. a \in Requested
    BY ExecutionAssumption DEF Arriving, Requested, Errors
  <1>2. /\ q.round \in 0..MaxRetry /\ q.open \in Int /\ q.cancelled \in BOOLEAN
    BY DEF Requested
  <1>3. g \in Requested
    <2> HIDE DEF a
    <2>1. b \in Requested
      BY <1>1, FieldChanges
    <2> HIDE DEF b
    <2>2. c \in Requested
      BY <2>1, FieldChanges
    <2> HIDE DEF c
    <2>3. d \in Requested
      BY <1>2, <2>2, FieldChanges
    <2> HIDE DEF d
    <2>4. f \in Requested
      BY <1>2, <2>3, FieldChanges
    <2> HIDE DEF f
    <2> QED
      BY <1>2, <2>4, FieldChanges
  <1>4. Fails(q, e) = g
    BY Zenon DEF Fails
  <1>5. /\ Fails(q, e).pc = "failed" /\ ~Fails(q, e).erred
        /\ Fails(q, e).open = q.open /\ Fails(q, e).cancelled = q.cancelled
    BY DEF Fails, Arriving
  <1> QED
    BY <1>3, <1>4, <1>5

\* So is a request that is over.
LEMMA OverKeeps ==
    ASSUME NEW q \in Requested
    PROVE  /\ Over(q) \in Requested
           /\ Over(q).pc = "done" /\ ~Over(q).erred
           /\ Over(q).open = q.open /\ Over(q).cancelled = q.cancelled
  <1> DEFINE a == Arriving(q.stream)
             b == [a EXCEPT !.pc = "done"]
             c == [b EXCEPT !.open = q.open]
             d == [c EXCEPT !.cancelled = q.cancelled]
  <1>1. a \in Requested
    BY ExecutionAssumption DEF Arriving, Requested, Errors
  <1>2. q.open \in Int /\ q.cancelled \in BOOLEAN
    BY DEF Requested
  <1>3. d \in Requested
    <2> HIDE DEF a
    <2>1. b \in Requested
      BY <1>1, FieldChanges
    <2> HIDE DEF b
    <2>2. c \in Requested
      BY <1>2, <2>1, FieldChanges
    <2> HIDE DEF c
    <2> QED
      BY <1>2, <2>2, FieldChanges
  <1>4. Over(q) = d
    BY Zenon DEF Over
  <1>5. /\ Over(q).pc = "done" /\ ~Over(q).erred
        /\ Over(q).open = q.open /\ Over(q).cancelled = q.cancelled
    BY DEF Over, Arriving
  <1> QED
    BY <1>3, <1>4, <1>5

\* A recorded result takes one call off the books.
LEMMA MarkedKeeps ==
    ASSUME NEW q \in Requested
    PROVE  /\ Marked(q) \in Requested
           /\ Marked(q).open = q.open - 1
           /\ Marked(q).pc = q.pc /\ Marked(q).erred = q.erred
           /\ Marked(q).cancelled = q.cancelled /\ Marked(q).round = q.round
           /\ Marked(q).stream = q.stream
  BY DEF Marked, Requested

\* What a request in range has in its fields.
LEMMA Fields ==
    ASSUME ExecInv, NEW r \in Requests
    PROVE  /\ req[r] \in Requested
           /\ req[r].pc \in {"pick", "acquire", "call", "stream", "failed",
                             "wait", "creditsPick", "creditsCall", "done"}
           /\ req[r].tried \in SUBSET Auths /\ req[r].attempted \in SUBSET Auths
           /\ req[r].lastErr \in Errors /\ req[r].err \in Errors
           /\ req[r].pool \in 0..PoolSize /\ req[r].round \in 0..MaxRetry
           /\ req[r].cancelled \in BOOLEAN /\ req[r].erred \in BOOLEAN
           /\ req[r].open \in Int
           /\ phase[r] \in Phases /\ phase \in [Requests -> Phases]
           /\ req \in [Requests -> Requested]
           /\ Sound(req[r], phase[r])
           /\ MaxRetry \in Nat /\ PoolSize \in Nat
  BY ExecutionAssumption DEF ExecInv, ExecTypeOK, TypeOK, Requested

\* A round: a permit is asked for once a credential is picked, and given back or
\* never had when the round ends.
LEMMA RoundKeeps ==
    ASSUME ExecInv, TypeOK', NEW r \in Requests, Round(r)
    PROVE  ExecInv'
  <1> USE Fields
  <1>1. CASE PickUnusable(r)
    <2>1. PICK a \in Auths : req' = [req EXCEPT ![r].tried = @ \cup {a}]
      BY <1>1 DEF PickUnusable
    <2> DEFINE q == [req[r] EXCEPT !.tried = req[r].tried \cup {a}]
    <2>2. q \in Requested
      BY FieldChanges
    <2>3. Sound(q, phase[r])
      BY DEF Sound, Due, Requested
    <2>4. req' = [req EXCEPT ![r] = q]
      BY <2>1
    <2> QED
      BY <1>1, <2>2, <2>3, <2>4, OneRequestMovesAlone DEF PickUnusable
  <1>2. CASE Pick(r)
    <2>1. PICK a \in Auths, n \in 1..PoolSize :
            /\ ReadLimit(r, ProviderOf[a])
            /\ LET gated == cfg[ProviderOf[a]] > 0 IN
               req' = [req EXCEPT
                 ![r].tried = @ \cup {a}, ![r].attempted = @ \cup {a},
                 ![r].pool = n, ![r].onto = ProviderOf[a],
                 ![r].pc = IF gated THEN "acquire" ELSE "call",
                 ![r].open = IF gated THEN @ ELSE @ + 1]
      BY <1>2 DEF Pick
    <2>2. ProviderOf[a] \in Providers /\ cfg[ProviderOf[a]] \in Nat
      BY ExecutionAssumption, LimitsAreNat DEF ExecInv, ExecTypeOK, TypeOK
    <2> DEFINE gated == cfg[ProviderOf[a]] > 0
               q1 == [req[r] EXCEPT !.tried = req[r].tried \cup {a}]
               q2 == [q1 EXCEPT !.attempted = req[r].attempted \cup {a}]
               q3 == [q2 EXCEPT !.pool = n]
               q4 == [q3 EXCEPT !.onto = ProviderOf[a]]
               q5 == [q4 EXCEPT !.pc = IF gated THEN "acquire" ELSE "call"]
               q  == [q5 EXCEPT !.open = IF gated THEN req[r].open ELSE req[r].open + 1]
               ph == IF cfg[ProviderOf[a]] = 0 THEN "admitted" ELSE "limitRead"
    <2>3. q \in Requested
      <3>0. /\ n \in 0..PoolSize
            /\ (IF gated THEN req[r].open ELSE req[r].open + 1) \in Int
        OBVIOUS
      <3>1. q1 \in Requested
        BY FieldChanges
      <3> HIDE DEF q1
      <3>2. q2 \in Requested
        BY <3>1, FieldChanges
      <3> HIDE DEF q2
      <3>3. q3 \in Requested
        BY <3>0, <3>2, FieldChanges
      <3> HIDE DEF q3
      <3>4. q4 \in Requested
        BY <2>2, <3>3, FieldChanges
      <3> HIDE DEF q4
      <3>5. q5 \in Requested
        BY <3>4, FieldChanges
      <3> HIDE DEF q5
      <3> QED
        BY <3>0, <3>5, FieldChanges
    <2>4. phase[r] = "outside" /\ phase' = [phase EXCEPT ![r] = ph]
      BY <2>1 DEF ReadLimit
    <2>5. /\ q.pc = IF gated THEN "acquire" ELSE "call"
          /\ q.open = IF gated THEN req[r].open ELSE req[r].open + 1
          /\ q.erred = req[r].erred /\ q.cancelled = req[r].cancelled
      BY DEF Requested
    <2>6. req[r].pc = "pick"
      BY <1>2 DEF Pick
    <2>7. req' = [req EXCEPT ![r] = q]
      BY <2>1
    <2>8. Sound(q, ph)
      <3> HIDE DEF q
      <3> QED
        BY <2>2, <2>5, <2>6 DEF Sound, Due
    <2> HIDE DEF q, ph
    <2> QED
      BY <2>3, <2>4, <2>7, <2>8, OneRequestMoves
  <1>3. CASE PickFails(r)
    <2> DEFINE e == IF req[r].lastErr # "none" THEN req[r].lastErr ELSE "noAuth"
               q == Fails(req[r], e)
    <2>1. e \in Errors
      BY DEF Errors
    <2> HIDE DEF e
    <2>2. q \in Requested /\ Sound(q, phase[r])
      BY <1>3, <2>1, FailsKeeps, SMTT(30) DEF PickFails, Sound, Due
    <2>3. req' = [req EXCEPT ![r] = q]
      BY <1>3 DEF PickFails, e
    <2> QED
      BY <1>3, <2>2, <2>3, OneRequestMovesAlone DEF PickFails
  <1>4. CASE LookUpGate(r)
    <2>1. req' = [req EXCEPT ![r] = req[r]]
      BY <1>4 DEF LookUpGate
    <2>2. phase' = [phase EXCEPT ![r] = "queued"]
      BY <1>4 DEF LookUpGate, LimiterFor
    <2>3. Sound(req[r], "queued")
      BY <1>4 DEF LookUpGate, LimiterFor, Sound, Due
    <2> QED
      BY <2>1, <2>2, <2>3, OneRequestMoves
  <1>5. CASE Admitted(r)
    <2> DEFINE q1 == [req[r] EXCEPT !.pc = "call"]
               q  == [q1 EXCEPT !.open = req[r].open + 1]
    <2>1. q1 \in Requested
      BY FieldChanges
    <2>2. q \in Requested
      <3>1. req[r].open + 1 \in Int
        OBVIOUS
      <3> HIDE DEF q1
      <3> QED
        BY <2>1, <3>1, FieldChanges
    <2>3. Sound(q, "admitted")
      BY <1>5 DEF Admitted, Admit, Sound, Due, Requested
    <2>4. /\ req' = [req EXCEPT ![r] = q]
          /\ phase' = [phase EXCEPT ![r] = "admitted"]
      BY <1>5 DEF Admitted, Admit
    <2> QED
      BY <2>2, <2>3, <2>4, OneRequestMoves
  <1>6. CASE NotAdmitted(r)
    <2> DEFINE e == IF req[r].cancelled THEN "ctx" ELSE "timeout"
               q == Fails(req[r], e)
    <2>1. e \in Errors
      BY DEF Errors
    <2>2. /\ req' = [req EXCEPT ![r] = q]
          /\ phase' = [phase EXCEPT ![r] = "outside"]
      BY <1>6 DEF NotAdmitted, GiveUp
    <2> HIDE DEF e
    <2>3. q \in Requested /\ Sound(q, "outside")
      BY <1>6, <2>1, FailsKeeps, SMTT(30) DEF NotAdmitted, Sound, Due
    <2> QED
      BY <2>2, <2>3, OneRequestMoves
  <1> QED
    BY <1>1, <1>2, <1>3, <1>4, <1>5, <1>6 DEF Round

\* The end of a call: its result is on the books and its permit given back, or
\* both pass to the stream.
LEMMA CallKeeps ==
    ASSUME ExecInv, TypeOK', NEW r \in Requests, Call(r)
    PROVE  ExecInv'
  <1> USE Fields
  <1> DEFINE m == Marked(req[r])
  <1>0. /\ m \in Requested /\ m.open = req[r].open - 1
        /\ m.pc = req[r].pc /\ m.erred = req[r].erred /\ m.cancelled = req[r].cancelled
    BY MarkedKeeps
  <1> HIDE DEF m
  <1>1. CASE CallSucceeds(r)
    <2> DEFINE q == Over(m)
    <2>1. /\ req' = [req EXCEPT ![r] = q]
          /\ phase' = [phase EXCEPT ![r] = "outside"]
      BY <1>1 DEF CallSucceeds, Release, m
    <2>2. q \in Requested /\ Sound(q, "outside")
      BY <1>0, <1>1, OverKeeps DEF CallSucceeds, Sound, Due
    <2> QED
      BY <2>1, <2>2, OneRequestMoves
  <1>2. CASE StreamOpens(r)
    <2> DEFINE q == [req[r] EXCEPT !.pc = "stream"]
    <2>1. q \in Requested
      BY FieldChanges
    <2>2. Sound(q, phase[r])
      BY <1>2 DEF StreamOpens, Sound, Due, Requested
    <2>3. req' = [req EXCEPT ![r] = q]
      BY <1>2 DEF StreamOpens
    <2> QED
      BY <1>2, <2>1, <2>2, <2>3, OneRequestMovesAlone DEF StreamOpens
  <1>3. CASE CallAbandoned(r)
    <2> DEFINE q == Fails(req[r], "ctx")
    <2>1. /\ req' = [req EXCEPT ![r] = q]
          /\ phase' = [phase EXCEPT ![r] = "outside"]
      BY <1>3 DEF CallAbandoned, Release
    <2>2. "ctx" \in Errors
      BY DEF Errors
    <2>3. q \in Requested /\ Sound(q, "outside")
      BY <1>3, <2>2, FailsKeeps DEF CallAbandoned, Sound, Due
    <2> QED
      BY <2>1, <2>3, OneRequestMoves
  <1>4. CASE CallInvalid(r)
    <2> DEFINE e == IF req[r].cancelled THEN "ctx" ELSE "invalid"
               f == Fails(req[r], e)
               q == Marked(f)
    <2>1. e \in Errors
      BY DEF Errors
    <2>2. /\ req' = [req EXCEPT ![r] = q]
          /\ phase' = [phase EXCEPT ![r] = "outside"]
      BY <1>4 DEF CallInvalid, Release
    <2> HIDE DEF e
    <2>3. /\ f \in Requested /\ f.pc = "failed" /\ ~f.erred
          /\ f.open = req[r].open /\ f.cancelled = req[r].cancelled
      BY <2>1, FailsKeeps
    <2> HIDE DEF f
    <2>4. q \in Requested /\ Sound(q, "outside")
      BY <1>4, <2>3, MarkedKeeps DEF CallInvalid, Sound, Due
    <2> QED
      BY <2>2, <2>4, OneRequestMoves
  <1>5. CASE NextModel(r)
    <2> DEFINE q == [req[r] EXCEPT !.pool = req[r].pool - 1]
    <2>1. req[r].pool - 1 \in 0..PoolSize
      BY <1>5 DEF NextModel
    <2>2. q \in Requested
      BY <2>1, FieldChanges
    <2>3. Sound(q, phase[r])
      BY DEF Sound, Due, Requested
    <2>4. req' = [req EXCEPT ![r] = q]
      BY <1>5 DEF NextModel
    <2> QED
      BY <1>5, <2>2, <2>3, <2>4, OneRequestMovesAlone DEF NextModel
  <1>6. CASE NextCredential(r)
    <2>1. phase' = [phase EXCEPT ![r] = "outside"]
      BY <1>6 DEF NextCredential, Release
    <2>2. CASE req[r].stream /\ req[r].cancelled
      <3> DEFINE f == Fails(req[r], "ctx")
                 q == Marked(f)
      <3>1. req' = [req EXCEPT ![r] = q]
        BY <1>6, <2>2 DEF NextCredential
      <3>2. "ctx" \in Errors
        BY DEF Errors
      <3>3. /\ f \in Requested /\ f.pc = "failed" /\ ~f.erred
            /\ f.open = req[r].open /\ f.cancelled = req[r].cancelled
        BY <3>2, FailsKeeps
      <3> HIDE DEF f
      <3>4. q \in Requested /\ Sound(q, "outside")
        BY <1>6, <3>3, MarkedKeeps DEF NextCredential, Sound, Due
      <3> QED
        BY <2>1, <3>1, <3>4, OneRequestMoves
    <2>3. CASE ~(req[r].stream /\ req[r].cancelled)
      <3> DEFINE q1 == [m EXCEPT !.pc = "pick"]
                 q  == [q1 EXCEPT !.lastErr = "upstream"]
      <3>1. req' = [req EXCEPT ![r] = q]
        BY <1>6, <2>3 DEF NextCredential, m
      <3>2. q1 \in Requested
        BY <1>0, FieldChanges
      <3>3. q \in Requested
        <4>1. "upstream" \in Errors
          BY DEF Errors
        <4> HIDE DEF q1
        <4> QED
          BY <3>2, <4>1, FieldChanges
      <3>4. Sound(q, "outside")
        BY <1>0, <1>6 DEF NextCredential, Sound, Due, Requested
      <3> QED
        BY <2>1, <3>1, <3>3, <3>4, OneRequestMoves
    <2> QED
      BY <2>2, <2>3
  <1>7. CASE StreamErrs(r)
    <2> DEFINE q == [m EXCEPT !.erred = TRUE]
    <2>1. q \in Requested
      BY <1>0, FieldChanges
    <2>2. Sound(q, phase[r])
      BY <1>0, <1>7 DEF StreamErrs, Sound, Due, Requested
    <2>3. req' = [req EXCEPT ![r] = q]
      BY <1>7 DEF StreamErrs, m
    <2> QED
      BY <1>7, <2>1, <2>2, <2>3, OneRequestMovesAlone DEF StreamErrs
  <1>8. CASE StreamCloses(r) \/ StreamDropped(r)
    <2> DEFINE ph == IF phase[r] = "admitted" THEN "outside" ELSE phase[r]
    <2>1. phase' = [phase EXCEPT ![r] = ph]
      BY <1>8 DEF StreamCloses, StreamDropped, LeaveStream, Release, gateVars
    <2>2. CASE StreamDropped(r)
      <3>1. req' = [req EXCEPT ![r] = Over(req[r])]
        BY <2>2 DEF StreamDropped
      <3>2. Over(req[r]) \in Requested /\ Sound(Over(req[r]), ph)
        BY <2>2, OverKeeps DEF StreamDropped, Sound, Due
      <3> QED
        BY <2>1, <3>1, <3>2, OneRequestMoves
    <2>3. CASE StreamCloses(r) /\ req[r].erred
      <3>1. req' = [req EXCEPT ![r] = Over(req[r])]
        BY <2>3 DEF StreamCloses
      <3>2. Over(req[r]) \in Requested /\ Sound(Over(req[r]), ph)
        BY <2>3, OverKeeps DEF StreamCloses, Sound, Due
      <3> QED
        BY <2>1, <3>1, <3>2, OneRequestMoves
    <2>4. CASE StreamCloses(r) /\ ~req[r].erred
      <3>1. req' = [req EXCEPT ![r] = Over(m)]
        BY <2>4 DEF StreamCloses, m
      <3>2. Over(m) \in Requested /\ Sound(Over(m), ph)
        BY <1>0, <2>4, OverKeeps DEF StreamCloses, Sound, Due
      <3> QED
        BY <2>1, <3>1, <3>2, OneRequestMoves
    <2> QED
      BY <1>8, <2>2, <2>3, <2>4
  <1> QED
    BY <1>1, <1>2, <1>3, <1>4, <1>5, <1>6, <1>7, <1>8 DEF Call

\* Between the rounds a request holds no permit; the credits fallback keeps the
\* books of its calls, too.
LEMMA BetweenKeeps ==
    ASSUME ExecInv, NEW r \in Requests, Between(r)
    PROVE  ExecInv'
  <1> USE Fields
  <1>a. UNCHANGED gateVars
    BY BetweenLeavesGate
  <1>1. CASE Retry(r)
    <2> DEFINE q == [req[r] EXCEPT !.pc = "wait"]
    <2>1. req' = [req EXCEPT ![r] = q]
      BY <1>1 DEF Retry
    <2>2. q \in Requested
      BY FieldChanges
    <2>3. Sound(q, phase[r])
      BY <1>1 DEF Retry, Sound, Due, Requested
    <2> QED
      BY <1>a, <2>1, <2>2, <2>3, OneRequestMovesAlone
  <1>2. CASE WaitOver(r)
    <2> DEFINE q1 == [req[r] EXCEPT !.pc = "pick"]
               q2 == [q1 EXCEPT !.err = "none"]
               q  == [q2 EXCEPT !.round = req[r].round + 1]
    <2>1. req' = [req EXCEPT ![r] = q]
      BY <1>2 DEF WaitOver
    <2>2. q1 \in Requested
      BY FieldChanges
    <2>3. q2 \in Requested
      <3>1. "none" \in Errors
        BY DEF Errors
      <3> HIDE DEF q1
      <3> QED
        BY <2>2, <3>1, FieldChanges
    <2>4. q \in Requested
      <3>1. req[r].round + 1 \in 0..MaxRetry
        BY <1>2 DEF WaitOver, Sound
      <3> HIDE DEF q2
      <3> QED
        BY <2>3, <3>1, FieldChanges
    <2>5. Sound(q, phase[r])
      BY <1>2 DEF WaitOver, Sound, Due, Requested
    <2> QED
      BY <1>a, <2>1, <2>4, <2>5, OneRequestMovesAlone
  <1>3. CASE WaitCancelled(r) \/ Answer(r) \/ CreditsExhausted(r)
    <2> DEFINE q == Over(req[r])
    <2>1. req' = [req EXCEPT ![r] = q]
      BY <1>3 DEF WaitCancelled, Answer, CreditsExhausted
    <2>2. q \in Requested /\ Sound(q, phase[r])
      BY <1>3, OverKeeps DEF WaitCancelled, Answer, CreditsExhausted, Sound, Due
    <2> QED
      BY <1>a, <2>1, <2>2, OneRequestMovesAlone
  <1>4. CASE TryCredits(r)
    <2> DEFINE q == [req[r] EXCEPT !.pc = "creditsPick"]
    <2>1. req' = [req EXCEPT ![r] = q]
      BY <1>4 DEF TryCredits
    <2>2. q \in Requested
      BY FieldChanges
    <2>3. Sound(q, phase[r])
      BY <1>4 DEF TryCredits, Sound, Due, Requested
    <2> QED
      BY <1>a, <2>1, <2>2, <2>3, OneRequestMovesAlone
  <1>5. CASE CreditsPick(r)
    <2>1. PICK a \in Auths, n \in 1..PoolSize :
            req' = [req EXCEPT ![r].tried = @ \cup {a}, ![r].pool = n,
                               ![r].onto = Antigravity,
                               ![r].pc = "creditsCall", ![r].open = @ + 1]
      BY <1>5 DEF CreditsPick
    <2> DEFINE q1 == [req[r] EXCEPT !.tried = req[r].tried \cup {a}]
               q2 == [q1 EXCEPT !.pool = n]
               q3 == [q2 EXCEPT !.onto = Antigravity]
               q4 == [q3 EXCEPT !.pc = "creditsCall"]
               q  == [q4 EXCEPT !.open = req[r].open + 1]
    <2>2. q \in Requested
      <3>1. n \in 0..PoolSize /\ req[r].open + 1 \in Int
        OBVIOUS
      <3>2. Antigravity \in Providers
        BY ExecutionAssumption
      <3>3. q1 \in Requested
        BY FieldChanges
      <3> HIDE DEF q1
      <3>4. q2 \in Requested
        BY <3>1, <3>3, FieldChanges
      <3> HIDE DEF q2
      <3>5. q3 \in Requested
        BY <3>2, <3>4, FieldChanges
      <3> HIDE DEF q3
      <3>6. q4 \in Requested
        BY <3>5, FieldChanges
      <3> HIDE DEF q4
      <3> QED
        BY <3>1, <3>6, FieldChanges
    <2>3. req' = [req EXCEPT ![r] = q]
      BY <2>1
    <2>4. /\ q.pc = "creditsCall" /\ q.open = req[r].open + 1
          /\ q.erred = req[r].erred /\ q.cancelled = req[r].cancelled
      BY DEF Requested
    <2>5. Sound(q, phase[r])
      <3> HIDE DEF q
      <3> QED
        BY <1>5, <2>4 DEF CreditsPick, Sound, Due
    <2> HIDE DEF q
    <2> QED
      BY <1>a, <2>2, <2>3, <2>5, OneRequestMovesAlone
  <1>6. CASE CreditsSucceed(r)
    <2>1. CASE req[r].stream
      <3> DEFINE q == [req[r] EXCEPT !.pc = "stream"]
      <3>1. req' = [req EXCEPT ![r] = q]
        BY <1>6, <2>1 DEF CreditsSucceed
      <3>2. q \in Requested
        BY FieldChanges
      <3>3. Sound(q, phase[r])
        BY <1>6 DEF CreditsSucceed, Sound, Due, Requested
      <3> QED
        BY <1>a, <3>1, <3>2, <3>3, OneRequestMovesAlone
    <2>2. CASE ~req[r].stream
      <3> DEFINE m == Marked(req[r])
      <3>1. req' = [req EXCEPT ![r] = Over(m)]
        BY <1>6, <2>2 DEF CreditsSucceed
      <3>2. /\ m \in Requested /\ m.open = req[r].open - 1
            /\ m.cancelled = req[r].cancelled
        BY MarkedKeeps
      <3> HIDE DEF m
      <3>3. Over(m) \in Requested /\ Sound(Over(m), phase[r])
        BY <1>6, <3>2, OverKeeps DEF CreditsSucceed, Sound, Due
      <3> QED
        BY <1>a, <3>1, <3>3, OneRequestMovesAlone
    <2> QED
      BY <2>1, <2>2
  <1>7. CASE CreditsFail(r)
    <2>1. CASE req[r].pool > 1 /\ req' = [req EXCEPT ![r].pool = @ - 1]
      <3> DEFINE q == [req[r] EXCEPT !.pool = req[r].pool - 1]
      <3>1. req' = [req EXCEPT ![r] = q]
        BY <2>1
      <3>2. req[r].pool - 1 \in 0..PoolSize
        BY <2>1
      <3>3. q \in Requested
        BY <3>2, FieldChanges
      <3>4. Sound(q, phase[r])
        BY DEF Sound, Due, Requested
      <3> QED
        BY <1>a, <3>1, <3>3, <3>4, OneRequestMovesAlone
    <2>2. CASE req' = [req EXCEPT ![r] = [Marked(@) EXCEPT !.pc = "creditsPick"]]
      <3> DEFINE m == Marked(req[r])
                 q == [m EXCEPT !.pc = "creditsPick"]
      <3>1. req' = [req EXCEPT ![r] = q]
        BY <2>2
      <3>2. /\ m \in Requested /\ m.open = req[r].open - 1
            /\ m.erred = req[r].erred /\ m.cancelled = req[r].cancelled
        BY MarkedKeeps
      <3> HIDE DEF m
      <3>3. q \in Requested
        BY <3>2, FieldChanges
      <3>4. Sound(q, phase[r])
        BY <1>7, <3>2 DEF CreditsFail, Sound, Due, Requested
      <3> QED
        BY <1>a, <3>1, <3>3, <3>4, OneRequestMovesAlone
    <2>3. CASE req[r].cancelled /\ req' = [req EXCEPT ![r].pc = "creditsPick"]
      <3> DEFINE q == [req[r] EXCEPT !.pc = "creditsPick"]
      <3>1. req' = [req EXCEPT ![r] = q]
        BY <2>3
      <3>2. q \in Requested
        BY FieldChanges
      <3>3. Sound(q, phase[r])
        BY <1>7, <2>3 DEF CreditsFail, Sound, Due, Requested
      <3> QED
        BY <1>a, <3>1, <3>2, <3>3, OneRequestMovesAlone
    <2> QED
      BY <1>7, <2>1, <2>2, <2>3 DEF CreditsFail
  <1> QED
    BY <1>1, <1>2, <1>3, <1>4, <1>5, <1>6, <1>7 DEF Between

\* A client that leaves takes nothing along.
LEMMA CancelKeeps ==
    ASSUME ExecInv, NEW r \in Requests, Cancel(r)
    PROVE  ExecInv'
  <1> USE Fields
  <1> DEFINE q == [req[r] EXCEPT !.cancelled = TRUE]
  <1>1. req' = [req EXCEPT ![r] = q]
    BY DEF Cancel
  <1>2. q \in Requested
    BY FieldChanges
  <1>3. Sound(q, phase[r])
    BY DEF Sound, Due, Requested
  <1> QED
    BY <1>1, <1>2, <1>3, OneRequestMovesAlone DEF Cancel

\* Requests arrive with nothing in hand.
LEMMA InitKeeps == Init => ExecInv
  <1> SUFFICES ASSUME Init PROVE ExecInv
    OBVIOUS
  <1>1. TypeOK
    BY InitIndInv DEF Init, IndInv
  <1>2. ASSUME NEW r \in Requests PROVE req[r] \in Requested /\ Sound(req[r], phase[r])
    <2>1. PICK stream \in BOOLEAN : req[r] = Arriving(stream)
      BY DEF Init
    <2>2. Arriving(stream) \in Requested
      BY ExecutionAssumption DEF Arriving, Requested, Errors
    <2>3. phase[r] = "outside"
      BY DEF Init, GateInit
    <2>4. Sound(Arriving(stream), "outside")
      BY DEF Sound, Due, Arriving
    <2> QED
      BY <2>1, <2>2, <2>3, <2>4
  <1>3. req \in [Requests -> Requested]
    BY <1>2 DEF Init
  <1> QED
    BY <1>1, <1>2, <1>3 DEF ExecInv, ExecTypeOK

\* Every step of the system keeps the invariant; the types of the gates are those
\* proved of the gates.
LEMMA StepKeeps == ExecInv /\ TypeOK' /\ [Next]_vars => ExecInv'
  <1> SUFFICES ASSUME ExecInv, TypeOK', [Next]_vars PROVE ExecInv'
    OBVIOUS
  <1>1. CASE UNCHANGED vars
    BY <1>1 DEF vars, gateVars, ExecInv, ExecTypeOK, Sound, Due
  <1>2. CASE ReloadConfig
    BY <1>2 DEF ReloadConfig, Reload, ExecInv, ExecTypeOK, Sound, Due
  <1>3. ASSUME NEW r \in Requests, Serve(r) PROVE ExecInv'
    BY <1>3, RoundKeeps, CallKeeps, BetweenKeeps DEF Serve
  <1>4. ASSUME NEW r \in Requests, Cancel(r) PROVE ExecInv'
    BY <1>4, CancelKeeps
  <1> QED
    BY <1>1, <1>2, <1>3, <1>4 DEF Next, StableNext

\* The invariant holds of the request loop, whatever the configuration becomes.
THEOREM ExecutionIndInv == Spec => []ExecInv
  <1>1. Spec => []TypeOK
    BY ExecutionImplementsGate, GateTypeOK, PTL
  <1>2. QED
    BY <1>1, InitKeeps, StepKeeps, PTL DEF Spec

\* Rounds, pools of models and errors stay in range.
THEOREM ExecutionTypeOK == Spec => []ExecTypeOK
  <1>1. ExecInv => ExecTypeOK
    BY DEF ExecInv
  <1> QED
    BY <1>1, ExecutionIndInv, PTL

\* A permit is in the hands of a request exactly while a call or a stream that
\* needs it is under way, on every path and for any number of requests.
THEOREM ExecutionPermitSpansCall == Spec => []PermitSpansCall
  <1>1. ExecInv => PermitSpansCall
    BY DEF ExecInv, Sound, PermitSpansCall
  <1> QED
    BY <1>1, ExecutionIndInv, PTL

\* Every call is recorded once, for any number of retries, credentials and models.
THEOREM ExecutionResultRecordedOnce == Spec => []ResultRecordedOnce
  <1>1. ExecInv => ResultRecordedOnce
    BY DEF ExecInv, Sound, Due, ResultRecordedOnce
  <1> QED
    BY <1>1, ExecutionIndInv, PTL

-----------------------------------------------------------------------------
(* The calls against the limiters: the request loop implements CallSlots.    *)

\* A limiter is the gate of one provider at most, and all who wait at it or hold its
\* permit asked for that provider.
GateOwn ==
    /\ \A p, q \in Providers : gate[p] = gate[q] /\ gate[p] # Nil => p = q
    /\ \A r \in Requests, p \in Providers :
          at[r] # Nil /\ at[r] = gate[p] => asked[r].provider = p
    /\ \A r, s \in Requests :
          at[r] # Nil /\ at[r] = at[s] => asked[r].provider = asked[s].provider

\* A request that has to do with a gate asked for the provider that it calls.
AskedOnto ==
    \A r \in Requests : phase[r] # "outside" => asked[r].provider = req[r].onto

SlotInv == ExecInv /\ IndInv /\ GateOwn /\ AskedOnto

\* A fresh limiter belongs to nobody, and one that is kept to the provider asked for.
LEMMA LookUpOwns ==
    ASSUME IndInv, GateOwn, NEW r \in Requests, LimiterFor(r)
    PROVE  GateOwn'
  <1> DEFINE p == asked[r].provider
  <1>1. /\ p \in Providers /\ asked' = asked /\ at[r] = Nil
        /\ gate \in [Providers -> Limiters \cup {Nil}] /\ at \in [Requests -> Limiters \cup {Nil}]
    BY DEF IndInv, TypeOK, PhaseOK, LimiterFor, Asked
  <1> HIDE DEF p
  <1>2. CASE KeepGate(r)
    <2>1. gate' = gate /\ at' = [at EXCEPT ![r] = gate[p]] /\ gate[p] # Nil
      BY <1>2 DEF KeepGate, p
    <2> QED
      BY <1>1, <2>1 DEF GateOwn, p
  <1>3. CASE ReplaceGate(r)
    <2>1. PICK l \in Unreferenced :
             gate' = [gate EXCEPT ![p] = l] /\ at' = [at EXCEPT ![r] = l]
      BY <1>3 DEF ReplaceGate, p
    <2>2. /\ l \in Limiters /\ l # Nil
          /\ \A q \in Providers : gate[q] # l
          /\ \A s \in Requests : at[s] # l
      BY <2>1, NilIsNoLimiter DEF Unreferenced
    <2> QED
      BY <1>1, <2>1, <2>2 DEF GateOwn, p
  <1> QED
    BY <1>2, <1>3 DEF LimiterFor

\* No other step of a gate brings anybody to a limiter.
LEMMA GateOwnKept == IndInv /\ GateOwn /\ [GateNext]_gateVars => GateOwn'
  <1> SUFFICES ASSUME IndInv, GateOwn, [GateNext]_gateVars PROVE GateOwn'
    OBVIOUS
  <1>1. CASE UNCHANGED gateVars \/ Reload
    BY <1>1 DEF GateOwn, gateVars, Reload
  <1>2. ASSUME NEW r \in Requests, RequestStep(r) PROVE GateOwn'
    <2>1. /\ at \in [Requests -> Limiters \cup {Nil}] /\ asked \in [Requests -> Asked \cup {Nil}]
          /\ phase[r] = "outside" => at[r] = Nil
      BY DEF IndInv, TypeOK, PhaseOK
    <2>2. CASE LimiterFor(r)
      BY <2>2, LookUpOwns
    <2>3. ASSUME NEW p \in Providers, ReadLimit(r, p) PROVE GateOwn'
      BY <2>1, <2>3 DEF ReadLimit, GateOwn
    <2>4. CASE Admit(r)
      BY <2>4 DEF Admit, GateOwn
    <2>5. CASE GiveUp(r) \/ Release(r)
      <3>1. at' = [at EXCEPT ![r] = Nil] /\ asked' = [asked EXCEPT ![r] = Nil] /\ gate' = gate
        BY <2>5 DEF GiveUp, Release
      <3> QED
        BY <2>1, <3>1 DEF GateOwn
    <2> QED
      BY <1>2, <2>2, <2>3, <2>4, <2>5 DEF RequestStep
  <1> QED
    BY <1>1, <1>2 DEF GateNext

\* A request that is outside afterwards, or goes on with what it asked for, breaks
\* nothing.
LEMMA AskedStays ==
    ASSUME AskedOnto, NEW r \in Requests,
           \A s \in Requests \ {r} :
               phase'[s] = phase[s] /\ asked'[s] = asked[s] /\ req'[s] = req[s],
           \/ phase'[r] = "outside"
           \/ phase[r] # "outside" /\ asked'[r] = asked[r] /\ req'[r].onto = req[r].onto
           \/ asked'[r].provider = req'[r].onto
    PROVE  AskedOnto'
  BY DEF AskedOnto

\* The first error of a stream changes nothing of its call.
LEMMA ErredKeepsCall ==
    ASSUME ExecInv, NEW r \in Requests, StreamErrs(r)
    PROVE  /\ Calling(req[r]) /\ req'[r].onto = req[r].onto
           /\ \A s \in Requests \ {r} : req'[s] = req[s]
  <1> DEFINE m == Marked(req[r])
  <1>1. req \in [Requests -> Requested] /\ req[r] \in Requested
    BY Fields
  <1>2. m \in Requested /\ m.onto = req[r].onto
    BY <1>1, MarkedKeeps DEF Marked, Requested
  <1>3. req' = [req EXCEPT ![r] = [m EXCEPT !.erred = TRUE]]
    BY DEF StreamErrs
  <1> HIDE DEF m
  <1>4. [m EXCEPT !.erred = TRUE].onto = m.onto
    BY <1>2 DEF Requested
  <1> QED
    BY <1>1, <1>2, <1>3, <1>4 DEF StreamErrs, Calling

\* A request asks for the provider of the credential it was offered, and calls no
\* other until it is outside again.
LEMMA AskedKept == ExecInv /\ IndInv /\ AskedOnto /\ [Next]_vars => AskedOnto'
  <1> SUFFICES ASSUME ExecInv, IndInv, AskedOnto, [Next]_vars PROVE AskedOnto'
    OBVIOUS
  <1>1. CASE UNCHANGED vars \/ ReloadConfig
    BY <1>1 DEF AskedOnto, vars, gateVars, ReloadConfig, Reload
  <1>2. ASSUME NEW r \in Requests, Serve(r) \/ Cancel(r) PROVE AskedOnto'
    <2>0. /\ req \in [Requests -> Requested] /\ req[r] \in Requested
          /\ phase \in [Requests -> Phases] /\ asked \in [Requests -> Asked \cup {Nil}]
          /\ Sound(req[r], phase[r])
      BY Fields DEF IndInv, TypeOK
    <2>1. CASE Pick(r)
      <3>1. PICK a \in Auths, n \in 1..PoolSize :
              /\ ReadLimit(r, ProviderOf[a])
              /\ LET gated == cfg[ProviderOf[a]] > 0 IN
                 req' = [req EXCEPT
                   ![r].tried = @ \cup {a}, ![r].attempted = @ \cup {a},
                   ![r].pool = n, ![r].onto = ProviderOf[a],
                   ![r].pc = IF gated THEN "acquire" ELSE "call",
                   ![r].open = IF gated THEN @ ELSE @ + 1]
        BY <2>1 DEF Pick
      <3>2. req'[r].onto = ProviderOf[a] /\ \A s \in Requests \ {r} : req'[s] = req[s]
        BY <2>0, <3>1 DEF Requested
      <3>3. /\ asked'[r].provider = ProviderOf[a]
            /\ \A s \in Requests \ {r} : phase'[s] = phase[s] /\ asked'[s] = asked[s]
        BY <2>0, <3>1 DEF ReadLimit
      <3> QED
        BY <3>2, <3>3, AskedStays
    <2>2. CASE \/ LookUpGate(r) \/ Admitted(r)
      <3>1. /\ req'[r].onto = req[r].onto
            /\ \A s \in Requests \ {r} : req'[s] = req[s]
        BY <2>0, <2>2 DEF LookUpGate, Admitted, Requested
      <3>2. /\ asked' = asked /\ phase[r] # "outside"
            /\ \A s \in Requests \ {r} : phase'[s] = phase[s]
        BY <2>0, <2>2 DEF LookUpGate, LimiterFor, Admitted, Admit
      <3> QED
        BY <3>1, <3>2, AskedStays
    <2>3. ASSUME GiveUp(r) \/ Release(r), \A s \in Requests \ {r} : req'[s] = req[s]
          PROVE  AskedOnto'
      <3>1. /\ phase'[r] = "outside"
            /\ \A s \in Requests \ {r} : phase'[s] = phase[s] /\ asked'[s] = asked[s]
        BY <2>0, <2>3 DEF GiveUp, Release
      <3> QED
        BY <2>3, <3>1, AskedStays
    <2>4. CASE \/ NotAdmitted(r) \/ CallSucceeds(r) \/ CallAbandoned(r) \/ CallInvalid(r)
               \/ NextCredential(r)
      <3>1. GiveUp(r) \/ Release(r)
        BY <2>4 DEF NotAdmitted, CallSucceeds, CallAbandoned, CallInvalid, NextCredential
      <3>2. \A s \in Requests \ {r} : req'[s] = req[s]
        BY <2>0, <2>4 DEF NotAdmitted, CallSucceeds, CallAbandoned, CallInvalid, NextCredential
      <3> QED
        BY <2>3, <3>1, <3>2
    <2>5. ASSUME UNCHANGED gateVars, \A s \in Requests \ {r} : req'[s] = req[s],
                 phase[r] = "outside" \/ req'[r].onto = req[r].onto
          PROVE  AskedOnto'
      BY <2>5, AskedStays DEF gateVars
    <2>6. CASE StreamCloses(r) \/ StreamDropped(r)
      <3>1. \A s \in Requests \ {r} : req'[s] = req[s]
        BY <2>0, <2>6 DEF StreamCloses, StreamDropped
      <3>2. \/ Release(r)
            \/ UNCHANGED gateVars /\ phase[r] # "admitted" /\ req[r].pc = "stream"
        BY <2>6 DEF StreamCloses, StreamDropped, LeaveStream
      <3>3. phase[r] # "admitted" /\ req[r].pc = "stream" => phase[r] = "outside"
        BY <2>0 DEF Sound, Phases
      <3> QED
        BY <2>3, <2>5, <3>1, <3>2, <3>3
    <2>7. CASE \/ PickUnusable(r) \/ StreamOpens(r) \/ NextModel(r) \/ StreamErrs(r)
               \/ Retry(r) \/ WaitOver(r) \/ TryCredits(r) \/ Cancel(r)
      <3>1. /\ UNCHANGED gateVars /\ req'[r].onto = req[r].onto
            /\ \A s \in Requests \ {r} : req'[s] = req[s]
        <4>1. CASE StreamErrs(r)
          BY <4>1, ErredKeepsCall DEF StreamErrs
        <4>2. CASE PickUnusable(r) \/ StreamOpens(r) \/ NextModel(r)
          BY <2>0, <4>2 DEF PickUnusable, StreamOpens, NextModel, Requested
        <4>3. CASE Retry(r) \/ WaitOver(r) \/ TryCredits(r) \/ Cancel(r)
          BY <2>0, <4>3 DEF Retry, WaitOver, TryCredits, Cancel, Requested
        <4> QED
          BY <2>7, <4>1, <4>2, <4>3
      <3> QED
        BY <2>5, <3>1
    <2>8. CASE \/ PickFails(r) \/ WaitCancelled(r) \/ Answer(r) \/ CreditsPick(r)
               \/ CreditsExhausted(r) \/ CreditsSucceed(r) \/ CreditsFail(r)
      <3>1. /\ UNCHANGED gateVars
            /\ req[r].pc \in {"pick", "wait", "failed", "creditsPick", "creditsCall"}
            /\ \A s \in Requests \ {r} : req'[s] = req[s]
        BY <2>0, <2>8 DEF PickFails, WaitCancelled, Answer, CreditsPick, CreditsExhausted,
           CreditsSucceed, CreditsFail
      <3>2. phase[r] = "outside"
        BY <2>0, <3>1 DEF Sound, Phases
      <3> QED
        BY <2>5, <3>1, <3>2
    <2> QED
      BY <1>2, <2>1, <2>2, <2>4, <2>6, <2>7, <2>8 DEF Serve, Round, Call, Between
  <1> QED
    BY <1>1, <1>2 DEF Next, StableNext

\* What holds of the gates, the requests and between them holds always.
LEMMA ExecutionSlotInv == Spec => []SlotInv
  <1>1. Init => GateOwn /\ AskedOnto
    BY DEF Init, GateInit, GateOwn, AskedOnto
  <1>2. Spec => [](ExecInv /\ IndInv)
    BY ExecutionIndInv, ExecutionImplementsGate, GateIndInv, PTL
  <1>3. (ExecInv /\ IndInv) /\ GateOwn /\ AskedOnto /\ [Next]_vars => GateOwn' /\ AskedOnto'
    BY StepUsesGate, GateOwnKept, AskedKept
  <1>4. Spec => [](GateOwn /\ AskedOnto)
    BY <1>1, <1>2, <1>3, PTL DEF Spec
  <1> QED
    BY <1>2, <1>4, PTL DEF SlotInv

-----------------------------------------------------------------------------
(* The steps of the calls. *)

\* A call is told from none.
LEMMA CallIsNone ==
    ASSUME NEW q \in Requested, NEW l \in Limiters \cup {Nil}
    PROVE  CallOf(q, l) = Nil <=> ~Calling(q)
  <1>1. [to |-> q.onto, by |-> l] # Nil
    BY NilIsNoCall DEF Requested
  <1> QED
    BY <1>1 DEF CallOf

\* The requests with a call by a limiter are those that hold its permits.
LEMMA UsersHold ==
    ASSUME SlotInv, NEW l \in Limiters
    PROVE  Slots!Users(l) = Holders(l)
  <1>1. ASSUME NEW r \in Requests
        PROVE  Calls[r] # Nil /\ Calls[r].by = l <=> phase[r] = "admitted" /\ at[r] = l
    <2>1. req[r] \in Requested /\ at[r] \in Limiters \cup {Nil} /\ Sound(req[r], phase[r])
      BY Fields DEF SlotInv, IndInv, TypeOK
    <2>2. Calls[r] # Nil /\ Calls[r].by = l <=> Calling(req[r]) /\ at[r] = l
      BY <2>1, CallIsNone DEF Calls, CallOf
    <2>3. at[r] = l => phase[r] \in {"queued", "admitted"}
      BY NilIsNoLimiter DEF SlotInv, IndInv, TypeOK, Phases, PhaseOK
    <2> QED
      BY <2>1, <2>2, <2>3 DEF Sound, Calling
  <1> QED
    BY <1>1 DEF Slots!Users, Holders

\* What is left alone when request r moves.
OnlyMoves(r) ==
    /\ UNCHANGED <<cfg, limit>>
    /\ \A s \in Requests \ {r} : req'[s] = req[s] /\ at'[s] = at[s]

\* Then only its call may be another.
LEMMA OneCallMoves ==
    ASSUME NEW r \in Requests, \A s \in Requests \ {r} : req'[s] = req[s] /\ at'[s] = at[s]
    PROVE  Calls' = [Calls EXCEPT ![r] = CallOf(req'[r], at'[r])]
  <1>1. \A s \in Requests : Calls'[s] = [Calls EXCEPT ![r] = CallOf(req'[r], at'[r])][s]
    BY DEF Calls, CallOf, Calling
  <1> QED
    BY <1>1 DEF Calls

\* A request that goes on with its call, or is without one, has ended it or nothing.
LEMMA CallEndsOrStays ==
    ASSUME NEW r \in Requests, OnlyMoves(r),
           CallOf(req'[r], at'[r]) \in {Nil, CallOf(req[r], at[r])}
    PROVE  [Slots!Next]_Slots!vars
  <1>1. Calls' = [Calls EXCEPT ![r] = CallOf(req'[r], at'[r])]
    BY OneCallMoves DEF OnlyMoves
  <1>2. Calls[r] = CallOf(req[r], at[r]) /\ Calls = [s \in Requests |-> Calls[s]]
    BY DEF Calls
  <1>3. CASE CallOf(req'[r], at'[r]) = Calls[r]
    <2>1. Calls' = Calls
      BY <1>1, <1>2, <1>3
    <2> QED
      BY <2>1 DEF Slots!vars, OnlyMoves
  <1>4. CASE CallOf(req'[r], at'[r]) = Nil /\ Calls[r] # Nil
    <2>1. Slots!End(r)
      BY <1>1, <1>4 DEF Slots!End, OnlyMoves
    <2> QED
      BY <2>1 DEF Slots!Next
  <1> QED
    BY <1>2, <1>3, <1>4

\* No call begins where a request has none afterwards, or goes on with the one it has.
LEMMA NoCallBegins ==
    ASSUME NEW r \in Requests, OnlyMoves(r),
           \/ ~Calling(req'[r])
           \/ Calling(req[r]) /\ req'[r].onto = req[r].onto /\ at'[r] = at[r]
    PROVE  [Slots!Next]_Slots!vars
  <1>1. CallOf(req'[r], at'[r]) \in {Nil, CallOf(req[r], at[r])}
    BY DEF CallOf
  <1> QED
    BY <1>1, CallEndsOrStays

\* A call that begins where there was none.
LEMMA CallBegins ==
    ASSUME SlotInv, NEW r \in Requests, OnlyMoves(r), ~Calling(req[r]), Calling(req'[r])
    PROVE  Slots!Begins(r, req'[r].onto, at'[r])
  <1>1. Calls' = [Calls EXCEPT ![r] = CallOf(req'[r], at'[r])]
    BY OneCallMoves DEF OnlyMoves
  <1>2. CallOf(req'[r], at'[r]) = [to |-> req'[r].onto, by |-> at'[r]] /\ Calls[r] = Nil
    BY DEF Calls, CallOf
  <1> QED
    BY <1>1, <1>2 DEF Slots!Begins, OnlyMoves

\* A credential whose provider has no limit is called at once, and one whose provider
\* has a limit is not called before its gate.
LEMMA PickSlots ==
    ASSUME SlotInv, NEW r \in Requests, Pick(r)
    PROVE  [Slots!Next]_Slots!vars
  <1>1. PICK a \in Auths, n \in 1..PoolSize :
          /\ ReadLimit(r, ProviderOf[a])
          /\ LET gated == cfg[ProviderOf[a]] > 0 IN
             req' = [req EXCEPT
               ![r].tried = @ \cup {a}, ![r].attempted = @ \cup {a},
               ![r].pool = n, ![r].onto = ProviderOf[a],
               ![r].pc = IF gated THEN "acquire" ELSE "call",
               ![r].open = IF gated THEN @ ELSE @ + 1]
    BY DEF Pick
  <1> DEFINE p == ProviderOf[a]
  <1>2. /\ req \in [Requests -> Requested] /\ req[r].pc = "pick" /\ p \in Providers
        /\ cfg[p] \in Nat /\ phase[r] = "outside" /\ at[r] = Nil
    BY <1>1, Fields, ExecutionAssumption, LimitsAreNat
       DEF SlotInv, IndInv, TypeOK, PhaseOK, Pick, ReadLimit
  <1>3. /\ req'[r].onto = p /\ req'[r].pc = (IF cfg[p] > 0 THEN "acquire" ELSE "call")
        /\ \A s \in Requests \ {r} : req'[s] = req[s]
    BY <1>1, <1>2 DEF Requested
  <1>4. OnlyMoves(r) /\ at' = at
    BY <1>1, <1>3 DEF ReadLimit, OnlyMoves
  <1> HIDE DEF p
  <1>5. CASE cfg[p] > 0
    BY <1>3, <1>4, <1>5, NoCallBegins DEF Calling
  <1>6. CASE ~(cfg[p] > 0)
    <2>1. cfg[p] = 0
      BY <1>2, <1>6
    <2>2. Slots!Begins(r, p, Nil)
      BY <1>2, <1>3, <1>4, <1>6, CallBegins DEF Calling
    <2>3. Slots!BeginUnlimited(r, p)
      BY <2>1, <2>2 DEF Slots!BeginUnlimited
    <2> QED
      BY <1>2, <2>3 DEF Slots!Next
  <1> QED
    BY <1>5, <1>6

\* A request that finds its gate calls nobody yet; a limiter that is made anew for it
\* is one that nobody uses.
LEMMA LookUpSlots ==
    ASSUME SlotInv, NEW r \in Requests, LookUpGate(r)
    PROVE  [Slots!Next]_Slots!vars
  <1>1. /\ req' = req /\ req[r].pc = "acquire" /\ cfg' = cfg /\ LimiterFor(r)
        /\ at \in [Requests -> Limiters \cup {Nil}]
    BY DEF LookUpGate, LimiterFor, SlotInv, IndInv, TypeOK
  <1>2. CASE KeepGate(r)
    <2>1. OnlyMoves(r)
      BY <1>1, <1>2 DEF KeepGate, OnlyMoves
    <2> QED
      BY <1>1, <2>1, NoCallBegins DEF Calling
  <1>3. CASE ReplaceGate(r)
    <2>1. PICK l \in Unreferenced :
             limit' = [limit EXCEPT ![l] = asked[r].limit] /\ at' = [at EXCEPT ![r] = l]
      BY <1>3 DEF ReplaceGate
    <2>2. l \in Limiters /\ Holders(l) = {} /\ asked[r].limit \in Limits
      <3>1. asked[r] \in Asked
        BY <1>1 DEF LimiterFor, SlotInv, IndInv, TypeOK, PhaseOK
      <3> QED
        BY <2>1, <3>1 DEF Unreferenced, Holders, Asked
    <2>3. \A s \in Requests \ {r} : req'[s] = req[s] /\ at'[s] = at[s]
      BY <1>1, <2>1
    <2>4. Calls' = [Calls EXCEPT ![r] = CallOf(req'[r], at'[r])]
      BY <2>3, OneCallMoves
    <2>5. CallOf(req'[r], at'[r]) = Nil /\ Calls[r] = Nil
      BY <1>1 DEF Calls, CallOf, Calling
    <2>6. Calls' = Calls
      BY <2>4, <2>5 DEF Calls
    <2>7. Slots!Users(l) = {}
      BY <2>2, UsersHold
    <2>8. Slots!Renew(l)
      BY <1>1, <2>1, <2>2, <2>6, <2>7 DEF Slots!Renew
    <2> QED
      BY <2>2, <2>8 DEF Slots!Next
  <1> QED
    BY <1>1, <1>2, <1>3 DEF LimiterFor

\* The channel has room exactly when the limiter has a slot, and whoever has one calls
\* the same provider.
LEMMA AdmittedSlots ==
    ASSUME SlotInv, NEW r \in Requests, Admitted(r)
    PROVE  [Slots!Next]_Slots!vars
  <1> DEFINE l == at[r]
  <1>1. /\ req \in [Requests -> Requested] /\ req[r].pc = "acquire" /\ phase[r] = "queued"
        /\ l \in Limiters /\ sem[l] < limit[l] /\ sem[l] = Cardinality(Holders(l))
    BY Fields DEF SlotInv, IndInv, TypeOK, PhaseOK, PermitAccounting, Admitted, Admit
  <1>2. /\ OnlyMoves(r) /\ at' = at
        /\ req'[r].pc = "call" /\ req'[r].onto = req[r].onto
    BY <1>1 DEF Admitted, Admit, OnlyMoves, Requested
  <1> DEFINE p == req[r].onto
  <1>3. p \in Providers
    BY <1>1 DEF Requested
  <1>4. Slots!Begins(r, p, l)
    BY <1>1, <1>2, CallBegins DEF Calling
  <1>5. Slots!Users(l) = Holders(l)
    BY <1>1, UsersHold
  <1>6. ASSUME NEW q \in Slots!Users(l) PROVE Calls[q].to = p
    <2>1. q \in Requests /\ Calls[q] # Nil /\ phase[q] = "admitted" /\ at[q] = l
      BY <1>5, <1>6 DEF Slots!Users, Holders
    <2>2. Calls[q].to = req[q].onto
      BY <2>1 DEF Calls, CallOf
    <2>3. asked[q].provider = req[q].onto /\ asked[r].provider = p
      BY <1>1, <2>1 DEF SlotInv, AskedOnto
    <2>4. asked[q].provider = asked[r].provider
      BY <1>1, <2>1, NilIsNoLimiter DEF SlotInv, GateOwn
    <2> QED
      BY <2>2, <2>3, <2>4
  <1>7. Cardinality(Slots!Users(l)) < limit[l]
    BY <1>1, <1>5
  <1> HIDE DEF p, l
  <1>8. Slots!Cardinality(Slots!Users(l)) = Cardinality(Slots!Users(l))
    BY DEF Slots!Cardinality, Cardinality
  <1>9. Slots!BeginLimited(r, p, l)
    BY <1>4, <1>6, <1>7, <1>8 DEF Slots!BeginLimited
  <1> QED
    BY <1>1, <1>3, <1>9 DEF Slots!Next

\* A call of the credits fallback goes past the gates.
LEMMA CreditsSlots ==
    ASSUME SlotInv, CreditsFallback, NEW r \in Requests, CreditsPick(r)
    PROVE  [Slots!Next]_Slots!vars
  <1>1. /\ req \in [Requests -> Requested] /\ req[r].pc = "creditsPick"
        /\ Sound(req[r], phase[r]) /\ phase[r] \in Phases
    BY Fields DEF SlotInv, CreditsPick
  <1>2. at[r] = Nil
    BY <1>1 DEF Sound, Phases, SlotInv, IndInv, PhaseOK
  <1>3. /\ OnlyMoves(r) /\ at' = at
        /\ req'[r].pc = "creditsCall" /\ req'[r].onto = Antigravity
    BY <1>1 DEF CreditsPick, gateVars, OnlyMoves, Requested
  <1>4. Slots!Begins(r, Antigravity, Nil)
    BY <1>1, <1>2, <1>3, CallBegins DEF Calling
  <1>5. Slots!BeginCredits(r)
    BY <1>4 DEF Slots!BeginCredits
  <1> QED
    BY <1>5 DEF Slots!Next

\* The end of a call or of its stream gives the slot back in the same step, and what is
\* not the end keeps it.
LEMMA CallsKeepSlots ==
    ASSUME SlotInv, NEW r \in Requests, Call(r)
    PROVE  [Slots!Next]_Slots!vars
  <1>1. /\ req \in [Requests -> Requested] /\ req[r] \in Requested
        /\ at \in [Requests -> Limiters \cup {Nil}]
        /\ \A e \in Errors : ~Calling(Fails(req[r], e)) /\ ~Calling(Marked(Fails(req[r], e)))
        /\ ~Calling(Over(req[r])) /\ ~Calling(Over(Marked(req[r])))
    <2>1. req \in [Requests -> Requested] /\ req[r] \in Requested
      BY Fields DEF SlotInv
    <2> QED
      BY <2>1, FailsKeeps, OverKeeps, MarkedKeeps DEF Calling, SlotInv, IndInv, TypeOK
  <1>2. CASE StreamOpens(r) \/ NextModel(r) \/ StreamErrs(r)
    <2>1. /\ UNCHANGED gateVars /\ Calling(req[r]) /\ req'[r].onto = req[r].onto
          /\ \A s \in Requests \ {r} : req'[s] = req[s]
      <3>1. CASE StreamErrs(r)
        BY <3>1, ErredKeepsCall DEF StreamErrs, SlotInv
      <3>2. CASE StreamOpens(r) \/ NextModel(r)
        BY <1>1, <3>2 DEF StreamOpens, NextModel, Calling, Requested
      <3> QED
        BY <1>2, <3>1, <3>2
    <2>2. OnlyMoves(r) /\ at'[r] = at[r]
      BY <2>1 DEF OnlyMoves, gateVars
    <2> QED
      BY <2>1, <2>2, NoCallBegins
  <1>3. ASSUME Release(r) \/ UNCHANGED gateVars, ~Calling(req'[r]),
               \A s \in Requests \ {r} : req'[s] = req[s]
        PROVE  [Slots!Next]_Slots!vars
    <2>1. OnlyMoves(r)
      BY <1>1, <1>3 DEF Release, gateVars, OnlyMoves
    <2> QED
      BY <1>3, <2>1, NoCallBegins
  <1>4. CASE CallSucceeds(r) \/ CallAbandoned(r) \/ CallInvalid(r)
    <2>1. ~Calling(req'[r]) /\ \A s \in Requests \ {r} : req'[s] = req[s]
      BY <1>1, <1>4 DEF CallSucceeds, CallAbandoned, CallInvalid, Errors
    <2> QED
      BY <1>3, <1>4, <2>1 DEF CallSucceeds, CallAbandoned, CallInvalid
  <1>5. CASE NextCredential(r)
    <2>1. req'[r] = IF req[r].stream /\ req[r].cancelled THEN Marked(Fails(req[r], "ctx"))
                    ELSE [Marked(req[r]) EXCEPT !.pc = "pick", !.lastErr = "upstream"]
      BY <1>1, <1>5 DEF NextCredential
    <2>2. [Marked(req[r]) EXCEPT !.pc = "pick", !.lastErr = "upstream"].pc = "pick"
      BY <1>1 DEF Marked, Requested
    <2>3. ~Calling(req'[r])
      BY <1>1, <2>1, <2>2 DEF Calling, Errors
    <2>4. Release(r) /\ \A s \in Requests \ {r} : req'[s] = req[s]
      BY <1>1, <1>5 DEF NextCredential
    <2> QED
      BY <1>3, <2>3, <2>4
  <1>6. CASE StreamCloses(r) \/ StreamDropped(r)
    <2>1. ~Calling(req'[r]) /\ \A s \in Requests \ {r} : req'[s] = req[s]
      BY <1>1, <1>6 DEF StreamCloses, StreamDropped
    <2>2. Release(r) \/ UNCHANGED gateVars
      BY <1>6 DEF StreamCloses, StreamDropped, LeaveStream
    <2> QED
      BY <1>3, <2>1, <2>2
  <1> QED
    BY <1>2, <1>4, <1>5, <1>6 DEF Call

\* A round that ends, a wait, a retry and the way to the credits fallback call nobody,
\* and nor does a client that leaves.
LEMMA BetweenSlots ==
    ASSUME SlotInv, NEW r \in Requests,
           \/ PickUnusable(r) \/ PickFails(r) \/ NotAdmitted(r) \/ Cancel(r)
           \/ Retry(r) \/ WaitOver(r) \/ WaitCancelled(r) \/ Answer(r) \/ TryCredits(r)
           \/ CreditsExhausted(r) \/ CreditsSucceed(r) \/ CreditsFail(r)
    PROVE  [Slots!Next]_Slots!vars
  <1>1. /\ req \in [Requests -> Requested] /\ req[r] \in Requested
        /\ at \in [Requests -> Limiters \cup {Nil}]
        /\ \A e \in Errors : ~Calling(Fails(req[r], e))
        /\ ~Calling(Over(req[r])) /\ ~Calling(Over(Marked(req[r])))
    <2>1. req \in [Requests -> Requested] /\ req[r] \in Requested
      BY Fields DEF SlotInv
    <2> QED
      BY <2>1, FailsKeeps, OverKeeps, MarkedKeeps DEF Calling, SlotInv, IndInv, TypeOK
  <1>2. \A s \in Requests \ {r} : req'[s] = req[s]
    BY <1>1 DEF PickUnusable, PickFails, NotAdmitted, Cancel, Retry, WaitOver, WaitCancelled,
       Answer, TryCredits, CreditsExhausted, CreditsSucceed, CreditsFail
  <1>3. OnlyMoves(r) /\ (~NotAdmitted(r) => at'[r] = at[r])
    <2>1. (GiveUp(r) /\ NotAdmitted(r)) \/ UNCHANGED gateVars
      BY DEF PickUnusable, PickFails, NotAdmitted, Cancel, Retry, WaitOver, WaitCancelled,
         Answer, TryCredits, CreditsExhausted, CreditsSucceed, CreditsFail
    <2> QED
      BY <1>1, <1>2, <2>1 DEF GiveUp, gateVars, OnlyMoves
  <1>4. \/ ~Calling(req'[r])
        \/ Calling(req[r]) /\ req'[r].onto = req[r].onto /\ ~NotAdmitted(r)
    <2>1. CASE PickUnusable(r) \/ Retry(r) \/ WaitOver(r) \/ TryCredits(r)
      BY <1>1, <2>1 DEF PickUnusable, Retry, WaitOver, TryCredits, Calling, Requested
    <2>2. CASE PickFails(r) \/ NotAdmitted(r)
      <3>1. PICK e \in Errors : req'[r] = Fails(req[r], e)
        BY <1>1, <2>2 DEF PickFails, NotAdmitted, Errors, Requested
      <3> QED
        BY <1>1, <3>1
    <2>3. CASE WaitCancelled(r) \/ Answer(r) \/ CreditsExhausted(r)
      BY <1>1, <2>3 DEF WaitCancelled, Answer, CreditsExhausted
    <2>4. CASE Cancel(r)
      BY <1>1, <2>4 DEF Cancel, NotAdmitted, Calling, Requested
    <2>5. CASE CreditsSucceed(r)
      BY <1>1, <2>5 DEF CreditsSucceed, NotAdmitted, Calling, Requested
    <2>6. CASE CreditsFail(r)
      <3>1. Calling(req[r]) /\ ~NotAdmitted(r)
        BY <2>6 DEF CreditsFail, NotAdmitted, Calling
      <3>2. CASE req' = [req EXCEPT ![r].pool = @ - 1]
        BY <1>1, <3>1, <3>2 DEF Requested
      <3>3. CASE req' = [req EXCEPT ![r] = [Marked(@) EXCEPT !.pc = "creditsPick"]]
        <4> DEFINE m == Marked(req[r])
        <4>1. m \in Requested
          BY <1>1, MarkedKeeps
        <4>2. req'[r] = [m EXCEPT !.pc = "creditsPick"]
          BY <1>1, <3>3
        <4> HIDE DEF m
        <4> QED
          BY <4>1, <4>2 DEF Calling, Requested
      <3>4. CASE req' = [req EXCEPT ![r].pc = "creditsPick"]
        BY <1>1, <3>4 DEF Calling, Requested
      <3> QED
        BY <2>6, <3>2, <3>3, <3>4 DEF CreditsFail
    <2> QED
      BY <2>1, <2>2, <2>3, <2>4, <2>5, <2>6
  <1> QED
    BY <1>3, <1>4, NoCallBegins

\* The credits are tried only if the fallback is on: who is on the way to them.
Credited == \A r \in Requests : req[r].pc \in {"creditsPick", "creditsCall"} => CreditsFallback

\* Only TryCredits sets out for them.
LEMMA CreditedKept == ExecInv /\ Credited /\ [Next]_vars => Credited'
  <1> SUFFICES ASSUME ExecInv, Credited, [Next]_vars PROVE Credited'
    OBVIOUS
  <1>1. CASE UNCHANGED vars \/ ReloadConfig
    BY <1>1 DEF Credited, vars, ReloadConfig
  <1>2. ASSUME NEW r \in Requests, Serve(r) \/ Cancel(r) PROVE Credited'
    <2>1. req \in [Requests -> Requested] /\ req[r] \in Requested
      BY Fields
    <2>2. ASSUME \A s \in Requests \ {r} : req'[s] = req[s],
                 \/ req'[r].pc \notin {"creditsPick", "creditsCall"}
                 \/ req[r].pc \in {"creditsPick", "creditsCall"}
                 \/ CreditsFallback
          PROVE  Credited'
      BY <2>2 DEF Credited
    <2>3. /\ \A e \in Errors : /\ Fails(req[r], e).pc = "failed"
                               /\ Marked(Fails(req[r], e)).pc = "failed"
          /\ Over(req[r]).pc = "done" /\ Over(Marked(req[r])).pc = "done"
      BY <2>1, FailsKeeps, OverKeeps, MarkedKeeps
    <2>4. CASE Round(r)
      <3>1. \A s \in Requests \ {r} : req'[s] = req[s]
        <4>1. CASE PickUnusable(r) \/ LookUpGate(r) \/ Admitted(r)
          BY <2>1, <4>1 DEF PickUnusable, LookUpGate, Admitted
        <4>2. CASE Pick(r)
          BY <2>1, <4>2 DEF Pick
        <4>3. CASE PickFails(r) \/ NotAdmitted(r)
          BY <2>1, <4>3 DEF PickFails, NotAdmitted
        <4> QED
          BY <2>4, <4>1, <4>2, <4>3 DEF Round
      <3>2. CASE PickFails(r) \/ NotAdmitted(r)
        <4>1. PICK e \in Errors : req'[r] = Fails(req[r], e)
          BY <2>1, <3>2 DEF PickFails, NotAdmitted, Errors, Requested
        <4> QED
          BY <2>2, <2>3, <3>1, <4>1
      <3>3. CASE PickUnusable(r) \/ Pick(r) \/ LookUpGate(r) \/ Admitted(r)
        <4>1. req'[r].pc \notin {"creditsPick", "creditsCall"}
          <5>1. CASE Pick(r)
            <6>1. PICK a \in Auths, n \in 1..PoolSize :
                    LET gated == cfg[ProviderOf[a]] > 0 IN
                    req' = [req EXCEPT
                      ![r].tried = @ \cup {a}, ![r].attempted = @ \cup {a},
                      ![r].pool = n, ![r].onto = ProviderOf[a],
                      ![r].pc = IF gated THEN "acquire" ELSE "call",
                      ![r].open = IF gated THEN @ ELSE @ + 1]
              BY <5>1 DEF Pick
            <6>2. req'[r].pc \in {"acquire", "call"}
              BY <2>1, <6>1, SMTT(30) DEF Requested
            <6> QED
              BY <6>2
          <5>2. CASE PickUnusable(r) \/ LookUpGate(r) \/ Admitted(r)
            BY <2>1, <5>2 DEF PickUnusable, LookUpGate, Admitted, Requested
          <5> QED
            BY <3>3, <5>1, <5>2
        <4> QED
          BY <2>2, <3>1, <4>1
      <3> QED
        BY <2>4, <3>2, <3>3 DEF Round
    <2>5. CASE Call(r)
      <3>1. \A s \in Requests \ {r} : req'[s] = req[s]
        BY <2>1, <2>5 DEF Call, CallSucceeds, StreamOpens, CallAbandoned, CallInvalid, NextModel,
           NextCredential, StreamErrs, StreamCloses, StreamDropped
      <3>2. CASE StreamOpens(r) \/ NextModel(r) \/ StreamErrs(r)
        <4>1. req'[r].pc \notin {"creditsPick", "creditsCall"}
          BY <2>1, <3>2 DEF StreamOpens, NextModel, StreamErrs, Marked, Requested
        <4> QED
          BY <2>2, <3>1, <4>1
      <3>3. CASE \/ CallSucceeds(r) \/ CallAbandoned(r) \/ CallInvalid(r)
                 \/ StreamCloses(r) \/ StreamDropped(r)
        <4>1. ASSUME CallSucceeds(r) \/ StreamCloses(r) \/ StreamDropped(r)
              PROVE  req'[r].pc \in {"failed", "done"}
          BY <2>1, <2>3, <4>1 DEF CallSucceeds, StreamCloses, StreamDropped, Errors
        <4>2. ASSUME CallAbandoned(r) \/ CallInvalid(r)
              PROVE  req'[r].pc \in {"failed", "done"}
          BY <2>1, <2>3, <4>2 DEF CallAbandoned, CallInvalid, Errors
        <4>3. req'[r].pc \in {"failed", "done"}
          BY <3>3, <4>1, <4>2
        <4> QED
          BY <2>2, <3>1, <4>3
      <3>4. CASE NextCredential(r)
        <4>1. req'[r] = IF req[r].stream /\ req[r].cancelled THEN Marked(Fails(req[r], "ctx"))
                        ELSE [Marked(req[r]) EXCEPT !.pc = "pick", !.lastErr = "upstream"]
          BY <2>1, <3>4 DEF NextCredential
        <4>2. [Marked(req[r]) EXCEPT !.pc = "pick", !.lastErr = "upstream"].pc = "pick"
          BY <2>1 DEF Marked, Requested
        <4>3. req'[r].pc \in {"failed", "pick"}
          BY <2>3, <4>1, <4>2 DEF Errors
        <4> QED
          BY <2>2, <3>1, <4>3
      <3> QED
        BY <2>5, <3>2, <3>3, <3>4 DEF Call
    <2>6. CASE Between(r) \/ Cancel(r)
      <3>1. \A s \in Requests \ {r} : req'[s] = req[s]
        BY <2>1, <2>6 DEF Between, Retry, WaitOver, WaitCancelled, Answer, TryCredits,
           CreditsPick, CreditsExhausted, CreditsSucceed, CreditsFail, Cancel
      <3>2. CASE Retry(r) \/ WaitOver(r) \/ WaitCancelled(r) \/ Answer(r)
        <4>1. req'[r].pc \notin {"creditsPick", "creditsCall"}
          BY <2>1, <2>3, <3>2 DEF Retry, WaitOver, WaitCancelled, Answer, Requested
        <4> QED
          BY <2>2, <3>1, <4>1
      <3>3. CASE \/ TryCredits(r) \/ CreditsPick(r) \/ CreditsExhausted(r) \/ CreditsSucceed(r)
                 \/ CreditsFail(r)
        <4>1. req[r].pc \in {"creditsPick", "creditsCall"} \/ CreditsFallback
          BY <3>3 DEF TryCredits, CreditsPick, CreditsExhausted, CreditsSucceed, CreditsFail
        <4> QED
          BY <2>2, <3>1, <4>1
      <3>4. CASE Cancel(r)
        <4>1. req'[r].pc = req[r].pc
          BY <2>1, <3>4 DEF Cancel, Requested
        <4> QED
          BY <2>2, <3>1, <4>1
      <3> QED
        BY <2>6, <3>2, <3>3, <3>4 DEF Between
    <2> QED
      BY <1>2, <2>4, <2>5, <2>6 DEF Serve
  <1> QED
    BY <1>1, <1>2 DEF Next, StableNext

\* Every step of a request is one of its call or leaves all calls as they are.
LEMMA StepSlots == SlotInv /\ Credited /\ [Next]_vars => [Slots!Next]_Slots!vars
  <1> SUFFICES ASSUME SlotInv, Credited, [Next]_vars PROVE [Slots!Next]_Slots!vars
    OBVIOUS
  <1>1. CASE UNCHANGED vars
    <2>1. Calls' = Calls /\ UNCHANGED <<cfg, limit>>
      BY <1>1 DEF vars, gateVars, Calls, CallOf, Calling
    <2> QED
      BY <2>1 DEF Slots!vars
  <1>2. CASE ReloadConfig
    <2>1. Calls' = Calls /\ limit' = limit /\ cfg' \in [Providers -> Limits]
      BY <1>2 DEF ReloadConfig, Reload, Calls, CallOf, Calling
    <2> QED
      BY <2>1 DEF Slots!Reload, Slots!Next
  <1>3. ASSUME NEW r \in Requests, Serve(r) \/ Cancel(r) PROVE [Slots!Next]_Slots!vars
    <2>1. CASE CreditsPick(r)
      <3>1. CreditsFallback
        BY <2>1 DEF Credited, CreditsPick
      <3> QED
        BY <2>1, <3>1, CreditsSlots
    <2> QED
      BY <1>3, <2>1, PickSlots, LookUpSlots, AdmittedSlots, CallsKeepSlots, BetweenSlots
         DEF Serve, Round, Between
  <1> QED
    BY <1>1, <1>2, <1>3 DEF Next, StableNext

\* Every upstream call has its one slot from beginning to end, over models, streams,
\* retries, cancellation and reloads, and no limiter has more calls than it takes, for
\* any number of requests, credentials, providers, limiters and limits.
THEOREM ExecutionImplementsSlots == Spec => SlotSpec
  <1>1. Init => Slots!Init /\ Credited
    <2> SUFFICES ASSUME Init PROVE Slots!Init /\ Credited
      OBVIOUS
    <2>1. \A r \in Requests : req[r].pc = "pick"
      BY DEF Init, Arriving
    <2>2. Calls = [r \in Requests |-> Nil]
      BY <2>1 DEF Calls, CallOf, Calling
    <2> QED
      BY <2>1, <2>2 DEF Init, GateInit, Slots!Init, Credited
  <1>2. SlotInv => ExecInv
    BY DEF SlotInv
  <1>3. Spec => []Credited
    BY <1>1, <1>2, ExecutionSlotInv, CreditedKept, PTL DEF Spec
  <1> QED
    BY <1>1, <1>3, ExecutionSlotInv, StepSlots, PTL DEF Spec, SlotSpec, Slots!Spec

-----------------------------------------------------------------------------
(* While the configuration stays as it is: a provider has one limiter, all   *)
(* its calls go through it, and so its limit bounds the calls in flight.     *)

\* The gate of a provider has the limit of the configuration ...
GateOfConfig(p) ==
    gate[p] # Nil => gate[p] \in Limiters /\ limit[gate[p]] = cfg[p]

\* ... and a request asks for, waits at and holds the permit of the provider it
\* calls.
AtItsGate(q, ph, ask, l) ==
    /\ q.pc \notin {"creditsPick", "creditsCall"}
    /\ q.pc = "stream" => ph = "admitted"
    /\ ph # "outside" => ask = [provider |-> q.onto, limit |-> cfg[q.onto]]
    /\ ph = "limitRead" => cfg[q.onto] > 0
    /\ ph = "queued" => l = gate[q.onto] /\ gate[q.onto] # Nil
    /\ ph = "admitted" /\ cfg[q.onto] > 0 => l = gate[q.onto] /\ gate[q.onto] # Nil

StableInv ==
    /\ \A p \in Providers : GateOfConfig(p)
    /\ \A r \in Requests : AtItsGate(req[r], phase[r], asked[r], at[r])

\* What the proofs about reloads say holds of the stable system, too.
LEMMA StableIsExecution == StableSpec => [](ExecInv /\ IndInv)
  <1>1. [StableNext]_vars => [Next]_vars
    BY DEF Next
  <1>2. StableSpec => Spec
    BY <1>1, PTL DEF StableSpec, Spec
  <1> QED
    BY <1>2, ExecutionIndInv, ExecutionImplementsGate, GateIndInv, PTL

\* A request that changes while the gates are left alone.
LEMMA AloneStays ==
    ASSUME StableInv, ExecInv, NEW r \in Requests, NEW q,
           req' = [req EXCEPT ![r] = q], UNCHANGED gateVars,
           AtItsGate(q, phase[r], asked[r], at[r])
    PROVE  StableInv'
  <1>1. \A s \in Requests : req'[s] = IF s = r THEN q ELSE req[s]
    BY DEF ExecInv, ExecTypeOK
  <1> QED
    BY <1>1 DEF StableInv, AtItsGate, GateOfConfig, gateVars

\* One that leaves its gate is outside with nothing in hand.
LEMMA LeaverStays ==
    ASSUME StableInv, ExecInv, IndInv, NEW r \in Requests, NEW q,
           req' = [req EXCEPT ![r] = q], UNCHANGED <<cfg, gate, limit>>,
           phase' = [phase EXCEPT ![r] = "outside"],
           at' = [at EXCEPT ![r] = Nil], asked' = [asked EXCEPT ![r] = Nil],
           q.pc \notin {"creditsPick", "creditsCall", "stream"}
    PROVE  StableInv'
  <1>1. ASSUME NEW s \in Requests
        PROVE  AtItsGate(req[s], phase[s], asked[s], at[s])'
    <2>1. CASE s = r
      <3>1. req'[s] = q /\ phase'[s] = "outside"
        BY <2>1 DEF ExecInv, ExecTypeOK, TypeOK
      <3> QED
        BY <3>1 DEF AtItsGate
    <2>2. CASE s # r
      <3>1. /\ req'[s] = req[s] /\ phase'[s] = phase[s]
            /\ asked'[s] = asked[s] /\ at'[s] = at[s]
        BY <2>2 DEF ExecInv, ExecTypeOK, TypeOK
      <3> QED
        BY <3>1 DEF StableInv, AtItsGate
    <2> QED
      BY <2>1, <2>2
  <1> QED
    BY <1>1 DEF StableInv, GateOfConfig

\* The provider of a call is that of the request, whatever is recorded of it.
LEMMA MarkedStays ==
    ASSUME NEW q \in Requested
    PROVE  Marked(q).onto = q.onto /\ Marked(q).pc = q.pc
  BY DEF Marked, Requested

\* Rounds and handlers end outside the credits fallback.
LEMMA EndsStay ==
    ASSUME NEW q, NEW e
    PROVE  /\ Fails(q, e).pc = "failed" /\ Over(q).pc = "done"
           /\ Marked(Fails(q, e)).pc = "failed"
  BY DEF Fails, Over, Marked, Arriving

\* A step of a round (a choice of credential or model, its end, a wait) leaves every
\* request at a gate it was given for its credential.
LEMMA RoundStays ==
    ASSUME StableInv, ExecInv, IndInv, NEW r \in Requests, Round(r)
    PROVE  StableInv'
  <1> USE Fields
  <1>1. AtItsGate(req[r], phase[r], asked[r], at[r])
    BY DEF StableInv
  <1>2. CASE PickUnusable(r)
    <2>1. PICK a \in Auths : req' = [req EXCEPT ![r].tried = @ \cup {a}]
      BY <1>2 DEF PickUnusable
    <2> DEFINE q == [req[r] EXCEPT !.tried = req[r].tried \cup {a}]
    <2>2. AtItsGate(q, phase[r], asked[r], at[r])
      BY <1>1 DEF AtItsGate, Requested
    <2>3. req' = [req EXCEPT ![r] = q]
      BY <2>1
    <2> QED
      BY <1>2, <2>2, <2>3, AloneStays DEF PickUnusable
  <1>3. CASE Pick(r)
    <2>1. PICK a \in Auths, n \in 1..PoolSize :
            /\ ReadLimit(r, ProviderOf[a])
            /\ LET gated == cfg[ProviderOf[a]] > 0 IN
               req' = [req EXCEPT
                 ![r].tried = @ \cup {a}, ![r].attempted = @ \cup {a},
                 ![r].pool = n, ![r].onto = ProviderOf[a],
                 ![r].pc = IF gated THEN "acquire" ELSE "call",
                 ![r].open = IF gated THEN @ ELSE @ + 1]
      BY <1>3 DEF Pick
    <2> DEFINE p == ProviderOf[a]
    <2>2. p \in Providers /\ cfg[p] \in Nat
      BY ExecutionAssumption, LimitsAreNat DEF ExecInv, ExecTypeOK, TypeOK
    <2>3. /\ req'[r].onto = p /\ req'[r].pc \in {"acquire", "call"}
          /\ \A s \in Requests : s # r => req'[s] = req[s]
      BY <2>1 DEF Requested
    <2>4. /\ asked'[r] = [provider |-> p, limit |-> cfg[p]]
          /\ phase'[r] = IF cfg[p] = 0 THEN "admitted" ELSE "limitRead"
          /\ \A s \in Requests : s # r => asked'[s] = asked[s] /\ phase'[s] = phase[s]
          /\ UNCHANGED <<cfg, gate, limit, at>>
      BY <2>1 DEF ReadLimit, IndInv, TypeOK
    <2> HIDE DEF p
    <2>5. AtItsGate(req[r], phase[r], asked[r], at[r])'
      BY <2>2, <2>3, <2>4 DEF AtItsGate
    <2>6. \A s \in Requests : s # r => AtItsGate(req[s], phase[s], asked[s], at[s])'
      BY <2>3, <2>4 DEF AtItsGate, StableInv
    <2> QED
      BY <2>4, <2>5, <2>6 DEF StableInv, GateOfConfig
  <1>4. CASE PickFails(r)
    <2> DEFINE q == Fails(req[r], IF req[r].lastErr # "none" THEN req[r].lastErr ELSE "noAuth")
    <2>1. q.pc = "failed" /\ phase[r] = "outside"
      BY <1>4, EndsStay DEF PickFails, Sound, Phases
    <2>2. AtItsGate(q, phase[r], asked[r], at[r])
      BY <2>1 DEF AtItsGate
    <2>3. req' = [req EXCEPT ![r] = q]
      BY <1>4 DEF PickFails
    <2> QED
      BY <1>4, <2>2, <2>3, AloneStays DEF PickFails
  <1>5. CASE LookUpGate(r)
    <2> DEFINE p == req[r].onto
    <2>1. /\ phase[r] = "limitRead" /\ asked[r] = [provider |-> p, limit |-> cfg[p]]
          /\ p \in Providers /\ cfg[p] > 0 /\ GateOfConfig(p)
          /\ asked[r].provider = p /\ asked[r].limit = cfg[p]
      BY <1>1, <1>5 DEF LookUpGate, LimiterFor, AtItsGate, StableInv, Requested
    <2>2. UNCHANGED <<req, cfg, asked>> /\ phase' = [phase EXCEPT ![r] = "queued"]
      BY <1>5 DEF LookUpGate, LimiterFor
    <2>3. CASE KeepGate(r)
      <3>1. gate[p] # Nil /\ at' = [at EXCEPT ![r] = gate[p]] /\ UNCHANGED <<gate, limit>>
        BY <2>1, <2>3 DEF KeepGate
      <3>2. at \in [Requests -> Limiters \cup {Nil}]
        BY DEF IndInv, TypeOK
      <3>3. ASSUME NEW s \in Requests
            PROVE  AtItsGate(req[s], phase[s], asked[s], at[s])'
        BY <1>1, <2>1, <2>2, <3>1, <3>2 DEF AtItsGate, StableInv
      <3> QED
        BY <2>2, <3>1, <3>3 DEF StableInv, GateOfConfig
    <2>4. CASE ReplaceGate(r)
      <3>1. gate[p] = Nil
        BY <2>1, <2>4 DEF ReplaceGate, GateOfConfig
      <3>2. PICK l \in Unreferenced :
              /\ gate' = [gate EXCEPT ![p] = l]
              /\ limit' = [limit EXCEPT ![l] = cfg[p]]
              /\ at' = [at EXCEPT ![r] = l]
        BY <2>1, <2>4 DEF ReplaceGate
      <3>3. /\ l \in Limiters /\ l # Nil
            /\ \A o \in Providers : gate[o] # l
            /\ \A s \in Requests : at[s] # l
        BY NilIsNoLimiter DEF Unreferenced
      <3>4. /\ at \in [Requests -> Limiters \cup {Nil}]
            /\ gate \in [Providers -> Limiters \cup {Nil}]
            /\ limit \in [Limiters -> Nat]
        BY DEF IndInv, TypeOK
      <3>5. ASSUME NEW o \in Providers PROVE GateOfConfig(o)'
        <4>1. CASE o = p
          BY <4>1, <2>2, <3>2, <3>3, <3>4 DEF GateOfConfig
        <4>2. CASE o # p
          <5>1. gate'[o] = gate[o] /\ (gate[o] \in Limiters => limit'[gate[o]] = limit[gate[o]])
            BY <4>2, <3>2, <3>3, <3>4
          <5> QED
            BY <5>1, <2>2 DEF GateOfConfig, StableInv
        <4> QED
          BY <4>1, <4>2
      <3>6. ASSUME NEW s \in Requests
            PROVE  AtItsGate(req[s], phase[s], asked[s], at[s])'
        <4>1. AtItsGate(req[s], phase[s], asked[s], at[s]) /\ req[s].onto \in Providers
          BY DEF StableInv, Requested
        <4>2. CASE s = r
          <5>1. phase'[s] = "queued" /\ at'[s] = l /\ gate'[p] = l
            BY <4>2, <2>1, <2>2, <3>2, <3>4
          <5> QED
            BY <4>2, <1>5, <2>1, <2>2, <3>3, <5>1 DEF AtItsGate, LookUpGate
        <4>3. CASE s # r
          <5>1. phase'[s] = phase[s] /\ at'[s] = at[s]
            BY <4>3, <2>2, <3>2, <3>4
          <5>2. req[s].onto # p => gate'[req[s].onto] = gate[req[s].onto]
            BY <4>1, <3>2, <3>4
          <5> QED
            BY <4>1, <5>1, <5>2, <2>2, <3>1 DEF AtItsGate
        <4> QED
          BY <4>2, <4>3
      <3> QED
        BY <3>5, <3>6 DEF StableInv
    <2> QED
      BY <1>5, <2>3, <2>4 DEF LookUpGate, LimiterFor
  <1>6. CASE Admitted(r)
    <2>1. /\ phase[r] = "queued" /\ phase' = [phase EXCEPT ![r] = "admitted"]
          /\ UNCHANGED <<cfg, gate, limit, asked, at>>
      BY <1>6 DEF Admitted, Admit
    <2>2. req'[r].onto = req[r].onto /\ req'[r].pc = "call"
      BY <1>6 DEF Admitted, Requested
    <2>3. \A s \in Requests : s # r => req'[s] = req[s] /\ phase'[s] = phase[s]
      BY <1>6, <2>1 DEF Admitted
    <2>4. AtItsGate(req[r], phase[r], asked[r], at[r])'
      BY <1>1, <2>1, <2>2 DEF AtItsGate
    <2>5. \A s \in Requests : s # r => AtItsGate(req[s], phase[s], asked[s], at[s])'
      BY <2>1, <2>3 DEF AtItsGate, StableInv
    <2> QED
      BY <2>1, <2>4, <2>5 DEF StableInv, GateOfConfig
  <1>7. CASE NotAdmitted(r)
    <2> DEFINE q == Fails(req[r], IF req[r].cancelled THEN "ctx" ELSE "timeout")
    <2>1. q.pc = "failed"
      BY EndsStay
    <2>2. req' = [req EXCEPT ![r] = q]
      BY <1>7 DEF NotAdmitted
    <2> HIDE DEF q
    <2> QED
      BY <1>7, <2>1, <2>2, LeaverStays DEF NotAdmitted, GiveUp
  <1> QED
    BY <1>2, <1>3, <1>4, <1>5, <1>6, <1>7 DEF Round

\* So does a step of a call or of a stream, whichever way it ends.
LEMMA CallStays ==
    ASSUME StableInv, ExecInv, IndInv, NEW r \in Requests, Call(r)
    PROVE  StableInv'
  <1> USE Fields
  <1>1. AtItsGate(req[r], phase[r], asked[r], at[r])
    BY DEF StableInv
  <1>2. ASSUME NEW q, req' = [req EXCEPT ![r] = q], Release(r),
               q.pc \notin {"creditsPick", "creditsCall", "stream"}
        PROVE  StableInv'
    BY <1>2, LeaverStays DEF Release
  <1>3. CASE CallSucceeds(r)
    <2>1. req' = [req EXCEPT ![r] = Over(Marked(req[r]))] /\ Release(r)
      BY <1>3 DEF CallSucceeds
    <2> QED
      BY <1>2, <2>1, EndsStay
  <1>4. CASE StreamOpens(r) \/ NextModel(r)
    <2> DEFINE q == IF StreamOpens(r) THEN [req[r] EXCEPT !.pc = "stream"]
                    ELSE [req[r] EXCEPT !.pool = req[r].pool - 1]
    <2>1. req' = [req EXCEPT ![r] = q] /\ UNCHANGED gateVars /\ req[r].pc = "call"
      BY <1>4 DEF StreamOpens, NextModel
    <2>2. phase[r] = "admitted"
      BY <2>1 DEF Sound
    <2>3. AtItsGate(q, phase[r], asked[r], at[r])
      BY <1>1, <2>1, <2>2 DEF AtItsGate, Requested
    <2> QED
      BY <2>1, <2>3, AloneStays
  <1>5. CASE CallAbandoned(r)
    <2>1. req' = [req EXCEPT ![r] = Fails(req[r], "ctx")] /\ Release(r)
      BY <1>5 DEF CallAbandoned
    <2> QED
      BY <1>2, <2>1, EndsStay
  <1>6. CASE CallInvalid(r)
    <2> DEFINE e == IF req[r].cancelled THEN "ctx" ELSE "invalid"
    <2>1. req' = [req EXCEPT ![r] = Marked(Fails(req[r], e))] /\ Release(r)
      BY <1>6 DEF CallInvalid
    <2> HIDE DEF e
    <2> QED
      BY <1>2, <2>1, EndsStay
  <1>7. CASE NextCredential(r)
    <2> DEFINE q == IF req[r].stream /\ req[r].cancelled
                    THEN Marked(Fails(req[r], "ctx"))
                    ELSE [[Marked(req[r]) EXCEPT !.pc = "pick"] EXCEPT !.lastErr = "upstream"]
    <2>1. req' = [req EXCEPT ![r] = q] /\ Release(r)
      BY <1>7 DEF NextCredential
    <2>2. q.pc \in {"failed", "pick"}
      BY EndsStay, MarkedKeeps DEF Requested
    <2> HIDE DEF q
    <2> QED
      BY <1>2, <2>1, <2>2
  <1>8. CASE StreamErrs(r)
    <2> DEFINE m == Marked(req[r])
               q == [m EXCEPT !.erred = TRUE]
    <2>1. req' = [req EXCEPT ![r] = q] /\ UNCHANGED gateVars
      BY <1>8 DEF StreamErrs
    <2>2. m \in Requested /\ m.onto = req[r].onto /\ m.pc = req[r].pc
      BY MarkedStays, MarkedKeeps
    <2> HIDE DEF m
    <2>3. AtItsGate(q, phase[r], asked[r], at[r])
      BY <1>1, <2>2 DEF AtItsGate, Requested
    <2> QED
      BY <2>1, <2>3, AloneStays
  <1>9. CASE StreamCloses(r) \/ StreamDropped(r)
    <2>1. PICK q : req' = [req EXCEPT ![r] = Over(q)]
      BY <1>9 DEF StreamCloses, StreamDropped
    <2>2. Release(r)
      BY <1>1, <1>9 DEF StreamCloses, StreamDropped, LeaveStream, AtItsGate
    <2> QED
      BY <1>2, <2>1, <2>2, EndsStay
  <1> QED
    BY <1>3, <1>4, <1>5, <1>6, <1>7, <1>8, <1>9 DEF Call

\* Without the fallback only waits and answers are between the rounds.
LEMMA BetweenStays ==
    ASSUME StableInv, ExecInv, NEW r \in Requests, ~CreditsFallback, Between(r)
    PROVE  StableInv'
  <1> USE Fields
  <1>1. AtItsGate(req[r], phase[r], asked[r], at[r])
    BY DEF StableInv
  <1>2. UNCHANGED gateVars
    BY BetweenLeavesGate
  <1>3. CASE Retry(r)
    <2> DEFINE q == [req[r] EXCEPT !.pc = "wait"]
    <2>1. req' = [req EXCEPT ![r] = q]
      BY <1>3 DEF Retry
    <2>2. AtItsGate(q, phase[r], asked[r], at[r])
      BY <1>1 DEF AtItsGate, Requested
    <2> QED
      BY <1>2, <2>1, <2>2, AloneStays
  <1>4. CASE WaitOver(r)
    <2> DEFINE q1 == [req[r] EXCEPT !.pc = "pick"]
               q2 == [q1 EXCEPT !.err = "none"]
               q  == [q2 EXCEPT !.round = req[r].round + 1]
    <2>1. req' = [req EXCEPT ![r] = q]
      BY <1>4 DEF WaitOver
    <2>2. q.pc = "pick" /\ q.onto = req[r].onto
      BY DEF Requested
    <2> HIDE DEF q
    <2>3. AtItsGate(q, phase[r], asked[r], at[r])
      BY <1>1, <2>2 DEF AtItsGate
    <2> QED
      BY <1>2, <2>1, <2>3, AloneStays
  <1>5. CASE WaitCancelled(r) \/ Answer(r)
    <2>1. req' = [req EXCEPT ![r] = Over(req[r])]
      BY <1>5 DEF WaitCancelled, Answer
    <2>2. phase[r] = "outside"
      BY <1>5 DEF WaitCancelled, Answer, Sound, Phases
    <2>3. AtItsGate(Over(req[r]), phase[r], asked[r], at[r])
      BY <2>2, EndsStay DEF AtItsGate
    <2> QED
      BY <1>2, <2>1, <2>3, AloneStays
  <1>6. ~(TryCredits(r) \/ CreditsPick(r) \/ CreditsExhausted(r) \/ CreditsSucceed(r)
          \/ CreditsFail(r))
    BY <1>1 DEF AtItsGate, TryCredits, CreditsPick, CreditsExhausted, CreditsSucceed, CreditsFail
  <1> QED
    BY <1>3, <1>4, <1>5, <1>6 DEF Between

\* A client that leaves changes where no request is.
LEMMA CancelStays ==
    ASSUME StableInv, ExecInv, NEW r \in Requests, Cancel(r)
    PROVE  StableInv'
  <1> USE Fields
  <1> DEFINE q == [req[r] EXCEPT !.cancelled = TRUE]
  <1>1. req' = [req EXCEPT ![r] = q] /\ UNCHANGED gateVars
    BY DEF Cancel
  <1>2. AtItsGate(q, phase[r], asked[r], at[r])
    BY DEF StableInv, AtItsGate, Requested
  <1> QED
    BY <1>1, <1>2, AloneStays

\* There are no gates at the start, and nobody is at one.
LEMMA InitStays == Init => StableInv
  <1> SUFFICES ASSUME Init PROVE StableInv
    OBVIOUS
  <1>1. \A p \in Providers : GateOfConfig(p)
    BY DEF Init, GateInit, GateOfConfig
  <1>2. ASSUME NEW r \in Requests PROVE AtItsGate(req[r], phase[r], asked[r], at[r])
    <2>1. req[r].pc = "pick" /\ phase[r] = "outside"
      BY DEF Init, GateInit, Arriving
    <2> QED
      BY <2>1 DEF AtItsGate
  <1> QED
    BY <1>1, <1>2 DEF StableInv

\* Every step of the execution without reloads keeps the invariant.
LEMMA StepStays ==
    ASSUME ~CreditsFallback
    PROVE  StableInv /\ ExecInv /\ IndInv /\ [StableNext]_vars => StableInv'
  <1> SUFFICES ASSUME StableInv, ExecInv, IndInv, [StableNext]_vars PROVE StableInv'
    OBVIOUS
  <1>1. CASE UNCHANGED vars
    BY <1>1 DEF vars, gateVars, StableInv, GateOfConfig, AtItsGate
  <1>2. ASSUME NEW r \in Requests, Serve(r) \/ Cancel(r) PROVE StableInv'
    BY <1>2, RoundStays, CallStays, BetweenStays, CancelStays DEF Serve
  <1> QED
    BY <1>1, <1>2 DEF StableNext

\* Whoever calls a provider with a limit holds a permit of its one gate, and the
\* gate has no more permits than the limit.
LEMMA BoundedByGate == StableInv /\ ExecInv /\ IndInv => InFlightWithinLimit
  <1> SUFFICES ASSUME StableInv, ExecInv, IndInv, NEW p \in Providers, cfg[p] > 0
               PROVE  Cardinality(InFlight(p)) <= cfg[p]
    BY DEF InFlightWithinLimit
  <1>1. cfg[p] \in Nat
    BY LimitsAreNat DEF IndInv, TypeOK
  <1>2. CASE gate[p] = Nil
    <2>1. InFlight(p) = {}
      BY <1>2, Fields DEF InFlight, Calling, StableInv, AtItsGate, Sound
    <2> QED
      BY <1>1, <2>1, FS_EmptySet
  <1>3. CASE gate[p] # Nil
    <2>1. gate[p] \in Limiters /\ limit[gate[p]] = cfg[p]
      BY <1>3 DEF StableInv, GateOfConfig
    <2>2. InFlight(p) \subseteq Holders(gate[p])
      BY Fields DEF InFlight, Calling, Holders, StableInv, AtItsGate, Sound
    <2>3. Cardinality(InFlight(p)) <= Cardinality(Holders(gate[p]))
      BY <2>2, HoldersFinite, FS_Subset
    <2>4. Cardinality(Holders(gate[p])) <= cfg[p]
      BY <2>1 DEF IndInv, PermitAccounting, SemsFit
    <2>5. Cardinality(InFlight(p)) \in Nat
      BY <2>2, HoldersFinite, FS_Subset, FS_CardinalityType
    <2> QED
      BY <1>1, <2>3, <2>4, <2>5, HoldersFinite
  <1> QED
    BY <1>2, <1>3

\* A provider never has more calls in flight than the limit of a configuration that
\* stays, whatever its requests do: stream, fail, time out, retry or leave.
THEOREM StableInFlight ==
    ASSUME ~CreditsFallback
    PROVE  StableSpec => []InFlightWithinLimit
  <1>1. StableInv /\ ExecInv /\ IndInv /\ [StableNext]_vars => StableInv'
    BY StepStays
  <1>2. StableSpec => []StableInv
    BY <1>1, InitStays, StableIsExecution, PTL DEF StableSpec
  <1> QED
    BY <1>2, StableIsExecution, BoundedByGate, PTL

-----------------------------------------------------------------------------
(* The records of usage. *)

\* How many records the dispatcher has taken so far: the number of the last one.
Taken == published - Len(pending)

WorkerRec == [pc : {"wait", "check", "offer", "stamp", "keep"}, record : Nat, at : Nat]

\* The records are numbered as they come, and those that wait are the last ones.
ManagerOK ==
    /\ published \in Nat /\ pending \in Seq(Nat) /\ Len(pending) <= published
    /\ \A i \in 1 .. Len(pending) : pending[i] = Taken + i
    /\ clock \in Nat /\ worker \in WorkerRec
    /\ worker.pc # "wait" => worker.record <= Taken

\* Nobody was given a record that the dispatcher has yet to offer.
OffersOK ==
    /\ Received \in [Subscribers -> Seq(Nat)]
    /\ \A s \in Subscribers :
        \A i \in 1 .. Len(Received[s]) :
            /\ Received[s][i] <= Taken
            /\ worker.pc # "wait" => Received[s][i] < worker.record

\* What was offered so far came before what the dispatcher has yet to offer.
LogOK ==
    /\ log \in Seq(Nat) /\ Increasing(log)
    /\ \A i \in 1 .. Len(log) :
        /\ log[i] <= Taken
        /\ worker.pc \in {"check", "offer"} => log[i] < worker.record

\* g, given since the log had n records, is what follows in it; all of it when whole.
Follows(g, n, l, whole) ==
    /\ n + Len(g) <= Len(l)
    /\ \A i \in 1 .. Len(g) : g[i] = l[n + i]
    /\ whole => n + Len(g) = Len(l)

Followed == \A s \in Subscribers : Follows(Received[s], joined[s], log, state[s] = "on")

SubStates == {"new", "on", "cleared", "closed"}

\* Whoever has yet to subscribe was given nothing.
ChannelsOK ==
    /\ chan \in [Subscribers -> Seq(Nat)] /\ seen \in [Subscribers -> Seq(Nat)]
    /\ joined \in [Subscribers -> Nat] /\ state \in [Subscribers -> SubStates]
    /\ \A s \in Subscribers : state[s] = "new" => Received[s] = <<>>
    /\ Followed

PipelineInv == ManagerOK /\ OffersOK /\ LogOK /\ ChannelsOK

-----------------------------------------------------------------------------
(* Sequences. *)

\* A larger number at the end leaves a sequence increasing.
LEMMA IncreasingAppend ==
    ASSUME NEW s \in Seq(Nat), NEW n \in Nat, Increasing(s),
           \A i \in 1 .. Len(s) : s[i] < n
    PROVE  Increasing(Append(s, n))
  BY DEF Increasing

\* What is put into a channel is put behind what was taken from it.
LEMMA PutBehind ==
    ASSUME NEW s \in Seq(Nat), NEW t \in Seq(Nat), NEW n \in Nat
    PROVE  s \o Append(t, n) = Append(s \o t, n)
  OBVIOUS

\* Numbers of a sequence that are at most a bound.
AtMost(s, n) == \A i \in 1 .. Len(s) : s[i] <= n

\* A number at the end that is at most the bound keeps a sequence at most the bound.
LEMMA AtMostAppend ==
    ASSUME NEW s \in Seq(Nat), NEW n \in Nat, NEW m \in Nat, n <= m, AtMost(s, m)
    PROVE  AtMost(Append(s, n), m)
  <1> DEFINE a == Append(s, n)
  <1>1. /\ Len(a) = Len(s) + 1 /\ a[Len(s) + 1] = n /\ Len(s) \in Nat
        /\ \A i \in 1 .. Len(s) : a[i] = s[i]
    OBVIOUS
  <1> HIDE DEF a
  <1>2. ASSUME NEW i \in 1 .. Len(a) PROVE a[i] <= m
    <2>1. i \in 1 .. Len(s) \/ i = Len(s) + 1
      BY <1>1
    <2> QED
      BY <1>1, <2>1 DEF AtMost
  <1> QED
    BY <1>2 DEF AtMost, a

\* A record given as it is offered follows the others of a subscription.
LEMMA GivenFollows ==
    ASSUME NEW g \in Seq(Nat), NEW l \in Seq(Nat), NEW n \in Nat, NEW x \in Nat, NEW w \in BOOLEAN,
           Follows(g, n, l, TRUE)
    PROVE  Follows(Append(g, x), n, Append(l, x), w)
  <1> DEFINE h == Append(g, x)  k == Append(l, x)  c == Len(g)  d == Len(l)
  <1>1. c \in Nat /\ d \in Nat /\ n + c = d
    BY DEF Follows
  <1>2. \A i \in 1 .. c : g[i] = l[n + i]
    BY DEF Follows
  <1>3. Len(h) = c + 1 /\ h[c + 1] = x /\ \A i \in 1 .. c : h[i] = g[i]
    OBVIOUS
  <1>4. Len(k) = d + 1 /\ k[d + 1] = x /\ \A i \in 1 .. d : k[i] = l[i]
    OBVIOUS
  <1> HIDE DEF h, k, c, d
  <1>5. ASSUME NEW i \in 1 .. c + 1 PROVE h[i] = k[n + i]
    <2>1. CASE i \in 1 .. c
      <3>1. n + i \in 1 .. d
        BY <1>1, <2>1
      <3> QED
        BY <1>2, <1>3, <1>4, <2>1, <3>1
    <2>2. CASE i = c + 1
      <3>1. n + i = d + 1
        BY <1>1, <2>2
      <3> QED
        BY <1>3, <1>4, <2>2, <3>1
    <2> QED
      BY <1>1, <2>1, <2>2
  <1>6. n + (c + 1) = d + 1
    BY <1>1
  <1>7. n + Len(h) = Len(k) /\ n + Len(h) <= Len(k)
    BY <1>1, <1>3, <1>4, <1>6
  <1>8. \A i \in 1 .. Len(h) : h[i] = k[n + i]
    BY <1>3, <1>5
  <1>9. Follows(h, n, k, w)
    BY <1>7, <1>8 DEF Follows
  <1> QED
    BY <1>9 DEF h, k

\* A subscription that has ended misses what is offered now, and nothing before it.
LEMMA MissedFollows ==
    ASSUME NEW g \in Seq(Nat), NEW l \in Seq(Nat), NEW n \in Nat, NEW x \in Nat, NEW w,
           Follows(g, n, l, w)
    PROVE  Follows(g, n, Append(l, x), FALSE)
  <1> DEFINE k == Append(l, x)
  <1>1. /\ Len(k) = Len(l) + 1 /\ Len(l) \in Nat /\ Len(g) \in Nat
        /\ \A i \in 1 .. Len(l) : k[i] = l[i]
    OBVIOUS
  <1> HIDE DEF k
  <1>2. /\ n + Len(g) <= Len(l)
        /\ \A i \in 1 .. Len(g) : g[i] = l[n + i]
    BY DEF Follows
  <1>3. ASSUME NEW i \in 1 .. Len(g) PROVE g[i] = k[n + i]
    <2>1. n + i \in 1 .. Len(l)
      BY <1>1, <1>2
    <2> QED
      BY <1>1, <1>2, <2>1
  <1> QED
    BY <1>1, <1>2, <1>3 DEF Follows, k

\* Less is asked of a subscription that has ended.
LEMMA FollowsStill ==
    ASSUME NEW g, NEW l, NEW n, NEW v \in BOOLEAN, NEW w \in BOOLEAN, v => w,
           Follows(g, n, l, w)
    PROVE  Follows(g, n, l, v)
  BY DEF Follows

\* What is taken from a channel is the next.
LEMMA TakeNext ==
    ASSUME NEW s \in Seq(Nat), NEW t \in Seq(Nat), t # <<>>
    PROVE  Append(s, Head(t)) \o Tail(t) = s \o t
  OBVIOUS

-----------------------------------------------------------------------------
(* The manager and the dispatcher. *)

\* At first nothing is published and nobody is subscribed.
LEMMA InitHolds == UsageInit => PipelineInv
  <1> SUFFICES ASSUME UsageInit PROVE PipelineInv
    OBVIOUS
  <1>1. ManagerOK
    BY DEF UsageInit, ManagerOK, WorkerRec, Waiting, Taken
  <1>2. Received = [s \in Subscribers |-> <<>>]
    BY DEF UsageInit, Received
  <1>3. OffersOK
    BY <1>2 DEF OffersOK
  <1>4. LogOK
    BY DEF UsageInit, LogOK, Increasing
  <1>5. ASSUME NEW s \in Subscribers PROVE Follows(Received[s], joined[s], log, state[s] = "on")
    <2>1. Received[s] = <<>> /\ joined[s] = 0 /\ log = <<>> /\ state[s] = "new"
      BY <1>2 DEF UsageInit
    <2>2. Follows(<<>>, 0, <<>>, FALSE)
      BY DEF Follows
    <2> QED
      BY <2>1, <2>2
  <1>6. ChannelsOK
    BY <1>2, <1>5 DEF UsageInit, ChannelsOK, SubStates, Followed
  <1> QED
    BY <1>1, <1>3, <1>4, <1>6 DEF PipelineInv

\* The dispatcher takes the record with the next number.
LEMMA DispatchTakes ==
    ASSUME PipelineInv, Dispatch
    PROVE  /\ published' = published /\ pending \in Seq(Nat) /\ pending' \in Seq(Nat)
           /\ Len(pending') = Len(pending) - 1
           /\ \A i \in 1 .. Len(pending') : pending'[i] = pending[i + 1]
           /\ Taken \in Nat /\ Taken' = Taken + 1
           /\ worker' = [pc |-> "check", record |-> Taken + 1, at |-> 0]
  <1>1. /\ published \in Nat /\ pending \in Seq(Nat) /\ Len(pending) <= published
        /\ pending # <<>> /\ pending' = Tail(pending) /\ published' = published
        /\ pending[1] = Taken + 1
    BY DEF PipelineInv, ManagerOK, Dispatch, managerVars
  <1>2. /\ Len(pending') = Len(pending) - 1 /\ pending' \in Seq(Nat)
        /\ \A i \in 1 .. Len(pending') : pending'[i] = pending[i + 1]
    BY <1>1
  <1>3. Taken \in Nat /\ Taken' = Taken + 1
    BY <1>1, <1>2 DEF Taken
  <1>4. worker' = [pc |-> "check", record |-> Taken + 1, at |-> 0]
    BY <1>1 DEF Dispatch
  <1> QED
    BY <1>1, <1>2, <1>3, <1>4

\* A record in hand is larger than all that was offered.
LEMMA DispatchHolds ==
    ASSUME PipelineInv, Dispatch
    PROVE  PipelineInv'
  <1>1. published \in Nat /\ pending \in Seq(Nat) /\ Len(pending) <= published
    BY DEF PipelineInv, ManagerOK
  <1>2. /\ Len(pending') = Len(pending) - 1 /\ pending' \in Seq(Nat) /\ published' = published
        /\ \A i \in 1 .. Len(pending') : pending'[i] = pending[i + 1]
    BY DispatchTakes
  <1>3. Taken \in Nat /\ Taken' = Taken + 1
    BY DispatchTakes
  <1>4. worker' = [pc |-> "check", record |-> Taken + 1, at |-> 0]
    BY DispatchTakes
  <1>5. ManagerOK'
    <2>1. \A i \in 1 .. Len(pending') : pending'[i] = Taken' + i
      BY <1>1, <1>2, <1>3 DEF PipelineInv, ManagerOK
    <2> QED
      BY <1>1, <1>2, <1>3, <1>4, <2>1 DEF PipelineInv, ManagerOK, WorkerRec, Dispatch
  <1>6. UNCHANGED <<seen, chan, log, joined, state>> /\ Received' = Received
    BY DEF Dispatch, historyVars, subVars, Received
  <1>7. OffersOK'
    <2>1. \A s \in Subscribers : Received[s] \in Seq(Nat)
      BY DEF PipelineInv, OffersOK
    <2>2. \A s \in Subscribers : \A i \in 1 .. Len(Received[s]) :
              Received[s][i] \in Nat /\ Received[s][i] <= Taken
      BY <2>1 DEF PipelineInv, OffersOK
    <2> QED
      BY <1>3, <1>4, <1>6, <2>2 DEF PipelineInv, OffersOK
  <1>8. LogOK'
    <2>1. \A i \in 1 .. Len(log) : log[i] \in Nat /\ log[i] <= Taken
      BY DEF PipelineInv, LogOK
    <2> QED
      BY <1>3, <1>4, <1>6, <2>1 DEF PipelineInv, LogOK, Increasing
  <1>9. ChannelsOK'
    BY <1>6 DEF PipelineInv, ChannelsOK, Followed
  <1> QED
    BY <1>5, <1>7, <1>8, <1>9 DEF PipelineInv

\* A publication adds a record to those that wait.
LEMMA PublishTakes ==
    ASSUME PipelineInv, Publish
    PROVE  /\ pending' \in Seq(Nat) /\ Len(pending') = Len(pending) + 1
           /\ \A i \in 1 .. Len(pending) : pending'[i] = pending[i]
           /\ pending'[Len(pending) + 1] = published + 1
           /\ Taken \in Nat /\ Taken' = Taken /\ Taken + Len(pending) + 1 = published + 1
  <1>1. /\ published \in Nat /\ pending \in Seq(Nat) /\ Len(pending) <= published
        /\ published' = published + 1 /\ pending' = Append(pending, published + 1)
    BY DEF PipelineInv, ManagerOK, Publish
  <1>2. /\ pending' \in Seq(Nat) /\ Len(pending') = Len(pending) + 1
        /\ \A i \in 1 .. Len(pending) : pending'[i] = pending[i]
        /\ pending'[Len(pending) + 1] = published + 1
    BY <1>1
  <1>3. Taken \in Nat /\ Taken' = Taken /\ Taken + Len(pending) + 1 = published + 1
    BY <1>1, <1>2 DEF Taken
  <1> QED
    BY <1>2, <1>3

\* A publication leaves the numbers in order.
LEMMA PublishHolds ==
    ASSUME PipelineInv, Publish
    PROVE  PipelineInv'
  <1>1. /\ published \in Nat /\ pending \in Seq(Nat) /\ Len(pending) <= published
        /\ published' = published + 1
    BY DEF PipelineInv, ManagerOK, Publish
  <1>2. /\ pending' \in Seq(Nat) /\ Len(pending') = Len(pending) + 1
        /\ \A i \in 1 .. Len(pending) : pending'[i] = pending[i]
        /\ pending'[Len(pending) + 1] = published + 1
    BY PublishTakes
  <1>3. Taken \in Nat /\ Taken' = Taken /\ Taken + Len(pending) + 1 = published + 1
    BY PublishTakes
  <1>4. ASSUME NEW i \in 1 .. Len(pending') PROVE pending'[i] = Taken' + i
    <2>1. CASE i \in 1 .. Len(pending)
      BY <1>2, <1>3, <2>1 DEF PipelineInv, ManagerOK
    <2>2. CASE i = Len(pending) + 1
      BY <1>1, <1>2, <1>3, <2>2
    <2> QED
      BY <1>1, <1>2, <2>1, <2>2
  <1>5. ManagerOK'
    BY <1>1, <1>2, <1>3, <1>4 DEF PipelineInv, ManagerOK, Publish
  <1>6. UNCHANGED <<worker, seen, chan, log, joined, state>> /\ Received' = Received
    BY DEF Publish, historyVars, subVars, Received
  <1>7. OffersOK' /\ LogOK' /\ ChannelsOK'
    BY <1>3, <1>6 DEF PipelineInv, OffersOK, LogOK, Increasing, ChannelsOK, Followed
  <1> QED
    BY <1>5, <1>7 DEF PipelineInv

\* What becomes of the worker's record moves no number.
SameManager == UNCHANGED <<published, pending, clock>>

\* What the dispatcher has taken is a matter of the manager alone.
LEMMA SameTaken == SameManager => Taken' = Taken
  BY DEF SameManager, Taken

\* No subscription begins, and nobody is given anything.
SameRecords ==
    /\ UNCHANGED <<Received, seen, chan, log, joined>>
    /\ state' \in [Subscribers -> SubStates]
    /\ \A s \in Subscribers : state'[s] \in {"new", "on"} => state[s] = state'[s]

\* A worker that goes on with its record, or waits for another, breaks nothing, and
\* nor does the end of a subscription.
LEMMA WorkerGoesOn ==
    ASSUME PipelineInv, SameManager, SameRecords,
           worker' \in WorkerRec,
           worker'.pc # "wait" => worker.pc # "wait" /\ worker'.record = worker.record,
           worker'.pc \in {"check", "offer"} => worker.pc \in {"check", "offer"}
    PROVE  PipelineInv'
  <1>1. Taken' = Taken
    BY SameTaken
  <1>2. ManagerOK'
    BY <1>1 DEF PipelineInv, ManagerOK, SameManager
  <1>3. OffersOK'
    BY <1>1 DEF PipelineInv, OffersOK, SameRecords
  <1>4. LogOK'
    <2>1. worker'.pc \in {"check", "offer"} => worker'.record = worker.record
      OBVIOUS
    <2> QED
      BY <1>1, <2>1 DEF PipelineInv, LogOK, Increasing, SameRecords
  <1>5. ASSUME NEW s \in Subscribers
        PROVE  Follows(Received'[s], joined'[s], log', state'[s] = "on")
    <2>1. Follows(Received[s], joined[s], log, state[s] = "on")
      BY DEF PipelineInv, ChannelsOK, Followed
    <2>2. state'[s] = "on" => state[s] = "on"
      BY DEF SameRecords
    <2>3. Follows(Received[s], joined[s], log, state'[s] = "on")
      BY <2>1, <2>2, FollowsStill
    <2> QED
      BY <2>3 DEF SameRecords
  <1>6. ChannelsOK'
    BY <1>5 DEF PipelineInv, ChannelsOK, Followed, SameRecords
  <1> QED
    BY <1>2, <1>3, <1>4, <1>6 DEF PipelineInv

\* Of the other steps only a clear and the end of a subscription touch its state.
LEMMA OthersLeaveRecords ==
    ASSUME PipelineInv,
           \/ UNCHANGED usageVars
           \/ Stop \/ CheckEnabled \/ Stamp \/ Keep
           \/ \E n \in 1 .. MaxPop, t \in {clock - 1, clock} : PopOldest(n, t)
           \/ \E s \in Subscribers : Unsubscribe(s) \/ CloseCleared(s)
           \/ SwitchOn \/ SwitchOff \/ Clear
    PROVE  SameManager /\ SameRecords
  <1>1. UNCHANGED <<published, pending, clock, seen, chan, log, joined>>
    BY DEF usageVars, Stop, CheckEnabled, Stamp, Keep, PopOldest, Unsubscribe,
           CloseCleared, SwitchOn, SwitchOff, Clear, managerVars, historyVars, subVars
  <1>2. Received' = Received
    BY <1>1 DEF Received
  <1>3. state \in [Subscribers -> SubStates]
    BY DEF PipelineInv, ChannelsOK
  <1>4. \/ state' = state
        \/ \E s \in Subscribers :
              state' = [state EXCEPT ![s] = IF state[s] = "on" THEN "closed" ELSE state[s]]
        \/ \E s \in Subscribers : state' = [state EXCEPT ![s] = "closed"]
        \/ state' = [s \in Subscribers |-> IF s \in Subscribed THEN "cleared" ELSE state[s]]
    BY DEF usageVars, Stop, CheckEnabled, Stamp, Keep, PopOldest, Unsubscribe,
           CloseCleared, SwitchOn, SwitchOff, Clear, subVars
  <1>5. state' \in [Subscribers -> SubStates]
    BY <1>3, <1>4 DEF SubStates
  <1>6. ASSUME NEW s \in Subscribers
        PROVE  state'[s] \in {"new", "on"} => state[s] = state'[s]
    BY <1>3, <1>4 DEF Subscribed
  <1> QED
    BY <1>1, <1>2, <1>5, <1>6 DEF SameManager, SameRecords

\* The switches and what becomes of a record concern no subscription's records.
LEMMA OthersHold ==
    ASSUME PipelineInv,
           \/ UNCHANGED usageVars
           \/ Stop \/ CheckEnabled \/ Stamp \/ Keep
           \/ \E n \in 1 .. MaxPop, t \in {clock - 1, clock} : PopOldest(n, t)
           \/ \E s \in Subscribers : Unsubscribe(s) \/ CloseCleared(s)
           \/ SwitchOn \/ SwitchOff \/ Clear
    PROVE  PipelineInv'
  <1>1. worker \in WorkerRec /\ clock \in Nat /\ Waiting \in WorkerRec
    BY DEF PipelineInv, ManagerOK, WorkerRec, Waiting
  <1>2. SameManager /\ SameRecords
    BY OthersLeaveRecords
  <1>3. \/ worker' = worker \/ worker' = Waiting
        \/ worker.pc = "check" /\ worker' = [worker EXCEPT !.pc = "offer"]
        \/ worker.pc = "stamp" /\ worker' = [worker EXCEPT !.pc = "keep", !.at = clock]
    BY DEF usageVars, Stop, CheckEnabled, Stamp, Keep, PopOldest, Unsubscribe,
           CloseCleared, SwitchOn, SwitchOff, Clear
  <1>4. /\ worker' \in WorkerRec
        /\ worker'.pc # "wait" => worker.pc # "wait" /\ worker'.record = worker.record
        /\ worker'.pc \in {"check", "offer"} => worker.pc \in {"check", "offer"}
    BY <1>1, <1>3 DEF WorkerRec, Waiting
  <1> QED
    BY <1>2, <1>4, WorkerGoesOn

\* Time is no concern of a subscription.
LEMMA TickHolds ==
    ASSUME PipelineInv, Tick
    PROVE  PipelineInv'
  <1>1. clock' \in Nat /\ Taken' = Taken
    BY DEF PipelineInv, ManagerOK, Tick, Taken, managerVars
  <1>2. /\ UNCHANGED <<published, pending, worker, seen, chan, log, joined, state>>
        /\ Received' = Received
    BY DEF Tick, managerVars, historyVars, subVars, Received
  <1> QED
    BY <1>1, <1>2 DEF PipelineInv, ManagerOK, OffersOK, LogOK, Increasing, ChannelsOK, Followed

-----------------------------------------------------------------------------
(* The subscriptions. *)

\* A subscription begins with what is offered next.
LEMMA SubscribeHolds ==
    ASSUME PipelineInv, NEW s \in Subscribers, Subscribe(s)
    PROVE  PipelineInv'
  <1>1. UNCHANGED <<published, pending, clock, worker, seen, chan, log>>
    BY DEF Subscribe, managerVars
  <1>2. Received' = Received /\ Taken' = Taken
    BY <1>1 DEF Received, Taken
  <1>3. ManagerOK' /\ OffersOK' /\ LogOK'
    BY <1>1, <1>2 DEF PipelineInv, ManagerOK, OffersOK, LogOK, Increasing
  <1>4. /\ state \in [Subscribers -> SubStates] /\ joined \in [Subscribers -> Nat]
        /\ state[s] = "new" /\ Received[s] = <<>> /\ log \in Seq(Nat) /\ Len(log) \in Nat
        /\ state' = [state EXCEPT ![s] = "on"] /\ joined' = [joined EXCEPT ![s] = Len(log)]
    BY DEF PipelineInv, ChannelsOK, LogOK, Subscribe
  <1>5. ASSUME NEW t \in Subscribers
        PROVE  Follows(Received'[t], joined'[t], log', state'[t] = "on")
    <2>1. CASE t = s
      <3>1. Received'[t] = <<>> /\ joined'[t] = Len(log) /\ log' = log
        BY <1>1, <1>2, <1>4, <2>1
      <3>2. Follows(<<>>, Len(log), log, state'[t] = "on")
        BY <1>4 DEF Follows
      <3> QED
        BY <3>1, <3>2
    <2>2. CASE t # s
      <3>1. joined'[t] = joined[t] /\ state'[t] = state[t]
        BY <1>4, <2>2
      <3> QED
        BY <1>1, <1>2, <3>1 DEF PipelineInv, ChannelsOK, Followed
    <2> QED
      BY <2>1, <2>2
  <1>6. \A t \in Subscribers : state'[t] = "new" => Received'[t] = <<>>
    BY <1>2, <1>4 DEF PipelineInv, ChannelsOK
  <1>7. joined' \in [Subscribers -> Nat] /\ state' \in [Subscribers -> SubStates]
    BY <1>4 DEF SubStates
  <1>8. ChannelsOK'
    BY <1>1, <1>5, <1>6, <1>7 DEF PipelineInv, ChannelsOK, Followed
  <1> QED
    BY <1>3, <1>8 DEF PipelineInv

\* A subscriber takes the next of its channel.
LEMMA TakeHolds ==
    ASSUME PipelineInv, NEW s \in Subscribers, Take(s)
    PROVE  PipelineInv' /\ Received' = Received
  <1>1. UNCHANGED <<published, pending, clock, worker, log, joined, state>>
    BY DEF Take, managerVars
  <1>2. /\ seen[s] \in Seq(Nat) /\ chan[s] \in Seq(Nat) /\ chan[s] # <<>>
        /\ seen' = [seen EXCEPT ![s] = Append(seen[s], Head(chan[s]))]
        /\ chan' = [chan EXCEPT ![s] = Tail(chan[s])]
    BY DEF PipelineInv, ChannelsOK, Take
  <1>3. Append(seen[s], Head(chan[s])) \in Seq(Nat) /\ Tail(chan[s]) \in Seq(Nat)
    BY <1>2
  <1>4. chan' \in [Subscribers -> Seq(Nat)] /\ seen' \in [Subscribers -> Seq(Nat)]
    BY <1>2, <1>3 DEF PipelineInv, ChannelsOK
  <1>5. \A t \in Subscribers : seen'[t] \o chan'[t] = seen[t] \o chan[t]
    <2> SUFFICES ASSUME NEW t \in Subscribers PROVE seen'[t] \o chan'[t] = seen[t] \o chan[t]
      OBVIOUS
    <2>1. CASE t = s
      <3>1. seen'[s] = Append(seen[s], Head(chan[s])) /\ chan'[s] = Tail(chan[s])
        BY <1>2 DEF PipelineInv, ChannelsOK
      <3>2. Append(seen[s], Head(chan[s])) \o Tail(chan[s]) = seen[s] \o chan[s]
        BY <1>2, TakeNext
      <3> QED
        BY <2>1, <3>1, <3>2
    <2>2. CASE t # s
      BY <1>2, <2>2 DEF PipelineInv, ChannelsOK
    <2> QED
      BY <2>1, <2>2
  <1>6. Received' = Received
    BY <1>5 DEF Received
  <1>7. ManagerOK' /\ OffersOK' /\ LogOK'
    BY <1>1, <1>6 DEF PipelineInv, ManagerOK, OffersOK, LogOK, Increasing, Taken
  <1>8. ChannelsOK'
    BY <1>1, <1>4, <1>6 DEF PipelineInv, ChannelsOK, Followed
  <1> QED
    BY <1>6, <1>7, <1>8 DEF PipelineInv

\* A record that is offered goes behind the others, for whoever is subscribed and has
\* room, and whoever has none is subscribed no longer.
LEMMA OfferGives ==
    ASSUME PipelineInv, PublishToSubscribers, NEW s \in Subscribers
    PROVE  /\ chan'[s] \in Seq(Nat) /\ Received[s] \in Seq(Nat)
           /\ \/ /\ state[s] = "on" /\ state'[s] = "on" /\ s \in Subscribed
                 /\ Received'[s] = Append(Received[s], worker.record)
              \/ /\ state'[s] # "on" /\ (state'[s] = "new" => state[s] = "new")
                 /\ Received'[s] = Received[s]
  <1> DEFINE n == worker.record  Gets == s \in Subscribed /\ HasRoom(s)
  <1>1. n \in Nat /\ chan[s] \in Seq(Nat) /\ seen[s] \in Seq(Nat)
    BY DEF PipelineInv, ManagerOK, WorkerRec, ChannelsOK
  <1>2. /\ chan'[s] = IF Gets THEN Append(chan[s], n) ELSE chan[s]
        /\ state'[s] = IF s \in Subscribed /\ ~HasRoom(s) THEN "closed" ELSE state[s]
        /\ seen' = seen
    BY DEF PublishToSubscribers
  <1>3. Received[s] = seen[s] \o chan[s] /\ Received'[s] = seen[s] \o chan'[s]
    BY <1>2 DEF Received
  <1>4. Received[s] \in Seq(Nat) /\ chan'[s] \in Seq(Nat)
    BY <1>1, <1>2, <1>3
  <1>5. s \in Subscribed <=> state[s] = "on"
    BY DEF Subscribed
  <1> HIDE DEF n
  <1>6. CASE Gets
    <2>1. seen[s] \o Append(chan[s], n) = Append(seen[s] \o chan[s], n)
      BY <1>1, PutBehind
    <2> QED
      BY <1>2, <1>3, <1>4, <1>5, <1>6, <2>1 DEF n
  <1>7. CASE ~Gets
    BY <1>2, <1>3, <1>4, <1>5, <1>7 DEF n
  <1> QED
    BY <1>6, <1>7

\* What is offered is recorded for all, and given to all that are subscribed.
LEMMA OfferHolds ==
    ASSUME PipelineInv, PublishToSubscribers
    PROVE  PipelineInv'
  <1>1. /\ UNCHANGED <<published, pending, clock, seen, joined>>
        /\ log' = Append(log, worker.record)
    BY DEF PublishToSubscribers, managerVars
  <1>2. Taken' = Taken /\ published \in Nat /\ pending \in Seq(Nat) /\ Len(pending) <= published
        /\ Taken \in Nat
    BY <1>1 DEF Taken, PipelineInv, ManagerOK
  <1>3. worker \in WorkerRec /\ worker.pc = "offer" /\ worker.record \in Nat
        /\ worker.record <= Taken
    BY DEF PipelineInv, ManagerOK, PublishToSubscribers, WorkerRec
  <1> DEFINE n == worker.record
  <1>4. /\ worker' \in WorkerRec /\ worker'.pc \notin {"check", "offer"}
        /\ worker'.pc # "wait" => worker'.record = n /\ Subscribed = {}
    BY <1>3 DEF PublishToSubscribers, WorkerRec, Waiting
  <1>5. ManagerOK'
    BY <1>1, <1>2, <1>3, <1>4 DEF PipelineInv, ManagerOK
  <1>6. /\ log \in Seq(Nat) /\ Increasing(log) /\ AtMost(log, Taken)
        /\ \A i \in 1 .. Len(log) : log[i] < n
    BY <1>3 DEF PipelineInv, LogOK, AtMost
  <1>7. n \in Nat /\ n <= Taken
    BY <1>3
  <1> HIDE DEF n
  <1>8. LogOK'
    <2>1. Increasing(Append(log, n)) /\ Append(log, n) \in Seq(Nat)
      BY <1>6, <1>7, IncreasingAppend
    <2>2. AtMost(Append(log, n), Taken)
      BY <1>2, <1>6, <1>7, AtMostAppend
    <2>3. log' = Append(log, n)
      BY <1>1 DEF n
    <2> QED
      BY <1>2, <1>4, <2>1, <2>2, <2>3 DEF LogOK, AtMost, Increasing
  <1>9. ASSUME NEW s \in Subscribers
        PROVE  /\ chan'[s] \in Seq(Nat) /\ Received'[s] \in Seq(Nat)
               /\ Follows(Received'[s], joined'[s], log', state'[s] = "on")
               /\ AtMost(Received'[s], Taken)
               /\ Subscribed = {} => \A i \in 1 .. Len(Received'[s]) : Received'[s][i] < n
               /\ state'[s] = "new" => Received'[s] = <<>>
    <2> DEFINE g == Received[s]
    <2>1. /\ chan'[s] \in Seq(Nat) /\ g \in Seq(Nat)
          /\ \/ /\ state[s] = "on" /\ state'[s] = "on" /\ s \in Subscribed
                /\ Received'[s] = Append(g, n)
             \/ /\ state'[s] # "on" /\ (state'[s] = "new" => state[s] = "new")
                /\ Received'[s] = g
      BY OfferGives DEF n
    <2>2. Follows(g, joined[s], log, state[s] = "on") /\ (state[s] = "new" => g = <<>>)
      BY DEF PipelineInv, ChannelsOK, Followed
    <2>3. AtMost(g, Taken) /\ \A i \in 1 .. Len(g) : g[i] < n
      BY <1>3 DEF PipelineInv, OffersOK, AtMost, n
    <2>4. joined'[s] = joined[s] /\ log' = Append(log, n)
      BY <1>1 DEF n
    <2> HIDE DEF g
    <2>5. CASE Received'[s] = Append(g, n) /\ state[s] = "on" /\ state'[s] = "on" /\ s \in Subscribed
      <3>1. Follows(g, joined[s], log, TRUE) /\ joined[s] \in Nat
        BY <2>2, <2>5 DEF Follows, PipelineInv, ChannelsOK
      <3>2. Follows(Append(g, n), joined[s], Append(log, n), state'[s] = "on")
        BY <1>6, <1>7, <2>1, <3>1, GivenFollows
      <3>3. AtMost(Append(g, n), Taken)
        BY <1>2, <1>7, <2>1, <2>3, AtMostAppend
      <3>4. Append(g, n) \in Seq(Nat)
        BY <1>7, <2>1
      <3> QED
        BY <2>1, <2>4, <2>5, <3>2, <3>3, <3>4
    <2>6. CASE Received'[s] = g /\ state'[s] # "on" /\ (state'[s] = "new" => state[s] = "new")
      <3>0. joined[s] \in Nat
        BY DEF PipelineInv, ChannelsOK
      <3>1. Follows(g, joined[s], Append(log, n), FALSE)
        BY <1>6, <1>7, <2>1, <2>2, <3>0, MissedFollows
      <3>2. Follows(g, joined[s], Append(log, n), state'[s] = "on")
        BY <2>6, <3>1 DEF Follows
      <3> QED
        BY <2>1, <2>2, <2>3, <2>4, <2>6, <3>2
    <2> QED
      BY <2>1, <2>5, <2>6
  <1>10. /\ chan' \in [Subscribers -> Seq(Nat)] /\ Received' \in [Subscribers -> Seq(Nat)]
         /\ state' \in [Subscribers -> SubStates]
    <2>1. \A s \in Subscribers : chan'[s] \in Seq(Nat) /\ Received'[s] \in Seq(Nat)
      BY <1>9
    <2>2. /\ chan' = [s \in Subscribers |-> chan'[s]]
          /\ Received' = [s \in Subscribers |-> Received'[s]]
      BY DEF PublishToSubscribers, Received
    <2>3. /\ state \in [Subscribers -> SubStates]
          /\ state' = [s \in Subscribers |-> IF s \in Subscribed /\ ~HasRoom(s)
                                             THEN "closed" ELSE state[s]]
      BY DEF PipelineInv, ChannelsOK, PublishToSubscribers
    <2>4. state' \in [Subscribers -> SubStates]
      BY <2>3 DEF SubStates
    <2> QED
      BY <2>1, <2>2, <2>4
  <1>11. OffersOK'
    BY <1>2, <1>4, <1>9, <1>10 DEF OffersOK, AtMost
  <1>12. ChannelsOK'
    BY <1>1, <1>9, <1>10 DEF PipelineInv, ChannelsOK, Followed
  <1> QED
    BY <1>5, <1>8, <1>11, <1>12 DEF PipelineInv

\* Every step keeps the invariant of the subscriptions.
LEMMA StepHolds == PipelineInv /\ [UsageNext]_usageVars => PipelineInv'
  BY DispatchHolds, PublishHolds, OthersHold, TickHolds, SubscribeHolds, TakeHolds, OfferHolds
     DEF UsageNext, WorkerStep

\* A subscription has no gaps: whoever is subscribed is given all that came to be offered
\* since, in order, and whoever had to miss a record nothing after it.
THEOREM SubscriptionsWhole == UsageSpec => []SubscriptionHasNoGap
  <1>1. PipelineInv => SubscriptionHasNoGap
    BY DEF PipelineInv, LogOK, ChannelsOK, Followed, Follows, SubscriptionHasNoGap
  <1> QED
    BY <1>1, InitHolds, StepHolds, PTL DEF UsageSpec

-----------------------------------------------------------------------------
(* The queue, as the sequence of what it holds. *)

Item == [record : Nat, at : Nat]
QueueRec == [items : Seq(Item), head : Nat]

Good(q) == q \in QueueRec /\ q.head <= Len(q.items)
Live(q) == SubSeq(q.items, q.head + 1, Len(q.items))
Queue == [items |-> items, head |-> head]

\* M is what is left of L without its first k elements.
IsRest(M, L, k) ==
    /\ M \in Seq(Item) /\ k \in 0 .. Len(L) /\ Len(M) = Len(L) - k
    /\ \A i \in 1 .. Len(M) : M[i] = L[k + i]

\* What is left when nothing more goes.
LEMMA RestOfAll ==
    ASSUME NEW M, NEW N, NEW L, NEW k, IsRest(M, L, k), IsRest(N, M, 0)
    PROVE  IsRest(N, L, k)
  <1>1. /\ M \in Seq(Item) /\ N \in Seq(Item) /\ Len(M) \in Nat /\ Len(N) = Len(M)
        /\ \A i \in 1 .. Len(N) : N[i] = M[i]
    BY DEF IsRest
  <1> QED
    BY <1>1 DEF IsRest

\* A set of natural numbers has a least one.
LEMMA LeastOf ==
    ASSUME NEW T, T \subseteq Nat, T # {}
    PROVE  \E x \in T : \A y \in T : x <= y
  <1> DEFINE R == {ss \in Nat \X Nat : ss[1] < ss[2]}
  <1>1. IsWellFoundedOn(R, Nat)
    BY NatLessThanWellFounded DEF OpToRel
  <1>2. PICK x \in T : \A y \in T : ~(<<y, x>> \in R)
    <2> HIDE DEF R
    <2> QED
      BY <1>1, WFMin
  <1>3. \A y \in T : ~(y < x)
    BY <1>2
  <1> QED
    BY <1>3

\* What a queue holds.
LEMMA LiveIs ==
    ASSUME NEW q, Good(q)
    PROVE  /\ q.items \in Seq(Item) /\ q.head \in Nat /\ Live(q) \in Seq(Item)
           /\ Len(Live(q)) = Len(q.items) - q.head
           /\ \A i \in 1 .. Len(Live(q)) : Live(q)[i] = q.items[q.head + i]
  <1>1. q.items \in Seq(Item) /\ q.head \in Nat /\ q.head <= Len(q.items)
    BY DEF Good, QueueRec
  <1> DEFINE I == q.items  h == q.head
  <1>2. I \in Seq(Item) /\ h \in Nat /\ h <= Len(I) /\ Live(q) = SubSeq(I, h + 1, Len(I))
    BY <1>1 DEF Live
  <1> HIDE DEF I, h
  <1>3. /\ SubSeq(I, h + 1, Len(I)) \in Seq(Item) /\ Len(SubSeq(I, h + 1, Len(I))) = Len(I) - h
        /\ \A i \in 1 .. Len(I) - h : SubSeq(I, h + 1, Len(I))[i] = I[h + i]
    BY <1>2
  <1> QED
    BY <1>2, <1>3 DEF I, h

\* A queue whose head is moved on, or all of whose elements are gone, holds the rest.
LEMMA HeadMoves ==
    ASSUME NEW q, Good(q), NEW p, Good(p), NEW k \in 0 .. Len(Live(q)),
           \/ p.items = q.items /\ p.head = q.head + k
           \/ p = None /\ k = Len(Live(q))
    PROVE  IsRest(Live(p), Live(q), k)
  <1> DEFINE L == Live(q)  M == Live(p)
  <1>1. /\ L \in Seq(Item) /\ Len(L) = Len(q.items) - q.head
        /\ q.items \in Seq(Item) /\ q.head \in Nat
        /\ \A i \in 1 .. Len(L) : L[i] = q.items[q.head + i]
    BY LiveIs
  <1>2. /\ M \in Seq(Item) /\ Len(M) = Len(p.items) - p.head
        /\ p.items \in Seq(Item) /\ p.head \in Nat
        /\ \A i \in 1 .. Len(M) : M[i] = p.items[p.head + i]
    BY LiveIs
  <1>3. CASE p.items = q.items /\ p.head = q.head + k
    <2> DEFINE I == q.items  h == q.head
    <2>1. /\ I \in Seq(Item) /\ h \in Nat /\ k \in 0 .. Len(L) /\ Len(L) = Len(I) - h /\ Len(M) = Len(I) - (h + k)
          /\ \A i \in 1 .. Len(L) : L[i] = I[h + i]
          /\ \A i \in 1 .. Len(M) : M[i] = I[h + k + i]
      BY <1>1, <1>2, <1>3
    <2> HIDE DEF I, h, L, M
    <2>2. Len(M) = Len(L) - k /\ \A i \in 1 .. Len(M) : M[i] = L[k + i]
      <3>1. Len(M) = Len(L) - k /\ Len(M) \in Nat /\ Len(I) \in Nat
        BY <2>1
      <3>2. ASSUME NEW i \in 1 .. Len(M) PROVE M[i] = L[k + i]
        <4>1. k + i \in 1 .. Len(L) /\ h + (k + i) = h + k + i
          BY <2>1, <3>1
        <4>2. L[k + i] = I[h + (k + i)] /\ M[i] = I[h + k + i]
          BY <2>1, <4>1
        <4> QED
          BY <4>1, <4>2
      <3> QED
        BY <3>1, <3>2
    <2> QED
      BY <1>2, <2>2 DEF IsRest, L, M
  <1>4. CASE p = None /\ k = Len(Live(q))
    <2>1. Len(M) = 0
      BY <1>2, <1>4 DEF None
    <2> QED
      BY <1>1, <1>2, <1>4, <2>1, SMTT(30) DEF IsRest
  <1> QED
    BY <1>3, <1>4

\* Pruning takes from the front what is too old, and nothing else.
LEMMA PrunedIs ==
    ASSUME NEW q, Good(q), NEW t \in Int
    PROVE  /\ Good(Pruned(q, t))
           /\ \E k \in 0 .. Len(Live(q)) :
                 /\ IsRest(Live(Pruned(q, t)), Live(q), k)
                 /\ \A i \in 1 .. k : Live(q)[i].at < t - Retention
                 /\ k < Len(Live(q)) => Live(q)[k + 1].at >= t - Retention
  <1> DEFINE p == Pruned(q, t)  L == Live(q)
             kept == {i \in q.head + 1 .. Len(q.items) : q.items[i].at >= t - Retention}
             first == CHOOSE i \in kept : \A j \in kept : i <= j
  <1>1. /\ L \in Seq(Item) /\ Len(L) = Len(q.items) - q.head
        /\ q.items \in Seq(Item) /\ q.head \in Nat /\ Len(q.items) \in Nat
        /\ \A i \in 1 .. Len(L) : L[i] = q.items[q.head + i]
    BY LiveIs
  <1>2. Retention \in Nat
    BY UsageAssumption
  <1>3. CASE q.head >= Len(q.items)
    <2>1. p = None /\ Len(L) = 0
      BY <1>1, <1>3 DEF Pruned, Good
    <2>2. Good(p)
      BY <2>1 DEF Good, QueueRec, None
    <2>3. IsRest(Live(p), L, 0)
      BY <2>1, <2>2, HeadMoves
    <2> QED
      BY <2>1, <2>2, <2>3
  <1>4. CASE q.head < Len(q.items)
    <2>1. p = [q EXCEPT !.head = IF kept = {} THEN Len(q.items) ELSE first - 1]
      BY <1>1, <1>4 DEF Pruned
    <2>2. q = [items |-> q.items, head |-> q.head]
      BY DEF Good, QueueRec
    <2>3. p = [items |-> q.items, head |-> IF kept = {} THEN Len(q.items) ELSE first - 1]
      BY <2>1, <2>2
    <2>4. CASE kept = {}
      <3>1. p.items = q.items /\ p.head = q.head + Len(L)
        BY <1>1, <2>3, <2>4
      <3>2. Good(p)
        BY <1>1, <2>3, <2>4 DEF Good, QueueRec
      <3>3. IsRest(Live(p), L, Len(L))
        BY <1>1, <3>1, <3>2, HeadMoves
      <3>4. \A i \in 1 .. Len(L) : L[i].at < t - Retention
        <4> SUFFICES ASSUME NEW i \in 1 .. Len(L) PROVE L[i].at < t - Retention
          OBVIOUS
        <4>1. q.head + i \in q.head + 1 .. Len(q.items) /\ L[i] = q.items[q.head + i]
          BY <1>1
        <4>2. L[i] \in Item
          BY <1>1
        <4>3. ~(q.items[q.head + i].at >= t - Retention)
          BY <2>4, <4>1
        <4> QED
          BY <1>2, <4>1, <4>2, <4>3 DEF Item
      <3> QED
        BY <1>1, <3>2, <3>3, <3>4
    <2>5. CASE kept # {}
      <3>1. kept \subseteq Nat
        BY <1>1
      <3>2. \E i \in kept : \A j \in kept : i <= j
        <4> HIDE DEF kept
        <4> QED
          BY <2>5, <3>1, LeastOf
      <3>3. first \in kept /\ \A j \in kept : first <= j
        <4> HIDE DEF kept
        <4> QED
          BY <3>2
      <3> DEFINE k == first - 1 - q.head
      <3>4. k \in 0 .. Len(L) /\ k < Len(L) /\ first = q.head + (k + 1) /\ first \in Nat
        <4> DEFINE f == first
        <4>1. f \in q.head + 1 .. Len(q.items)
          BY <3>3
        <4> HIDE DEF f
        <4>2. /\ f - 1 - q.head \in 0 .. Len(L) /\ f - 1 - q.head < Len(L)
              /\ f = q.head + ((f - 1 - q.head) + 1) /\ f \in Nat
          BY <1>1, <4>1
        <4> QED
          BY <4>2 DEF f
      <3>5. p.items = q.items /\ p.head = q.head + k
        BY <1>1, <2>3, <2>5, <3>4
      <3>6. Good(p)
        BY <1>1, <2>3, <2>5, <3>4 DEF Good, QueueRec
      <3>7. IsRest(Live(p), L, k)
        BY <3>4, <3>5, <3>6, HeadMoves
      <3>8. L[k + 1].at >= t - Retention
        <4>1. q.items[first].at >= t - Retention
          BY <3>3
        <4>2. k + 1 \in 1 .. Len(L)
          <5> HIDE DEF k, L
          <5> QED
            BY <3>4
        <4>3. L[k + 1] = q.items[q.head + (k + 1)]
          BY <1>1, <4>2
        <4> QED
          BY <3>4, <4>1, <4>3
      <3>9. \A i \in 1 .. k : L[i].at < t - Retention
        <4> SUFFICES ASSUME NEW i \in 1 .. k PROVE L[i].at < t - Retention
          OBVIOUS
        <4> DEFINE f == first  h == q.head  I == q.items
        <4>1. /\ i \in Nat /\ 1 <= i /\ i <= f - 1 - h /\ f - 1 - h <= Len(L)
              /\ f \in Nat /\ h \in Nat /\ Len(L) = Len(I) - h /\ Len(I) \in Nat
          BY <1>1, <3>4, SMTT(30)
        <4>2. /\ i \in 1 .. Len(L) /\ h + i \in h + 1 .. Len(I) /\ h + i < f
          <5> HIDE DEF f, h, I, L
          <5> QED
            BY <4>1
        <4>3. L[i] \in Item /\ L[i] = I[h + i]
          BY <1>1, <4>2
        <4>5. h + i \notin kept
          <5>1. \A j \in kept : f <= j
            BY <3>3
          <5> HIDE DEF f, kept, h, L
          <5> QED
            BY <4>1, <4>2, <5>1
        <4>6. ~(I[h + i].at >= t - Retention)
          BY <4>2, <4>5
        <4> QED
          BY <1>2, <4>3, <4>6 DEF Item
      <3> QED
        BY <3>4, <3>6, <3>7, <3>8, <3>9
    <2> QED
      BY <2>4, <2>5
  <1> QED
    BY <1>1, <1>3, <1>4

\* Compaction changes nothing of what a queue holds.
LEMMA CompactedIs ==
    ASSUME NEW q, Good(q)
    PROVE  Good(Compacted(q)) /\ IsRest(Live(Compacted(q)), Live(q), 0)
  <1> DEFINE p == Compacted(q)
  <1>1. /\ Live(q) \in Seq(Item) /\ Len(Live(q)) = Len(q.items) - q.head
        /\ q.items \in Seq(Item) /\ q.head \in Nat /\ Len(q.items) \in Nat
        /\ \A i \in 1 .. Len(Live(q)) : Live(q)[i] = q.items[q.head + i]
    BY LiveIs
  <1>2. CASE p = q
    BY <1>1, <1>2, HeadMoves
  <1>3. CASE p = None /\ q.head >= Len(q.items)
    <2>1. Len(Live(q)) = 0 /\ Good(None)
      BY <1>1, <1>3 DEF Good, QueueRec, None
    <2> QED
      BY <1>3, <2>1, HeadMoves
  <1>4. CASE p = [items |-> Live(q), head |-> 0]
    <2>1. Good(p)
      BY <1>1, <1>4 DEF Good, QueueRec
    <2>2. /\ Len(Live(p)) = Len(p.items) - p.head /\ Live(p) \in Seq(Item)
          /\ \A i \in 1 .. Len(Live(p)) : Live(p)[i] = p.items[p.head + i]
      BY <2>1, LiveIs
    <2>3. Len(Live(p)) = Len(Live(q)) /\ \A i \in 1 .. Len(Live(p)) : Live(p)[i] = Live(q)[i]
      BY <1>1, <1>4, <2>2
    <2> DEFINE L == Live(q)  M == Live(p)
    <2>4. /\ L \in Seq(Item) /\ M \in Seq(Item) /\ Len(M) = Len(L)
          /\ \A i \in 1 .. Len(M) : M[i] = L[i]
      BY <1>1, <2>2, <2>3
    <2> HIDE DEF L, M
    <2>5. IsRest(M, L, 0)
      BY <2>4 DEF IsRest
    <2> QED
      BY <2>1, <2>5 DEF L, M
  <1>5. \/ p = q
        \/ p = None /\ q.head >= Len(q.items)
        \/ p = [items |-> Live(q), head |-> 0]
    BY <1>1 DEF Compacted, Live
  <1> QED
    BY <1>2, <1>3, <1>4, <1>5

-----------------------------------------------------------------------------
(* The books: what is held, L, what was popped, P, what was kept, A, and what was *)
(* Received, O.                                                                    *)

PoppedRec == [record : Nat, age : Int]

\* All in order, and all below the record that comes next.
Books(L, P, next) ==
    /\ \A i \in 1 .. Len(L) : L[i].record < next
    /\ \A i \in 1 .. Len(P) : P[i].record < next /\ P[i].age <= Retention
    /\ \A i, j \in 1 .. Len(L) : i < j => L[i].record < L[j].record
    /\ \A i, j \in 1 .. Len(P) : i < j => P[i].record < P[j].record
    /\ \A i \in 1 .. Len(P), j \in 1 .. Len(L) : P[i].record < L[j].record

\* The times do not decrease, and none is later than t.
Times(L, t) ==
    /\ \A i \in 1 .. Len(L) : L[i].at <= t
    /\ \A i, j \in 1 .. Len(L) : i < j => L[i].at <= L[j].at

\* What is not older than t was popped or is held.
Accounted(A, L, P, t) ==
    \A a \in A : a.at >= t => \/ \E i \in 1 .. Len(P) : P[i].record = a.record
                             \/ \E i \in 1 .. Len(L) : L[i] = a

Apart(O, L, P) ==
    \A s \in Subscribers : \A i \in 1 .. Len(O[s]) :
        /\ \A j \in 1 .. Len(P) : P[j].record # O[s][i]
        /\ \A j \in 1 .. Len(L) : L[j].record # O[s][i]

\* What is taken from the front leaves the rest as it was.
LEMMA RestBooks ==
    ASSUME NEW L \in Seq(Item), NEW M, NEW k, IsRest(M, L, k),
           NEW P \in Seq(PoppedRec), NEW next \in Nat, NEW t \in Int, NEW O
    PROVE  /\ Books(L, P, next) => Books(M, P, next)
           /\ Times(L, t) => Times(M, t)
           /\ Apart(O, L, P) => Apart(O, M, P)
  <1>1. /\ M \in Seq(Item) /\ k \in Nat /\ k <= Len(L) /\ Len(M) = Len(L) - k
        /\ Len(L) \in Nat /\ Len(M) \in Nat
        /\ \A i \in 1 .. Len(M) : M[i] = L[k + i] /\ k + i \in 1 .. Len(L)
    BY DEF IsRest
  <1>2. \A i, j \in 1 .. Len(M) : i < j => k + i < k + j
    BY <1>1
  <1>3. ASSUME Books(L, P, next) PROVE Books(M, P, next)
    <2>1. \A i \in 1 .. Len(M) : M[i].record < next
      BY <1>1, <1>3 DEF Books
    <2>2. \A i, j \in 1 .. Len(M) : i < j => M[i].record < M[j].record
      BY <1>1, <1>2, <1>3 DEF Books
    <2>3. \A i \in 1 .. Len(P), j \in 1 .. Len(M) : P[i].record < M[j].record
      BY <1>1, <1>3 DEF Books
    <2> QED
      BY <1>3, <2>1, <2>2, <2>3 DEF Books
  <1>4. ASSUME Times(L, t) PROVE Times(M, t)
    <2>1. \A i \in 1 .. Len(M) : M[i].at <= t
      BY <1>1, <1>4 DEF Times
    <2>2. \A i, j \in 1 .. Len(M) : i < j => M[i].at <= M[j].at
      BY <1>1, <1>2, <1>4 DEF Times
    <2> QED
      BY <2>1, <2>2 DEF Times
  <1>5. ASSUME Apart(O, L, P) PROVE Apart(O, M, P)
    <2> SUFFICES ASSUME NEW s \in Subscribers, NEW i \in 1 .. Len(O[s]), NEW j \in 1 .. Len(M)
                 PROVE  M[j].record # O[s][i]
      BY <1>5 DEF Apart
    <2>1. M[j] = L[k + j] /\ k + j \in 1 .. Len(L)
      BY <1>1
    <2> QED
      BY <1>5, <2>1 DEF Apart
  <1> QED
    BY <1>3, <1>4, <1>5

\* What is pruned was too old to be accounted for.
LEMMA PruneAccounts ==
    ASSUME NEW L \in Seq(Item), NEW M, NEW k, IsRest(M, L, k),
           NEW P, NEW A \in SUBSET Item, NEW t \in Int, NEW u \in Int, u <= t,
           \A i \in 1 .. k : L[i].at < u,
           Accounted(A, L, P, t)
    PROVE  Accounted(A, M, P, t)
  <1>1. /\ M \in Seq(Item) /\ k \in Nat /\ k <= Len(L) /\ Len(M) = Len(L) - k
        /\ Len(L) \in Nat /\ Len(M) \in Nat
        /\ \A i \in 1 .. Len(M) : M[i] = L[k + i]
    BY DEF IsRest
  <1> SUFFICES ASSUME NEW a \in A, a.at >= t, ~\E i \in 1 .. Len(P) : P[i].record = a.record
               PROVE  \E i \in 1 .. Len(M) : M[i] = a
    BY DEF Accounted
  <1>2. PICK j \in 1 .. Len(L) : L[j] = a
    BY DEF Accounted
  <1>3. a \in Item /\ a.at \in Nat
    BY DEF Item
  <1>4. ~(j \in 1 .. k)
    BY <1>2, <1>3
  <1>5. j - k \in 1 .. Len(M) /\ k + (j - k) = j
    BY <1>1, <1>2, <1>4
  <1>6. M[j - k] = a
    BY <1>1, <1>2, <1>5
  <1> QED
    BY <1>5, <1>6

\* What is kept goes behind the others.
LEMMA KeptBooks ==
    ASSUME NEW L \in Seq(Item), NEW x \in Item, NEW P \in Seq(PoppedRec),
           NEW A \in SUBSET Item, NEW t \in Int, NEW O \in [Subscribers -> Seq(Nat)],
           Books(L, P, x.record), Times(L, x.at), Accounted(A, L, P, t), Apart(O, L, P),
           \A s \in Subscribers : \A i \in 1 .. Len(O[s]) : O[s][i] < x.record
    PROVE  /\ Books(Append(L, x), P, x.record + 1) /\ Times(Append(L, x), x.at)
           /\ Accounted(A \cup {x}, Append(L, x), P, t) /\ Apart(O, Append(L, x), P)
  <1> DEFINE M == Append(L, x)  n == Len(L)
  <1>1. /\ M \in Seq(Item) /\ Len(M) = n + 1 /\ M[n + 1] = x /\ n \in Nat
        /\ \A i \in 1 .. n : M[i] = L[i]
    OBVIOUS
  <1>2. \A i \in 1 .. n : L[i] \in Item
    OBVIOUS
  <1>3. x.record \in Nat /\ x.at \in Nat
    BY DEF Item
  <1>4. \A i \in 1 .. n : L[i].record \in Nat /\ L[i].at \in Nat
    BY <1>2 DEF Item
  <1>5. \A i \in 1 .. Len(P) : P[i].record \in Nat
    <2>1. \A i \in 1 .. Len(P) : P[i] \in PoppedRec
      OBVIOUS
    <2> QED
      BY <2>1 DEF PoppedRec
  <1>6. \A i \in 1 .. Len(M) : i \in 1 .. n \/ i = n + 1
    BY <1>1
  <1> HIDE DEF M
  <1>7. Books(M, P, x.record + 1)
    <2>1. ASSUME NEW i \in 1 .. Len(M) PROVE M[i].record < x.record + 1
      <3>1. CASE i = n + 1
        BY <1>1, <1>3, <3>1
      <3>2. CASE i \in 1 .. n
        <4>1. M[i] = L[i] /\ L[i].record \in Nat
          BY <1>1, <1>4, <3>2
        <4>2. L[i].record < x.record
          BY <3>2 DEF Books
        <4> QED
          BY <1>3, <4>1, <4>2
      <3> QED
        BY <1>6, <3>1, <3>2
    <2>2. \A i \in 1 .. Len(P) : P[i].record < x.record + 1 /\ P[i].age <= Retention
      BY <1>3, <1>5 DEF Books
    <2>3. ASSUME NEW i \in 1 .. Len(M), NEW j \in 1 .. Len(M), i < j
          PROVE  M[i].record < M[j].record
      <3>1. i \in 1 .. n /\ M[i] = L[i]
        BY <1>1, <1>6, <2>3
      <3>2. CASE j = n + 1
        BY <1>1, <3>1, <3>2 DEF Books
      <3>3. CASE j \in 1 .. n
        BY <1>1, <2>3, <3>1, <3>3 DEF Books
      <3> QED
        BY <1>6, <3>2, <3>3
    <2>4. ASSUME NEW i \in 1 .. Len(P), NEW j \in 1 .. Len(M)
          PROVE  P[i].record < M[j].record
      <3>1. CASE j = n + 1
        BY <1>1, <3>1 DEF Books
      <3>2. CASE j \in 1 .. n
        BY <1>1, <3>2 DEF Books
      <3> QED
        BY <1>6, <3>1, <3>2
    <2> QED
      BY <2>1, <2>2, <2>3, <2>4 DEF Books
  <1>8. Times(M, x.at)
    <2>1. ASSUME NEW i \in 1 .. Len(M) PROVE M[i].at <= x.at
      <3>1. CASE i = n + 1
        BY <1>1, <1>3, <3>1
      <3>2. CASE i \in 1 .. n
        BY <1>1, <3>2 DEF Times
      <3> QED
        BY <1>6, <3>1, <3>2
    <2>2. ASSUME NEW i \in 1 .. Len(M), NEW j \in 1 .. Len(M), i < j
          PROVE  M[i].at <= M[j].at
      <3>1. i \in 1 .. n /\ M[i] = L[i]
        BY <1>1, <1>6, <2>2
      <3>2. CASE j = n + 1
        BY <1>1, <3>1, <3>2 DEF Times
      <3>3. CASE j \in 1 .. n
        BY <1>1, <2>2, <3>1, <3>3 DEF Times
      <3> QED
        BY <1>6, <3>2, <3>3
    <2> QED
      BY <2>1, <2>2 DEF Times
  <1>9. Accounted(A \cup {x}, M, P, t)
    <2> SUFFICES ASSUME NEW a \in A \cup {x}, a.at >= t,
                        ~\E i \in 1 .. Len(P) : P[i].record = a.record
                 PROVE  \E i \in 1 .. Len(M) : M[i] = a
      BY DEF Accounted
    <2>1. CASE a = x
      BY <1>1, <2>1
    <2>2. CASE a \in A
      <3>1. PICK i \in 1 .. n : L[i] = a
        BY <2>2 DEF Accounted
      <3> QED
        BY <1>1, <3>1
    <2> QED
      BY <2>1, <2>2
  <1>10. Apart(O, M, P)
    <2> SUFFICES ASSUME NEW s \in Subscribers, NEW i \in 1 .. Len(O[s]), NEW j \in 1 .. Len(M)
                 PROVE  M[j].record # O[s][i]
      BY DEF Apart
    <2>1. O[s][i] \in Nat /\ O[s][i] < x.record
      OBVIOUS
    <2>2. CASE j = n + 1
      BY <1>1, <1>3, <2>1, <2>2
    <2>3. CASE j \in 1 .. n
      BY <1>1, <2>3 DEF Apart
    <2> QED
      BY <1>6, <2>2, <2>3
  <1> QED
    BY <1>7, <1>8, <1>9, <1>10 DEF M

\* What is popped goes behind what was popped before.
LEMMA PoppedBooks ==
    ASSUME NEW L \in Seq(Item), NEW M, NEW c, IsRest(M, L, c),
           NEW P \in Seq(PoppedRec), NEW Q \in Seq(PoppedRec), Len(Q) = Len(P) + c,
           \A i \in 1 .. Len(P) : Q[i] = P[i],
           \A i \in 1 .. c : Q[Len(P) + i].record = L[i].record
                            /\ Q[Len(P) + i].age <= Retention,
           NEW next \in Nat, NEW A \in SUBSET Item, NEW t \in Int, NEW O,
           Books(L, P, next), Accounted(A, L, P, t), Apart(O, L, P)
    PROVE  Books(M, Q, next) /\ Accounted(A, M, Q, t) /\ Apart(O, M, Q)
  <1> DEFINE n == Len(P)
  <1>1. /\ M \in Seq(Item) /\ c \in Nat /\ c <= Len(L) /\ Len(M) = Len(L) - c
        /\ Len(L) \in Nat /\ Len(M) \in Nat /\ n \in Nat /\ Len(Q) = n + c
        /\ \A i \in 1 .. Len(M) : M[i] = L[c + i] /\ c + i \in 1 .. Len(L)
    BY DEF IsRest
  <1>2. \A i \in 1 .. Len(Q) :
           \/ i \in 1 .. n /\ Q[i] = P[i]
           \/ /\ i - n \in 1 .. c /\ i - n \in 1 .. Len(L) /\ i = n + (i - n)
              /\ Q[i].record = L[i - n].record /\ Q[i].age <= Retention
    <2> SUFFICES ASSUME NEW i \in 1 .. Len(Q), ~(i \in 1 .. n)
                 PROVE  /\ i - n \in 1 .. c /\ i - n \in 1 .. Len(L) /\ i = n + (i - n)
                        /\ Q[i].record = L[i - n].record /\ Q[i].age <= Retention
      OBVIOUS
    <2>1. i - n \in 1 .. c /\ i - n \in 1 .. Len(L) /\ i = n + (i - n)
      BY <1>1
    <2> QED
      BY <2>1
  <1>3. /\ \A i \in 1 .. Len(L) : L[i].record \in Nat
        /\ \A i \in 1 .. n : P[i].record \in Nat
        /\ \A i \in 1 .. Len(Q) : Q[i].record \in Nat
    <2>1. /\ \A i \in 1 .. Len(L) : L[i] \in Item
          /\ \A i \in 1 .. n : P[i] \in PoppedRec
          /\ \A i \in 1 .. Len(Q) : Q[i] \in PoppedRec
      OBVIOUS
    <2> QED
      BY <2>1 DEF Item, PoppedRec
  <1> HIDE DEF n
  <1>4. Books(M, Q, next)
    <2>1. \A i \in 1 .. Len(M) : M[i].record < next
      BY <1>1 DEF Books
    <2>2. ASSUME NEW i \in 1 .. Len(Q) PROVE Q[i].record < next /\ Q[i].age <= Retention
      BY <1>2 DEF Books, n
    <2>3. ASSUME NEW i \in 1 .. Len(M), NEW j \in 1 .. Len(M), i < j
          PROVE  M[i].record < M[j].record
      <3>1. M[i] = L[c + i] /\ c + i \in 1 .. Len(L)
        BY <1>1
      <3>2. M[j] = L[c + j] /\ c + j \in 1 .. Len(L)
        BY <1>1
      <3>3. c + i < c + j
        BY <1>1, <2>3
      <3> QED
        BY <3>1, <3>2, <3>3 DEF Books
    <2>4. ASSUME NEW i \in 1 .. Len(Q), NEW j \in 1 .. Len(Q), i < j
          PROVE  Q[i].record < Q[j].record
      <3>1. CASE i \in 1 .. n /\ j \in 1 .. n
        BY <1>1, <1>2, <2>4, <3>1 DEF Books, n
      <3>2. CASE i \in 1 .. n /\ ~(j \in 1 .. n)
        <4>1. Q[i] = P[i] /\ Q[j].record = L[j - n].record /\ j - n \in 1 .. Len(L)
          BY <1>2, <3>2 DEF n
        <4> QED
          BY <3>2, <4>1 DEF Books, n
      <3>3. CASE ~(i \in 1 .. n) /\ ~(j \in 1 .. n)
        <4>1. /\ Q[i].record = L[i - n].record /\ i - n \in 1 .. Len(L)
              /\ Q[j].record = L[j - n].record /\ j - n \in 1 .. Len(L) /\ i - n < j - n
          BY <1>1, <1>2, <2>4, <3>3
        <4> QED
          BY <4>1 DEF Books
      <3>4. CASE ~(i \in 1 .. n) /\ j \in 1 .. n
        BY <1>1, <2>4, <3>4
      <3> QED
        BY <3>1, <3>2, <3>3, <3>4
    <2>5. ASSUME NEW i \in 1 .. Len(Q), NEW j \in 1 .. Len(M)
          PROVE  Q[i].record < M[j].record
      <3>1. M[j] = L[c + j] /\ c + j \in 1 .. Len(L)
        BY <1>1
      <3>2. CASE i \in 1 .. n
        BY <1>2, <3>1, <3>2 DEF Books, n
      <3>3. CASE ~(i \in 1 .. n)
        <4>1. Q[i].record = L[i - n].record /\ i - n \in 1 .. Len(L) /\ i - n < c + j
          BY <1>1, <1>2, <3>3
        <4> QED
          BY <3>1, <4>1 DEF Books
      <3> QED
        BY <3>2, <3>3
    <2> QED
      BY <2>1, <2>2, <2>3, <2>4, <2>5 DEF Books
  <1>5. Accounted(A, M, Q, t)
    <2> SUFFICES ASSUME NEW a \in A, a.at >= t
                 PROVE  \/ \E i \in 1 .. Len(Q) : Q[i].record = a.record
                        \/ \E i \in 1 .. Len(M) : M[i] = a
      BY DEF Accounted
    <2>1. CASE \E i \in 1 .. n : P[i].record = a.record
      <3>1. PICK i \in 1 .. n : P[i].record = a.record
        BY <2>1
      <3>2. i \in 1 .. Len(Q) /\ Q[i] = P[i]
        BY <1>1, <3>1 DEF n
      <3> QED
        BY <3>1, <3>2
    <2>2. CASE \E i \in 1 .. Len(L) : L[i] = a
      <3>1. PICK i \in 1 .. Len(L) : L[i] = a
        BY <2>2
      <3>2. CASE i <= c
        <4>1. n + i \in 1 .. Len(Q) /\ i \in 1 .. c
          BY <1>1, <3>1, <3>2
        <4>2. Q[n + i].record = L[i].record
          BY <4>1 DEF n
        <4> QED
          BY <3>1, <4>1, <4>2
      <3>3. CASE i > c
        <4>1. i - c \in 1 .. Len(M) /\ c + (i - c) = i
          BY <1>1, <3>1, <3>3
        <4>2. M[i - c] = a
          BY <1>1, <3>1, <4>1
        <4> QED
          BY <4>1, <4>2
      <3> QED
        BY <1>1, <3>1, <3>2, <3>3
    <2> QED
      BY <2>1, <2>2 DEF Accounted, n
  <1>6. Apart(O, M, Q)
    <2> SUFFICES ASSUME NEW s \in Subscribers, NEW i \in 1 .. Len(O[s])
                 PROVE  /\ \A j \in 1 .. Len(Q) : Q[j].record # O[s][i]
                        /\ \A j \in 1 .. Len(M) : M[j].record # O[s][i]
      BY DEF Apart
    <2>1. /\ \A j \in 1 .. n : P[j].record # O[s][i]
          /\ \A j \in 1 .. Len(L) : L[j].record # O[s][i]
      BY DEF Apart, n
    <2>2. ASSUME NEW j \in 1 .. Len(Q) PROVE Q[j].record # O[s][i]
      BY <1>2, <2>1
    <2>3. ASSUME NEW j \in 1 .. Len(M) PROVE M[j].record # O[s][i]
      <3>1. M[j] = L[c + j] /\ c + j \in 1 .. Len(L)
        BY <1>1
      <3> QED
        BY <2>1, <3>1
    <2> QED
      BY <2>2, <2>3
  <1> QED
    BY <1>4, <1>5, <1>6

-----------------------------------------------------------------------------
(* The queue in the state, and its invariant. *)

\* The record to come next: the one the dispatcher has in hand, or the next one.
NextRecord == IF worker.pc = "wait" THEN Taken + 1 ELSE Taken

QueueOK ==
    /\ Good(Queue) /\ popped \in Seq(PoppedRec) /\ arrived \in SUBSET Item
    /\ worker.pc # "wait" => worker.record = Taken
    /\ Books(Live(Queue), popped, NextRecord)
    /\ Times(Live(Queue), clock)
    /\ worker.pc = "keep" => Times(Live(Queue), worker.at) /\ worker.at <= clock
    /\ Accounted(arrived, Live(Queue), popped, clock - Retention)
    /\ Apart(Received, Live(Queue), popped)

QueueInv == PipelineInv /\ QueueOK

\* At first the queue is empty.
LEMMA QueueInit == UsageInit => QueueInv
  <1> SUFFICES ASSUME UsageInit PROVE QueueOK
    BY InitHolds DEF QueueInv
  <1>1. Good(Queue) /\ items = <<>> /\ head = 0
    BY DEF UsageInit, Good, QueueRec, Queue
  <1>2. Len(Live(Queue)) = 0
    BY <1>1, LiveIs DEF Queue
  <1>3. worker = Waiting /\ popped = <<>> /\ arrived = {}
    BY DEF UsageInit
  <1> QED
    BY <1>1, <1>2, <1>3 DEF QueueOK, Books, Times, Accounted, Apart, Waiting

\* Time may pass and the next record come nearer.
LEMMA BooksLater ==
    ASSUME NEW L \in Seq(Item), NEW P \in Seq(PoppedRec), NEW A \in SUBSET Item,
           NEW n \in Nat, NEW m \in Nat, n <= m, NEW t \in Int, NEW u \in Int, t <= u
    PROVE  /\ Books(L, P, n) => Books(L, P, m)
           /\ Times(L, t) => Times(L, u)
           /\ Accounted(A, L, P, t) => Accounted(A, L, P, u)
  <1>1. \A i \in 1 .. Len(L) : L[i].record \in Nat /\ L[i].at \in Nat
    <2>1. \A i \in 1 .. Len(L) : L[i] \in Item
      OBVIOUS
    <2> QED
      BY <2>1 DEF Item
  <1>2. \A i \in 1 .. Len(P) : P[i].record \in Nat
    <2>1. \A i \in 1 .. Len(P) : P[i] \in PoppedRec
      OBVIOUS
    <2> QED
      BY <2>1 DEF PoppedRec
  <1>3. \A a \in A : a.at \in Nat
    BY DEF Item
  <1>4. Books(L, P, n) => Books(L, P, m)
    BY <1>1, <1>2 DEF Books
  <1>5. Times(L, t) => Times(L, u)
    <2> SUFFICES ASSUME Times(L, t) PROVE Times(L, u)
      OBVIOUS
    <2>1. ASSUME NEW i \in 1 .. Len(L) PROVE L[i].at <= u
      BY <1>1, <2>1 DEF Times
    <2>2. \A i, j \in 1 .. Len(L) : i < j => L[i].at <= L[j].at
      BY DEF Times
    <2> QED
      BY <2>1, <2>2 DEF Times
  <1>6. Accounted(A, L, P, t) => Accounted(A, L, P, u)
    BY <1>3 DEF Accounted
  <1> QED
    BY <1>4, <1>5, <1>6

\* The facts about numbers that the steps need.
LEMMA Numbers ==
    ASSUME QueueInv
    PROVE  /\ Taken \in Nat /\ NextRecord \in Nat /\ clock \in Nat /\ Retention \in Nat
           /\ worker \in WorkerRec /\ worker.record \in Nat /\ worker.at \in Nat
  <1>1. published \in Nat /\ pending \in Seq(Nat) /\ Len(pending) <= published
        /\ clock \in Nat /\ worker \in WorkerRec
    BY DEF QueueInv, PipelineInv, ManagerOK
  <1> QED
    BY <1>1, UsageAssumption DEF Taken, NextRecord, WorkerRec

\* A step that touches neither the queue nor what was popped or given.
LEMMA QuietKeeps ==
    ASSUME QueueInv, PipelineInv', UNCHANGED <<items, head, arrived, popped, Received>>,
           NextRecord <= NextRecord', NextRecord' \in Nat, clock <= clock', clock' \in Nat,
           worker'.pc # "wait" => worker'.record = Taken',
           worker'.pc = "keep" => \/ worker'.at = clock
                                  \/ worker.pc = "keep" /\ worker'.at = worker.at
    PROVE  QueueInv'
  <1> DEFINE L == Live(Queue)
  <1>1. Queue' = Queue /\ Live(Queue)' = L
    BY DEF Queue, Live
  <1>2. /\ L \in Seq(Item) /\ popped \in Seq(PoppedRec) /\ arrived \in SUBSET Item
        /\ Books(L, popped, NextRecord) /\ Times(L, clock)
        /\ worker.pc = "keep" => Times(L, worker.at) /\ worker.at <= clock
        /\ Accounted(arrived, L, popped, clock - Retention)
        /\ Apart(Received, L, popped) /\ Good(Queue)
    BY LiveIs DEF QueueInv, QueueOK
  <1>3. Taken \in Nat /\ NextRecord \in Nat /\ clock \in Nat /\ Retention \in Nat
        /\ worker.at \in Nat
    BY Numbers
  <1> HIDE DEF L
  <1> DEFINE n == NextRecord  m == NextRecord'  t == clock  u == clock'
  <1>4. n \in Nat /\ m \in Nat /\ n <= m /\ t \in Nat /\ u \in Nat /\ t <= u
        /\ t - Retention \in Int /\ u - Retention \in Int /\ t - Retention <= u - Retention
    <2>1. n \in Nat /\ m \in Nat /\ n <= m
      BY <1>3
    <2>2. t \in Nat /\ u \in Nat /\ t <= u
      BY <1>3
    <2> HIDE DEF n, m, t, u
    <2> QED
      BY <1>3, <2>1, <2>2
  <1>5. Books(L, popped, m) /\ Times(L, u) /\ Accounted(arrived, L, popped, u - Retention)
    <2> HIDE DEF n, m, t, u
    <2>1. Books(L, popped, n) /\ Times(L, t) /\ Accounted(arrived, L, popped, t - Retention)
      BY <1>2 DEF n, t
    <2>2. Books(L, popped, m)
      BY <1>2, <1>4, <2>1, BooksLater
    <2>3. Times(L, u)
      <3>1. t \in Int /\ u \in Int /\ t <= u
        BY <1>4
      <3> QED
        BY <1>2, <1>4, <2>1, <3>1, BooksLater
    <2>4. Accounted(arrived, L, popped, u - Retention)
      <3> DEFINE v == t - Retention  w == u - Retention
      <3>1. v \in Int /\ w \in Int /\ v <= w /\ Accounted(arrived, L, popped, v)
        BY <1>4, <2>1
      <3> HIDE DEF v, w
      <3>2. Accounted(arrived, L, popped, w)
        BY <1>2, <1>4, <3>1, BooksLater
      <3> QED
        BY <3>2 DEF w
    <2> QED
      BY <2>2, <2>3, <2>4
  <1>6. worker'.pc = "keep" => Times(L, worker'.at) /\ worker'.at <= clock'
    BY <1>2, <1>3
  <1> QED
    BY <1>1, <1>2, <1>5, <1>6 DEF QueueInv, QueueOK

\* The steps that leave the queue alone, with what was popped and given.
LEMMA QuietSteps ==
    ASSUME QueueInv, PipelineInv',
           \/ UNCHANGED usageVars
           \/ Publish \/ Stop \/ Dispatch \/ CheckEnabled \/ Stamp \/ Tick
           \/ \E s \in Subscribers : Subscribe(s) \/ Take(s) \/ Unsubscribe(s) \/ CloseCleared(s)
           \/ SwitchOn \/ SwitchOff
    PROVE  QueueInv'
  <1>0. Received' = Received
    <2>1. CASE \E s \in Subscribers : Take(s)
      BY <2>1, TakeHolds DEF QueueInv
    <2>2. CASE UNCHANGED <<seen, chan>>
      BY <2>2 DEF Received
    <2> QED
      BY <2>1, <2>2 DEF usageVars, Publish, Stop, Dispatch, CheckEnabled, Stamp, Tick, Subscribe,
           Unsubscribe, CloseCleared, SwitchOn, SwitchOff, subVars, historyVars
  <1>1. UNCHANGED <<items, head, arrived, popped, Received>>
    BY <1>0 DEF usageVars, Publish, Stop, Dispatch, CheckEnabled, Stamp, Tick, Subscribe, Take,
           Unsubscribe, CloseCleared, SwitchOn, SwitchOff, keptVars, historyVars
  <1>2. /\ Taken \in Nat /\ clock \in Nat /\ worker \in WorkerRec
        /\ worker.pc # "wait" => worker.record = Taken
    BY Numbers DEF QueueInv, QueueOK
  <1>3. clock' \in Nat /\ clock <= clock'
    BY <1>2 DEF usageVars, Publish, Stop, Dispatch, CheckEnabled, Stamp, Tick, Subscribe, Take,
           Unsubscribe, CloseCleared, SwitchOn, SwitchOff
  <1>4. \/ Taken' = Taken /\ worker' = worker
        \/ Taken' = Taken + 1 /\ worker.pc = "wait"
           /\ worker' = [pc |-> "check", record |-> Taken + 1, at |-> 0]
        \/ Taken' = Taken /\ worker' = Waiting
        \/ /\ Taken' = Taken /\ worker.pc = "check" /\ worker' = [worker EXCEPT !.pc = "offer"]
        \/ /\ Taken' = Taken /\ worker.pc = "stamp" /\ clock' = clock
           /\ worker' = [worker EXCEPT !.pc = "keep", !.at = clock]
    <2>1. CASE Dispatch
      BY <2>1, DispatchTakes DEF QueueInv, Dispatch
    <2>2. CASE Publish
      BY <2>2, PublishTakes DEF QueueInv, Publish
    <2>3. CASE ~Dispatch /\ ~Publish
      <3>1. UNCHANGED <<published, pending>>
        BY <2>3 DEF usageVars, Stop, CheckEnabled, Stamp, Tick, Subscribe, Take, Unsubscribe,
               CloseCleared, SwitchOn, SwitchOff, managerVars
      <3>2. Taken' = Taken
        BY <3>1 DEF Taken
      <3> QED
        BY <2>3, <3>2 DEF usageVars, Stop, CheckEnabled, Stamp, Tick, Subscribe, Take,
               Unsubscribe, CloseCleared, SwitchOn, SwitchOff
    <2> QED
      BY <2>1, <2>2, <2>3
  <1>5. NextRecord \in Nat /\ NextRecord' \in Nat /\ NextRecord <= NextRecord'
    BY <1>2, <1>4 DEF NextRecord, WorkerRec, Waiting
  <1>6. /\ worker'.pc # "wait" => worker'.record = Taken'
        /\ worker'.pc = "keep" => \/ worker'.at = clock
                                  \/ worker.pc = "keep" /\ worker'.at = worker.at
    <2>1. CASE Taken' = Taken /\ worker' = worker
      BY <1>2, <2>1
    <2>2. CASE /\ Taken' = Taken + 1 /\ worker.pc = "wait"
               /\ worker' = [pc |-> "check", record |-> Taken + 1, at |-> 0]
      BY <2>2
    <2>3. CASE Taken' = Taken /\ worker' = Waiting
      BY <2>3 DEF Waiting
    <2>4. CASE /\ Taken' = Taken /\ worker.pc = "check" /\ worker' = [worker EXCEPT !.pc = "offer"]
      <3>1. worker'.pc = "offer" /\ worker'.record = worker.record
        BY <1>2, <2>4 DEF WorkerRec
      <3> QED
        BY <1>2, <2>4, <3>1
    <2>5. CASE /\ Taken' = Taken /\ worker.pc = "stamp" /\ clock' = clock
               /\ worker' = [worker EXCEPT !.pc = "keep", !.at = clock]
      <3>1. worker'.at = clock /\ worker'.record = worker.record
        BY <1>2, <2>5 DEF WorkerRec
      <3> QED
        BY <1>2, <2>5, <3>1
    <2> QED
      BY <1>4, <2>1, <2>2, <2>3, <2>4, <2>5
  <1> QED
    BY <1>1, <1>3, <1>5, <1>6, QuietKeeps

\* A record that is offered is neither held nor popped.
LEMMA OfferApart ==
    ASSUME QueueInv, PipelineInv', PublishToSubscribers
    PROVE  QueueInv'
  <1> DEFINE L == Live(Queue)  n == worker.record
  <1>1. UNCHANGED <<items, head, arrived, popped, clock, published, pending>>
    BY DEF PublishToSubscribers, keptVars, managerVars
  <1>2. Queue' = Queue /\ Live(Queue)' = L /\ Taken' = Taken
    BY <1>1 DEF Queue, Live, Taken
  <1>3. /\ L \in Seq(Item) /\ popped \in Seq(PoppedRec) /\ arrived \in SUBSET Item
        /\ Books(L, popped, NextRecord) /\ Times(L, clock)
        /\ Accounted(arrived, L, popped, clock - Retention)
        /\ Apart(Received, L, popped) /\ Good(Queue)
    BY LiveIs DEF QueueInv, QueueOK
  <1>4. /\ Taken \in Nat /\ worker \in WorkerRec /\ worker.pc = "offer" /\ n = Taken
        /\ NextRecord = n /\ n \in Nat
    BY Numbers DEF QueueInv, QueueOK, NextRecord, PublishToSubscribers
  <1>5. /\ worker'.pc \in {"wait", "stamp"}
        /\ worker'.pc # "wait" => worker'.record = n
    BY <1>4 DEF PublishToSubscribers, WorkerRec, Waiting
  <1>6. \A s \in Subscribers :
           /\ Received[s] \in Seq(Nat)
           /\ Received'[s] \in {Received[s], Append(Received[s], n)}
    BY OfferGives DEF QueueInv, PipelineInv, n
  <1> HIDE DEF L, n
  <1>7. Apart(Received', L, popped)
    <2>1. /\ \A j \in 1 .. Len(popped) : popped[j].record # n
          /\ \A j \in 1 .. Len(L) : L[j].record # n
      BY <1>3, <1>4 DEF Books
    <2> SUFFICES ASSUME NEW s \in Subscribers, NEW i \in 1 .. Len(Received'[s])
                 PROVE  /\ \A j \in 1 .. Len(popped) : popped[j].record # Received'[s][i]
                        /\ \A j \in 1 .. Len(L) : L[j].record # Received'[s][i]
      BY DEF Apart
    <2>2. \/ Received'[s][i] = n
          \/ i \in 1 .. Len(Received[s]) /\ Received'[s][i] = Received[s][i]
      <3> DEFINE o == Received[s]
      <3>1. o \in Seq(Nat)
        BY <1>6
      <3>2. CASE Received'[s] = o
        BY <3>2
      <3>3. CASE Received'[s] = Append(o, n)
        <4> HIDE DEF o
        <4>1. i \in 1 .. Len(o) \/ i = Len(o) + 1
          BY <1>4, <3>1, <3>3
        <4> QED
          BY <1>4, <3>1, <3>3, <4>1 DEF o
      <3> QED
        BY <1>6, <3>2, <3>3
    <2> QED
      BY <1>3, <2>1, <2>2 DEF Apart
  <1>8. Books(L, popped, NextRecord')
    <2>1. NextRecord' \in Nat /\ NextRecord <= NextRecord' /\ NextRecord \in Nat
      BY <1>2, <1>4, <1>5 DEF NextRecord
    <2>2. PICK m \in Nat : m = NextRecord'
      BY <2>1
    <2>3. NextRecord <= m
      BY <2>1, <2>2
    <2>4. 0 \in Int /\ 0 <= 0
      OBVIOUS
    <2>5. Books(L, popped, m)
      BY <1>3, <2>1, <2>3, <2>4, BooksLater
    <2> QED
      BY <2>2, <2>5
  <1> QED
    BY <1>1, <1>2, <1>3, <1>4, <1>5, <1>7, <1>8 DEF QueueInv, QueueOK, L

\* A queue that is cleared holds nothing.
LEMMA NoneIs == Good(None) /\ Len(Live(None)) = 0
  <1>1. Good(None)
    BY DEF Good, QueueRec, None
  <1> QED
    BY <1>1, LiveIs DEF None

\* Where a queue is put back, it is the one of the state.
LEMMA BecomesIs ==
    ASSUME NEW q, Good(q), Becomes(q)
    PROVE  Queue' = q
  BY DEF Good, QueueRec, Becomes, Queue

\* A clear leaves what was popped, and nothing to account for.
LEMMA ClearKeeps ==
    ASSUME QueueInv, PipelineInv', Clear
    PROVE  QueueInv'
  <1>1. Queue' = None
    BY NoneIs, BecomesIs DEF Clear
  <1>2. UNCHANGED <<popped, Received, worker, clock, published, pending>> /\ arrived' = {}
    BY DEF Clear, managerVars, Received
  <1>3. Live(Queue)' = Live(None) /\ NextRecord' = NextRecord /\ Taken' = Taken
    BY <1>1, <1>2 DEF Live, NextRecord, Taken
  <1>4. Len(Live(None)) = 0 /\ Good(None)
    BY NoneIs
  <1>5. /\ Books(Live(None), popped, NextRecord) /\ Times(Live(None), clock)
        /\ Times(Live(None), worker.at) /\ Accounted({}, Live(None), popped, clock - Retention)
        /\ Apart(Received, Live(None), popped)
    BY <1>4 DEF QueueInv, QueueOK, Books, Times, Accounted, Apart
  <1> QED
    BY <1>1, <1>2, <1>3, <1>4, <1>5 DEF QueueInv, QueueOK

\* What pruning leaves of the queue is as good as the queue.
LEMMA PruneKeeps ==
    ASSUME QueueInv, NEW t \in Int, t <= clock, NEW q, q = Pruned(Queue, t)
    PROVE  /\ Good(q) /\ Live(q) \in Seq(Item)
           /\ Books(Live(q), popped, NextRecord) /\ Times(Live(q), clock)
           /\ worker.pc = "keep" => Times(Live(q), worker.at)
           /\ Accounted(arrived, Live(q), popped, clock - Retention)
           /\ Apart(Received, Live(q), popped)
           /\ Len(Live(q)) > 0 => Live(q)[1].at >= t - Retention
  <1> DEFINE L == Live(Queue)  M == Live(q)
  <1>1. /\ L \in Seq(Item) /\ popped \in Seq(PoppedRec) /\ arrived \in SUBSET Item
        /\ Books(L, popped, NextRecord) /\ Times(L, clock)
        /\ worker.pc = "keep" => Times(L, worker.at)
        /\ Accounted(arrived, L, popped, clock - Retention)
        /\ Apart(Received, L, popped) /\ Good(Queue)
    BY LiveIs DEF QueueInv, QueueOK
  <1>2. PICK k \in 0 .. Len(L) :
           /\ IsRest(M, L, k)
           /\ \A i \in 1 .. k : L[i].at < t - Retention
           /\ k < Len(L) => L[k + 1].at >= t - Retention
    BY <1>1, PrunedIs
  <1>3. Good(q)
    BY <1>1, PrunedIs
  <1>4. /\ Taken \in Nat /\ NextRecord \in Nat /\ clock \in Nat /\ Retention \in Nat
        /\ worker.at \in Nat
    BY Numbers
  <1>5. M \in Seq(Item)
    BY <1>3, LiveIs
  <1> HIDE DEF L, M
  <1>6. Books(M, popped, NextRecord) /\ Times(M, clock) /\ Apart(Received, M, popped)
    BY <1>1, <1>2, <1>4, RestBooks
  <1>7. worker.pc = "keep" => Times(M, worker.at)
    <2> SUFFICES ASSUME worker.pc = "keep" PROVE Times(M, worker.at)
      OBVIOUS
    <2>1. PICK u \in Int : u = worker.at
      BY <1>4
    <2>2. Times(L, u)
      BY <1>1, <2>1
    <2>3. Times(M, u)
      BY <1>1, <1>2, <1>4, <2>2, RestBooks
    <2> QED
      BY <2>1, <2>3
  <1>8. Accounted(arrived, M, popped, clock - Retention)
    <2>1. PICK u \in Int : u = t - Retention
      BY <1>4
    <2>2. PICK v \in Int : v = clock - Retention
      BY <1>4
    <2>3. u <= v
      BY <1>4, <2>1, <2>2
    <2>4. \A i \in 1 .. k : L[i].at < u
      BY <1>2, <2>1
    <2>5. Accounted(arrived, L, popped, v)
      BY <1>1, <2>2
    <2>6. Accounted(arrived, M, popped, v)
      BY <1>1, <1>2, <2>3, <2>4, <2>5, PruneAccounts
    <2> QED
      BY <2>2, <2>6
  <1>9. Len(M) > 0 => M[1].at >= t - Retention
    <2> SUFFICES ASSUME Len(M) > 0 PROVE M[1].at >= t - Retention
      OBVIOUS
    <2>1. k < Len(L) /\ M[1] = L[k + 1]
      BY <1>1, <1>2, <1>5 DEF IsRest
    <2> QED
      BY <1>2, <2>1
  <1> QED
    BY <1>3, <1>5, <1>6, <1>7, <1>8, <1>9 DEF M

\* What is appended to the items goes behind what the queue holds.
LEMMA AppendLive ==
    ASSUME NEW q, Good(q), NEW x \in Item
    PROVE  LET p == [q EXCEPT !.items = Append(@, x)]
           IN  Good(p) /\ Live(p) = Append(Live(q), x)
  <1> DEFINE p == [q EXCEPT !.items = Append(@, x)]  I == q.items  h == q.head
  <1>1. I \in Seq(Item) /\ h \in Nat /\ h <= Len(I) /\ q \in QueueRec
    BY DEF Good, QueueRec
  <1>2. p = [items |-> Append(I, x), head |-> h]
    BY <1>1 DEF QueueRec
  <1>3. Append(I, x) \in Seq(Item) /\ h <= Len(Append(I, x))
    BY <1>1
  <1>4. Good(p)
    BY <1>1, <1>2, <1>3 DEF Good, QueueRec
  <1>5. Live(p) = SubSeq(Append(I, x), h + 1, Len(Append(I, x))) /\ Live(q) = SubSeq(I, h + 1, Len(I))
    BY <1>2 DEF Live
  <1> HIDE DEF I, h
  <1>6. SubSeq(Append(I, x), h + 1, Len(Append(I, x))) = Append(SubSeq(I, h + 1, Len(I)), x)
    <2> DEFINE J == Append(I, x)
               s == SubSeq(J, h + 1, Len(J))
               t == Append(SubSeq(I, h + 1, Len(I)), x)
    <2>1. /\ J \in Seq(Item) /\ Len(J) = Len(I) + 1 /\ J[Len(I) + 1] = x
          /\ \A i \in 1 .. Len(I) : J[i] = I[i]
      BY <1>1
    <2>2. /\ SubSeq(I, h + 1, Len(I)) \in Seq(Item)
          /\ Len(SubSeq(I, h + 1, Len(I))) = Len(I) - h
          /\ \A i \in 1 .. Len(I) - h : SubSeq(I, h + 1, Len(I))[i] = I[h + i]
      BY <1>1
    <2>3. /\ t \in Seq(Item) /\ Len(t) = Len(I) - h + 1 /\ t[Len(I) - h + 1] = x
          /\ \A i \in 1 .. Len(I) - h : t[i] = I[h + i]
      BY <1>1, <2>2
    <2> HIDE DEF J
    <2>4. /\ s \in Seq(Item) /\ Len(s) = Len(I) - h + 1
          /\ \A i \in 1 .. Len(I) - h + 1 : s[i] = J[h + i]
      BY <1>1, <2>1
    <2> HIDE DEF s, t
    <2>5. ASSUME NEW i \in 1 .. Len(s) PROVE s[i] = t[i]
      <3>1. CASE i \in 1 .. Len(I) - h
        <4>1. h + i \in 1 .. Len(I)
          BY <1>1, <3>1
        <4> QED
          BY <1>1, <2>1, <2>3, <2>4, <3>1, <4>1
      <3>2. CASE i = Len(I) - h + 1
        <4>1. h + i = Len(I) + 1 /\ i \in 1 .. Len(I) - h + 1
          BY <1>1, <2>4, <3>2
        <4>2. s[i] = J[Len(I) + 1]
          BY <2>4, <4>1
        <4>3. t[i] = x
          BY <2>3, <3>2
        <4> QED
          BY <2>1, <4>2, <4>3
      <3>3. i \in 1 .. Len(I) - h \/ i = Len(I) - h + 1
        <4>1. Len(I) \in Nat /\ Len(s) = Len(I) - h + 1 /\ h \in Nat
          BY <1>1, <2>4
        <4> QED
          BY <4>1
      <3> QED
        BY <3>1, <3>2, <3>3
    <2>6. s = t
      BY <2>3, <2>4, <2>5, SeqEqual
    <2> QED
      BY <2>6 DEF J, s, t
  <1> QED
    BY <1>4, <1>5, <1>6

\* A record is kept behind what the pruning left.
LEMMA KeepKeeps ==
    ASSUME QueueInv, PipelineInv', Keep
    PROVE  QueueInv'
  <1> DEFINE x == [record |-> worker.record, at |-> worker.at]
             q == Pruned(Queue, worker.at)
             p == [q EXCEPT !.items = Append(@, x)]
             c == Compacted(p)
  <1>1. UNCHANGED <<popped, Received, clock, published, pending>>
    BY DEF Keep, managerVars, subVars, Received
  <1>2. Taken' = Taken /\ worker' = Waiting /\ NextRecord' = Taken + 1
    BY <1>1 DEF Keep, NextRecord, Taken, Waiting
  <1>3. Becomes(c) /\ arrived' = arrived \cup {x}
    BY DEF Keep, Queue
  <1>4. /\ Taken \in Nat /\ clock \in Nat /\ Retention \in Nat /\ worker \in WorkerRec
        /\ worker.record \in Nat /\ worker.at \in Nat /\ worker.pc = "keep"
        /\ worker.record = Taken /\ worker.at <= clock /\ NextRecord = Taken
    BY Numbers DEF Keep, QueueInv, QueueOK, NextRecord
  <1>5. x \in Item /\ x.record = Taken /\ x.at = worker.at
    BY <1>4 DEF Item
  <1>6. /\ popped \in Seq(PoppedRec) /\ arrived \in SUBSET Item
        /\ Received \in [Subscribers -> Seq(Nat)]
        /\ \A s \in Subscribers : \A i \in 1 .. Len(Received[s]) : Received[s][i] < x.record
    BY <1>4, <1>5 DEF QueueInv, QueueOK, PipelineInv, OffersOK
  <1>7. /\ Good(q) /\ Live(q) \in Seq(Item)
        /\ Books(Live(q), popped, x.record) /\ Times(Live(q), x.at)
        /\ Accounted(arrived, Live(q), popped, clock - Retention)
        /\ Apart(Received, Live(q), popped)
    BY <1>4, <1>5, PruneKeeps
  <1>8. Good(p) /\ Live(p) = Append(Live(q), x)
    BY <1>5, <1>7, AppendLive
  <1>9. Good(c) /\ IsRest(Live(c), Live(p), 0)
    BY <1>8, CompactedIs
  <1>10. Queue' = c
    BY <1>3, <1>9, BecomesIs
  <1> HIDE DEF x, q, p, c
  <1>11. /\ Live(p) \in Seq(Item)
         /\ Books(Live(p), popped, Taken + 1) /\ Times(Live(p), x.at)
         /\ Accounted(arrived \cup {x}, Live(p), popped, clock - Retention)
         /\ Apart(Received, Live(p), popped)
    <2>1. PICK t \in Int : t = clock - Retention
      BY <1>4
    <2>2. Accounted(arrived, Live(q), popped, t)
      BY <1>7, <2>1
    <2>3. /\ Books(Append(Live(q), x), popped, x.record + 1) /\ Times(Append(Live(q), x), x.at)
          /\ Accounted(arrived \cup {x}, Append(Live(q), x), popped, t)
          /\ Apart(Received, Append(Live(q), x), popped)
      BY <1>5, <1>6, <1>7, <2>2, KeptBooks
    <2>4. Append(Live(q), x) \in Seq(Item)
      BY <1>5, <1>7
    <2> QED
      BY <1>5, <1>8, <2>1, <2>3, <2>4
  <1> DEFINE L == Live(p)  M == Live(c)  A == arrived \cup {x}
  <1>12. L \in Seq(Item) /\ IsRest(M, L, 0) /\ A \in SUBSET Item /\ M \in Seq(Item)
    BY <1>5, <1>6, <1>9, <1>11 DEF IsRest
  <1> HIDE DEF L, M, A
  <1>13. /\ Books(M, popped, Taken + 1) /\ Times(M, clock)
         /\ Accounted(A, M, popped, clock - Retention) /\ Apart(Received, M, popped)
    <2>1. PICK n \in Nat : n = Taken + 1
      BY <1>4
    <2>2. PICK t \in Int : t = x.at
      BY <1>4, <1>5
    <2>3. PICK u \in Int : u = clock - Retention
      BY <1>4
    <2>4. /\ Books(L, popped, n) /\ Times(L, t) /\ Accounted(A, L, popped, u)
          /\ Apart(Received, L, popped)
      BY <1>11, <2>1, <2>2, <2>3 DEF L, A
    <2>5. Books(M, popped, n) /\ Times(M, t) /\ Apart(Received, M, popped)
      BY <1>6, <1>12, <2>4, RestBooks
    <2>6. \A i \in 1 .. 0 : L[i].at < u
      OBVIOUS
    <2>7. u <= u
      OBVIOUS
    <2>8. Accounted(A, M, popped, u)
      BY <1>6, <1>12, <2>4, <2>6, <2>7, PruneAccounts
    <2>9. t <= clock /\ clock \in Int /\ n <= n
      BY <1>4, <1>5, <2>2
    <2>10. Times(M, clock)
      BY <1>6, <1>12, <2>5, <2>9, BooksLater
    <2> QED
      BY <2>1, <2>3, <2>5, <2>8, <2>10
  <1>14. Live(Queue)' = M /\ Good(Queue)' /\ arrived' = A
    BY <1>3, <1>9, <1>10 DEF M, A, Live, Good
  <1>15. worker'.pc = "wait"
    BY <1>2 DEF Waiting
  <1> QED
    BY <1>1, <1>2, <1>6, <1>12, <1>13, <1>14, <1>15 DEF QueueInv, QueueOK

\* What is popped is the oldest of what the pruning left, and none of it is too old.
LEMMA PopKeeps ==
    ASSUME QueueInv, PipelineInv', NEW m \in 1 .. MaxPop, NEW t \in {clock - 1, clock},
           PopOldest(m, t)
    PROVE  QueueInv'
  <1> DEFINE q == Pruned(Queue, t)
             count == IF m < Len(q.items) - q.head THEN m ELSE Len(q.items) - q.head
             r == [q EXCEPT !.head = @ + count]
             c == Compacted(r)
             gets == [i \in 1 .. count |-> [record |-> q.items[q.head + i].record,
                                           age    |-> t - q.items[q.head + i].at]]
  <1>1. UNCHANGED <<Received, clock, published, pending, worker, arrived>>
    BY DEF PopOldest, managerVars, subVars, Received
  <1>2. Taken' = Taken /\ NextRecord' = NextRecord
    BY <1>1 DEF NextRecord, Taken
  <1>3. /\ Taken \in Nat /\ NextRecord \in Nat /\ clock \in Nat /\ Retention \in Nat
        /\ worker \in WorkerRec /\ worker.at \in Nat
        /\ worker.pc # "wait" => worker.record = Taken
        /\ worker.pc = "keep" => worker.at <= clock
    BY Numbers DEF QueueInv, QueueOK
  <1>4. t \in Int /\ t <= clock /\ m \in Nat /\ m >= 1
    BY <1>3
  <1>5. popped \in Seq(PoppedRec) /\ arrived \in SUBSET Item
    BY DEF QueueInv, QueueOK
  <1>6. /\ Good(q) /\ Live(q) \in Seq(Item)
        /\ Books(Live(q), popped, NextRecord) /\ Times(Live(q), clock)
        /\ worker.pc = "keep" => Times(Live(q), worker.at)
        /\ Accounted(arrived, Live(q), popped, clock - Retention)
        /\ Apart(Received, Live(q), popped)
        /\ Len(Live(q)) > 0 => Live(q)[1].at >= t - Retention
    BY <1>4, PruneKeeps
  <1>7. IF count <= 0 THEN Becomes(None) /\ popped' = popped
        ELSE Becomes(c) /\ popped' = popped \o gets
    BY DEF PopOldest, Queue
  <1>8. /\ q.items \in Seq(Item) /\ q.head \in Nat /\ Len(Live(q)) = Len(q.items) - q.head
        /\ \A i \in 1 .. Len(Live(q)) : Live(q)[i] = q.items[q.head + i]
        /\ q \in QueueRec
    BY <1>6, LiveIs DEF Good
  <1> DEFINE L == Live(q)
  <1>9. /\ count \in 0 .. Len(L) /\ (count <= 0 => Len(L) = 0)
        /\ gets = [i \in 1 .. count |-> [record |-> L[i].record, age |-> t - L[i].at]]
    <2>1. Len(L) = Len(q.items) - q.head /\ Len(L) \in Nat
      BY <1>6, <1>8
    <2>2. count \in 0 .. Len(L) /\ (count <= 0 => Len(L) = 0)
      BY <1>4, <2>1
    <2>3. \A i \in 1 .. count : q.items[q.head + i] = L[i]
      <3> HIDE DEF count, L
      <3> QED
        BY <2>2, <1>8, <2>1 DEF L
    <2> HIDE DEF count, L
    <2> QED
      BY <2>2, <2>3
  \* What is left in the state is what is left of L, and what is new is its beginning.
  <1>10. \E k \in 0 .. Len(L) :
            /\ Good(Queue') /\ IsRest(Live(Queue'), L, k)
            /\ popped' = popped \o [i \in 1 .. k |-> [record |-> L[i].record, age |-> t - L[i].at]]
    <2>1. CASE count <= 0
      <3>1. Queue' = None /\ popped' = popped
        BY <1>7, <2>1, NoneIs, BecomesIs
      <3>2. Len(L) = 0
        BY <1>9, <2>1
      <3>3. IsRest(Live(None), L, 0)
        BY <1>6, <3>2, NoneIs, HeadMoves
      <3>4. popped \o [i \in 1 .. 0 |-> [record |-> L[i].record, age |-> t - L[i].at]] = popped
        <4> HIDE DEF L
        <4> QED
          BY <1>5
      <3>5. 0 \in 0 .. Len(L) /\ Good(Queue') /\ IsRest(Live(Queue'), L, 0)
        BY <3>1, <3>2, <3>3, NoneIs
      <3> HIDE DEF L
      <3> QED
        BY <3>1, <3>4, <3>5
    <2>2. CASE ~(count <= 0)
      <3>1. Becomes(c) /\ popped' = popped \o gets
        BY <1>7, <2>2
      <3>2. r = [items |-> q.items, head |-> q.head + count]
        <4> HIDE DEF count
        <4> QED
          BY <1>8 DEF QueueRec
      <3>3. q.head + count <= Len(q.items) /\ q.head + count \in Nat
        <4> HIDE DEF count
        <4> QED
          BY <1>8, <1>9
      <3>4. Good(r)
        BY <1>8, <3>2, <3>3 DEF Good, QueueRec
      <3>5. r.items = q.items /\ r.head = q.head + count
        BY <3>2
      <3>6. IsRest(Live(r), L, count)
        <4> HIDE DEF r, count
        <4> QED
          BY <1>6, <1>9, <3>4, <3>5, HeadMoves
      <3>7. Good(c) /\ IsRest(Live(c), Live(r), 0)
        BY <3>4, CompactedIs
      <3>8. Queue' = c
        BY <3>1, <3>7, BecomesIs
      <3>9. IsRest(Live(c), L, count)
        <4> HIDE DEF c, r, count, L
        <4>1. IsRest(Live(r), L, count) /\ IsRest(Live(c), Live(r), 0)
          BY <3>6, <3>7
        <4> QED
          BY <4>1, RestOfAll
      <3> QED
        <4> HIDE DEF c, r, count, L, gets
        <4> QED
          BY <1>9, <3>1, <3>7, <3>8, <3>9
    <2> QED
      BY <2>1, <2>2
  <1> HIDE DEF L, q, count, r, c, gets
  <1>11. PICK k \in 0 .. Len(L) :
            /\ Good(Queue') /\ IsRest(Live(Queue'), L, k)
            /\ popped' = popped \o [i \in 1 .. k |-> [record |-> L[i].record, age |-> t - L[i].at]]
    BY <1>10
  <1>12. /\ L \in Seq(Item) /\ Books(L, popped, NextRecord) /\ Times(L, clock)
         /\ worker.pc = "keep" => Times(L, worker.at)
         /\ Accounted(arrived, L, popped, clock - Retention)
         /\ Apart(Received, L, popped)
         /\ Len(L) > 0 => L[1].at >= t - Retention
    BY <1>6 DEF L
  <1>13. PICK M : M = Live(Queue')
    OBVIOUS
  <1>14. PICK Q : Q = popped'
    OBVIOUS
  <1>15. M \in Seq(Item) /\ IsRest(M, L, k) /\ k \in Nat /\ k <= Len(L)
    BY <1>11, <1>12, <1>13 DEF IsRest
  <1>16. /\ Q \in Seq(PoppedRec) /\ Len(Q) = Len(popped) + k
         /\ \A i \in 1 .. Len(popped) : Q[i] = popped[i]
         /\ \A i \in 1 .. k : /\ Q[Len(popped) + i].record = L[i].record
                            /\ Q[Len(popped) + i].age = t - L[i].at
    <2> DEFINE g == [i \in 1 .. k |-> [record |-> L[i].record, age |-> t - L[i].at]]
    <2>1. \A i \in 1 .. k : /\ g[i] \in PoppedRec /\ g[i].record = L[i].record
                          /\ g[i].age = t - L[i].at
      <3>1. \A i \in 1 .. k : L[i] \in Item
        BY <1>12, <1>15
      <3> QED
        BY <1>4, <3>1 DEF Item, PoppedRec
    <2>2. g \in Seq(PoppedRec) /\ Len(g) = k
      <3>1. \A i \in 1 .. k : g[i] \in PoppedRec
        BY <2>1
      <3>2. g = [i \in 1 .. k |-> g[i]]
        OBVIOUS
      <3> HIDE DEF g
      <3> QED
        BY <1>15, <3>1, <3>2
    <2>3. Q = popped \o g
      BY <1>11, <1>14
    <2> HIDE DEF g
    <2>4. popped \o g \in Seq(PoppedRec) /\ Len(popped \o g) = Len(popped) + k
      BY <1>5, <2>2
    <2>5. \A i \in 1 .. Len(popped) : (popped \o g)[i] = popped[i]
      BY <1>5, <2>2
    <2>6. \A i \in 1 .. k : (popped \o g)[Len(popped) + i] = g[i]
      BY <1>5, <1>15, <2>2
    <2> QED
      BY <2>1, <2>3, <2>4, <2>5, <2>6
  <1>17. \A i \in 1 .. k : Q[Len(popped) + i].age <= Retention
    <2> SUFFICES ASSUME NEW i \in 1 .. k PROVE t - L[i].at <= Retention
      BY <1>16
    <2>1. i \in 1 .. Len(L) /\ 1 \in 1 .. Len(L)
      BY <1>12, <1>15
    <2>2. L[1] \in Item /\ L[i] \in Item
      BY <1>12, <2>1
    <2>3. L[1].at \in Nat /\ L[i].at \in Nat /\ L[1].at >= t - Retention
      BY <1>12, <2>1, <2>2, SMTT(30) DEF Item
    <2>4. L[1].at <= L[i].at
      BY <1>12, <2>1, <2>3 DEF Times
    <2> QED
      BY <1>3, <1>4, <2>3, <2>4
  <1>18. /\ Books(M, Q, NextRecord) /\ Times(M, clock)
         /\ worker.pc = "keep" => Times(M, worker.at)
         /\ Accounted(arrived, M, Q, clock - Retention) /\ Apart(Received, M, Q)
    <2>1. PICK u \in Int : u = clock - Retention
      BY <1>3
    <2>2. Accounted(arrived, L, popped, u)
      BY <1>12, <2>1
    <2>3. /\ Books(M, Q, NextRecord) /\ Accounted(arrived, M, Q, u) /\ Apart(Received, M, Q)
      <3>1. \A i \in 1 .. k : Q[Len(popped) + i].record = L[i].record
                             /\ Q[Len(popped) + i].age <= Retention
        BY <1>16, <1>17
      <3>2. Books(L, popped, NextRecord) /\ Apart(Received, L, popped) /\ NextRecord \in Nat
        BY <1>3, <1>12
      <3> QED
        BY <1>5, <1>12, <1>15, <1>16, <2>2, <3>1, <3>2, PoppedBooks
    <2>4. Times(M, clock)
      <3>1. PICK v \in Int : v = clock
        BY <1>3
      <3>2. Times(L, v)
        BY <1>12, <3>1
      <3>3. Times(M, v)
        BY <1>3, <1>5, <1>12, <1>15, <3>2, RestBooks
      <3> QED
        BY <3>1, <3>3
    <2>5. ASSUME worker.pc = "keep" PROVE Times(M, worker.at)
      <3>1. PICK v \in Int : v = worker.at
        BY <1>3
      <3>2. Times(L, v)
        BY <1>12, <2>5, <3>1
      <3>3. Times(M, v)
        BY <1>3, <1>5, <1>12, <1>15, <3>2, RestBooks
      <3> QED
        BY <3>1, <3>3
    <2> QED
      BY <2>1, <2>3, <2>4, <2>5
  <1>19. Live(Queue)' = M /\ Good(Queue)' /\ popped' = Q
    BY <1>11, <1>13, <1>14
  <1> QED
    BY <1>1, <1>2, <1>3, <1>5, <1>16, <1>18, <1>19 DEF QueueInv, QueueOK

\* Every step keeps the invariant of the queue.
LEMMA QueueStep == QueueInv /\ [UsageNext]_usageVars => QueueInv'
  <1> SUFFICES ASSUME QueueInv, [UsageNext]_usageVars PROVE QueueInv'
    OBVIOUS
  <1>1. PipelineInv'
    BY StepHolds DEF QueueInv
  <1> QED
    BY <1>1, QuietSteps, OfferApart, KeepKeeps, PopKeeps, ClearKeeps DEF UsageNext, WorkerStep

\* The books say what the property says of the sequences themselves.
LEMMA BooksShow == QueueInv => PoppedOnceInOrder
  <1> SUFFICES ASSUME QueueInv PROVE PoppedOnceInOrder
    OBVIOUS
  <1> DEFINE L == Live(Queue)  P == popped
             kept == RecordsOf(L)  gone == RecordsOf(P)  out == gone \o kept
             n == Len(P)  l == Len(L)
  <1>1. /\ L \in Seq(Item) /\ P \in Seq(PoppedRec) /\ arrived \in SUBSET Item
        /\ Books(L, P, NextRecord)
        /\ Accounted(arrived, L, P, clock - Retention) /\ Apart(Received, L, P)
    BY LiveIs DEF QueueInv, QueueOK
  <1>2. L = SubSeq(items, head + 1, Len(items))
    BY DEF Live, Queue
  <1>3. Received \in [Subscribers -> Seq(Nat)]
    BY DEF QueueInv, PipelineInv, OffersOK
  <1> HIDE DEF L, P
  <1>4. /\ \A i \in 1 .. l : L[i].record \in Nat
        /\ \A i \in 1 .. n : P[i].record \in Nat
    <2>1. (\A i \in 1 .. l : L[i] \in Item) /\ (\A i \in 1 .. n : P[i] \in PoppedRec)
      BY <1>1
    <2> QED
      BY <2>1 DEF Item, PoppedRec
  <1>5. kept = [i \in 1 .. l |-> L[i].record] /\ gone = [i \in 1 .. n |-> P[i].record]
    BY <1>1 DEF RecordsOf
  <1>6. kept \in Seq(Nat) /\ Len(kept) = l /\ gone \in Seq(Nat) /\ Len(gone) = n
        /\ l \in Nat /\ n \in Nat
    BY <1>1, <1>4, <1>5
  <1>7. /\ out \in Seq(Nat) /\ Len(out) = n + l
        /\ \A i \in 1 .. n : out[i] = gone[i]
        /\ \A i \in 1 .. l : out[n + i] = kept[i]
    <2> HIDE DEF kept, gone, n, l
    <2> QED
      BY <1>6
  <1>8. /\ \A i \in 1 .. n : out[i] = P[i].record
        /\ \A i \in 1 .. l : out[n + i] = L[i].record
    BY <1>5, <1>7, SMTT(30)
  <1> HIDE DEF out, n, l
  <1>9. \A i \in 1 .. n + l : i \in 1 .. n \/ (i - n \in 1 .. l /\ out[i] = L[i - n].record)
    <2> SUFFICES ASSUME NEW i \in 1 .. n + l, ~(i \in 1 .. n)
                 PROVE  i - n \in 1 .. l /\ out[i] = L[i - n].record
      OBVIOUS
    <2>1. i - n \in 1 .. l /\ n + (i - n) = i
      BY <1>6
    <2> QED
      BY <1>8, <2>1
  <1>10. Increasing(out)
    <2> SUFFICES ASSUME NEW i \in 1 .. n + l, NEW j \in 1 .. n + l, i < j PROVE out[i] < out[j]
      BY <1>7 DEF Increasing
    <2>1. CASE i \in 1 .. n /\ j \in 1 .. n
      BY <1>1, <1>8, <2>1 DEF Books, n
    <2>2. CASE i \in 1 .. n /\ ~(j \in 1 .. n)
      BY <1>1, <1>8, <1>9, <2>2 DEF Books, n, l
    <2>3. CASE ~(i \in 1 .. n) /\ ~(j \in 1 .. n)
      <3>1. i - n \in 1 .. l /\ j - n \in 1 .. l /\ i - n < j - n
            /\ out[i] = L[i - n].record /\ out[j] = L[j - n].record
        BY <1>6, <1>9, <2>3
      <3> QED
        BY <1>1, <3>1 DEF Books, l
    <2>4. CASE ~(i \in 1 .. n) /\ j \in 1 .. n
      BY <1>6, <2>4
    <2> QED
      BY <2>1, <2>2, <2>3, <2>4
  <1>11. \A i \in DOMAIN popped : popped[i].age <= Retention
    <2>1. DOMAIN popped = 1 .. n
      BY <1>1 DEF P, n
    <2> QED
      BY <1>1, <2>1 DEF Books, P, n
  <1>12. ToSet(out) = {out[i] : i \in 1 .. n + l}
    BY <1>7 DEF ToSet
  <1>13. ASSUME NEW a \in arrived, a.at >= clock - Retention PROVE a.record \in ToSet(out)
    <2>1. CASE \E i \in 1 .. n : P[i].record = a.record
      <3>1. PICK i \in 1 .. n : P[i].record = a.record
        BY <2>1
      <3>2. i \in 1 .. n + l /\ out[i] = a.record
        BY <1>6, <1>8, <3>1
      <3> QED
        BY <1>12, <3>2
    <2>2. CASE \E i \in 1 .. l : L[i] = a
      <3>1. PICK i \in 1 .. l : L[i] = a
        BY <2>2
      <3>2. n + i \in 1 .. n + l /\ out[n + i] = a.record
        BY <1>6, <1>8, <3>1
      <3> QED
        BY <1>12, <3>2
    <2> QED
      BY <1>1, <1>13, <2>1, <2>2 DEF Accounted, n, l
  <1>14. ASSUME NEW s \in Subscribers PROVE ToSet(out) \cap ToSet(Received[s]) = {}
    <2>1. ToSet(Received[s]) = {Received[s][i] : i \in 1 .. Len(Received[s])}
      BY <1>3 DEF ToSet
    <2> SUFFICES ASSUME NEW i \in 1 .. n + l, NEW j \in 1 .. Len(Received[s])
                 PROVE  out[i] # Received[s][j]
      BY <1>12, <2>1
    <2>2. CASE i \in 1 .. n
      BY <1>1, <1>8, <2>2 DEF Apart, n
    <2>3. CASE ~(i \in 1 .. n)
      BY <1>1, <1>9, <2>3 DEF Apart, l
    <2> QED
      BY <2>2, <2>3
  <1> QED
    BY <1>2, <1>10, <1>11, <1>13, <1>14 DEF PoppedOnceInOrder, out, kept, gone, P

\* What is kept is popped once and in order, none of it too late, and nothing that is
\* not too old is lost; what a subscriber was given is not kept: for any retention,
\* and however the items are compacted.
THEOREM PoppedInOrder == UsageSpec => []PoppedOnceInOrder
  BY QueueInit, QueueStep, BooksShow, PTL DEF UsageSpec
=============================================================================
