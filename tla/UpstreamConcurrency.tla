------------------------ MODULE UpstreamConcurrency ------------------------
(***************************************************************************)
(* The provider-level concurrency gates of sdk/cliproxy/auth.              *)
(*                                                                         *)
(* A request reads the limit of its provider from the runtime              *)
(* configuration, looks the gate up (or replaces it) under                 *)
(* upstreamLimitersMu, and only then waits on the gate's channel: three    *)
(* separate steps, between which the configuration may be reloaded and     *)
(* another request may replace the gate.  A permit remembers the limiter   *)
(* it was taken from, so a replaced limiter lives on until its last        *)
(* permit is returned.                                                     *)
(*                                                                         *)
(* Limiter objects are garbage collected: an identity nobody refers to any *)
(* more may be used again for a new limiter, which keeps the model finite  *)
(* without a counter.                                                      *)
(***************************************************************************)
EXTENDS Naturals, FiniteSets

CONSTANTS Requests,      \* client requests
          Providers,     \* provider keys
          Limiters,      \* identities of upstreamConcurrencyLimiter objects
          Limits,        \* effective limits a configuration may hold
          Nil            \* no limiter, no limit read

ASSUME RequestsFinite == IsFiniteSet(Requests)
ASSUME LimitsAreNat == Limits \subseteq Nat
ASSUME NilIsNoLimiter == Nil \notin Limiters

Asked == [provider : Providers, limit : Limits]

ASSUME NilIsNotAsked == Nil \notin Asked

VARIABLES cfg,     \* LimitForProvider of the configuration in force (0: no gate)
          gate,    \* Manager.upstreamLimiters
          limit,   \* limiter.limit
          sem,     \* occupancy of the channel limiter.sem
          phase,   \* how far a request got in acquireUpstreamConcurrency
          asked,   \* the provider and the limit a request read
          at       \* limiter a request queues at or holds a permit of

gateVars == <<cfg, gate, limit, sem, phase, asked, at>>

Phases == {"outside", "limitRead", "queued", "admitted"}

\* Types of the gates; no limiter's channel holds less than nothing.
TypeOK ==
    /\ cfg \in [Providers -> Limits]
    /\ gate \in [Providers -> Limiters \cup {Nil}]
    /\ limit \in [Limiters -> Nat]
    /\ sem \in [Limiters -> Nat]
    /\ phase \in [Requests -> Phases]
    /\ asked \in [Requests -> Asked \cup {Nil}]
    /\ at \in [Requests -> Limiters \cup {Nil}]

GateInit ==
    /\ cfg \in [Providers -> Limits]
    /\ gate = [p \in Providers |-> Nil]
    /\ limit = [l \in Limiters |-> 0]
    /\ sem = [l \in Limiters |-> 0]
    /\ phase = [r \in Requests |-> "outside"]
    /\ asked = [r \in Requests |-> Nil]
    /\ at = [r \in Requests |-> Nil]

\* The requests that hold a permit of limiter l: a permit is nil for an
\* ungated call.
Holders(l) == {r \in Requests : phase[r] = "admitted" /\ at[r] = l}

\* Objects nothing points to.
Unreferenced == {l \in Limiters : /\ \A p \in Providers : gate[p] # l
                                  /\ \A r \in Requests : at[r] # l}

-----------------------------------------------------------------------------
(* One action per step that another goroutine can observe. *)

\* Manager.SetConfig stores a new runtime configuration.
Reload ==
    /\ cfg' \in [Providers -> Limits]
    /\ UNCHANGED <<gate, limit, sem, phase, asked, at>>

\* acquireUpstreamConcurrency reads the limit; without one the call is not
\* gated and its permit is nil.
ReadLimit(r, p) ==
    /\ phase[r] = "outside"
    /\ asked' = [asked EXCEPT ![r] = [provider |-> p, limit |-> cfg[p]]]
    /\ phase' = [phase EXCEPT ![r] = IF cfg[p] = 0 THEN "admitted" ELSE "limitRead"]
    /\ UNCHANGED <<cfg, gate, limit, sem, at>>

\* upstreamLimiterFor keeps the gate when it has the limit this request read.
KeepGate(r) ==
    LET p == asked[r].provider IN
    /\ gate[p] # Nil
    /\ limit[gate[p]] = asked[r].limit
    /\ at' = [at EXCEPT ![r] = gate[p]]
    /\ UNCHANGED <<gate, limit, sem>>

\* Otherwise it puts a fresh limiter in the map, whoever holds the old one.
ReplaceGate(r) ==
    LET p == asked[r].provider IN
    /\ gate[p] # Nil => limit[gate[p]] # asked[r].limit
    /\ \E l \in Unreferenced :
          /\ gate' = [gate EXCEPT ![p] = l]
          /\ limit' = [limit EXCEPT ![l] = asked[r].limit]
          /\ sem' = [sem EXCEPT ![l] = 0]
          /\ at' = [at EXCEPT ![r] = l]

LimiterFor(r) ==
    /\ phase[r] = "limitRead"
    /\ KeepGate(r) \/ ReplaceGate(r)
    /\ phase' = [phase EXCEPT ![r] = "queued"]
    /\ UNCHANGED <<cfg, asked>>

\* The channel send succeeds: there is room in limiter.sem.
Admit(r) ==
    /\ phase[r] = "queued"
    /\ sem[at[r]] < limit[at[r]]
    /\ sem' = [sem EXCEPT ![at[r]] = @ + 1]
    /\ phase' = [phase EXCEPT ![r] = "admitted"]
    /\ UNCHANGED <<cfg, gate, limit, asked, at>>

\* waitCtx is done: the queue timeout passed or the client went away.  The
\* select may take this branch although there is room.
GiveUp(r) ==
    /\ phase[r] = "queued"
    /\ phase' = [phase EXCEPT ![r] = "outside"]
    /\ at' = [at EXCEPT ![r] = Nil]
    /\ asked' = [asked EXCEPT ![r] = Nil]
    /\ UNCHANGED <<cfg, gate, limit, sem>>

\* Taking one element off the channel, unless it is empty (the warning
\* "release without acquire").
TakeBack(l) == sem' = [sem EXCEPT ![l] = IF @ > 0 THEN @ - 1 ELSE @]

\* Mutant: the permit is dropped, not released.
MutantLeak(r) ==
    /\ phase[r] = "admitted"
    /\ phase' = [phase EXCEPT ![r] = "outside"]
    /\ at' = [at EXCEPT ![r] = Nil]
    /\ asked' = [asked EXCEPT ![r] = Nil]
    /\ UNCHANGED <<cfg, gate, limit, sem>>

\* permit.Release; a nil permit has no limiter.
Release(r) ==
    /\ phase[r] = "admitted"
    /\ IF at[r] = Nil THEN UNCHANGED sem ELSE TakeBack(at[r])
    /\ phase' = [phase EXCEPT ![r] = "outside"]
    /\ at' = [at EXCEPT ![r] = Nil]
    /\ asked' = [asked EXCEPT ![r] = Nil]
    /\ UNCHANGED <<cfg, gate, limit>>

RequestStep(r) ==
    \/ \E p \in Providers : ReadLimit(r, p)
    \/ LimiterFor(r)
    \/ Admit(r)
    \/ GiveUp(r)
    \/ Release(r)

GateNext == Reload \/ \E r \in Requests : RequestStep(r)

\* The gates without fairness: what anything that takes and returns permits must
\* implement.
GateSpec == GateInit /\ [][GateNext]_gateVars

-----------------------------------------------------------------------------
(* What the gates promise. *)

\* Every element in a limiter's channel stands for exactly one permit in
\* somebody's hands, across reloads that replace the limiter while permits of
\* the old one are out: nothing leaks and nothing is returned twice.
PermitAccounting == \A l \in Limiters : sem[l] = Cardinality(Holders(l))

\* No limiter, current or replaced, ever has more calls in flight than the
\* limit it was created with.
WithinOwnLimit == \A l \in Limiters : Cardinality(Holders(l)) <= limit[l]

\* Release never meets an empty channel: the "release without acquire"
\* warning is dead code.
NoReleaseWithoutAcquire ==
    \A r \in Requests :
        phase[r] = "admitted" /\ at[r] # Nil => sem[at[r]] > 0
=============================================================================
