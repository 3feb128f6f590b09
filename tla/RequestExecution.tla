-------------------------- MODULE RequestExecution --------------------------
(***************************************************************************)
(* Manager.Execute, ExecuteCount and ExecuteStream: the rounds of one       *)
(* request, the credentials tried in a round, the upstream models tried on *)
(* a credential, the permit held meanwhile, and the result recorded for    *)
(* every call.  The gates are those of UpstreamConcurrency, which this     *)
(* module implements: every step is a step of the gates or leaves them     *)
(* alone.                                                                  *)
(*                                                                         *)
(* Which credential the scheduler offers, whether a call fails and with    *)
(* which class of error, and whether a cooldown is near enough to wait for *)
(* are left open here: AuthScheduler and AuthConductor decide them.        *)
(***************************************************************************)
EXTENDS UpstreamConcurrency, Integers

CONSTANTS Auths,            \* credentials
          ProviderOf,       \* provider of each credential
          Antigravity,      \* the provider of the credits fallback
          CreditsFallback,  \* config quota-exceeded.antigravity-credits
          MaxRetry,         \* request-retry
          MaxCredentials,   \* max-retry-credentials (0: no cap)
          PoolSize          \* upstream models behind an alias

ASSUME ExecutionAssumption ==
    /\ ProviderOf \in [Auths -> Providers]
    /\ Antigravity \in Providers
    /\ CreditsFallback \in BOOLEAN
    /\ MaxRetry \in Nat /\ MaxCredentials \in Nat /\ PoolSize \in Nat

ASSUME NilIsNoCall == Nil \notin [to : Providers, by : Limiters \cup {Nil}]

VARIABLE req    \* the goroutine serving each request

vars == <<gateVars, req>>

\* No error, the client's context ended, the request itself is at fault, the
\* gate's queue timed out, the upstream failed, no credential was offered.
Errors == {"none", "ctx", "invalid", "timeout", "upstream", "noAuth"}

Requested ==
    [pc        : {"pick", "acquire", "call", "stream", "failed", "wait",
                  "creditsPick", "creditsCall", "done"},
     stream    : BOOLEAN,          \* ExecuteStream rather than Execute
     tried     : SUBSET Auths,
     attempted : SUBSET Auths,
     lastErr   : Errors,           \* lastErr of the running round
     err       : Errors,           \* what the last round returned
     pool      : 0..PoolSize,      \* models still to be called, this one included
     round     : 0..MaxRetry,
     cancelled : BOOLEAN,          \* ctx is done
     erred     : BOOLEAN,          \* an error chunk went through the stream
     open      : Int,              \* calls begun less results recorded
     onto      : Providers]        \* provider of the last call

\* Types of the gates and of the requests: rounds, models left to call and errors
\* stay in range.
ExecTypeOK == TypeOK /\ req \in [Requests -> Requested]

Arriving(stream) ==
    [pc |-> "pick", stream |-> stream, tried |-> {}, attempted |-> {},
     lastErr |-> "none", err |-> "none", pool |-> 0, round |-> 0,
     cancelled |-> FALSE, erred |-> FALSE, open |-> 0, onto |-> Antigravity]

Init ==
    /\ GateInit
    /\ req \in [Requests -> {Arriving(stream) : stream \in BOOLEAN}]

\* MarkResult for the call in flight.
Marked(q) == [q EXCEPT !.open = @ - 1]

\* A round comes back with an error, its local variables gone.
Fails(q, e) ==
    [Arriving(q.stream) EXCEPT !.pc = "failed", !.err = e, !.round = q.round,
                               !.open = q.open, !.cancelled = q.cancelled]

\* The handler has its answer and every goroutine of the request is over.
Over(q) ==
    [Arriving(q.stream) EXCEPT !.pc = "done", !.open = q.open, !.cancelled = q.cancelled]

-----------------------------------------------------------------------------
(* One round: executeMixedOnce, executeCountMixedOnce, executeStreamMixedOnce. *)

CapReached(r) == MaxCredentials > 0 /\ Cardinality(req[r].attempted) >= MaxCredentials

\* pickNextMixed offers a credential not tried before, all of whose models
\* are blocked: it is skipped and does not count as attempted.
PickUnusable(r) ==
    /\ req[r].pc = "pick" /\ ~CapReached(r)
    /\ \E a \in Auths \ req[r].tried :
          req' = [req EXCEPT ![r].tried = @ \cup {a}]
    /\ UNCHANGED gateVars

\* It offers one with models to call; the call waits for the gate unless the
\* provider has none.
Pick(r) ==
    /\ req[r].pc = "pick" /\ ~CapReached(r)
    /\ \E a \in Auths \ req[r].tried, n \in 1..PoolSize :
          /\ ReadLimit(r, ProviderOf[a])
          /\ LET gated == cfg[ProviderOf[a]] > 0 IN
             req' = [req EXCEPT
                 ![r].tried = @ \cup {a}, ![r].attempted = @ \cup {a},
                 ![r].pool = n, ![r].onto = ProviderOf[a],
                 ![r].pc = IF gated THEN "acquire" ELSE "call",
                 ![r].open = IF gated THEN @ ELSE @ + 1]

\* No credential is left, or all that are left are blocked, or the cap is
\* reached: an upstream error of this round is preferred as the answer.
PickFails(r) ==
    /\ req[r].pc = "pick"
    /\ req' = [req EXCEPT ![r] =
          Fails(req[r], IF req[r].lastErr # "none" THEN req[r].lastErr ELSE "noAuth")]
    /\ UNCHANGED gateVars

LookUpGate(r) == req[r].pc = "acquire" /\ LimiterFor(r) /\ UNCHANGED req

Admitted(r) ==
    /\ req[r].pc = "acquire"
    /\ Admit(r)
    /\ req' = [req EXCEPT ![r].pc = "call", ![r].open = @ + 1]

\* Not admitted in time: the whole round ends, other credentials are not tried.
NotAdmitted(r) ==
    /\ req[r].pc = "acquire"
    /\ GiveUp(r)
    /\ req' = [req EXCEPT ![r] = Fails(req[r], IF req[r].cancelled THEN "ctx" ELSE "timeout")]

\* A unary call succeeds: its result is recorded, then the permit released.
CallSucceeds(r) ==
    /\ req[r].pc = "call" /\ ~req[r].stream
    /\ Release(r)
    /\ req' = [req EXCEPT ![r] = Over(Marked(@))]

\* Mutant: the permit is released when the handler returns, the stream still open.
MutantReleaseOnReturn(r) ==
    /\ req[r].pc = "call" /\ req[r].stream
    /\ Release(r)
    /\ req' = [req EXCEPT ![r].pc = "stream"]

\* Mutant: it is released on return and once more at the end of the stream.
MutantReleaseTwice(r) ==
    /\ req[r].pc = "call" /\ req[r].stream
    /\ IF at[r] = Nil THEN UNCHANGED sem ELSE TakeBack(at[r])
    /\ req' = [req EXCEPT ![r].pc = "stream"]
    /\ UNCHANGED <<cfg, gate, limit, phase, asked, at>>

\* A stream delivered its first payload: the response is committed to this
\* call and a goroutine keeps the permit until the stream ends.
StreamOpens(r) ==
    /\ req[r].pc = "call" /\ req[r].stream
    /\ req' = [req EXCEPT ![r].pc = "stream"]
    /\ UNCHANGED gateVars

\* The call fails after the client left: nothing is recorded.
CallAbandoned(r) ==
    /\ req[r].pc = "call" /\ req[r].cancelled
    /\ Release(r)
    /\ req' = [req EXCEPT ![r] = Fails(req[r], "ctx")]

\* The request is at fault: recorded, and no other model or credential is tried.
\* (ExecuteStream looks at ctx again on its way out.)
CallInvalid(r) ==
    /\ req[r].pc = "call" /\ (req[r].stream \/ ~req[r].cancelled)
    /\ Release(r)
    /\ req' = [req EXCEPT ![r] =
          Marked(Fails(req[r], IF req[r].cancelled THEN "ctx" ELSE "invalid"))]

\* The upstream is at fault: recorded, and the next model of the pool is called
\* under the same permit.
NextModel(r) ==
    /\ req[r].pc = "call" /\ (req[r].stream \/ ~req[r].cancelled)
    /\ req[r].pool > 1
    /\ req' = [req EXCEPT ![r].pool = @ - 1]    \* one result, one new call
    /\ UNCHANGED gateVars

\* Mutant: the next credential is picked with the permit of this one in hand.
MutantKeepPermit(r) ==
    /\ req[r].pc = "call" /\ (req[r].stream \/ ~req[r].cancelled)
    /\ req[r].pool = 1
    /\ req' = [req EXCEPT ![r] = [Marked(@) EXCEPT !.pc = "pick", !.lastErr = "upstream"]]
    /\ UNCHANGED gateVars

\* The last model failed: the permit is released and the next credential
\* picked.
NextCredential(r) ==
    /\ req[r].pc = "call" /\ (req[r].stream \/ ~req[r].cancelled)
    /\ req[r].pool = 1
    /\ Release(r)
    /\ req' = [req EXCEPT ![r] =
          IF req[r].stream /\ req[r].cancelled THEN Marked(Fails(req[r], "ctx"))
          ELSE [Marked(@) EXCEPT !.pc = "pick", !.lastErr = "upstream"]]

-----------------------------------------------------------------------------
(* The stream after its first payload: wrapStreamResult inside               *)
(* streamResultWithPermitRelease.  A stream of the credits fallback has no   *)
(* permit.                                                                   *)

LeaveStream(r) == IF phase[r] = "admitted" THEN Release(r) ELSE UNCHANGED gateVars

\* The first error chunk is recorded; chunks go on being forwarded.
StreamErrs(r) ==
    /\ req[r].pc = "stream" /\ ~req[r].erred
    /\ req' = [req EXCEPT ![r] = [Marked(@) EXCEPT !.erred = TRUE]]
    /\ UNCHANGED gateVars

\* Mutant: success is recorded after an error chunk, too.
MutantStreamCloses(r) ==
    /\ req[r].pc = "stream"
    /\ LeaveStream(r)
    /\ req' = [req EXCEPT ![r] = Over(Marked(@))]

\* The upstream closes: success is recorded unless an error was.
StreamCloses(r) ==
    /\ req[r].pc = "stream"
    /\ LeaveStream(r)
    /\ req' = [req EXCEPT ![r] =
          Over(IF req[r].erred THEN @ ELSE Marked(@))]

\* The client is gone when a chunk is due: the rest is discarded, unrecorded.
StreamDropped(r) ==
    /\ req[r].pc = "stream" /\ req[r].cancelled
    /\ LeaveStream(r)
    /\ req' = [req EXCEPT ![r] = Over(@)]

-----------------------------------------------------------------------------
(* Between the rounds. *)

\* shouldRetryAfterError found a cooldown within max-retry-interval on a
\* credential that allows another attempt.
Retry(r) ==
    /\ req[r].pc = "failed" /\ req[r].err # "invalid"
    /\ req[r].round < MaxRetry
    /\ req' = [req EXCEPT ![r].pc = "wait"]
    /\ UNCHANGED gateVars

\* Mutant: rounds are not counted.
MutantWaitOver(r) ==
    /\ req[r].pc = "wait"
    /\ req' = [req EXCEPT ![r].pc = "pick", ![r].err = "none"]
    /\ UNCHANGED gateVars

WaitOver(r) ==
    /\ req[r].pc = "wait"
    /\ req' = [req EXCEPT ![r].pc = "pick", ![r].err = "none",
                          ![r].round = @ + 1]
    /\ UNCHANGED gateVars

WaitCancelled(r) ==
    /\ req[r].pc = "wait" /\ req[r].cancelled
    /\ req' = [req EXCEPT ![r] = Over(@)]
    /\ UNCHANGED gateVars

\* No retry: the last error is the answer.
Answer(r) ==
    /\ req[r].pc = "failed"
    /\ req' = [req EXCEPT ![r] = Over(@)]
    /\ UNCHANGED gateVars

\* Or the antigravity credits are tried first (429, 503, or no credential).
TryCredits(r) ==
    /\ req[r].pc = "failed" /\ CreditsFallback
    /\ req[r].err \in {"timeout", "upstream", "noAuth"}
    /\ req' = [req EXCEPT ![r].pc = "creditsPick"]
    /\ UNCHANGED gateVars

\* Each candidate is called in turn, past the gate.
CreditsPick(r) ==
    /\ req[r].pc = "creditsPick" /\ ~req[r].cancelled
    /\ \E a \in Auths \ req[r].tried, n \in 1..PoolSize :
          /\ ProviderOf[a] = Antigravity
          /\ req' = [req EXCEPT ![r].tried = @ \cup {a}, ![r].pool = n,
                                ![r].onto = Antigravity,
                                ![r].pc = "creditsCall", ![r].open = @ + 1]
    /\ UNCHANGED gateVars

CreditsExhausted(r) ==
    /\ req[r].pc = "creditsPick"
    /\ req' = [req EXCEPT ![r] = Over(@)]
    /\ UNCHANGED gateVars

CreditsSucceed(r) ==
    /\ req[r].pc = "creditsCall"
    /\ req' = [req EXCEPT ![r] =
          IF req[r].stream THEN [@ EXCEPT !.pc = "stream"]
          ELSE Over(Marked(@))]
    /\ UNCHANGED gateVars

\* A failed call goes on with the next model, then the next candidate.  An
\* invalid request or, in a stream, a departed client skips the other models;
\* the departed client's call is not recorded.
CreditsFail(r) ==
    /\ req[r].pc = "creditsCall"
    /\ \/ /\ req[r].pool > 1
          /\ req' = [req EXCEPT ![r].pool = @ - 1]
       \/ /\ req[r].pool = 1 \/ req[r].stream
          /\ req' = [req EXCEPT ![r] = [Marked(@) EXCEPT !.pc = "creditsPick"]]
       \/ /\ req[r].stream /\ req[r].cancelled
          /\ req' = [req EXCEPT ![r].pc = "creditsPick"]
    /\ UNCHANGED gateVars

-----------------------------------------------------------------------------

\* The client disconnects or its deadline passes.
Cancel(r) ==
    /\ req[r].pc # "done" /\ ~req[r].cancelled
    /\ req' = [req EXCEPT ![r].cancelled = TRUE]
    /\ UNCHANGED gateVars

Call(r) ==
    \/ CallSucceeds(r) \/ StreamOpens(r) \/ CallAbandoned(r)
    \/ CallInvalid(r) \/ NextModel(r) \/ NextCredential(r)
    \/ StreamErrs(r) \/ StreamCloses(r) \/ StreamDropped(r)

Round(r) ==
    \/ PickUnusable(r) \/ Pick(r) \/ PickFails(r)
    \/ LookUpGate(r) \/ Admitted(r) \/ NotAdmitted(r)

Between(r) ==
    \/ Retry(r) \/ WaitOver(r) \/ WaitCancelled(r) \/ Answer(r)
    \/ TryCredits(r) \/ CreditsPick(r) \/ CreditsExhausted(r)
    \/ CreditsSucceed(r) \/ CreditsFail(r)

Serve(r) == Round(r) \/ Call(r) \/ Between(r)

ReloadConfig == Reload /\ UNCHANGED req

\* Without a reload of the configuration, and with one at any time.
StableNext == \E r \in Requests : Serve(r) \/ Cancel(r)

Next == StableNext \/ ReloadConfig

\* The goroutine of a request runs on, upstream calls and streams end (or the
\* executor's own timeout ends them), timers fire.
Fairness == \A r \in Requests : WF_vars(Serve(r))

StableSpec == Init /\ [][StableNext]_vars /\ Fairness

Spec == Init /\ [][Next]_vars

-----------------------------------------------------------------------------
(* What a request may rely on. *)

\* A permit is held exactly while an upstream call that needs one is under way:
\* no path out of a call, a stream or a round, and no wait for a cooldown,
\* takes a permit along.
PermitSpansCall ==
    \A r \in Requests :
        /\ phase[r] = "admitted" => req[r].pc \in {"call", "stream"}
        /\ phase[r] \in {"limitRead", "queued"} => req[r].pc = "acquire"
        /\ req[r].pc = "call" => phase[r] = "admitted"

\* Every upstream call gets exactly one result recorded, streams that err
\* half way included; only a call whose client left may go unrecorded.
ResultRecordedOnce ==
    \A r \in Requests :
        LET due == IF \/ req[r].pc \in {"call", "creditsCall"}
                      \/ req[r].pc = "stream" /\ ~req[r].erred
                   THEN 1 ELSE 0
        IN  req[r].open >= due /\ (req[r].cancelled \/ req[r].open = due)

Calling(q) == q.pc \in {"call", "stream", "creditsCall"}

InFlight(p) == {r \in Requests : Calling(req[r]) /\ req[r].onto = p}

\* A provider never has more calls in flight than its configured limit.
InFlightWithinLimit ==
    \A p \in Providers : cfg[p] > 0 => Cardinality(InFlight(p)) <= cfg[p]

\* A call of request q upstream, with a permit of limiter l.
CallOf(q, l) == IF Calling(q) THEN [to |-> q.onto, by |-> l] ELSE Nil

Calls == [r \in Requests |-> CallOf(req[r], at[r])]

Slots == INSTANCE CallSlots WITH size <- limit, call <- Calls

\* The upstream calls, seen from the requests alone, keep what CallSlots promises:
\* each has its one slot from beginning to end, over models, streams, retries,
\* cancellation and reloads, and no limiter, replaced or not, has more than it takes.
SlotSpec == Slots!Spec

\* Every request is answered: rounds, credentials and models run out.
Answered == \A r \in Requests : <>(req[r].pc = "done")
=============================================================================
