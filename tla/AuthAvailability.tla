-------------------------- MODULE AuthAvailability --------------------------
(***************************************************************************)
(* The availability of a credential: which of its models may be called at  *)
(* a given time, and how the result of a call changes that.  Pure          *)
(* operators over the fields of Auth, ModelState and QuotaState that       *)
(* routing reads.  Times are naturals, 0 is Go's zero time.                *)
(***************************************************************************)
EXTENDS Integers, FiniteSetsExt

CONSTANTS Transient,      \* hold after 408, 500, 502, 503, 504
          Suspend,        \* hold after 401, 402, 403
          Missing,        \* hold after 404 or an unsupported model
          RefreshBackoff, \* hold after a failed token refresh
          QuotaBase,      \* first quota cooldown
          QuotaMax,       \* longest quota cooldown
          RetryAfter      \* the cooldown an upstream asks for with a 429

ASSUME DurationsArePositive ==
    /\ {Transient, Suspend, Missing, RefreshBackoff, QuotaBase, QuotaMax} \subseteq Nat \ {0}
    /\ RetryAfter \in Nat

\* A model's state after a success; err says that its status or last error
\* tells of a failure.
Clean == [unavailable |-> FALSE, retryAt |-> 0, exceeded |-> FALSE,
          recoverAt |-> 0, level |-> 0, err |-> FALSE]

\* A fresh credential: no model has a state yet.
Fresh == [disabled |-> FALSE, states |-> <<>>, unavailable |-> FALSE, retryAt |-> 0,
          exceeded |-> FALSE, recoverAt |-> 0, level |-> 0]

-----------------------------------------------------------------------------
(* May a model be called? *)

\* A credential or model state holds calls back until its retry time.
Holds(w, now) == w.unavailable /\ w.retryAt > now

\* The time reported for the end of the hold: that of the quota, if it is ahead.
EndsAt(w, now) == IF w.recoverAt > now THEN w.recoverAt ELSE w.retryAt

HeldBy(w, now) ==
    [state |-> IF w.exceeded THEN "cooldown" ELSE "blocked", next |-> EndsAt(w, now)]

\* isAuthBlockedForModel: the hold of the credential comes before the model's.
Verdict(a, m, now) ==
    CASE a.disabled -> [state |-> "disabled", next |-> 0]
      [] ~a.disabled /\ Holds(a, now) -> HeldBy(a, now)
      [] /\ ~a.disabled /\ ~Holds(a, now)
         /\ m \in DOMAIN a.states /\ Holds(a.states[m], now) -> HeldBy(a.states[m], now)
      [] OTHER -> [state |-> "ready", next |-> 0]

Callable(a, m, now) == Verdict(a, m, now).state = "ready"

-----------------------------------------------------------------------------
(* What a result does. *)

\* Earliest of the times that are set.
Earliest(times) == IF times \subseteq {0} THEN 0 ELSE Min(times \ {0})

\* A hold that has run out is taken off the model's state.
Swept(s, now) ==
    IF s.unavailable /\ s.retryAt # 0 /\ s.retryAt <= now
    THEN [s EXCEPT !.unavailable = FALSE, !.retryAt = 0] ELSE s

\* Mutant: a credential is unavailable as soon as one model is.
MutantAggregate(a, now) ==
    LET states == [m \in DOMAIN a.states |-> Swept(a.states[m], now)]
        held   == {m \in DOMAIN states : Holds(states[m], now)}
    IN  [a EXCEPT !.states = states, !.unavailable = held # {},
                  !.retryAt = Earliest({states[m].retryAt : m \in held})]

\* updateAggregatedAvailability: the credential is unavailable while all the
\* models that have a state are, and over quota while one of them is.
Aggregate(a, now) ==
    LET states == [m \in DOMAIN a.states |-> Swept(a.states[m], now)]
        held   == {m \in DOMAIN states : Holds(states[m], now)}
        over   == {m \in DOMAIN states : states[m].exceeded}
        all    == states # <<>> /\ held = DOMAIN states
    IN  [disabled    |-> a.disabled,
         states      |-> states,
         unavailable |-> all,
         retryAt     |-> IF all THEN Earliest({states[m].retryAt : m \in held}) ELSE 0,
         exceeded    |-> over # {},
         recoverAt   |-> Earliest({states[m].recoverAt : m \in over}),
         level       |-> Max({states[m].level : m \in over} \cup {0})]

\* nextQuotaCooldown: doubles with every level, up to QuotaMax.
QuotaCooldown(level) ==
    LET d == QuotaBase * 2^level IN
    IF d >= QuotaMax THEN [cooldown |-> QuotaMax, level |-> level]
                     ELSE [cooldown |-> d, level |-> level + 1]

\* Failures with a fixed hold.
HoldFor == [transient |-> Transient, unauthorized |-> Suspend, missing |-> Missing]

\* Outcomes of a call, by what MarkResult makes of the error.  "quota" and
\* "quotaUntil" are 429 without and with a Retry-After.
Failures == DOMAIN HoldFor \cup {"unsupported", "quota", "quotaUntil", "other"}
Outcomes == Failures \cup {"ok", "requestTransient", "requestMissing"}

OverQuota(next, level) ==
    [unavailable |-> TRUE, retryAt |-> next, exceeded |-> TRUE,
     recoverAt |-> next, level |-> level, err |-> TRUE]

\* The model's state after a failure; cooling is ~quotaCooldownDisabledForAuth.
Failed(s, o, now, cooling) ==
    LET down == [s EXCEPT !.unavailable = TRUE, !.retryAt = 0, !.err = TRUE]
        q    == QuotaCooldown(s.level)
    IN  CASE o = "unsupported" -> [down EXCEPT !.retryAt = now + Missing]
          [] o \in DOMAIN HoldFor /\ cooling -> [down EXCEPT !.retryAt = now + HoldFor[o]]
          [] o = "quota" /\ cooling -> OverQuota(now + q.cooldown, q.level)
          [] o = "quotaUntil" /\ cooling -> OverQuota(now + RetryAfter, s.level)
          [] o \in {"quota", "quotaUntil"} /\ ~cooling -> OverQuota(0, s.level)
          [] OTHER -> down

StateOf(a, m) == IF m \in DOMAIN a.states THEN a.states[m] ELSE Clean

WithState(a, m, s) ==
    [a EXCEPT !.states = [n \in DOMAIN @ \cup {m} |-> IF n = m THEN s ELSE @[n]]]

\* The locked part of MarkResult, for a result of model m.
Record(a, m, o, now, cooling) ==
    CASE o = "ok" -> Aggregate(WithState(a, m, Clean), now)
      [] o = "requestMissing" -> a
      [] o = "requestTransient" ->
            Aggregate(WithState(a, m, [StateOf(a, m) EXCEPT
                !.unavailable = FALSE, !.retryAt = 0, !.err = TRUE]), now)
      [] OTHER -> Aggregate(WithState(a, m, Failed(StateOf(a, m), o, now, cooling)), now)

\* ReconcileRegistryModelStates: states of models the registry dropped go, the
\* others are reset.
Reconciled(a, models, now) ==
    LET kept == [m \in DOMAIN a.states \cap models |-> Clean] IN
    IF kept = a.states THEN a ELSE Aggregate([a EXCEPT !.states = kept], now)

\* refreshAuth on a failed and a successful refresh.
RefreshFailed(a, now) == [a EXCEPT !.unavailable = TRUE, !.retryAt = now + RefreshBackoff]
Refreshed(a) == [a EXCEPT !.unavailable = FALSE, !.retryAt = 0]

\* Update: a credential that stays enabled and comes without states keeps those
\* it has.
Replaced(old, new) ==
    IF ~old.disabled /\ ~new.disabled /\ new.states = <<>>
    THEN [new EXCEPT !.states = old.states] ELSE new
=============================================================================
