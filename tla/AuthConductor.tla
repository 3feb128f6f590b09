--------------------------- MODULE AuthConductor ---------------------------
(***************************************************************************)
(* Manager's record of every credential and the goroutines that read and   *)
(* change it: results of calls, picks, token refreshes, edits by the       *)
(* operator, reloads by the service.  The record is behind Manager.mu; the *)
(* scheduler, told after that mutex is released, is AuthPool, which        *)
(* AuthScheduler implements; the model registry is told last.              *)
(***************************************************************************)
EXTENDS AuthPool

CONSTANTS Workers,   \* goroutines
          Models,
          Profile,   \* the snapshot of each credential as it was loaded
          Cooling,   \* whether cooldowns may be enabled, disabled or either
          Results    \* the outcomes a call may have

ASSUME ConductorAssumption ==
    /\ Cooling \subseteq BOOLEAN
    /\ Results \subseteq Outcomes
    /\ Profile = [a \in Auths |->
                    [provider |-> Profile[a].provider, priority |-> Profile[a].priority,
                     ws |-> Profile[a].ws, models |-> Profile[a].models, avail |-> Fresh]]

VARIABLES auths,       \* Manager.auths
          aliased,     \* credentials the scheduler holds by the manager's own pointer
          job,         \* what each goroutine is doing
          suspended,   \* registry: models suspended for a credential
          overQuota,   \* registry: models over quota for a credential
          raced        \* history: credentials the scheduler was last told of by
                       \* an operation that ran beside another one

condVars == <<auths, aliased, suspended, overQuota, raced>>
vars == <<poolVars, condVars, job>>

Idle == [pc |-> "idle"]

Snap(a, avail) == [Profile[a] EXCEPT !.avail = avail]

Init ==
    /\ auths = [a \in Auths |-> Fresh]
    /\ known = Profile
    /\ withheld = [a \in Auths |-> {}]
    /\ now = 1
    /\ answer = Quiet
    /\ aliased = {}
    /\ job = [w \in Workers |-> Idle]
    /\ suspended = {} /\ overQuota = {} /\ raced = {}

\* A goroutine that is about to tell the scheduler of the credentials in S, by
\* copies or by the manager's own pointer (live), and then goes on with next.
Telling(S, avail, live, next) ==
    [pc |-> "tell", told |-> [a \in S |-> avail[a]], live |-> live, next |-> next,
     alone |-> S \ UNION {DOMAIN job[v].told : v \in {u \in Workers : job[u].pc = "tell"}}]

\* Goroutine w goes on with j.  If it was in the critical section for the
\* credentials in S, all others about to tell of them are no longer alone, and
\* those with a pointer to a record that was replaced have what was in it.
Goes(w, j, S, replaced) ==
    job' = [v \in Workers |->
        IF v = w THEN j
        ELSE CASE job[v].pc = "tell" ->
                    [job[v] EXCEPT
                        !.alone = @ \ S,
                        !.live = @ \ replaced,
                        !.told = [a \in DOMAIN job[v].told |->
                            IF a \in replaced \cap job[v].live THEN auths[a]
                                                               ELSE job[v].told[a]]]
               [] job[v].pc = "clone" ->
                    [job[v] EXCEPT !.live = @ /\ job[v].auth \notin replaced]
               [] OTHER -> job[v]]

-----------------------------------------------------------------------------
(* MarkResult. *)

Suspends(o, cooling) ==
    \/ o = "unsupported"
    \/ cooling /\ o \in {"unauthorized", "missing", "quota", "quotaUntil"}

\* Under the mutex: the state of the model and the credential's aggregate.
MarkResult(w, a, m, o, cooling) ==
    /\ job[w] = Idle
    /\ auths' = [auths EXCEPT ![a] = Record(@, m, o, now, cooling)]
    /\ Goes(w, Telling({a}, auths', {}, [pc |-> "registry", auth |-> a, model |-> m,
                                         outcome |-> o, cooling |-> cooling]), {a}, {})
    /\ UNCHANGED <<poolVars, aliased, suspended, overQuota, raced>>

\* Without it: the scheduler is told of the copy taken then.
Upsert(w) ==
    /\ job[w].pc = "tell" /\ job[w].next.pc # "again"
    /\ LET j == job[w] IN
       \E a \in Auths :
          /\ DOMAIN j.told = {a}
          /\ Tell(a, Snap(a, IF a \in j.live THEN auths[a] ELSE j.told[a]))
          /\ aliased' = IF a \in j.live THEN aliased \cup {a} ELSE aliased \ {a}
          /\ raced' = IF a \in j.alone THEN raced \ {a} ELSE raced \cup {a}
          /\ job' = [job EXCEPT ![w] = j.next]
    /\ UNCHANGED <<auths, suspended, overQuota>>

\* And then the registry.
TellRegistry(w) ==
    /\ job[w].pc = "registry"
    /\ LET j == job[w]
           p == <<j.auth, j.model>>
       IN  /\ overQuota' = CASE j.outcome = "ok" -> overQuota \ {p}
                             [] j.outcome \in {"quota", "quotaUntil"} /\ j.cooling ->
                                   overQuota \cup {p}
                             [] OTHER -> overQuota
           /\ suspended' = CASE j.outcome = "ok" -> suspended \ {p}
                             [] Suspends(j.outcome, j.cooling) -> suspended \cup {p}
                             [] OTHER -> suspended
    /\ job' = [job EXCEPT ![w] = Idle]
    /\ UNCHANGED <<poolVars, auths, aliased, raced>>

-----------------------------------------------------------------------------
(* pickNext. *)

\* The scheduler offers a credential: the goroutine goes on to copy it, with
\* no mutex held.
Pick(w, q) ==
    /\ job[w] = Idle
    /\ Offer(q)
    /\ job' = [job EXCEPT ![w] = [pc |-> "clone", auth |-> answer'.auth,
                                  live |-> answer'.auth \in aliased]]
    /\ UNCHANGED condVars

Cloned(w) ==
    /\ job[w].pc = "clone"
    /\ job' = [job EXCEPT ![w] = Idle]
    /\ UNCHANGED <<poolVars, condVars>>

\* It refuses: the scheduler is rebuilt and asked again.
PickRefused(w, q) ==
    /\ job[w] = Idle
    /\ Refuse(q)
    /\ job' = [job EXCEPT ![w] = [pc |-> "sync", query |-> q]]
    /\ UNCHANGED condVars

\* snapshotAuths, under the mutex.
SnapshotAuths(w) ==
    /\ job[w].pc = "sync"
    /\ Goes(w, Telling(Auths, auths, {}, [pc |-> "again", query |-> job[w].query]), {}, {})
    /\ UNCHANGED <<poolVars, condVars>>

\* rebuild, without it.
Rebuild(w) ==
    /\ job[w].pc = "tell" /\ job[w].next.pc = "again"
    /\ TellAll([a \in Auths |-> Snap(a, job[w].told[a])])
    /\ aliased' = {}
    /\ raced' = Auths \ job[w].alone
    /\ job' = [job EXCEPT ![w] = @.next]
    /\ UNCHANGED <<auths, suspended, overQuota>>

PickAgain(w) ==
    /\ job[w].pc = "again"
    /\ \/ /\ Offer(job[w].query)
          /\ job' = [job EXCEPT ![w] = [pc |-> "clone", auth |-> answer'.auth,
                                        live |-> answer'.auth \in aliased]]
       \/ /\ Refuse(job[w].query)
          /\ job' = [job EXCEPT ![w] = Idle]
    /\ UNCHANGED condVars

-----------------------------------------------------------------------------
(* Update, Register's twin for a credential that exists, by those who read   *)
(* the record, change it and write it back.                                  *)

\* Under the mutex: the record is replaced (its counters and credentials are left
\* out).  The scheduler is then given a
\* pointer to the new one, no copy.
Update(w, a, new, next) ==
    /\ auths' = [auths EXCEPT ![a] = Replaced(@, new)]
    /\ aliased' = aliased \ {a}
    /\ Goes(w, Telling({a}, auths', {a}, next), {a}, {a})
    /\ UNCHANGED <<poolVars, suspended, overQuota, raced>>

\* The operator's edit (PatchAuthFileStatus) or the service's reload
\* (applyCoreAuthAddOrUpdate) reads the record.
Fetch(w, a, by) ==
    /\ job[w] = Idle
    /\ job' = [job EXCEPT ![w] = [pc |-> by, auth |-> a, avail |-> auths[a]]]
    /\ UNCHANGED <<poolVars, condVars>>

\* The operator enables or disables the credential.
Toggle(w, off) ==
    /\ job[w].pc = "operator"
    /\ Update(w, job[w].auth, [job[w].avail EXCEPT !.disabled = off], Idle)

\* The service writes what is in the credential's file, with the model states it
\* read if the credential was and stays enabled, then registers its models anew.
Reload(w, off) ==
    /\ job[w].pc = "service"
    /\ LET a    == job[w].auth
           old  == job[w].avail
           kept == IF old.disabled \/ off THEN <<>> ELSE old.states
       IN  Update(w, a, [Fresh EXCEPT !.disabled = off, !.states = kept],
                  [pc |-> "register", auth |-> a])

\* registerModelsForAuth: the registry starts afresh for the credential.
RegisterModels(w) ==
    /\ job[w].pc = "register"
    /\ suspended' = {p \in suspended : p[1] # job[w].auth}
    /\ overQuota' = {p \in overQuota : p[1] # job[w].auth}
    /\ job' = [job EXCEPT ![w] = [pc |-> "reconcile", auth |-> job[w].auth]]
    /\ UNCHANGED <<poolVars, auths, aliased, raced>>

\* ReconcileRegistryModelStates: the model states start afresh, too.
Reconcile(w) ==
    /\ job[w].pc = "reconcile"
    /\ LET a     == job[w].auth
           new   == Reconciled(auths[a], Profile[a].models, now)
           entry == [pc |-> "entry", auth |-> a]
       IN  /\ auths' = [auths EXCEPT ![a] = new]
           /\ IF new = auths[a] THEN Goes(w, entry, {}, {})
              ELSE Goes(w, Telling({a}, auths', {}, entry), {a}, {})
    /\ UNCHANGED <<poolVars, aliased, suspended, overQuota, raced>>

\* RefreshSchedulerEntry.
RefreshEntry(w) ==
    /\ job[w].pc = "entry"
    /\ Goes(w, Telling({job[w].auth}, auths, {}, Idle), {}, {})
    /\ UNCHANGED <<poolVars, condVars>>

-----------------------------------------------------------------------------
(* refreshAuth. *)

\* A copy of the record goes to the executor, with no mutex held meanwhile.  The
\* refresh loop marks enabled credentials only, but a worker takes the copy later,
\* whatever has become of the credential.
BeginRefresh(w, a) ==
    /\ job[w] = Idle
    /\ job' = [job EXCEPT ![w] = [pc |-> "refresh", auth |-> a, avail |-> auths[a]]]
    /\ UNCHANGED <<poolVars, condVars>>

RefreshCanceled(w) ==
    /\ job[w].pc = "refresh"
    /\ job' = [job EXCEPT ![w] = Idle]
    /\ UNCHANGED <<poolVars, condVars>>

\* Mutant: the scheduler is not told.
MutantRefreshFails(w) ==
    /\ job[w].pc = "refresh"
    /\ auths' = [auths EXCEPT ![job[w].auth] = RefreshFailed(@, now)]
    /\ Goes(w, Idle, {job[w].auth}, {})
    /\ UNCHANGED <<poolVars, aliased, suspended, overQuota, raced>>

\* It failed: the credential is held, and the scheduler told of it, under the
\* mutex.
RefreshFails(w) ==
    /\ job[w].pc = "refresh"
    /\ LET a == job[w].auth IN
       /\ auths' = [auths EXCEPT ![a] = RefreshFailed(@, now)]
       /\ Tell(a, Snap(a, auths'[a]))
       /\ aliased' = aliased \ {a}
       /\ raced' = raced \ {a}
       /\ Goes(w, Idle, {a}, {})
    /\ UNCHANGED <<suspended, overQuota>>

\* It succeeded: the copy, refreshed, replaces the record.
RefreshSucceeds(w) ==
    /\ job[w].pc = "refresh"
    /\ Update(w, job[w].auth, Refreshed(job[w].avail), Idle)

-----------------------------------------------------------------------------

Time ==
    /\ Tick
    /\ UNCHANGED <<condVars, job>>

\* A call of one of these models has one of these outcomes.
Answered(w, models, outcomes, cooling) ==
    \E a \in Auths, m \in models, o \in outcomes, c \in cooling : MarkResult(w, a, m, o, c)

Work(w) ==
    \/ Upsert(w) \/ TellRegistry(w)
    \/ \E q \in Queries : Pick(w, q) \/ PickRefused(w, q)
    \/ Cloned(w) \/ SnapshotAuths(w) \/ Rebuild(w) \/ PickAgain(w)
    \/ \E a \in Auths, by \in {"operator", "service"} : Fetch(w, a, by)
    \/ \E off \in BOOLEAN : Toggle(w, off) \/ Reload(w, off)
    \/ RegisterModels(w) \/ Reconcile(w) \/ RefreshEntry(w)
    \/ \E a \in Auths : BeginRefresh(w, a)
    \/ RefreshCanceled(w) \/ RefreshFails(w) \/ RefreshSucceeds(w)

Step(w) == Answered(w, Models, Results, Cooling) \/ Work(w)

Next == Time \/ \E w \in Workers : Step(w)

Spec == Init /\ [][Next]_vars

-----------------------------------------------------------------------------
(* What the conductor keeps right, and what it does not. *)

ModelState == [unavailable : BOOLEAN, retryAt : Nat, exceeded : BOOLEAN,
               recoverAt : Nat, level : Nat, err : BOOLEAN]

Recorded(w) == job[w] = Idle /\ job'[w].pc = "tell" /\ job'[w].next.pc = "registry"

\* A result settles the credential: after a success the model may be called at
\* once, and whatever came back, the credential as a whole is held back only if
\* every model it has a state for is, and no longer than the first of them.
ResultsSettle ==
    [][\A w \in Workers : Recorded(w) =>
          LET next == job'[w].next
              r    == auths'[next.auth]
          IN  /\ next.outcome = "ok" /\ ~r.disabled => Callable(r, next.model, now)
              /\ next.outcome # "requestMissing" /\ Holds(r, now) =>
                    /\ \A m \in DOMAIN r.states : Holds(r.states[m], now)
                    /\ r.retryAt = Min({r.states[m].retryAt : m \in DOMAIN r.states})]_vars

\* Nothing to tell is on its way.
Settled(a) ==
    \A w \in Workers : job[w].pc = "tell" => a \notin DOMAIN job[w].told

\* The scheduler goes by what the manager has on record, except for a credential
\* of which two operations told at a time.
StaleOnlyByRace ==
    \A a \in Auths : Settled(a) /\ a \notin raced =>
        known[a] = Told(Snap(a, auths[a]))
=============================================================================
