------------------------------ MODULE AuthPool ------------------------------
(***************************************************************************)
(* What routing promises: asked for a credential, it offers one that may   *)
(* be called, of the highest priority, going by what it was last told of   *)
(* each credential, and it refuses only if there is none.  It may pass     *)
(* over a credential that was held when it was last judged until the time  *)
(* noted then, which a quota can put later than the end of the hold, and   *)
(* no longer: being told of the credential ends it.  AuthScheduler keeps   *)
(* indexes, cursors and queues to do so; this is what they add up to.      *)
(***************************************************************************)
EXTENDS AuthAvailability, Sequences

CONSTANTS Auths, Providers, Nil,
          Codex,       \* the provider with a websocket transport
          Snapshots,   \* what may be told of each credential
          Loads,       \* what may be told of all of them at once
          Queries,     \* what may be asked for
          MaxNow       \* bound on time

ASSUME NilIsNoCredential == Nil \notin Auths
ASSUME TimeIsBounded == MaxNow \in Nat
ASSUME QueriesAreTyped ==
    \A q \in Queries : q \in [providers : Seq(Providers), model : {q.model}, ws : BOOLEAN,
                              pinned : Auths \cup {Nil}, tried : SUBSET Auths]

VARIABLES known,    \* the snapshot last told of each credential
          withheld, \* the models each is not offered for until a noted time
          now,      \* time.Now()
          answer    \* the last answer, and the query it answers

poolVars == <<known, withheld, now, answer>>

Quiet == [to |-> Nil, auth |-> Nil]

PoolInit ==
    /\ known = [a \in Auths |-> Nil]
    /\ withheld = [a \in Auths |-> {}]
    /\ now = 1
    /\ answer = Quiet

-----------------------------------------------------------------------------
(* The credentials a query may be answered with. *)

\* Of a provider asked for, with the model, not pinned away, not yet tried.
Eligible(q) ==
    {a \in Auths : /\ known[a] # Nil
                   /\ \E i \in DOMAIN q.providers : q.providers[i] = known[a].provider
                   /\ q.model \in known[a].models
                   /\ q.pinned \in {Nil, a}
                   /\ a \notin q.tried}

Free(q) ==
    {a \in Eligible(q) : /\ Callable(known[a].avail, q.model, now)
                         /\ q.model \notin withheld[a]}

\* A client on a websocket is given a codex credential with websockets, if one
\* is free.
PrefersWebsocket(q) == q.ws /\ q.providers = <<Codex>> /\ q.pinned = Nil

Preferred(q) ==
    LET free == Free(q)
        ws   == {a \in free : known[a].ws}
    IN  IF PrefersWebsocket(q) /\ ws # {} THEN ws ELSE free

Best(q) ==
    LET preferred == Preferred(q) IN
    {a \in preferred : \A b \in preferred : known[b].priority <= known[a].priority}

-----------------------------------------------------------------------------

\* A quota's recovery time is ahead, of the credential or of its model.
QuotaAhead(avail, m, t) ==
    LET ahead(w) == w.unavailable /\ w.recoverAt > t
    IN  ahead(avail) \/ (m \in DOMAIN avail.states /\ ahead(avail.states[m]))

ModelsOf(a) == IF known[a] = Nil THEN {} ELSE known[a].models

\* Withholding begins while the credential is held.  It outlasts the hold only
\* for the recovery time of a quota, and only if nothing is told of it.
MayWithhold(a, m, told) ==
    /\ m \in ModelsOf(a)'
    /\ \/ ~Callable(known'[a].avail, m, now')
       \/ a \notin told /\ m \in withheld[a] /\ QuotaAhead(known'[a].avail, m, now')

Withholding(told) ==
    /\ withheld' \in [Auths -> SUBSET UNION {ModelsOf(a)' : a \in Auths}]
    /\ \A a \in Auths : \A m \in withheld'[a] : MayWithhold(a, m, told)

\* A credential is registered, updated or had a result; a disabled one is gone.
Told(snap) == IF snap = Nil \/ snap.avail.disabled THEN Nil ELSE snap

Tell(a, snap) ==
    /\ answer' = Quiet
    /\ known' = [known EXCEPT ![a] = Told(snap)]
    /\ UNCHANGED now
    /\ Withholding({a})

TellAll(snap) ==
    /\ answer' = Quiet
    /\ known' = [a \in Auths |-> Told(snap[a])]
    /\ UNCHANGED now
    /\ Withholding(Auths)

Offer(q) ==
    /\ \E a \in Auths : /\ answer' = [to |-> q, auth |-> a]
                        /\ a \in Best(q)
    /\ UNCHANGED <<known, now>>
    /\ Withholding({})

Refuse(q) ==
    /\ answer' = [to |-> q, auth |-> Nil]
    /\ Best(q) = {}
    /\ UNCHANGED <<known, now>>
    /\ Withholding({})

Tick ==
    /\ answer' = Quiet
    /\ now < MaxNow
    /\ now' = now + 1
    /\ UNCHANGED known
    /\ Withholding({})

PoolNext ==
    \/ \E q \in Queries : Offer(q) \/ Refuse(q)
    \/ Tick
    \/ \E a \in Auths : \E snap \in Snapshots[a] : Tell(a, snap)
    \/ \E snap \in Loads : TellAll(snap)

PoolSpec == PoolInit /\ [][PoolNext]_poolVars
=============================================================================
