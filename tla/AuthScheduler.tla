--------------------------- MODULE AuthScheduler ---------------------------
(***************************************************************************)
(* authScheduler: for every provider the credentials it was told of, and   *)
(* for every model asked for so far a shard with the state of each         *)
(* credential when it was last evaluated, the ready ones in rotation order *)
(* by priority with their cursors, and the blocked ones to be evaluated    *)
(* again when their time has come.  Every operation runs under the         *)
(* scheduler's mutex and is one step.  A provider without credentials and  *)
(* one that was never heard of look alike: no credentials, no shards.      *)
(***************************************************************************)
EXTENDS AuthAvailability, SequencesExt

CONSTANTS Auths, Providers, Nil, Codex, Snapshots, Loads, Queries, MaxNow,
          IdOrder,      \* the credentials, sorted by ID
          ParentOrder   \* the parents of virtual credentials, sorted

ASSUME NilIsNothing == Nil \notin Auths \cup Providers \cup Nat
\* IDs and parents are keys of maps: neither order has one twice.
ASSUME OrdersAreTotal ==
    /\ IdOrder \in Seq(Auths) /\ ToSet(IdOrder) = Auths /\ IsInjective(IdOrder)
    /\ ParentOrder \in Seq(ToSet(ParentOrder)) /\ IsInjective(ParentOrder)
    /\ Nil \notin ToSet(ParentOrder)
\* The providers of a query are those left by normalizeProviderKeys: none twice.
ASSUME QueriesAreTyped ==
    \A q \in Queries : /\ q \in [providers : Seq(Providers), model : {q.model}, ws : BOOLEAN,
                                 pinned : Auths \cup {Nil}, tried : SUBSET Auths]
                       /\ q.providers # <<>> /\ IsInjective(q.providers)

\* What a credential is told of with: the fields that the scheduler indexes, and
\* the times its entries are judged by.
HasTimes(w) == w.retryAt \in Nat /\ w.recoverAt \in Nat
IsSnapshot(snap) ==
    /\ snap # Nil /\ snap.provider \in Providers /\ snap.priority \in Int
    /\ snap.parent \in ToSet(ParentOrder) \cup {Nil} /\ snap.ws \in BOOLEAN
    /\ HasTimes(snap.avail)
    /\ \A m \in DOMAIN snap.avail.states : HasTimes(snap.avail.states[m])
ASSUME SnapshotsAreTyped ==
    /\ \A a \in Auths : \A snap \in Snapshots[a] : IsSnapshot(snap)
    /\ \A load \in Loads : \A a \in Auths : load[a] # Nil => IsSnapshot(load[a])

VARIABLES home,      \* authProviders: the provider of each credential
          metas,     \* providers[p].auths
          shards,    \* providers[p].modelShards
          mixed,     \* mixedCursors, by providers and model
          strategy,  \* the selector's strategy
          now, answer

vars == <<home, metas, shards, mixed, strategy, now, answer>>

Strategies == {"roundRobin", "fillFirst"}

\* Those of an order that are in S.
Sorted(order, S) ==
    LET upTo[n \in 0..Len(order)] ==
            IF n = 0 THEN <<>>
            ELSE IF order[n] \in S THEN Append(upTo[n - 1], order[n]) ELSE upTo[n - 1]
    IN  upTo[Len(order)]

InOrder(S) == Sorted(IdOrder, S)

\* A map with v under k.
Assigned(f, k, v) == [x \in DOMAIN f \cup {k} |-> IF x = k THEN v ELSE f[x]]

Quiet == [to |-> Nil, auth |-> Nil]

Init ==
    /\ home = [a \in Auths |-> Nil]
    /\ metas = [p \in Providers |-> <<>>]
    /\ shards = [p \in Providers |-> <<>>]
    /\ mixed = <<>>
    /\ strategy \in Strategies
    /\ now = 1
    /\ answer = Quiet

-----------------------------------------------------------------------------
(* The indexes of a shard. *)

\* buildReadyView: a flat rotation, or one over the parents and one over the
\* children of each if all are virtual and there are two parents.
View(S, known) ==
    LET parents == {known[a].parent : a \in S}
        grouped == Nil \notin parents /\ Cardinality(parents) > 1
        order   == IF grouped THEN Sorted(ParentOrder, parents) ELSE <<>>
    IN  [flat |-> InOrder(S), cursor |-> 0, parents |-> order, parentCursor |-> 0,
         children |-> [p \in ToSet(order) |->
                          [flat |-> InOrder({a \in S : known[a].parent = p}), cursor |-> 0]]]

Wrapped(cursor, n) == IF n = 0 THEN 0 ELSE cursor % n

\* restoreReadyViewCursors: cursors are positions, whoever stands there now.
Restored(view, old) ==
    [view EXCEPT
        !.cursor = Wrapped(old.cursor, Len(view.flat)),
        !.parentCursor = Wrapped(old.parentCursor, Len(view.parents)),
        !.children = [p \in DOMAIN view.children |->
            [view.children[p] EXCEPT !.cursor =
                IF p \in DOMAIN old.children
                THEN Wrapped(old.children[p].cursor, Len(view.children[p].flat)) ELSE 0]]]

ReadyAt(entries, known, n) ==
    {a \in DOMAIN entries : entries[a].state = "ready" /\ known[a].priority = n}

Queued(entries) == {a \in DOMAIN entries : entries[a].state \in {"cooldown", "blocked"}}

\* rebuildIndexesLocked.
Indexed(shard, entries, known) ==
    LET ready == {a \in DOMAIN entries : entries[a].state = "ready"}
        Bucket(n) ==
            LET S   == ReadyAt(entries, known, n)
                all == View(S, known)
                ws  == View({a \in S : known[a].ws}, known)
            IN  IF n \in DOMAIN shard.ready
                THEN [all |-> Restored(all, shard.ready[n].all),
                      ws |-> Restored(ws, shard.ready[n].ws)]
                ELSE [all |-> all, ws |-> ws]
    IN  [entries |-> entries,
         ready   |-> [n \in {known[a].priority : a \in ready} |-> Bucket(n)],
         blocked |-> Queued(entries)]

NoShard == [entries |-> <<>>, ready |-> <<>>, blocked |-> {}]

\* Mutant: a change of priority is not noticed.
MutantWithEntry(shard, a, old, m, known) ==
    LET entry   == Verdict(known[a].avail, m, now)
        entries == [b \in DOMAIN shard.entries \cup {a} |->
                       IF b = a THEN entry ELSE shard.entries[b]]
        same    == /\ a \in DOMAIN shard.entries
                   /\ shard.entries[a] = entry
                   /\ old.parent = known[a].parent
                   /\ old.ws = known[a].ws
    IN  IF same THEN shard ELSE Indexed(shard, entries, known)

\* upsertEntryLocked, for credential a, of which old was known before: the
\* indexes are rebuilt only if something they depend on has changed.
WithEntry(shard, a, old, m, known) ==
    LET entry   == Verdict(known[a].avail, m, now)
        entries == [b \in DOMAIN shard.entries \cup {a} |->
                       IF b = a THEN entry ELSE shard.entries[b]]
        same    == /\ a \in DOMAIN shard.entries
                   /\ shard.entries[a] = entry
                   /\ old.priority = known[a].priority
                   /\ old.parent = known[a].parent
                   /\ old.ws = known[a].ws
    IN  IF same THEN shard ELSE Indexed(shard, entries, known)

\* removeEntryLocked.
WithoutEntry(shard, a, known) ==
    IF a \notin DOMAIN shard.entries THEN shard
    ELSE Indexed(shard, [b \in DOMAIN shard.entries \ {a} |-> shard.entries[b]], known)

\* Mutant: a credential whose time has come is ready, whatever else blocks it.
MutantPromoted(shard, m, known) ==
    LET due == {a \in shard.blocked : shard.entries[a].next # 0 /\ shard.entries[a].next <= now}
    IN  IF due = {} THEN shard
        ELSE Indexed(shard, [a \in DOMAIN shard.entries |->
                 IF a \in due THEN [state |-> "ready", next |-> 0] ELSE shard.entries[a]], known)

\* promoteExpiredLocked: blocked credentials whose time has come are evaluated
\* again.
Promoted(shard, m, known) ==
    LET due == {a \in shard.blocked : shard.entries[a].next # 0 /\ shard.entries[a].next <= now}
    IN  IF due = {} THEN shard
        ELSE Indexed(shard, [a \in DOMAIN shard.entries |->
                 IF a \in due THEN Verdict(known[a].avail, m, now) ELSE shard.entries[a]], known)

\* ensureModelLocked: the shard, built when it is first asked for.
Shard(built, p, m) ==
    LET known     == metas[p]
        supported == {a \in DOMAIN known : m \in known[a].models}
    IN  IF m \in DOMAIN built[p] THEN Promoted(built[p][m], m, known)
        ELSE Indexed(NoShard, [a \in supported |-> Verdict(known[a].avail, m, now)], known)

-----------------------------------------------------------------------------
(* The choice within a shard.  C is the predicate: the credentials that the  *)
(* query allows.                                                             *)

\* Position, from 0, of the first of C at or after start, going round.
FirstFrom(order, start, C) ==
    LET n == Len(order) IN
    (start + Min({k \in 0..(n - 1) : order[((start + k) % n) + 1] \in C})) % n

Serves(view, C) == ToSet(view.flat) \cap C # {}

\* Mutant: the cursor stays where the search began.
MutantRoundRobin(view, C) ==
    LET i == FirstFrom(view.flat, view.cursor, C) IN
    [auth |-> view.flat[i + 1], view |-> view]

\* pickRoundRobin and pickGroupedRoundRobin.
RoundRobin(view, C) ==
    IF view.parents = <<>>
    THEN LET i == FirstFrom(view.flat, view.cursor, C) IN
         [auth |-> view.flat[i + 1], view |-> [view EXCEPT !.cursor = i + 1]]
    ELSE LET i == FirstFrom(view.parents, view.parentCursor,
                            {p \in DOMAIN view.children : Serves(view.children[p], C)})
             p == view.parents[i + 1]
             j == FirstFrom(view.children[p].flat, view.children[p].cursor, C)
         IN  [auth |-> view.children[p].flat[j + 1],
              view |-> [view EXCEPT !.parentCursor = i + 1, !.children[p].cursor = j + 1]]

\* pickFirst.
First(view, C) ==
    [auth |-> view.flat[FirstFrom(view.flat, 0, C) + 1], view |-> view]

\* pickReadyAtPriorityLocked, for a bucket that serves C.
PickAt(shard, n, prefer, strat, C) ==
    LET side == IF prefer /\ Serves(shard.ready[n].ws, C) THEN "ws" ELSE "all"
        pick == IF strat = "fillFirst" THEN First(shard.ready[n][side], C)
                                       ELSE RoundRobin(shard.ready[n][side], C)
    IN  [auth |-> pick.auth, shard |-> [shard EXCEPT !.ready[n][side] = pick.view]]

Priorities(shard, side, C) == {n \in DOMAIN shard.ready : Serves(shard.ready[n][side], C)}

\* highestReadyPriorityLocked: websockets prevail over priority.
HighestReady(shard, prefer, C) ==
    IF prefer /\ Priorities(shard, "ws", C) # {}
    THEN Max(Priorities(shard, "ws", C)) ELSE Max(Priorities(shard, "all", C))

Allowed(q) == {a \in Auths : q.pinned \in {Nil, a}} \ q.tried

PrefersWebsocket(q) == q.ws /\ q.providers = <<Codex>> /\ q.pinned = Nil

\* pickReadyLocked.
PickReady(shard, q, C) ==
    IF Priorities(shard, "all", C) = {} THEN [auth |-> Nil, shard |-> shard]
    ELSE PickAt(shard, HighestReady(shard, PrefersWebsocket(q), C),
                PrefersWebsocket(q), strategy, C)

Placed(pick, st, p, m) ==
    [auth |-> pick.auth, shards |-> [st.shards EXCEPT ![p] = Assigned(@, m, pick.shard)],
     mixed |-> st.mixed]

\* In the shard of provider p.
PickIn(st, p, q) ==
    Placed(PickReady(Shard(st.shards, p, q.model), q, Allowed(q)), st, p, q.model)

\* The slots before those of each provider, and all of them.
SlotsBefore(weight) ==
    LET before[i \in 0..Cardinality(DOMAIN weight)] ==
            IF i = 0 THEN 0 ELSE before[i - 1] + weight[i - 1]
    IN  before

\* The provider whose segment a slot lies in.
ProviderAt(weight, slot) ==
    CHOOSE i \in DOMAIN weight :
        SlotsBefore(weight)[i] <= slot /\ slot < SlotsBefore(weight)[i + 1]

\* The first provider from start on, going round, that serves C at the priority.
ProviderFrom(shard, best, start, C) ==
    LET n == Cardinality(DOMAIN shard)
        at(i) == best \in DOMAIN shard[i].ready /\ Serves(shard[i].ready[best].all, C)
    IN  (start + Min({k \in 0..(n - 1) : at((start + k) % n)})) % n

\* The credential of provider i, cursor the mixed cursor then.
PlacedAmong(st, q, shard, i, pick, cursor) ==
    [auth   |-> pick.auth,
     shards |-> [p \in Providers |->
                   IF \E k \in DOMAIN shard : q.providers[k + 1] = p
                   THEN LET k == CHOOSE k \in DOMAIN shard : q.providers[k + 1] = p IN
                        Assigned(st.shards[p], q.model, IF k = i THEN pick.shard ELSE shard[k])
                   ELSE st.shards[p]],
     mixed  |-> IF cursor = Nil THEN st.mixed
                ELSE Assigned(st.mixed, <<q.providers, q.model>>, cursor)]

\* Rotation: the search starts at the provider the slot belongs to.
Rotate(st, q, shard, best, weight, slot, C) ==
    LET start == ProviderAt(weight, slot)
        i     == ProviderFrom(shard, best, start, C)
    IN  PlacedAmong(st, q, shard, i, PickAt(shard[i], best, FALSE, strategy, C),
                    (IF i = start THEN slot ELSE SlotsBefore(weight)[i]) + 1)

PickAtBest(st, q, shard, best, weight, C) ==
    LET key    == <<q.providers, q.model>>
        cursor == IF key \in DOMAIN st.mixed THEN st.mixed[key] ELSE 0
        i      == ProviderFrom(shard, best, 0, C)
    IN  IF strategy = "fillFirst"
        THEN PlacedAmong(st, q, shard, i, PickAt(shard[i], best, FALSE, strategy, C), Nil)
        ELSE Rotate(st, q, shard, best, weight,
                    cursor % SlotsBefore(weight)[Len(q.providers)], C)

\* readyCountAtPriorityLocked of each provider.
Weights(shard, best) ==
    [i \in DOMAIN shard |-> IF best \in DOMAIN shard[i].ready
                            THEN Len(shard[i].ready[best].all.flat) ELSE 0]

PickFromShards(st, q, shard, C) ==
    LET serving == {i \in DOMAIN shard : Priorities(shard[i], "all", C) # {}}
        best    == Max({HighestReady(shard[i], FALSE, C) : i \in serving})
    IN  IF serving = {} THEN PlacedAmong(st, q, shard, Nil, Quiet, Nil)
        ELSE PickAtBest(st, q, shard, best, Weights(shard, best), C)

\* pickMixed for two or more providers and no pinned credential: the highest
\* priority ready at any of them; in rotation, as many slots for a provider as
\* it has credentials ready at that priority, the cursor walking the slots.
PickAmong(st, q) ==
    PickFromShards(st, q, [i \in 0..(Len(q.providers) - 1) |->
                              Shard(st.shards, q.providers[i + 1], q.model)], Allowed(q))

\* pickSingle and pickMixed.  A pinned credential is looked up in the shard of
\* its own provider.
Served(st, q) ==
    LET p == home[q.pinned] IN
    CASE Len(q.providers) = 1 -> PickIn(st, q.providers[1], q)
      [] Len(q.providers) > 1 /\ q.pinned = Nil -> PickAmong(st, q)
      [] Len(q.providers) > 1 /\ q.pinned # Nil ->
            IF p \in ToSet(q.providers) THEN PickIn(st, p, q)
            ELSE [auth |-> Nil, shards |-> st.shards, mixed |-> st.mixed]

-----------------------------------------------------------------------------
(* The operations. *)

\* removeAuthLocked, on the providers' maps.
Dropped(known, built, a) ==
    LET rest == [b \in DOMAIN known \ {a} |-> known[b]] IN
    [metas  |-> rest,
     shards |-> [m \in DOMAIN built |-> WithoutEntry(built[m], a, rest)]]

\* providerScheduler.upsertAuthLocked.
Put(known, built, a, snap) ==
    LET all == Assigned(known, a, snap) IN
    [metas  |-> all,
     shards |-> [m \in DOMAIN built |->
                   IF m \in snap.models
                   THEN WithEntry(built[m], a, IF a \in DOMAIN known THEN known[a] ELSE snap,
                                  m, all)
                   ELSE WithoutEntry(built[m], a, all)]]

\* upsertAuth: taken out of the provider it had before and put into its own; a
\* disabled credential is only taken out.
Upsert(a, snap) ==
    LET gone    == snap.avail.disabled
        left    == IF gone THEN {home[a]} ELSE {home[a]} \ {snap.provider}
        drop(p) == Dropped(metas[p], shards[p], a)
        put     == Put(metas[snap.provider], shards[snap.provider], a, snap)
        after(p) == CASE p \in left -> drop(p)
                      [] p \notin left /\ p = snap.provider /\ ~gone -> put
                      [] OTHER -> [metas |-> metas[p], shards |-> shards[p]]
    IN  /\ home' = [home EXCEPT ![a] = IF gone THEN Nil ELSE snap.provider]
        /\ metas' = [p \in Providers |-> after(p).metas]
        /\ shards' = [p \in Providers |-> after(p).shards]
        /\ answer' = Quiet
        /\ UNCHANGED <<mixed, strategy, now>>

\* rebuild: everything is forgotten, shards and cursors included.
Rebuild(snap) ==
    LET Kept(p) == {a \in Auths : /\ snap[a] # Nil /\ snap[a].provider = p
                                  /\ ~snap[a].avail.disabled}
    IN  /\ metas' = [p \in Providers |-> [a \in Kept(p) |-> snap[a]]]
        /\ home' = [a \in Auths |-> IF \E p \in Providers : a \in Kept(p)
                                    THEN snap[a].provider ELSE Nil]
        /\ shards' = [p \in Providers |-> <<>>]
        /\ mixed' = <<>>
        /\ answer' = Quiet
        /\ UNCHANGED <<strategy, now>>

\* setSelector.
SetSelector ==
    /\ strategy' \in Strategies
    /\ mixed' = <<>>
    /\ UNCHANGED <<home, metas, shards, now, answer>>

Pick(q) ==
    LET r == Served([shards |-> shards, mixed |-> mixed], q) IN
    /\ shards' = r.shards
    /\ mixed' = r.mixed
    /\ answer' = [to |-> q, auth |-> r.auth]
    /\ UNCHANGED <<home, metas, strategy, now>>

Tick ==
    /\ now < MaxNow
    /\ now' = now + 1
    /\ answer' = Quiet
    /\ UNCHANGED <<home, metas, shards, mixed, strategy>>

Next ==
    \/ \E a \in Auths : \E snap \in Snapshots[a] : Upsert(a, snap)
    \/ \E snap \in Loads : Rebuild(snap)
    \/ SetSelector
    \/ \E q \in Queries : Pick(q)
    \/ Tick

Spec == Init /\ [][Next]_vars

-----------------------------------------------------------------------------
(* What the scheduler keeps right. *)

Known == [a \in Auths |-> IF home[a] = Nil THEN Nil ELSE metas[home[a]][a]]

\* The maps and indexes tell one story: a credential is known at one provider
\* only, is in exactly the shards of the models it supports there, in the bucket
\* of its priority if ready and in the queue if blocked.  No sequence of
\* upserts that change its provider, priority, models, parent or websockets
\* leaves a copy behind.
IndexesAgree ==
    \A p \in Providers :
        /\ DOMAIN metas[p] = {a \in Auths : home[a] = p}
        /\ \A m \in DOMAIN shards[p] :
              LET s     == shards[p][m]
                  ready == {a \in DOMAIN s.entries : s.entries[a].state = "ready"}
              IN  /\ DOMAIN s.entries = {a \in DOMAIN metas[p] : m \in metas[p][a].models}
                  /\ s.blocked = Queued(s.entries)
                  /\ DOMAIN s.ready = {metas[p][a].priority : a \in ready}
                  /\ \A n \in DOMAIN s.ready :
                        LET S == ReadyAt(s.entries, metas[p], n) IN
                        /\ s.ready[n].all.flat = InOrder(S)
                        /\ s.ready[n].ws.flat = InOrder({a \in S : metas[p][a].ws})
                        /\ s.ready[n].all.parents # <<>> =>
                              s.ready[n].all.children =
                              [g \in {metas[p][a].parent : a \in S} |->
                                 [flat |-> InOrder({a \in S : metas[p][a].parent = g}),
                                  cursor |-> s.ready[n].all.children[g].cursor]]

\* The models whose shard has the credential queued for a time yet to come.
Withheld ==
    [a \in Auths |->
        {m \in (IF home[a] = Nil THEN {} ELSE DOMAIN shards[home[a]]) :
            LET s == shards[home[a]][m] IN a \in s.blocked /\ s.entries[a].next > now}]

Pool == INSTANCE AuthPool WITH known <- Known, withheld <- Withheld

\* What the scheduler adds up to: every offer is of the highest priority among
\* the credentials that may be called now and are not withheld, and a refusal
\* means there are none.  Withheld is a credential seen while it was held; one
\* that may be called again is withheld only for a quota's recovery time noted
\* then (scheduler.go notes that time and judges again when it has come), and
\* never across a step that tells of it.
PoolSpec == Pool!PoolSpec

\* In rotation, as many offers in a row as the pool has credentials to choose from
\* offer each of them once, whatever was offered, told and forgotten before and
\* across providers, too; virtual credentials take turns by parent.
EvenTurns ==
    strategy = "roundRobin" =>
    \A q \in {q \in Queries : q.tried = {}} :
        LET S          == Pool!Best(q)
            parents(p) == {Known[a].parent : a \in {b \in S : home[b] = p}}
            grouped    == {p \in Providers : Nil \notin parents(p) /\ Cardinality(parents(p)) > 1}
            turn[k \in 0..Cardinality(S)] ==
                IF k = 0 THEN [auth |-> Nil, shards |-> shards, mixed |-> mixed]
                ELSE Served(turn[k - 1], q)
        IN  /\ grouped = {} => {turn[k].auth : k \in 1..Cardinality(S)} = S
            /\ \A p \in grouped : q.providers = <<p>> =>
                  {Known[turn[k].auth].parent : k \in 1..Cardinality(parents(p))} = parents(p)
=============================================================================
