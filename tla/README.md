# Formal models of the request routing of the proxy

The repository is a proxy in front of LLM providers. Clients speak one of several
API dialects; the proxy picks one of many credentials (OAuth logins, API keys),
translates the request, sends it upstream and goes on to the next credential, or
waits and tries again, when the upstream refuses. What can go wrong in ways a unit
test hardly reaches is what goroutines do to one another: they share credentials,
cooldowns, indexes, connections and channels, hand copies of records to one another,
and leave streams in the middle. That is what is modelled here.

## 1. Inventory

| Component | State it keeps | Operations | Talks to | Hard behaviour | What makes it correct |
|---|---|---|---|---|---|
| Upstream concurrency gates (`upstream_concurrency.go`) | limiter by provider, permits out | acquire (read limit, look gate up, wait), release, reload | called by request execution | reload between the three steps, gate replaced while in use | no permit lost or returned twice, no limiter over its limit |
| Request execution (`conductor.go`) | per request: credentials tried, last error, round, permit | pick, acquire, call, stream, retry, credits fallback | scheduler, gates, executors | release by hand on every path, stream goroutines, client that leaves | a permit spans exactly the call, one result per call, every request answered |
| Credential scheduler (`scheduler.go`) | credentials by provider, shards by model with ready buckets, cursors, queue of blocked | upsert, remove, rebuild, pick, promote | conductor | incremental indexes, positional cursors, lazily noticed time | indexes agree, offers are of the best that may be called, turns are even |
| Credential availability (`selector.go`, `conductor.go`) | holds, quota and backoff by model and credential | result, reset, aggregate, verdict | scheduler, conductor | two levels of hold, quota times beside retry times | a result settles the credential |
| Credential manager (`conductor.go`) | records of credentials | Update, MarkResult, pickNext, Reconcile, refresh | scheduler, registry, stores | locks given up between record, scheduler and registry; whole copies written back late | the scheduler goes by the record |
| Service (`service.go`) | credentials as last seen in files | apply add, update, removal; refresh of models | manager, registry, watcher, relay | read-modify-write, two goroutines that register | registrations settle |
| Management API (`auth_files.go`) | none | edit, disable, delete, upload | manager, files | read-modify-write | as for the manager |
| Auto refresh loop (`auto_refresh_loop.go`) | heap of due times, dirty marks, job channel | rebuild, mark, pop, refresh | manager | blocked job channel, pending mark that runs out | nothing is forgotten, one refresh at a time |
| Model registry (`model_registry.go`) | reference counts, quota and suspension marks, cached lists | register, unregister, mark, list | manager, service, handlers | counts against lists, stale cache | counts equal what is registered, a list is the list of now |
| Legacy selectors, session affinity (`selector.go`, `session_cache.go`) | cursors, session bindings with expiry | pick, bind, expire | manager | check and delete under two locks, ids that change | a live binding is kept, the others are spread evenly |
| Websocket relay (`wsrelay`) | sessions, pending requests | connect, replace, request, dispatch, clean up, stop | AI Studio executor, service | send against close, replacement, late ends | whole answers, the served connection is found, every request ends |
| Codex websocket executor (`codex_websockets_executor.go`) | session of a downstream, its upstream connection and active channel | request, dial, send again, read, close | Codex upstream | a reader that outlives its connection, events without a request | own answers only, no connection left open, every request ends |
| Antigravity executor (`antigravity_executor.go`) | cooldowns and credit hints by account | call, wait, retry over URLs, refresh | upstream, usage manager | nested loops, shared maps read and written apart | one usage record, cooldowns kept, an end after the client left |
| API handlers' streaming (`sdk/api/handlers`) | three goroutines and two channels of one stream | produce, restart, redact, convert, forward | manager, client | two channels that end a stream, who stops first | the client is told how the stream ended, nobody stays behind |
| OAuth logins (`oauth_sessions.go`, `auth_files.go`) | sessions, forwarders by port, callback files | begin, poll, callback, exchange, cancel | browser, providers | replaced forwarders, sessions that run out | "ok" means saved, a forwarder can be stopped |
| Usage manager, usage queue | queue, stop flag; retained items, subscribers | publish, run, stop; push, pop, subscribe, switch | executors, plugins | separate critical sections, slow subscribers | everything kept leaves once and in order, nothing published is lost |
| Watcher (`internal/watcher`) | hashes, credentials, pending updates | events, reloads, dispatch, coalesce | files, service | snapshots read without the mutex, echoes of removals | the service comes to have what the files have |
| Signature cache, access control, configuration | maps under one mutex, atomic pointers | get, put, replace | handlers, executors | little | |
| Other executors, translators, thinking, stores, conversation log, HTTP server, logging, panel, UI | none of their own to interleave, or external I/O | | | | |

`PROJECT.json` lists every one with its status, and under `hazards` the places where
this code is hard to test, with the properties that watch them.

## 2. Modules

    UpstreamConcurrency <-- EXTENDS -- RequestExecution -- INSTANCE --> CallSlots  (implements it)
    AuthAvailability <-- EXTENDS -- AuthPool <-- INSTANCE -- AuthScheduler  (implements it)
                                       ^-------- EXTENDS --- AuthConductor
    ModelRegistry <-- EXTENDS -- ServiceRegistration
    AutoRefresh  Watcher  WsRelay  StreamHandling  UsagePipeline  AntigravityCalls
    SessionAffinity  CodexWebsockets  LoginSessions          (each by itself)

| Module | Code | State and actions |
|---|---|---|
| `UpstreamConcurrency` | `upstream_concurrency.go`, `SetConfig` | `cfg` is the configuration's limits, `gate` is `Manager.upstreamLimiters`, `limit` and `sem` a limiter's fields; `ReadLimit`, `LimiterFor`, `Admit`/`GiveUp`, `Release` are the steps of `acquireUpstreamConcurrency` another goroutine may come between. |
| `RequestExecution` | Execute, ExecuteCount, ExecuteStream and the credits fallback | `req[r]` is what the goroutine of a request keeps in local variables. One action per way a step of a round may end. Actions that take or return permits contain the gate's action. |
| `CallSlots` | what `acquireUpstreamConcurrency` and `Release` promise of the calls in between | the abstract specification: `call[r]`, whom a request calls and whose slot it has; a call begins with a slot or without a limit and keeps it to its end. It knows no gates, permits, rounds or models; `RequestExecution` maps `call` to the requests between a call's start and its last chunk. |
| `AuthAvailability` | `isAuthBlockedForModel`, `MarkResult` (locked part), `updateAggregatedAvailability`, `nextQuotaCooldown` | operators on records of a credential; no state. |
| `AuthPool` | what the picks of `scheduler.go` promise | the abstract specification: `known`, the snapshot last told of each credential, and `withheld`, those passed over until a noted time; an offer is one of the best that may be called and are not withheld, a refusal means there is none. `Withholding` says how far that may go. |
| `AuthScheduler` | `scheduler.go` | `home`, `metas`, `shards`, `mixed` are `authProviders`, `providers[].auths`, `providers[].modelShards`, `mixedCursors`. Every operation holds the scheduler's mutex, so each is one step. |
| `AuthConductor` | `Manager` in `conductor.go`, `applyCoreAuthAddOrUpdate`, `PatchAuthFileStatus` | `auths` is `Manager.auths`; `job[w]` is what a goroutine does, split where it gives up a mutex: record, tell the scheduler, tell the registry. |
| `ModelRegistry` | `model_registry.go` | `regs`, `list`, `owner`, `cached` are the registry's maps; each exported method one step under its mutex. |
| `ServiceRegistration` | `service.go`: the applier of updates, the refresh after a new catalog | `applier` and `refresher` are the two goroutines, step by step between the mutexes of manager and registry. |
| `AutoRefresh` | `auto_refresh_loop.go`, `refreshAuth` | `loop` is where the loop's goroutine is, `index` its heap, `jobs` the channel; workers and editors beside it. |
| `Watcher` | `internal/watcher`, the service's queue | `follower`, `reloader`, `session` are goroutines; `order`, `pending`, `batch`, `queue` an update's way to the service. |
| `WsRelay` | `internal/wsrelay`, the callbacks of `service.go` | `session[s]` has the handler, reader and clean-up of a connection, `req[q]` a request with its channel. |
| `StreamHandling` | `handlers.go`, `stream_forwarder.go`, the handlers of each API | `producer`, `converter`, `handler` with `dataChan` and `errChan` (`reported`). |
| `UsagePipeline` | `usage/manager.go`, `redisqueue` | `pending` and `worker` of the manager, `items`/`head`, `state`/`chan` of the queue. `log` has every record that comes to `publishToSubscribers`, whether or not anybody is there, and `joined` where a subscription began in it. |
| `SessionAffinity` | `selector.go`, `session_cache.go` | `entries` the cache, `cursors` of the round robin, `pick[p]` a pick between its look-ups. |
| `CodexWebsockets` | `codex_websockets_executor.go` | `sessions`, `conns`, `requests` with the reader of each connection and the closers. |
| `AntigravityCalls` | `antigravity_executor.go`, `usage_helpers.go` | `call[c]` is the goroutine of a call; `cooldown`, `hint`, `asked` the package's maps. |
| `LoginSessions` | `oauth_sessions.go`, `auth_files.go` | `session`, `flow`, `port`, `forwarder`, `file`, `callback`. |

`MC...` modules give the constants values for TLC. Several put two modules that share
nothing into one run: the variable `instance`, chosen at the start and never changed,
says which part of which module a behaviour is about, and leaves the rest as it began.
Definitions named `Mutant...` are plausible bugs, one for each property and right
before the definition they stand in for; no specification uses them, and with the one
in place TLC finds the property violated. `...Proofs` modules hold the theorems.

### Abstractions

- A limiter identity that nothing refers to may be used again: the garbage collector
  keeps the model finite, with no counter.
- Error classes stand for HTTP statuses and messages. Which credential is offered, how
  a call ends and whether a cooldown is near enough to wait for are free choices in
  `RequestExecution`.
- Time is a small natural number. Durations are constants, assumed positive where the
  code has them positive; the instances keep their order and role, not their length.
- In `AuthConductor` counters, times of the next refresh, secrets and registration of
  new credentials while others run are left out. Removal by the service is an
  `Update` that disables. When the scheduler was given the manager's own record, a
  promotion reads it as it is at that time; in the model it goes by what was last told.
  `aliased` says of which credentials this holds.
- The scheduler judges a held credential again at the time noted when it was last told of
  it. That is later than the end of the hold if the model was over quota and then failed
  otherwise, or if an aggregate is over two models: until then the code passes over a
  credential that may be called. `AuthPool` has this as `withheld`: it begins while the
  credential is held, outlasts the hold only up to the recovery time of a quota that is
  still ahead, and ends when the scheduler is told of the credential. (In the code a
  refused pick rebuilds the scheduler, too, and finds it: `TellAll`.)
- A file holds one credential; chunks, messages and events are numbers; who they are
  for is kept, what they say is not. Values that are only written to are left out.
- A message on its way over a connection is lost when this side closes it.
- History variables (marked so where they are declared) record what a property speaks
  of and guard nothing.
- Panics other than a send on a closed channel, which ends the behaviour, are not
  modelled.

## 3. Runs

| Run | Shows | Bounds |
|---|---|---|
| `exec_reload` | `PermitSpansCall`, `ResultRecordedOnce`, `PermitAccounting`, and the calls keep what `CallSlots` promises (`SlotSpec`) | 2 requests, 1 credential, pool of 2 models, 1 retry, credits fallback, limits 0 to 2, 3 limiters |
| `exec_stable` | `InFlightWithinLimit` without reloads, `Answered` | 2 requests, 2 credentials of which a round may try 1, 1 retry, limit 1 |
| `credentials` | scheduler: `IndexesAgree`, `EvenTurns`, refinement of `AuthPool` (`PoolSpec`); logins: `OkIsExplained`, `ForwarderOwnsPort` | 3 credentials, 2 providers, 8 snapshots (one over quota to 3 that then fails to 2, one refused to 3 whose refresh then fails to 2), 5 queries, time to 3; 2 logins with a browser and a callback, or 2 callbacks and no forwarder, or a device |
| `conductor` | `StaleOnlyByRace`, `ResultsSettle` | 2 goroutines with one model and two outcomes, or one at a time with two models and seven |
| `registry` | `CountsAgree`, `FreshList`, `StaleOnlyIfOutrun` | 2 clients, 2 models (marks on one), 2 providers, 5 lists, a reader, time to 3; or the service with 2 kinds of credential and 2 catalogs |
| `affinity` | `SessionStays`, `EvenFallback` | 3 credentials flat, grouped by parent or with a better one; 2 overlapping picks of a conversation and its continuation, or 7 picks in a row |
| `upkeep` | refresh loop: `NothingForgotten`, `OverlapExplained`, `DueIsRefreshed`; watcher: `StaleOnlyByReload`, `Delivered` | 2 credentials, or 2 workers, or an editor, time to 2; a file with 2 edits and a partial write under 2 reloads, or a websocket session beside a reload |
| `streams` | relay: `WholeUnlessDropped`, `ServedIsFound`, `CredentialFollowsConnection`, `NobodyWaitsForever`; streams: `AnswerTellsTheEnd`, `NothingStaysBehind` | 3 connections of one name, or a request of either kind over one; a stream of 3 chunks and every dialect, 1 retry of the bootstrap |
| `codex` | `OwnAnswer`, `EndsByOwnConnection`, `NoOrphan`, `EveryRequestEnds` | 2 requests, 2 connections, 2 sessions, responses of 2 events, a channel with room for 1 |
| `records` | usage: `PoppedOnceInOrder`, `SubscriptionHasNoGap`, `PublishedIsHandled`; Antigravity: `UsageToldOnce`, `SpentIsKnown`, `CooldownLostOnlyByRace`, `LeftCallsEnd` | 3 records, pops of up to 2, one subscriber while time passes, or two with room for 1 at one time; 2 calls that share a cooldown, or one beside readings of the credits or with a client that leaves, 2 URLs, 2 attempts |
| `codex_retry`, `stream_early` | violations, section 5 | as `codex`, as `streams` |

Why the bounds are enough: a permit is confused with another only if two requests
meet at two limiters; a race of the conductor, the registrations, the relay or the
cooldowns needs two goroutines, one of which is between two critical sections; a
channel is full and has room again at capacity one; an order is lost or kept with two
items and a third that comes later. The scheduler's snapshots make a credential change
provider, parent, priority and websockets, have holds on two levels that end before and after the time noted, and make
grouped and flat rotation occur at one provider and across two. Where a theorem of
section 4 states the property, it holds for all values of the constants.

In `conductor` nothing is withheld: no outcome that two goroutines report there makes a hold end
before a quota's recovery time, and the properties do not speak of what is offered.
`OneModelMarked` (registry) and `Sides` (affinity) are state constraints: marks on the
second model would repeat those on the first, and picks overlap, or there are many,
not both. The registry by itself promises nothing about which lists its clients are
registered with, so in that instance every client counts as `outrun`. Symmetry is
declared in `exec_reload`, `conductor` and `registry` only, which have no liveness
property. Deadlock is checked where the system never stops (`exec_reload`, `conductor`,
`registry`); the other instances come to an end when all requests, records or edits are
dealt with.

### Fairness

- Requests (`StableSpec`): weak fairness of `Serve(r)`: the goroutine of a request runs
  on, calls end, timers fire; without reloads.
- Refresh loop (`RefreshFairness`): weak fairness of the loop, the workers, the
  editors and the clock, strong fairness of `TimerFires`, since the select of the loop
  may take a wake-up instead each time.
- Watcher: weak fairness of every goroutine; changes to files come to an end by bound.
- Relay: weak fairness of `RelayStep`, one condition over all its steps: some goroutine
  runs on, or something sent is read, while any can; not of the answering side. Streams: of the producer, the converter and the handler, and
  that a call returns; nothing is assumed of the stream's chunks. Codex: of
  requests and readers, the reader's idle deadline included.
- Antigravity: weak fairness of the calls' own steps. Usage: of the dispatcher.
- The other specifications state safety only.

## 4. Proofs

TLAPS proves the theorems below for every value of the constants that satisfies the
modules' assumptions. An invariant a run checks is seldom inductive; each proof
strengthens it, shows that every action preserves the stronger one, with a step per
action, and ends in a temporal step. TLC checked the strengthenings it can evaluate first.

**Gates** (`RequestExecutionProofs`). `TypeOK`, `PermitAccounting`, `WithinOwnLimit` and
`NoReleaseWithoutAcquire` of `GateSpec` (`GateTypeOK`, `GateAccounting`, ...) from
`IndInv == TypeOK /\ PhaseOK /\ PermitAccounting /\ SemsFit`. `PermitAccounting` alone is not
inductive: a fresh limiter starts with an empty channel, which is right only if nobody
holds a permit of it, and a release takes from a channel that must not be empty.
`PhaseOK` says which provider, limit and limiter a request in each phase has. Two of
these properties are in no run; they come with the invariant.

**Request execution** (`RequestExecutionProofs`). `ExecutionImplementsSlots` (`SlotSpec`): the calls
are those of `CallSlots`, which has no gates or permits, so nothing of this follows from how the actions
are put together. That a call begins with a slot to have needs, of every state before it, that
who has a permit of a limiter waits or calls at the limiter's own provider (`GateOwn`, `AskedOnto`),
that the channel of a limiter has exactly one permit of each call on it (`SlotInv`, from
`PermitSpansCall` and the accounting), and that only a configuration with the
fallback comes to its calls (`Credited`). That a limiter changes its size only when unused is the garbage collector's
`Unreferenced`. The accounting of the gates carries over (`ExecutionAccounting`).
`ExecutionPermitSpansCall` and `ExecutionResultRecordedOnce` come from `ExecInv`, which
adds that an error chunk is remembered only inside its stream and that a request
that waits has a round left. `StableInFlight`: without reloads and without the credits fallback, the calls in
flight at a provider inject into the channel of its one gate.

**Conductor** (`AuthConductorProofs`). `ToldWhatIsOnRecord` (`StaleOnlyByRace`): what is about to
be told by a goroutine that was alone is the record; `ResultsAreSettled`
(`ResultsSettle`, an action property) from the types of states and the aggregate's definition.

**Scheduler** (`SchedulerProofs`). `IndexesAlwaysAgree` (`IndexesAgree`) from `SchedInv`: a
credential is known at its home only (`HomesAgree`), every entry of a shard is the
verdict on what is known of the credential, of now or of earlier (`EntriesOK`), and
buckets and queue are what `rebuildIndexesLocked` makes of the entries, up to cursors
(`ReadyOK`). `IndexesAgree` alone is not inductive: an upsert that changes nothing a
bucket depends on leaves the buckets as they are, which is right only if the entry was
a verdict on the old record and the virtual parents' rotations are those of the bucket.
Two verdicts of different times may differ, and then the credential is queued: so once a
shard was asked and none of its queue is due, those ready are those that may be called
(`NoneIsDue`, `ShardReady`). `SchedulerImplementsPool` (`PoolSpec`) follows from this and from
lemmas on the choice itself (`RoundRobinServes`, `PickAtBestOK`, `PickFromShardsOK`): rotation
by position, by parent and over the slots of several providers finds a credential of the
highest priority if there is one. That a credential in the queue is held, or withheld by
`Withholding`, follows from the verdict in its entry: the time noted is the end of a hold or the recovery time
of a quota, and an entry made before the last snapshot was told does not survive the telling.
Nothing is assumed of the snapshots but that their times are natural numbers.

`EvenTurnsAlways` (`EvenTurns`) rests on the same invariant. The first turn
settles the shard: every later one finds the entries, and so the buckets, it left
(`Settled`, `ShardSettles`). After that a turn at one provider is the next of its view, by
position or by parent (`TurnIsNext`, `PickInTurns`): a cursor that goes on by one is at
the place of its start plus the number of turns, modulo the length (`Rotates`), and so at every
place once in a round (`EachPlace`). Among several providers the mixed cursor goes through the slots, a provider has as
many in a row as credentials of the highest priority (`SlotIsOf`, `WeightsAreShares`), and a round
comes to it that often (`VisitCounts`, `ComesFor`): that many turns of its own view, wherever that view was left
(`Walks`, `EachPlaceOfEach`). The weights do not change on the way, since the highest priority and who
is ready there do not (`Peak`, `SummitIsPicked`). A query that pins one credential has a
round of one. That the recursive function of the property has a solution is a lemma (`TurnsExist`). The places of a round are
as many as the credentials only because no list has one twice: IDs and parents are
keys of maps, and `normalizeProviderKeys` (`scheduler.go:480`) drops providers named twice; the
assumptions on `IdOrder`, `ParentOrder` and `Queries` say so.

**Registry and service** (`RegistryProofs`). `RegistryCounts`/`ServiceCounts` (`CountsAgree`):
the counts are sums over clients, so the proof goes by induction over finite sets of
clients, from a least counterexample. `RegistryLists`/`ServiceLists` (`FreshList`): a cached list is what the
registry would answer at any time from its making to its end. `RegistrationsSettle`:
each goroutine's snapshot of a record is the record's, or somebody will look again.

**Refresh loop** (`UpkeepProofs`). `RefreshRemembers` (`NothingForgotten`) from the types,
`LoopListens` (a loop that sleeps has a wake-up and a timer for what waits) and `AllRemembered` at every
step of the loop; `RefreshOverlaps` (`OverlapExplained`) from `TokensOK`: a credential has one token, in
the channel, with the loop or with a worker, for as long as its mark lasts.

**Watcher** (`UpkeepProofs`). `WatcherKeepsUp` (`StaleOnlyByReload`) from `BusOK` (what is on the
bus for a credential, last of all, is what was handed over last) and `ReloadsOK` (of a file
nobody disturbed, the hash is its content or the follower comes to it, and what was
told is the hash or what the one reload under way will tell).

**Relay** (`WsRelayProofs`). `RelayWhole`, `RelayServed` and `RelayCredentials` from one invariant on
the ownership of a name and on a request's channel: what was got, what is in the channel and what the reader
holds make up what was sent.

**Streams** (`StreamHandlingProofs`). `StreamAnswer` (`AnswerTellsTheEnd`): written, held by the
converter, on its way and held back by the redactor make up what came, in order.

**Records** (`RequestExecutionProofs`, `AccountProofs`). `SubscriptionsWhole`, `PoppedInOrder` from
an invariant on the numbers of records in every stage: a subscription is a stretch of `log` that
begins at `joined`, and reaches its end for as long as the subscriber is there, since one without
room is closed in the same step in which it misses a record; `CallsToldOnce`, `CreditsKnown`,
`CooldownsKept` of the Antigravity executor.

**Codex** (`StreamHandlingProofs`). `NoneOrphaned` (`NoOrphan`) and `OwnConnectionEnds`
(`EndsByOwnConnection`) from `CodexInv`. Neither is inductive: that a dial leaves no
connection behind needs that who holds the mutex of a session is alone to replace its
connection (`MutexOK`) and that an open connection is in use at its own session
(`ConnOK`, `OpenOK`); that a channel is closed by the reader of its own request's
connection needs what a request that becomes active finds running (`ActiveOK`) and whom
a reader is about to tell (`TellingOK`, `ShutOK`). Records are numbered as they come, so
a new one was never used (`InTurn`, with a least counterexample).

`OwnAnswers` (`OwnAnswer`) adds `AnswerInv`, which follows an event from the request that
asked for it to the one that is given it. What is on the way of a connection was asked
for by a request that was sent over it (`ComeOK`), once, and nothing comes after the end
(`WireOK`). As long as the connection is read, what is left of a response whose request is over was left
by one that was let go (`LeftOK`), and whoever uses the connection after that comes later (`NextOK`,
by the order in which the downstream lets requests in, `SeqOK`). What a reader holds
(`HeldOK`) or has put into a channel (`HeardOK`) fits its receiver, or the
receiver has that excuse; a second attempt on a new connection skips what the old one left.
The last event of a response leaves nothing of it behind (`Known`), so a request that ended well
needs no excuse.

**Logins** (`AccountProofs`). `LoginsExplained`, `ForwarderOwned` from an invariant that
follows the forwarder through the steps of those that stop it.

**Session affinity** (`AccountProofs`). `SessionsStay` (`SessionStays`): the cache holds who
served a session last for at least as long as it has to be found, and a pick between its
look-ups has seen it or something that was bound since. `TurnsAreEven` (`EvenFallback`): since the
counts began, the turns of a list of n are those at n places going round from some place
s to the cursor, so everybody had as many, but who is between s and the cursor one more
(`Evenly`); a pick whose place is s closes the round. That is so of the list, of the
groups by the sum of their turns, and of each group by its own cursor, if the keys of
the cursors differ, which `AffinityAssumption` says.

Assumed: clients, files, channels and requests are finitely many where the code has
them in maps; durations and capacities are positive; `Patience < SessionTTL` (five minutes
and ten); the types of what configuration and catalogs hold. All are named `ASSUME`s of
the modules, and TLC evaluates them.

Only model-checked: liveness (`Answered`, `DueIsRefreshed`, `Delivered`, `NobodyWaitsForever`,
`NothingStaysBehind`, `EveryRequestEnds`, `PublishedIsHandled`, `LeftCallsEnd`), which is
beyond the prover. Every invariant and every other safety property of the runs is the property of
a theorem.

## 5. What the violations show

1. `codex_retry`: the reader of a connection that a second attempt has left finds the
   request's channel active, tells it of its own failure and closes it.
2. `stream_early`: a stream that fails before its first chunk leaves an error and a closed
   channel; the handler that waits for the first chunk may take the closed channel and
   answer 200 with an empty stream.

Other surprising behaviour is in the models and excused by name in the properties: a
message for a request whose channel has closed ends the process (`crashed`); a message for
a full channel is dropped (`dropped`); a chunk held by the converter or content held by
the redactor is lost to an error that overtakes it; a request keeps the mutex of its
session after a refused handshake (`Excused`); a cooldown is deleted by a call that saw an earlier one run
out; a reading of credits answered before they were spent is stored over the
newer one (`outdated`); a login is told "ok" after its session has run out or another's was saved (`OkIsExplained`); a
callback file is read half-written or stays behind; an announcement of a
connection beside the end of another of the same name leaves the name without a credential
(`raced`; the names that the service gives are random, so it does not come to that); a
file written, deleted and written again around a reload or an echo is served stale (`disturbed`);
a scheduler told of a credential twice at a time keeps the older (`raced`).

## 6. Not modelled

- An executor that panics leaks its permit; an upstream stream that never ends keeps it.
  The models have calls that end.
- The registry is told of a result last, after the scheduler; the marks are not compared with the records.
- `AuthConductor` says when the scheduler shares a record with the manager (`aliased`), but a read in the middle of
  a write of it is not modelled.
- Antigravity: a branch for exhausted resources that nothing reaches, and a map that is only written.
- Translators, thinking configuration, token stores, the conversation log, the HTTP
  server, access control, logging and the user interfaces: pure conversions, external
  input and output, or one atomic pointer. The executors but those of Antigravity and Codex keep no state
  between calls: one request, one response, which `RequestExecution` has.
