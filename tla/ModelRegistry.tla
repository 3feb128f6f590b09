--------------------------- MODULE ModelRegistry ---------------------------
(***************************************************************************)
(* The registry of models: which client serves which models, how often,    *)
(* for which provider, and the marks that a client is over quota or        *)
(* suspended for a model.  Reference counts are kept beside the lists they *)
(* count and changed by differences; lists of available models are cached. *)
(* Every operation holds the registry's mutex, so each is one step; a      *)
(* reader takes the time before that.                                      *)
(***************************************************************************)
EXTENDS Integers, FiniteSets, Functions, FiniteSetsExt

CONSTANTS Clients,
          RegModels,
          RegProviders,
          NoProvider,    \* the empty provider name: not counted
          Lists,         \* the lists a client may register: how often each model is in it
          Window,        \* modelQuotaExceededWindow
          LastTime,      \* bound of the clock
          Readers

ASSUME RegistryAssumption ==
    /\ Window \in Nat \ {0} /\ LastTime \in Nat
    /\ NoProvider \notin RegProviders
    /\ IsFiniteSet(Clients)
    /\ Lists \subseteq [RegModels -> Nat]

VARIABLES regs,     \* models: the registration of each model
          list,     \* clientModels: a list may have a model more than once
          owner,    \* clientProviders
          cached,   \* availableModelsCache of a handler type
          time,
          reading   \* the time a reader goes by; 0: it does not read

registryVars == <<regs, list, owner, cached, time, reading>>

None == [m \in RegModels |-> 0]
NoCache == [models |-> {}, until |-> -1]

\* No registration: what the map has no entry for.  Absent marks: over is 0 (the
\* time of a mark is not), suspended is "no".
Empty == [count |-> 0, providers |-> [p \in RegProviders |-> 0],
          over |-> [c \in Clients |-> 0], suspended |-> [c \in Clients |-> "no"]]

-----------------------------------------------------------------------------
(* The registration of one model, changed for n entries of a list. *)

Plus(providers, p, n) ==
    IF p = NoProvider THEN providers ELSE [providers EXCEPT ![p] = Max({0, @ + n})]

Unmarked(r, c) == [r EXCEPT !.over[c] = 0, !.suspended[c] = "no"]

\* addModelRegistration, n times.
Added(r, p, n) ==
    [r EXCEPT !.count = @ + n, !.providers = Plus(@, p, n)]

\* removeModelRegistration, n times: the client's marks go with the first, the
\* registration with the last.
Removed(r, c, p, n) ==
    IF n = 0 THEN r
    ELSE IF r.count <= n THEN Empty
    ELSE [Unmarked(r, c) EXCEPT !.count = @ - n, !.providers = Plus(@, p, -n)]

\* Mutant: the new provider is not counted for what stays.
MutantReconciled(r, c, oldp, p, old, new) ==
    LET kept  == IF oldp = p THEN 0 ELSE Min({old, new})
        left  == [r EXCEPT !.providers = Plus(@, oldp, -kept)]
        count == IF new > old THEN Added(left, p, new - old)
                              ELSE Removed(left, c, oldp, old - new)
    IN  IF new = 0 THEN count ELSE Unmarked(count, c)

\* RegisterClient of a client that is registered, for one model that was in its
\* list old times and now is new times: provider of what stays, removal,
\* addition, and a fresh start without marks.
Reconciled(r, c, oldp, p, old, new) ==
    LET kept  == IF oldp = p THEN 0 ELSE Min({old, new})
        left  == [r EXCEPT !.providers = Plus(@, oldp, -kept)]
        count == IF new > old THEN Added(left, p, new - old)
                              ELSE Removed(left, c, oldp, old - new)
        fresh == IF new = 0 THEN count ELSE Unmarked(count, c)
    IN  IF kept = 0 THEN fresh ELSE [fresh EXCEPT !.providers = Plus(@, p, kept)]

-----------------------------------------------------------------------------
(* Operations. *)

\* unregisterClientInternal and the bookkeeping.
Forget(c) ==
    /\ regs' = [m \in RegModels |-> Removed(regs[m], c, owner[c], list[c][m])]
    /\ list' = [list EXCEPT ![c] = None]
    /\ owner' = [owner EXCEPT ![c] = NoProvider]
    /\ cached' = NoCache
    /\ UNCHANGED <<time, reading>>

UnregisterClient(c) == Forget(c)

\* An empty list unregisters; the first list only adds.
RegisterClient(c, p, l) ==
    IF l = None THEN Forget(c)
    ELSE /\ regs' = [m \in RegModels |->
                       IF list[c] = None THEN Added(regs[m], p, l[m])
                       ELSE Reconciled(regs[m], c, owner[c], p, list[c][m], l[m])]
         /\ list' = [list EXCEPT ![c] = l]
         /\ owner' = [owner EXCEPT ![c] = p]
         /\ cached' = NoCache
         /\ UNCHANGED <<time, reading>>

\* The marks: nothing asks whether the client is registered for the model.
SetModelQuotaExceeded(c, m) ==
    /\ regs[m] # Empty
    /\ regs' = [regs EXCEPT ![m].over[c] = time]
    /\ cached' = NoCache
    /\ UNCHANGED <<list, owner, time, reading>>

ClearModelQuotaExceeded(c, m) ==
    /\ regs[m] # Empty
    /\ regs' = [regs EXCEPT ![m].over[c] = 0]
    /\ cached' = NoCache
    /\ UNCHANGED <<list, owner, time, reading>>

\* The first reason stays.
SuspendClientModel(c, m, reason) ==
    /\ regs[m] # Empty /\ regs[m].suspended[c] = "no"
    /\ regs' = [regs EXCEPT ![m].suspended[c] = reason]
    /\ cached' = NoCache
    /\ UNCHANGED <<list, owner, time, reading>>

\* Mutant: the cached lists stay.
MutantResumeClientModel(c, m) ==
    /\ regs[m] # Empty /\ regs[m].suspended[c] # "no"
    /\ regs' = [regs EXCEPT ![m].suspended[c] = "no"]
    /\ UNCHANGED <<cached, list, owner, time, reading>>

ResumeClientModel(c, m) ==
    /\ regs[m] # Empty /\ regs[m].suspended[c] # "no"
    /\ regs' = [regs EXCEPT ![m].suspended[c] = "no"]
    /\ cached' = NoCache
    /\ UNCHANGED <<list, owner, time, reading>>

Over(r, t) == {c \in Clients : r.over[c] # 0 /\ t < r.over[c] + Window}
Ended(r, t) == {c \in Clients : r.over[c] # 0 /\ t >= r.over[c] + Window}
Suspended(r, reasons) == {c \in Clients : r.suspended[c] \in reasons}

\* CleanupExpiredQuotas.
CleanupExpiredQuotas ==
    /\ \E m \in RegModels : Ended(regs[m], time) # {}
    /\ regs' = [m \in RegModels |->
                  [regs[m] EXCEPT !.over = [c \in Clients |->
                      IF c \in Ended(regs[m], time) THEN 0 ELSE @[c]]]]
    /\ cached' = NoCache
    /\ UNCHANGED <<list, owner, time, reading>>

-----------------------------------------------------------------------------
(* Lists of available models. *)

\* A model that all clients are over quota for, and nothing worse, is listed.
Offered(clients, over, cooling, other) ==
    \/ clients > over + other
    \/ clients > 0 /\ over + cooling > 0 /\ other = 0

Listed(r, t) ==
    Offered(r.count, Cardinality(Over(r, t)), Cardinality(Suspended(r, {"quota"})),
            Cardinality(Suspended(r, {"other"})))

\* buildAvailableModelsLocked: good until the first recovery; 0: for good.
Built(t) ==
    LET ends == UNION {{regs[m].over[c] + Window : c \in Over(regs[m], t)} : m \in RegModels}
    IN  [models |-> {m \in RegModels : Listed(regs[m], t)},
         until |-> IF ends = {} THEN 0 ELSE Min(ends)]

Valid(cache, t) == cache # NoCache /\ (cache.until = 0 \/ t < cache.until)

\* GetAvailableModels: the time is read first, then the cache or the registry;
\* a cache that is not valid for the first look is looked at again under the
\* lock that builds it.
ReadClock(r) ==
    /\ reading[r] = 0
    /\ reading' = [reading EXCEPT ![r] = time]
    /\ UNCHANGED <<regs, list, owner, cached, time>>

GetAvailableModels(r) ==
    /\ reading[r] # 0
    /\ cached' = IF Valid(cached, reading[r]) THEN cached ELSE Built(reading[r])
    /\ reading' = [reading EXCEPT ![r] = 0]
    /\ UNCHANGED <<regs, list, owner, time>>

-----------------------------------------------------------------------------
(* The specification. *)

RegistryInit ==
    /\ regs = [m \in RegModels |-> Empty]
    /\ list = [c \in Clients |-> None]
    /\ owner = [c \in Clients |-> NoProvider]
    /\ cached = NoCache
    /\ time = 1
    /\ reading = [r \in Readers |-> 0]

TimePasses ==
    /\ time < LastTime
    /\ time' = time + 1
    /\ UNCHANGED <<regs, list, owner, cached, reading>>

RegistryNext ==
    \/ \E c \in Clients : UnregisterClient(c)
    \/ \E c \in Clients, p \in RegProviders, l \in Lists : RegisterClient(c, p, l)
    \/ \E c \in Clients, m \in RegModels :
          \/ SetModelQuotaExceeded(c, m) \/ ClearModelQuotaExceeded(c, m)
          \/ ResumeClientModel(c, m)
          \/ \E reason \in {"quota", "other"} : SuspendClientModel(c, m, reason)
    \/ CleanupExpiredQuotas
    \/ \E r \in Readers : ReadClock(r) \/ GetAvailableModels(r)
    \/ TimePasses

RegistrySpec == RegistryInit /\ [][RegistryNext]_registryVars

-----------------------------------------------------------------------------
(* Properties. *)

\* The counts of a model, in all and by provider, are what the lists of the
\* clients add up to, however often a client comes with another list, another
\* provider or the same model twice; and nothing stays of a model without
\* clients.
CountsAgree ==
    \A m \in RegModels :
        /\ regs[m].count = MapThenSumSet(LAMBDA c : list[c][m], Clients)
        /\ \A p \in RegProviders :
              regs[m].providers[p] =
                 MapThenSumSet(LAMBDA c : list[c][m], {c \in Clients : owner[c] = p})
        /\ regs[m].count = 0 => regs[m] = Empty

\* A cached list that a reader is given is the list it would get from the
\* registry itself: whatever changed, was marked or recovered since.
FreshList == Valid(cached, time) => cached.models = Built(time).models
=============================================================================
