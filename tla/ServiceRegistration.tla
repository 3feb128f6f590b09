------------------------- MODULE ServiceRegistration -------------------------
(***************************************************************************)
(* How the service keeps the registry of models in step with the records   *)
(* of the manager: one goroutine applies updates of credentials, another   *)
(* registers all of them again when the catalog of models has changed, and *)
(* results of calls mark models meanwhile.  The registry is ModelRegistry; *)
(* a credential is its client.                                             *)
(***************************************************************************)
EXTENDS ModelRegistry

CONSTANTS Kinds,        \* of credential: what decides its models
          ProviderOf,
          Catalogs,     \* in turn: the list of models of each kind
          Nobody        \* no record

ASSUME ServiceAssumption ==
    /\ ProviderOf \in [Kinds -> RegProviders]
    /\ 1 \in DOMAIN Catalogs /\ DOMAIN Catalogs \subseteq Nat
    /\ \A n \in DOMAIN Catalogs : Catalogs[n] \in [Kinds -> [RegModels -> Nat]]

VARIABLES record,      \* Manager.auths
          catalog,     \* how many times the catalog has changed
          applier,     \* the goroutine of consumeAuthUpdates
          refresher,   \* the goroutine of the catalog's updater, or that sets the callback
          callback,    \* whether the callback is set
          changed,     \* providers whose models changed and were not refreshed yet
          outrun       \* history: credentials that changed behind the last look of a refresh

serviceVars == <<record, catalog, applier, refresher, callback, changed, outrun>>
registrationVars == <<registryVars, serviceVars>>

Idle == [pc |-> "idle"]
Enabled(auth) == auth # Nobody /\ ~auth.disabled

-----------------------------------------------------------------------------
(* Registration. *)

\* What a credential should be registered with.
ModelsOf(auth) == IF Enabled(auth) THEN Catalogs[catalog][auth.kind] ELSE None

\* registerResolvedModelsForAuth.
RegisterResolved(c, auth, models) ==
    IF models = None THEN UnregisterClient(c)
    ELSE RegisterClient(c, ProviderOf[auth.kind], models)

-----------------------------------------------------------------------------
(* Updates of credentials. *)

\* applyCoreAuthAddOrUpdate: first the record ...
Update(c, auth) ==
    /\ applier = Idle
    /\ record' = [record EXCEPT ![c] = auth]
    /\ applier' = [pc |-> "resolve", client |-> c, auth |-> auth]
    /\ UNCHANGED <<registryVars, catalog, refresher, callback, changed>>

\* ... then its models, of the catalog of now ...
ResolveModels ==
    /\ applier.pc = "resolve"
    /\ applier' = [pc |-> "register", client |-> applier.client, auth |-> applier.auth,
                   models |-> ModelsOf(applier.auth)]
    /\ UNCHANGED <<registryVars, record, catalog, refresher, callback, changed>>

\* ... then their registration.
RegisterUpdated ==
    /\ applier.pc = "register"
    /\ RegisterResolved(applier.client, applier.auth, applier.models)
    /\ applier' = Idle
    /\ UNCHANGED <<record, catalog, refresher, callback, changed>>

\* applyCoreAuthRemoval: first the models ...
Remove(c) ==
    /\ applier = Idle
    /\ UnregisterClient(c)
    /\ applier' = IF record[c] = Nobody THEN Idle ELSE [pc |-> "disable", client |-> c]
    /\ UNCHANGED <<record, catalog, refresher, callback, changed>>

\* ... then the record.
Disable ==
    /\ applier.pc = "disable"
    /\ record' = [record EXCEPT ![applier.client].disabled = TRUE]
    /\ applier' = Idle
    /\ UNCHANGED <<registryVars, catalog, refresher, callback, changed>>

-----------------------------------------------------------------------------
(* The catalog of models changes; the callback goes through the credentials. *)

ChangedProviders(n) ==
    {ProviderOf[k] : k \in {k \in Kinds : Catalogs[n][k] # Catalogs[n + 1][k]}}

\* tryRefreshModels: the new catalog is there before anyone is told.
CatalogChanges ==
    /\ refresher = Idle /\ (callback \/ changed = {})
    /\ catalog + 1 \in DOMAIN Catalogs
    /\ catalog' = catalog + 1
    /\ changed' = ChangedProviders(catalog)
    /\ refresher' = [pc |-> "notify"]
    /\ UNCHANGED <<registryVars, record, applier, callback>>

\* notifyModelRefresh: kept for later while there is no callback.
Notify ==
    /\ refresher.pc = "notify"
    /\ refresher' = IF callback THEN [pc |-> "list"] ELSE Idle
    /\ UNCHANGED <<registryVars, record, catalog, applier, callback, changed>>

\* The service is running: SetModelRefreshCallback calls it for what was kept.
SetCallback ==
    /\ ~callback
    /\ callback' = TRUE
    /\ refresher' = IF refresher = Idle /\ changed # {} THEN [pc |-> "list"] ELSE refresher
    /\ UNCHANGED <<registryVars, record, catalog, applier, changed>>

ListAuths ==
    /\ refresher.pc = "list"
    /\ refresher' = [pc |-> "next", left |-> {c \in Clients : record[c] # Nobody}]
    /\ UNCHANGED <<registryVars, record, catalog, applier, callback, changed>>

RefreshNext(c) ==
    /\ refresher.pc = "next" /\ c \in refresher.left
    /\ refresher' = IF Enabled(record[c]) /\ ProviderOf[record[c].kind] \in changed
                      THEN [pc |-> "first", left |-> refresher.left \ {c}, client |-> c,
                            auth |-> record[c]]
                      ELSE [refresher EXCEPT !.left = @ \ {c}]
    /\ UNCHANGED <<registryVars, record, catalog, applier, callback, changed>>

RefreshEnds ==
    /\ refresher.pc = "next" /\ refresher.left = {}
    /\ refresher' = Idle
    /\ changed' = {}
    /\ UNCHANGED <<registryVars, record, catalog, applier, callback>>

\* Mutant: registered once, with the first copy.
MutantRegisterFirst ==
    /\ refresher.pc = "first"
    /\ RegisterResolved(refresher.client, refresher.auth, ModelsOf(refresher.auth))
    /\ refresher' = [pc |-> "next", left |-> refresher.left]
    /\ UNCHANGED <<record, catalog, applier, callback, changed>>

\* refreshModelRegistrationForAuth registers with the copy it was given ...
RegisterFirst ==
    /\ refresher.pc = "first"
    /\ RegisterResolved(refresher.client, refresher.auth, ModelsOf(refresher.auth))
    /\ refresher' = [refresher EXCEPT !.pc = "latest"]
    /\ UNCHANGED <<record, catalog, applier, callback, changed>>

\* ... and once more with the record of now, or not at all if that is disabled.
LatestAuth ==
    /\ refresher.pc = "latest"
    /\ refresher' = [refresher EXCEPT !.pc = "again", !.auth = record[refresher.client]]
    /\ UNCHANGED <<registryVars, record, catalog, applier, callback, changed>>

RegisterAgain ==
    /\ refresher.pc = "again"
    /\ RegisterResolved(refresher.client, refresher.auth, ModelsOf(refresher.auth))
    /\ refresher' = [pc |-> "next", left |-> refresher.left]
    /\ UNCHANGED <<record, catalog, applier, callback, changed>>

-----------------------------------------------------------------------------
(* Results of calls, MarkResult: the manager knows the credential, enabled or *)
(* not, and the registry is told after the manager's mutex was released.     *)

TellFailure(c, m) ==
    /\ record[c] # Nobody
    /\ SetModelQuotaExceeded(c, m) \/ \E reason \in {"quota", "other"} : SuspendClientModel(c, m, reason)
    /\ UNCHANGED <<record, catalog, applier, refresher, callback, changed>>

TellSuccess(c, m) ==
    /\ record[c] # Nobody
    /\ ClearModelQuotaExceeded(c, m) \/ ResumeClientModel(c, m)
    /\ UNCHANGED <<record, catalog, applier, refresher, callback, changed>>

-----------------------------------------------------------------------------
(* The specification. *)

ServiceStarts ==
    /\ RegistryInit
    /\ record = [c \in Clients |-> Nobody]
    /\ catalog = 1
    /\ applier = Idle /\ refresher = Idle
    /\ callback = FALSE /\ changed = {}

ServiceInit == ServiceStarts /\ outrun = {}

ServiceStep ==
    \/ \E c \in Clients :
          \/ Remove(c) \/ RefreshNext(c)
          \/ \E kind \in Kinds, off \in BOOLEAN : Update(c, [disabled |-> off, kind |-> kind])
          \/ \E m \in RegModels : TellFailure(c, m) \/ TellSuccess(c, m)
    \/ ResolveModels \/ RegisterUpdated \/ Disable
    \/ CatalogChanges \/ Notify \/ SetCallback \/ ListAuths \/ RegisterFirst \/ LatestAuth \/ RegisterAgain \/ RefreshEnds

\* What makes a registration stale: a change of the record, or the second step of
\* its removal, between the refresher's last look and its registration; or a
\* change of the catalog between the applier's look and its registration.
Outrun(c) ==
    \/ refresher.pc = "again" /\ refresher.client = c
       /\ \/ record[c] # record'[c]
          \/ refresher # refresher' /\ applier.pc = "disable" /\ applier.client = c
    \/ applier.pc = "register" /\ applier.client = c /\ catalog # catalog'

ServiceNext ==
    /\ ServiceStep
    /\ outrun' = outrun \cup {c \in Clients : Outrun(c)}

ServiceSpec == ServiceInit /\ [][ServiceNext]_registrationVars

-----------------------------------------------------------------------------
(* Properties. *)

Registered(c) ==
    /\ list[c] = ModelsOf(record[c])
    /\ list[c] # None => owner[c] = ProviderOf[record[c].kind]

Settled == applier = Idle /\ refresher = Idle /\ changed = {}

\* Once both goroutines are done, every credential is registered with the models
\* its record and the catalog say, a disabled one with none, unless a change came
\* between a last look and a registration: however
\* updates, removals, catalogs and the start of the service fall.
StaleOnlyIfOutrun == Settled => \A c \in Clients \ outrun : Registered(c)
=============================================================================
