----------------------- MODULE MCServiceRegistration -----------------------
(***************************************************************************)
(* Small instances of ModelRegistry and ServiceRegistration: the registry  *)
(* with any calls, readers and the clock; or under the service.  Marks are *)
(* on the first model only.                                                *)
(***************************************************************************)
EXTENDS ServiceRegistration, TLC

CONSTANTS k1, k2, m1, m2, p1, p2, rd, plain, pooled

VARIABLE instance

mcRegistryVars == <<registrationVars, instance>>

Listing(n1, n2) == (m1 :> n1) @@ (m2 :> n2)
SomeLists == {Listing(0, 0), Listing(1, 0), Listing(1, 1), Listing(2, 1), Listing(0, 1)}

\* A pool has a model twice; the newer catalog has another model.
ByKind == (plain :> p1) @@ (pooled :> p2)
Catalog(n2) == (plain :> Listing(1, n2)) @@ (pooled :> Listing(2, 0))
TwoCatalogs == <<Catalog(0), Catalog(1)>>

\* Without the service, nothing is promised of what clients are registered with.
MCInit ==
    /\ ServiceStarts
    /\ \/ instance = "service" /\ outrun = {}
       \/ instance = "registry" /\ outrun = Clients

MCNext ==
    /\ instance' = instance
    /\ \/ instance = "registry" /\ RegistryNext /\ UNCHANGED serviceVars
       \/ instance = "service" /\ ServiceNext

MCSpec == MCInit /\ [][MCNext]_mcRegistryVars

OneModelMarked == \A c \in Clients : regs[m2].over[c] = 0 /\ regs[m2].suspended[c] = "no"
Interchangeable == Permutations(Clients)
=============================================================================
