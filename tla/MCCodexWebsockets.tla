------------------------- MODULE MCCodexWebsockets -------------------------
(***************************************************************************)
(* Small instances of CodexWebsockets, one behaviour in one of them: the   *)
(* handler gives up requests, or the session is closed from outside.       *)
(***************************************************************************)
EXTENDS CodexWebsockets

VARIABLE instance

mcCodexVars == <<codexVars, instance>>

MCInit == CodexInit /\ instance \in {"gives up", "closes"}
MCNext ==
    /\ CodexNext /\ instance' = instance
    /\ instance = "gives up" => ~hungUp' /\ closers'["removal"].pc = "idle"
    /\ instance = "closes" => \A q \in Requests : ~requests'[q].gone
MCSpec == MCInit /\ [][MCNext]_mcCodexVars /\ CodexFairness
=============================================================================
