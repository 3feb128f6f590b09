----------------------------- MODULE MCStreams -----------------------------
(***************************************************************************)
(* Small instances of WsRelay and StreamHandling, one behaviour in one of  *)
(* them: connections of one name, a request of either kind over one        *)
(* connection, or a stream on its way to a client of the API.              *)
(***************************************************************************)
EXTENDS WsRelay, StreamHandling

CONSTANTS s1, s2, s3, q1, q2, n1

VARIABLE instance

mcStreamsVars == <<relayVars, streamVars, instance>>

OneName == [s \in Sessions |-> n1]

InstanceIdle ==
    /\ instance = "connections" => \A q \in Requests : req[q].pc = "idle"
    /\ instance \in {"whole", "stream"} =>
          /\ session[s2].handler = "new" /\ session[s3].handler = "new"
          /\ \A q \in Requests : (q \in Whole <=> instance = "whole") \/ req[q].pc = "idle"

OneStream == dialect = [peeks |-> TRUE, converts |-> FALSE, validates |-> FALSE] /\ ~redacting

MCInit ==
    /\ RelayInit /\ StreamInit
    /\ instance \in {"connections", "whole", "stream", "client"}
    /\ instance = "client" \/ OneStream

MCNext ==
    /\ UNCHANGED instance
    /\ IF instance = "client" THEN StreamNext /\ UNCHANGED relayVars
       ELSE RelayNext /\ InstanceIdle' /\ UNCHANGED streamVars

\* What an instance leaves alone stays as it begins, where nothing is under way.
MCSpec == MCInit /\ [][MCNext]_mcStreamsVars /\ RelayFairness /\ StreamFairness
=============================================================================
