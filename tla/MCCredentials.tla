-------------------------- MODULE MCCredentials --------------------------
(***************************************************************************)
(* Small instances of how credentials come in and how they are picked, one *)
(* behaviour in one of them: two logins with a browser and a callback, two *)
(* with two callbacks and no forwarder or one with a device; and the       *)
(* scheduler with three credentials.                                       *)
(***************************************************************************)
EXTENDS AuthScheduler, LoginSessions

CONSTANTS a1, a2, a3, codex, gemini, m, g1, g2, browser1, browser2, device1, w1, w2

VARIABLE instance

mcCredentialsVars == <<vars, loginVars, instance>>

Free0 == Fresh
\* Over quota until 3, then a 503 that holds until 2: the hold ends before the
\* time that is noted.
QuotaThenError == Record(Record(Fresh, m, "quotaUntil", 1, TRUE), m, "transient", 1, TRUE)
\* Refused until 3, then a failed refresh that holds the credential until 2: the
\* time noted first is not the end of all that holds it.
RefusedAndRefresh == RefreshFailed(Record(Fresh, m, "unauthorized", 1, TRUE), 1)
Off == [Fresh EXCEPT !.disabled = TRUE]

At(provider, priority, parent, ws, avail) ==
    [provider |-> provider, priority |-> priority, parent |-> parent, ws |-> ws,
     models |-> {m}, avail |-> avail]

Order == <<a1, a2, a3>>
Parents == <<g1, g2>>

Ask(providers, pinned, tried, ws) ==
    [providers |-> providers, model |-> m, pinned |-> pinned, tried |-> tried, ws |-> ws]

SomeSnapshots ==
    a1 :> {At(codex, 1, Nil, TRUE, Free0), At(gemini, 1, g1, FALSE, Free0),
           At(codex, 1, Nil, TRUE, Off)} @@
    a2 :> {At(codex, 1, Nil, FALSE, RefusedAndRefresh), At(gemini, 1, g2, FALSE, Free0)} @@
    a3 :> {At(codex, 2, Nil, TRUE, QuotaThenError), At(gemini, 1, g1, FALSE, Free0),
           At(codex, 1, Nil, TRUE, Free0)}

SomeQueries ==
    {Ask(<<codex>>, Nil, {}, TRUE), Ask(<<gemini>>, Nil, {}, FALSE),
     Ask(<<codex, gemini>>, Nil, {}, FALSE), Ask(<<gemini>>, Nil, {a1}, FALSE),
     Ask(<<codex, gemini>>, a2, {}, FALSE)}

SomeLoads == {[a \in Auths |-> Nil]}

\* What the instance leaves idle of the logins: the second callback, or forwarders.
LoginsIdle ==
    /\ \A l \in Logins : Begun(l) => (l \in Devices <=> instance = "device")
    /\ instance = "logins" => callback[w2] = NotCome
    /\ instance = "callbacks" => \A l \in Logins : ~flow[l].webui

MCInit ==
    /\ Init /\ LoginInit
    /\ instance \in {"scheduler", "logins", "callbacks", "device"}
    /\ instance = "scheduler" \/ strategy = "roundRobin"

MCNext ==
    /\ UNCHANGED instance
    /\ IF instance = "scheduler" THEN Next /\ UNCHANGED loginVars
       ELSE LoginNext /\ LoginsIdle' /\ UNCHANGED vars

MCSpec == MCInit /\ [][MCNext]_mcCredentialsVars
=============================================================================
