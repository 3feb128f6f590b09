-------------------------- MODULE MCAuthConductor --------------------------
(***************************************************************************)
(* Small instances of AuthConductor, one behaviour in one of them: two     *)
(* goroutines at a time with few results of one model, or one at a time    *)
(* with every result of two models.                                        *)
(***************************************************************************)
EXTENDS AuthConductor, TLC

CONSTANTS a1, codex, m1, m2, w1, w2

VARIABLE instance

mcConductorVars == <<vars, instance>>

OneProfile ==
    [a \in Auths |-> [provider |-> codex, priority |-> 1, ws |-> FALSE,
                     models |-> Models, avail |-> Fresh]]

Ask(m) == [ws |-> FALSE, providers |-> <<codex>>, model |-> m, pinned |-> Nil, tried |-> {}]
OneQuery == {Ask(m1)}

Race == Time \/ \E w \in Workers : Answered(w, {m1}, {"ok", "quota"}, {TRUE}) \/ Work(w)

\* One goroutine at a time, and no picks.
Alone(w) == \A v \in Workers \ {w} : job[v] = Idle
OneByOne ==
    \/ Time
    \/ \E w \in Workers : Alone(w) /\ Step(w) /\ answer' = answer

\* Nothing is withheld: of the one model that is picked for, no hold ends before a
\* quota's recovery time with the outcomes of "race".
MCInit == Init /\ instance \in {"race", "results"}
MCNext ==
    /\ UNCHANGED <<instance, withheld>>
    /\ \/ instance = "race" /\ Race
       \/ instance = "results" /\ OneByOne
MCSpec == MCInit /\ [][MCNext]_mcConductorVars

Interchangeable == Permutations(Workers)
=============================================================================
