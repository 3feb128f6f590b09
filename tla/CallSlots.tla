----------------------------- MODULE CallSlots -----------------------------
(***************************************************************************)
(* What the concurrency limits promise of the upstream calls, whatever     *)
(* requests do between and around them: a call has a slot of a limiter of  *)
(* its provider from its first to its last moment, the stream it became    *)
(* included, unless there was no limit as it began or it is one of the     *)
(* credits fallback; a limiter has no more calls than slots, and its size  *)
(* is another only when it has none.  Configurations may replace each      *)
(* other meanwhile.                                                        *)
(***************************************************************************)
EXTENDS Naturals, FiniteSets

CONSTANTS Requests, Providers, Limiters, Limits,
          Antigravity, CreditsFallback,   \* whom the fallback calls, if it is on
          Nil                             \* no call, no limiter

VARIABLES cfg,    \* the limit configured for each provider (0: none)
          size,   \* how many slots a limiter has
          call    \* of each request: whom it calls, and whose slot it has

vars == <<cfg, size, call>>

Users(l) == {r \in Requests : call[r] # Nil /\ call[r].by = l}

Init ==
    /\ cfg \in [Providers -> Limits]
    /\ size = [l \in Limiters |-> 0]
    /\ call = [r \in Requests |-> Nil]

Reload == cfg' \in [Providers -> Limits] /\ UNCHANGED <<size, call>>

\* A limiter nobody uses gets another size.
Renew(l) ==
    /\ Users(l) = {}
    /\ \E n \in Limits : size' = [size EXCEPT ![l] = n]
    /\ UNCHANGED <<cfg, call>>

Begins(r, p, l) ==
    /\ call[r] = Nil
    /\ call' = [call EXCEPT ![r] = [to |-> p, by |-> l]]
    /\ UNCHANGED <<cfg, size>>

BeginUnlimited(r, p) == cfg[p] = 0 /\ Begins(r, p, Nil)

BeginCredits(r) == CreditsFallback /\ Begins(r, Antigravity, Nil)

\* There is a slot to have, and all that have one call the same provider.
BeginLimited(r, p, l) ==
    /\ Cardinality(Users(l)) < size[l]
    /\ \A q \in Users(l) : call[q].to = p
    /\ Begins(r, p, l)

End(r) ==
    /\ call[r] # Nil
    /\ call' = [call EXCEPT ![r] = Nil]
    /\ UNCHANGED <<cfg, size>>

Next ==
    \/ Reload
    \/ \E l \in Limiters : Renew(l)
    \/ \E r \in Requests :
        \/ \E p \in Providers : BeginUnlimited(r, p)
        \/ \E p \in Providers, l \in Limiters : BeginLimited(r, p, l)
        \/ BeginCredits(r)
        \/ End(r)

Spec == Init /\ [][Next]_vars
=============================================================================
