------------------------- MODULE MCRequestExecution -------------------------
(* Two credentials of one provider or of two, for TLC: see the .cfg files. *)
EXTENDS RequestExecution, TLC

CONSTANTS a1, a2, codex, antigravity

BothAntigravity == (a1 :> antigravity) @@ (a2 :> antigravity)
OneAuth == a1 :> antigravity

MCSymmetry == Permutations(Requests) \cup Permutations(Limiters)
=============================================================================
