------------------------- MODULE MCSessionAffinity -------------------------
(* A small instance of SessionAffinity: a conversation that is called first *)
(* once the model has answered, and credentials with and without parents.   *)
EXTENDS SessionAffinity

CONSTANTS p1, p2, first, later, none

MCPrior == [k \in {first, later} |-> IF k = later THEN first ELSE none]
MCCredKey == <<"one", "two">>

Flat == [priority |-> <<1, 1, 0>>, parent |-> <<0, 0, 0>>]
MCLayouts == {Flat, [priority |-> <<0, 0, 0>>, parent |-> <<1, 1, 2>>]}

\* Overlapping picks of sessions, or many picks one after the other.
Sides ==
    \/ /\ layout = Flat /\ picks <= 4 /\ blocked \subseteq {1}
       /\ \A p \in Pickers : pick[p].pc # "idle" =>
              pick[p].session # none /\ pick[p].auths \in {{1, 2}, {2, 3}}
    \/ /\ now = 0 /\ blocked \subseteq {1}
       /\ \A p \in Pickers : pick[p].pc # "idle" =>
              p = p1 /\ pick[p].session \in {none, first} /\ pick[p].auths \in {{1, 2, 3}, {2, 3}}
=============================================================================
