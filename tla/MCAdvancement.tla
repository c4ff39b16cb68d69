---------------------------- MODULE MCAdvancement ----------------------------
(***************************************************************************)
(* Two matches of one pool feed a final in the next.                      *)
(***************************************************************************)
EXTENDS AdvancementProperties

CONSTANTS a, b, f, P, Q

Pools == P :> {a, b} @@ Q :> {f}

Rule(source, placement, target) == [source |-> source, placement |-> placement, target |-> target]

\* The winner of the first match meets the last of the pool in the final, and
\* the best of the pool is seated in the pool of the final.
TwoStages == {Rule(a, 1, f), Rule(P, 3, f), Rule(P, 1, Q)}

Fields == a :> {1, 2} @@ b :> {1, 3} @@ f :> {}
Seats  == P :> {1, 2} @@ Q :> {}
Judging == [m \in {a, b} |-> {"open", "ready"}] @@ f :> {"open", "partial", "ready"}

RequestSymmetry == Permutations(Request)
=============================================================================
