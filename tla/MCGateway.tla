------------------------------ MODULE MCGateway ------------------------------
(***************************************************************************)
(* What TLC needs to check Gateway: the symmetry of its model values, and   *)
(* for liveness, where symmetry is unsound, one order of the interchange-   *)
(* able connections: their kinds do not decrease along it.                  *)
(***************************************************************************)
EXTENDS Gateway, TLC

Symmetry == Permutations(Conns) \cup Permutations(Threads)

Order == CHOOSE f \in [Conns -> 1..Cardinality(Conns)] :
             \A c, d \in Conns : f[c] = f[d] => c = d

Rank == [inference |-> 1, health |-> 2, rejected |-> 3]

LiveInit ==
    /\ Init
    /\ \A c, d \in Conns : Order[c] < Order[d] => Rank[kind[c]] <= Rank[kind[d]]

LiveSpec == LiveInit /\ [][Next]_vars /\ Fairness
=============================================================================
