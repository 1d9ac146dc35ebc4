-------------------------- MODULE MCRoutedGateway --------------------------
(* Small instances of the gateway for TLC. *)
EXTENDS RoutedGateway, TLC

CONSTANTS m1, m2, p1, p2, w1, w2, t1, t2

OneModel == [m \in {m1} |-> p1]
TwoModels == [m \in {m1, m2} |-> IF m = m1 THEN p1 ELSE p2]

OneRoute == <<m1>>
TwoRoute == <<m1, m2>>

Symmetry == Permutations(Worker) \cup Permutations(Tenant)

=============================================================================
