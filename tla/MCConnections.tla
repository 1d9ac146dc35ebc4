--------------------------- MODULE MCConnections ---------------------------
(* Small instances of a connection for TLC. *)
EXTENDS Connections, TLC

CONSTANTS w1, w2, p1, p2

(* Every call is served by a process of its own. *)
Apart == [w \in {w1, w2} |-> IF w = w1 THEN p1 ELSE p2]

=============================================================================
