---------------------------- MODULE MCAgentTurns ----------------------------
(* A small instance of the agent loop for TLC. *)
EXTENDS AgentTurns

CONSTANTS c1, c2, c3, k1, s1, w1, w2

(* c1 is held; c2 and c3 run freely, c3 with arguments its schema refuses. *)
OneScope == [k \in {k1} |-> [c \in Call |-> IF c = c1 THEN "gated" ELSE "open"]]

(* An answer, a held call beside a free one, a free call alone. *)
MixedBatches == {<<>>, <<c2, c1>>, <<c3>>}

=============================================================================
