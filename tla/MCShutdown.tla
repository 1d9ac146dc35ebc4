----------------------------- MODULE MCShutdown -----------------------------
(* A small instance of the shutdown for TLC. *)
EXTENDS Shutdown

CONSTANTS t1, t2

(* Batches that leave before the queue is full; a queue shorter than a batch. *)
SomeLimits == {[batch |-> 2, queue |-> 3], [batch |-> 3, queue |-> 1]}

=============================================================================
