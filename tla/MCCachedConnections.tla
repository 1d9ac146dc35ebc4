------------------------ MODULE MCCachedConnections ------------------------
(* Small instances of the cache for TLC. *)
EXTENDS CachedConnections, TLC

CONSTANTS c1, c2, top, deep

Symmetry == Permutations(Caller)

=============================================================================
