--------------------------- MODULE MCRelayLimits ---------------------------
(* TLC instances of RelayLimits. *)
EXTENDS RelayLimits, TLC

Symmetry == Permutations(Address)

=============================================================================
