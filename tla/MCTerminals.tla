---------------------------- MODULE MCTerminals ----------------------------
(* TLC instances of Terminals. *)
EXTENDS Terminals, TLC

\* Ids and terminals are interchangeable; used by the runs without liveness.
Symmetry == Permutations(Id) \cup Permutations(Term)

=============================================================================
