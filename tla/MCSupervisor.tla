---------------------------- MODULE MCSupervisor ----------------------------
(* TLC instances of Supervisor. *)
EXTENDS Supervisor, TLC

\* Watchers are interchangeable; used by the runs without liveness.
Symmetry == Permutations(Watcher)

=============================================================================
