---------------------------- MODULE MCRelayLink ----------------------------
(* TLC instances of RelayLink. *)
EXTENDS RelayLink, TLC

\* Attachments and phones are interchangeable; used by the runs without liveness.
Symmetry == Permutations(Att) \cup Permutations(Phone)

=============================================================================
