-------------------------- MODULE MCSecureChannel --------------------------
(* TLC instances of SecureChannel. *)
EXTENDS SecureChannel, TLC

\* Senders are interchangeable; used by the runs without liveness.
Symmetry == Permutations(Sender)

=============================================================================
