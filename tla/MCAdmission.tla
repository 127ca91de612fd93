---------------------------- MODULE MCAdmission ----------------------------
(* TLC instances of Admission. *)
EXTENDS Admission, TLC

\* Slots, phones and codes are interchangeable.
Symmetry == Permutations(Conn) \cup Permutations(Phone) \cup Permutations(Code)

=============================================================================
