---------------------------- MODULE MCPushWatcher ----------------------------
(* TLC instances of PushWatcher. *)
EXTENDS PushWatcher, TLC

\* A phone that wants everything, one with a chime, and one of little interest.
All     == [kinds |-> Kind, sound |-> FALSE]
Chime   == [kinds |-> {"turnDone"}, sound |-> TRUE]
Another == [kinds |-> {"approval"}, sound |-> FALSE]

OfferAll   == {All}
OfferTwo   == {All, Another}
OfferChime == {All, Chime}

Symmetry == Permutations(Session)

=============================================================================
