--------------------------- MODULE MCOutboxRelay ---------------------------
(* TLC instances of OutboxRelay. *)
EXTENDS OutboxRelay, TLC

CONSTANTS r1, r2

OneRelay == {r1}
TwoRelays == {r1, r2}
Symmetry == Permutations(Relays)

\* Rows 1 and 3 are about one order, row 2 about another.
ThreeRowAggregates == <<"a", "b", "a">>
TwoRowAggregates == <<"a", "a">>

AnyError == {"timeout", "refused"}
NoTimeouts == {"refused"}
=============================================================================
