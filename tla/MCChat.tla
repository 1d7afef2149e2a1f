------------------------------- MODULE MCChat -------------------------------
(* Instances of Chat for TLC. *)
EXTENDS Chat, TLC

CONSTANTS u1, u2, u3, k1, k2, p1, s1, s2

TwoUsers == {u1, u2}
ThreeUsers == {u1, u2, u3}
OnePair == {{u1, u2}}
OneSocket == {k1}
TwoSockets == {k1, k2}
NoProducts == {}
OneProduct == {p1}
OneSlot == {s1}
TwoSlots == {s1, s2}

\* Products are offered by u1.
OfU1 == [p \in Products |-> u1]

\* With u1 and u2 in the one conversation and no product, they are interchangeable.
Symmetry == Permutations(TwoUsers) \cup Permutations(TwoSockets) \cup Permutations(TwoSlots)
=============================================================================
