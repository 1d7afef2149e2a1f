----------------------------- MODULE MCSessions -----------------------------
(* Instances of Sessions for TLC. *)
EXTENDS Sessions, TLC

CONSTANTS u1, u2, j1, j2, j3, s1, s2

TwoUsers == {u1, u2}
OneUser == {u1}
ThreeJtis == {j1, j2, j3}
TwoSlots == {s1, s2}
Banned == {"banned"}
NoStatus == {}

\* Accounts, tokens and requests are interchangeable.
RolesSymmetry == Permutations(TwoUsers) \cup Permutations(ThreeJtis) \cup Permutations(TwoSlots)
=============================================================================
