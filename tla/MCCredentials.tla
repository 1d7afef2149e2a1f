--------------------------- MODULE MCCredentials ---------------------------
(* Instances of Credentials for TLC. *)
EXTENDS Credentials, TLC

CONSTANTS p1, p2, s1, s2

TwoPasswords == {p1, p2}
TwoSlots == {s1, s2}
Both == {"registration", "password_reset"}
Reset == {"password_reset"}

\* Queries that throw: what the code catches (a code that cannot be stored, the
\* removal of its pending row), the counter's upsert, the second purge.
SomeFailing == {"regOtp", "regCleanup", "wrong", "purge"}
NoFailing == {}

\* Passwords and requests are interchangeable.
Symmetry == Permutations(TwoPasswords) \cup Permutations(TwoSlots)
=============================================================================
