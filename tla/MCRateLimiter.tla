--------------------------- MODULE MCRateLimiter ---------------------------
(* Small instances of RateLimiter for TLC. *)
EXTENDS RateLimiter, TLC

CONSTANTS r1, r2, r3, a, b

ThreeRequests == {r1, r2, r3}
TwoIdentities == {a, b}
Unreliable == {"ok", "lost", "late", "again"}
Crashing == {"crash"}

Symmetry == Permutations(Requests) \cup Permutations(Identities)

=============================================================================
