-------------------------- MODULE MCAccountHistory --------------------------
(* Instances of AccountHistory for TLC. *)
EXTENDS AccountHistory, TLC

CONSTANTS r1, r2, anon, p1, p2, d1, g1, g2, s1, s2

RunNames == {r1, r2}
AnonymousIds == {anon}
Callbacks == {p1, p2}
OneDeletion == {d1}
AccountIds == {g1, g2}
Identities == {s1, s2}

Interchangeable == Permutations(RunNames) \cup Permutations(Callbacks)
                   \cup Permutations(AccountIds) \cup Permutations(Identities)
=============================================================================
