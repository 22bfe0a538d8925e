--------------------------- MODULE MCSpendLedger ---------------------------
(* Small instances of SpendLedger. *)
EXTENDS SpendLedger, TLC

CONSTANTS r1, r2, v1, h1, h2, h3, alice

HandleSymmetry == Permutations({h1, h2, h3})

OneOwner == (r1 :> alice @@ r2 :> alice)
OneRunOwner == (r1 :> alice)
TwoEach == (r1 :> 2 @@ r2 :> 2)
TwoOnly == (r1 :> 2)
=============================================================================
