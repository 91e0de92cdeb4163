--------------------------- MODULE MCLendingPanel ---------------------------
(***************************************************************************)
(* Two borrowers, one exchange account, caps of 0, 1 and 2 tokens for a    *)
(* pool that holds two.  Two timestamps let the first borrower's           *)
(* attestation expire with its debt outstanding; two nonces let the        *)
(* account move or the tier change.  One of the two has the page open, and *)
(* a reset can come while it borrows.                                      *)
(***************************************************************************)
EXTENDS LendingPanel, TLC

CONSTANTS a0, a1, a2

MCAddress == {a0, a1, a2}
MCTierCap == [t \in 0..4 |-> IF t < 2 THEN t ELSE 2]
Symmetry == Permutations(Nonce)
=============================================================================
