------------------------- MODULE MCVaultProofContracts -------------------------
(***************************************************************************)
(* Model checking of the two contracts together, and of the refinement of  *)
(* the registry to the ledger.  Two timestamps of validity and four of     *)
(* time let an attestation expire, its account rebind, and the first       *)
(* wallet come back.                                                       *)
(***************************************************************************)
EXTENDS VaultProofContracts, SolvencyRegistryRefinement, TLC

CONSTANTS a0, a1, a2, n1, n2, zeroHash, r1, r2, r3, m1, m2, none

MCAddress == {a0, a1, a2}
MCNullifier == {n1, n2}
MCNonce == {r1, r2, r3}
MCMeasurement == {m1, m2}
Symmetry == Permutations(MCNullifier) \cup Permutations(MCNonce)
              \cup Permutations(MCMeasurement)
=============================================================================
