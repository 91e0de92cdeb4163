---------------------- MODULE SolvencyRegistryRefinement ----------------------
(***************************************************************************)
(* The refinement mapping from SolvencyRegistry to SolvencyLedger: a       *)
(* wallet's credit is its attestation while that is live, and the honoured *)
(* requests are the spent nonces.                                          *)
(***************************************************************************)
EXTENDS SolvencyRegistry

CONSTANT NoCredit      \* the ledger's value for a wallet without credit

CreditOf(w) ==
  IF Live(w) THEN [tier |-> attestations[w].tier,
                   account |-> attestations[w].nullifier]
             ELSE NoCredit

Ledger == INSTANCE SolvencyLedger
  WITH Account <- Nullifier, Request <- Nonce, Grade <- Tier,
       credit <- [w \in Wallet |-> CreditOf(w)], honoured <- usedNonce

(***************************************************************************)
(* Every behaviour of the registry is one of the ledger: its transactions  *)
(* grant, waste or renew credit and its timestamps let credit lapse.       *)
(***************************************************************************)
ImplementsLedger == Ledger!Spec

=============================================================================
