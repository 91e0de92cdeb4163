------------------------------- MODULE MCEnclave -------------------------------
(***************************************************************************)
(* Two instructions and two quote handlers race over one request hash,     *)
(* whose ciphertext is delivered twice, with the launcher answering now    *)
(* and then, and one restart.                                              *)
(***************************************************************************)
EXTENDS EnclaveRefinement, TLC

Symmetry == Permutations(Action) \cup Permutations(QuoteHandler)
=============================================================================
