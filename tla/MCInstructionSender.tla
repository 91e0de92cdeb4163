-------------------------- MODULE MCInstructionSender --------------------------
(***************************************************************************)
(* An owner and one other account, two deployments of Flare's registries   *)
(* with two extensions each: the scan can find this contract first, last,  *)
(* twice or not at all, and the owner can rewire before or after the       *)
(* latch.  One request and one account are enough for what this module     *)
(* adds to the registry.                                                   *)
(***************************************************************************)
EXTENDS InstructionSender, TLC

Symmetry == Permutations(Manager)
=============================================================================
