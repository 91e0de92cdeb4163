---------------------------- MODULE MCDemoBridge ----------------------------
(***************************************************************************)
(* Two wallets and two request hashes on a chain of up to four blocks      *)
(* after the first, three events, two calls per request and one restart.   *)
(* The node looks through two blocks at once, which a long round exceeds.  *)
(* WordSize is a small power of two above the block numbers.  No symmetry: *)
(* the run has a liveness property.                                        *)
(***************************************************************************)
EXTENDS DemoBridge
=============================================================================
