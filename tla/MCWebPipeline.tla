--------------------------- MODULE MCWebPipeline ---------------------------
(***************************************************************************)
(* WebPipeline with model values.  Slots and quotes are interchangeable.   *)
(***************************************************************************)
EXTENDS WebPipeline, TLC

Symmetry == Permutations(Slot) \cup Permutations(Quote)

=============================================================================
