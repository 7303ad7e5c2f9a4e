---------------------------- MODULE MCMixedPool ----------------------------
(* Values for model checking MixedPool. *)
EXTENDS MixedPool

SmallShapes == {[prompt |-> 1, token |-> 2], [prompt |-> 2, token |-> 3]}
=============================================================================
