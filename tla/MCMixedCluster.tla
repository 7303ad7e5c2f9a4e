--------------------------- MODULE MCMixedCluster ---------------------------
(* Values for model checking MixedCluster.                                 *)
EXTENDS MixedCluster

Shapes2 == {[prompt |-> 1, token |-> 2], [prompt |-> 2, token |-> 3]}
AnyPair == Instances \X Instances
=============================================================================
