------------------------------ MODULE MCCluster ------------------------------
(* Values for model checking Cluster: sizes of requests, and the choices   *)
(* left to the scheduler.                                                  *)
EXTENDS Cluster

Shapes2   == {[prompt |-> 1, token |-> 2], [prompt |-> 2, token |-> 3]}
ShapesOne == {[prompt |-> 1, token |-> 1], [prompt |-> 1, token |-> 3]}

Same    == {<<i, i>> : i \in Instances}
Pairs   == {<<"p", "t">>}
AnyPair == Instances \X Instances
=============================================================================
