---------------------------- MODULE MCSchedulers ----------------------------
(* Values for model checking Schedulers.                                   *)
EXTENDS Schedulers

SmallShapes == {[prompt |-> 1, token |-> 2], [prompt |-> 2, token |-> 1]}
TwoPrompts == <<"p1", "p2">>
TwoTokens  == <<"t1", "t2">>
AllPolicies == Chained \cup Shipping
=============================================================================
