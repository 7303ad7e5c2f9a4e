----------------------------- MODULE MCSimulator -----------------------------
(* Values for model checking Simulator.                                    *)
EXTENDS Simulator

TwoDurations == {2, 3}
=============================================================================
