------------------------------- MODULE MCPlans -------------------------------
(* Instance of Plans for TLC: positions below, at and above zero, with a   *)
(* gap before the last.                                                    *)
EXTENDS Plans

Gapped == {-1, 0, 1, 4}
==============================================================================
