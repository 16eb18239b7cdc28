----------------------------- MODULE MCExecution -----------------------------
(* Instances of Execution for TLC: two daemons of each kind, one fault, and *)
(* a call that can be prepared beside one that need not be.                *)
EXTENDS Execution

CONSTANTS d1, d2, w1, w2

OneFault == crashes + errors <= 1
OneSound == sound[1] = NumSteps
==============================================================================
