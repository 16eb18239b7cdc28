------------------------------ MODULE MCEnqueue ------------------------------
(* An instance of Enqueue for TLC: two callers with a ledger each and a    *)
(* submission that one may run and the other queue, under one call id.     *)
EXTENDS Enqueue

CONSTANTS k1, k2, l1, l2, readyQueued, readyDirect, plan1, plan2

MCCallers  == {k1, k2}
TwoLedgers == [k \in MCCallers |-> IF k = k1 THEN l1 ELSE l2]
TwoInputs  == {readyQueued, readyDirect}
OneCall    == [i \in TwoInputs |-> "call_id"]
==============================================================================
