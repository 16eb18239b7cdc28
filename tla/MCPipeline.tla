------------------------------ MODULE MCPipeline ------------------------------
(* An instance of Pipeline for TLC: two callers with one submission, to be *)
(* queued, to be run at once, or as the failure of its preparation.        *)
EXTENDS Pipeline, TLC

CONSTANTS k1, k2, readyQueued, readyDirect, failedQueued, plan1, d1, w1, w2

Callers   == {k1, k2}
Inputs    == {readyQueued, readyDirect, failedQueued}
OneCall   == [i \in Inputs |-> 1]
OneStop   == stops + crashes <= 1   \* of a caller or of a daemon
AnyWorker == Permutations({w1, w2})
==============================================================================
