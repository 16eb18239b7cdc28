---------------------------- MODULE CallLifecycle ----------------------------
(***************************************************************************)
(* What Autoscribe promises for a call, whichever driver runs it: once     *)
(* accepted its steps take effect in order and each at most once, it is    *)
(* answered at most once, as completed only after its last step, and after *)
(* the answer nothing more is done for it.  Execution (Redis queues) and   *)
(* SshJobs (one unit per job) are shown to implement this.                 *)
(***************************************************************************)
EXTENDS Naturals

CONSTANTS Call, NumSteps

VARIABLES
  phase,   \* absent, pending, completed or failed, per call
  ran      \* how often each step took effect, per call

vars  == <<phase, ran>>
Steps == 1..NumSteps

Init ==
  /\ phase = [c \in Call |-> "absent"]
  /\ ran = [c \in Call |-> [s \in Steps |-> 0]]

Accept(c) ==
  /\ phase[c] = "absent"
  /\ phase' = [phase EXCEPT ![c] = "pending"]
  /\ UNCHANGED ran

RunStep(c, s) ==
  /\ phase[c] = "pending"
  /\ \A t \in Steps : ran[c][t] = IF t < s THEN 1 ELSE 0
  /\ ran' = [ran EXCEPT ![c][s] = 1]
  /\ UNCHANGED phase

Complete(c) ==
  /\ phase[c] = "pending" /\ \A s \in Steps : ran[c][s] = 1
  /\ phase' = [phase EXCEPT ![c] = "completed"]
  /\ UNCHANGED ran

Fail(c) ==
  /\ phase[c] = "pending"
  /\ phase' = [phase EXCEPT ![c] = "failed"]
  /\ UNCHANGED ran

Next == \E c \in Call :
  Accept(c) \/ (\E s \in Steps : RunStep(c, s)) \/ Complete(c) \/ Fail(c)

Spec == Init /\ [][Next]_vars
=============================================================================
