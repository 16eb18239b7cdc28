------------------------------- MODULE Pipeline -------------------------------
(***************************************************************************)
(* Enqueue and Execution at work on the same Redis and ledger: callers of  *)
(* enqueue_record publish a call into queue:executor, from which executord *)
(* takes it and looks up its keys in the ledger, which is therefore that   *)
(* of every caller.  A plan that is edited meanwhile is left to Enqueue.   *)
(* Each module assumes something of the other: Enqueue, that               *)
(* others only ever take calls out of the queue; Execution, that a call    *)
(* enters it once.  Here both are made of steps of the real other side.    *)
(* The tables and hashes that both sides write (ledger table responses,    *)
(* response:<call>:content) are kept as what each side has written.        *)
(***************************************************************************)
EXTENDS Naturals, FiniteSets

CONSTANTS
  Caller, LedgerDb, Input, CallFor, Ready, Queued, Plan, NoPlan, BadPlan, NoInput,
  NumSteps, Executor, Worker, CallBatch, TaskBatch,
  MaxStops,    \* bound on callers that stop half way
  MaxCrashes,  \* bound on daemons that stop half way
  MaxErrors    \* bound on Redis and SQLite calls of daemons that raise

Call == {CallFor[i] : i \in Input}

(* The one ledger of all callers, from which executord loads call keys.    *)
Ledger   == {LedgerDb}
LedgerOf == [k \in Caller |-> LedgerDb]

(* What Enqueue and Execution assume of their constants.                   *)
ASSUME EnqueueAssumption ==
  /\ NoInput \notin Input /\ CallFor = [i \in Input |-> CallFor[i]]
  /\ Ready \subseteq Input /\ Queued \subseteq Input
  /\ NoPlan \notin Plan /\ BadPlan \notin Plan \union {NoPlan}
ASSUME ExecutionAssumption == Call \subseteq Nat /\ NumSteps \in Nat \ {0}
ASSUME BoundsAssumption ==
  /\ CallBatch \in Nat \ {0} /\ TaskBatch \in Nat \ {0}
  /\ MaxStops \in Nat /\ MaxCrashes \in Nat /\ MaxErrors \in Nat

VARIABLES
  row, calls, marker, content, failed, control, caller, pushed, verdicts, stops,
  registered,  \* responses in each ledger that enqueue_record has registered
  queue,       \* queue:executor
  sound, wqueue, results, resp, diagnosed, executor, worker, ran, crashes, errors,
  executed     \* responses that workerd has recorded

enqueueVars == <<row, calls, marker, content, failed, control, caller, pushed, verdicts,
                 stops, registered>>
daemonVars  == <<sound, wqueue, results, resp, diagnosed, executor, worker, ran, crashes,
                 errors, executed>>
vars == <<enqueueVars, queue, daemonVars>>

Arrived == {c \in Call : pushed[c] > 0}

E == INSTANCE Enqueue WITH CallOf <- CallFor, answered <- registered,
                           crashes <- stops, MaxCrashes <- MaxStops
X == INSTANCE Execution WITH arrived <- Arrived, equeue <- queue, answered <- executed

Init == E!Init /\ X!Init

(* A step of enqueue_record, the publication of a call among them.         *)
Enqueues(A) == A /\ UNCHANGED daemonVars
(* A step of a daemon, an executord that takes a call among them.          *)
Daemon(A)   == UNCHANGED enqueueVars /\ A

Next ==
  \/ \E k \in Caller : Enqueues(E!Advance(k)) \/ Enqueues(E!Crash(k))
       \/ \E i \in Input : Enqueues(E!Start(k, i))
  \/ \E d \in Executor : Daemon(X!ExecutorStep(d)) \/ Daemon(X!ExecutorCrash(d))
  \/ \E w \in Worker : Daemon(X!WorkerStep(w)) \/ Daemon(X!WorkerCrash(w))

Spec == Init /\ [][Next]_vars

------------------------------------------------------------------------------
(* Properties.                                                             *)

(* Each side keeps to what the other assumes of it: a call is published    *)
(* once over all callers and retries, and is never put back in             *)
(* the queue by a daemon (enqueue.py:173-188, executord.py:36-55).         *)
ImplementsParts == E!Spec /\ X!Spec

(* Lost replies and stops of callers and daemons together: the work of a   *)
(* call is held in one place, a step takes effect once and on the stored   *)
(* result of the step before, and only for a call that was accepted with a *)
(* plan in queued mode; and every caller is told, and finds recorded, what *)
(* Redis holds (enqueue.py:152-195, workerd.py:43-67).                     *)
OneVerdictOneExecution ==
  /\ E!VerdictsAgree /\ E!QueuedMeansFinished
  /\ X!OneToken /\ X!StepsOnceInOrder
  /\ \A c \in Call : ran[c][1] > 0 =>
       content[c].input \in Queued \intersect Ready /\ content[c].plan # NoPlan

(* What a reader of ledgers and Redis is told about a call.                *)
Answered(c) == c \in executed \union registered[LedgerDb]
Phase == [c \in Call |->
  IF marker[c] = NoInput THEN "absent" ELSE IF ~Answered(c) THEN "pending"
  ELSE IF c \in failed \/ resp[c].failure THEN "failed" ELSE "completed"]
Lifecycle == INSTANCE CallLifecycle WITH phase <- Phase

(* End to end a call is answered once, by registration or by the daemons,  *)
(* as CallLifecycle promises; and a failure that was answered is not taken *)
(* back even when calls raise (enqueue.py:130-133, workerd.py:81-97,       *)
(* worker.py:240-251).                                                     *)
PromiseKept ==
  [][ /\ errors' = 0 => Lifecycle!Next \/ UNCHANGED Lifecycle!vars
      /\ \A c \in Call : Phase[c] = "failed" => Phase'[c] = "failed" ]_vars
=============================================================================
