------------------------------ MODULE Execution ------------------------------
(***************************************************************************)
(* The queued driver: executord and workerd (daemon/*.py) move calls       *)
(* through two Redis queues.  A daemon takes a snapshot of a queue and     *)
(* claims each member by ZREM.  Membership of a queue is the only record   *)
(* that a call has work left, so this module follows that token through    *)
(* the daemons, their crashes, and Redis or SQLite calls that raise with   *)
(* or without having taken effect (each command opens a connection with a  *)
(* two second timeout, redis_runtime.py:62-66).                            *)
(***************************************************************************)
EXTENDS Naturals, FiniteSets

CONSTANTS
  Call,        \* call ids, numbers so that the order of ZRANGE is <
  NumSteps,    \* length of every plan
  Executor,    \* executord processes
  Worker,      \* workerd processes
  CallBatch,   \* members an executord looks at in one pass: 32 in the code
  TaskBatch,   \* and a workerd: 32 as well
  MaxCrashes,  \* bound on daemons that stop half way
  MaxErrors    \* bound on Redis and SQLite calls that raise

Steps == 1..NumSteps
Task  == Call \X Steps

ASSUME CallAssumption   == Call \subseteq Nat
ASSUME StepsAssumption  == NumSteps \in Nat \ {0}
ASSUME BoundsAssumption ==
  CallBatch \in Nat \ {0} /\ TaskBatch \in Nat \ {0} /\ MaxCrashes \in Nat /\ MaxErrors \in Nat

VARIABLES
  arrived,   \* calls that enqueue_record has published in queued mode
  sound,     \* how many first steps of a call's plan can be prepared
  equeue,    \* queue:executor
  wqueue,    \* queue:worker, members task:<call>:<ordinal>
  results,   \* result:<call>:<ordinal>:content
  resp,      \* response:<call>:content
  answered,  \* ledger table responses
  diagnosed, \* calls with a diagnostic:<call>:executor (history, the key expires)
  executor, worker,  \* the daemons
  ran,       \* how often each step took effect (history)
  crashes, errors    \* (history, bounded)

published == <<arrived, sound>>
queues  == <<equeue, wqueue>>
answers == <<results, resp, answered, diagnosed>>
faults  == <<crashes, errors>>
vars == <<published, queues, answers, executor, worker, ran, faults>>

Response == [content: {"none", "empty", "result"}, failure: BOOLEAN]

ExecutorLabels == {"idle", "loop", "prepare"}
WorkerLabels   == {"idle", "loop", "read", "run", "persist", "next", "respond",
                   "record", "fail", "fail_record"}

NoCall == 0
NoTask == <<0, 0>>
IdleExecutor == [pc |-> "idle", batch |-> {}, call |-> NoCall]
IdleWorker   == [pc |-> "idle", batch |-> {}, task |-> NoTask]

TypeOK ==
  /\ arrived \subseteq Call
  /\ sound \in [Call -> 0..NumSteps]
  /\ equeue \subseteq Call
  /\ wqueue \subseteq Task
  /\ results \subseteq Task
  /\ resp \in [Call -> Response]
  /\ answered \subseteq Call
  /\ diagnosed \subseteq Call
  /\ executor \in [Executor -> [pc: ExecutorLabels, batch: SUBSET Call, call: Call \union {NoCall}]]
  /\ worker \in [Worker -> [pc: WorkerLabels, batch: SUBSET Task, task: Task \union {NoTask}]]
  /\ ran \in [Call -> [Steps -> Nat]]
  /\ crashes \in 0..MaxCrashes
  /\ errors \in 0..MaxErrors

(* The content of a call, and whether executord's ledger lists it, settle  *)
(* which of its steps can be prepared; whoever publishes it may choose.    *)
Init ==
  /\ arrived = {}
  /\ sound \in [Call -> 0..NumSteps]
  /\ equeue = {}
  /\ wqueue = {}
  /\ results = {}
  /\ resp = [c \in Call |-> [content |-> "none", failure |-> FALSE]]
  /\ answered = {}
  /\ diagnosed = {}
  /\ executor = [d \in Executor |-> IdleExecutor]
  /\ worker = [w \in Worker |-> IdleWorker]
  /\ ran = [c \in Call |-> [s \in Steps |-> 0]]
  /\ crashes = 0
  /\ errors = 0

(* ZRANGE key 0 31 among equal scores: the first members in name order.    *)
Before(t, u) == t[1] < u[1] \/ (t[1] = u[1] /\ t[2] < u[2])
FirstCalls(S) == {c \in S : Cardinality({d \in S : d < c}) < CallBatch}
FirstTasks(S) == {t \in S : Cardinality({u \in S : Before(u, t)}) < TaskBatch}

ExecutorAt(d, l) == executor[d].pc = l
WorkerAt(w, l)   == worker[w].pc = l
CallOf(w) == worker[w].task[1]
StepOf(w) == worker[w].task[2]

(* load_call_keys and prepare_step raise or not by what the call is: they  *)
(* want it in the one ledger of the daemon, and a step with an engine, an  *)
(* entrypoint, a known engine_kind and a position of its own.              *)
Preparable(c, s) == s <= sound[c]

ExecutorContinues(d) == executor' = [executor EXCEPT ![d] =
  [@ EXCEPT !.pc = IF executor[d].batch = {} THEN "idle" ELSE "loop", !.call = NoCall]]
WorkerGoto(w, l) == worker' = [worker EXCEPT ![w].pc = l]
WorkerContinues(w) == worker' = [worker EXCEPT ![w] =
  [@ EXCEPT !.pc = IF worker[w].batch = {} THEN "idle" ELSE "loop", !.task = NoTask]]

AnError == errors < MaxErrors /\ errors' = errors + 1 /\ UNCHANGED crashes

(* The writes of the daemons. *)
PutTask(t)    == wqueue' = wqueue \union {t}
PutResult(t)  == results' = results \union {t}
PutSuccess(c) == resp' = [resp EXCEPT ![c].content = "result"]
PutFailure(c) == resp' = [resp EXCEPT ![c] = [content |-> "empty", failure |-> TRUE]]
PutAnswer(c)  == answered' = answered \union {c}
Effect(t)     == ran' = [ran EXCEPT ![t[1]][t[2]] = @ + 1]

------------------------------------------------------------------------------
(* Faulty variants of actions below, each a plausible slip in the code;    *)
(* none is part of Next.                                                   *)

FaultyExecutorClaim(d) ==
  /\ ExecutorAt(d, "loop")
  /\ \E c \in executor[d].batch :
       /\ \A e \in executor[d].batch : c <= e
       /\ equeue' = equeue \ {c}
       /\ executor' = [executor EXCEPT ![d] =
            [pc |-> "prepare", batch |-> @.batch \ {c}, call |-> c]]
  /\ UNCHANGED <<published, wqueue, answers, worker, ran, faults>>

FaultyWorkerNextRetries(w) ==
  /\ WorkerAt(w, "next")
  /\ PutTask(<<CallOf(w), StepOf(w)>>)
  /\ WorkerContinues(w)
  /\ UNCHANGED <<published, equeue, answers, executor, ran, faults>>

FaultyWorkerFailForgets(w) ==
  /\ WorkerAt(w, "fail")
  /\ WorkerContinues(w)
  /\ UNCHANGED <<published, queues, answers, executor, ran, faults>>

FaultyWorkerRespondResets(w) ==
  /\ WorkerAt(w, "respond")
  /\ resp' = [resp EXCEPT ![CallOf(w)] = [content |-> "result", failure |-> FALSE]]
  /\ WorkerGoto(w, "record")
  /\ UNCHANGED <<published, queues, results, answered, diagnosed, executor, ran, faults>>

FaultyExecutorPrepare(d) ==         \* the index of the first step, not its position
  /\ ExecutorAt(d, "prepare") /\ Preparable(executor[d].call, 1)
  /\ PutTask(<<executor[d].call, 0>>)
  /\ ExecutorContinues(d)
  /\ UNCHANGED <<published, equeue, answers, worker, ran, faults>>

------------------------------------------------------------------------------
(* enqueue_record publishes a call, once (Enqueue!QueuedOnce).             *)
Publish(c) ==
  /\ c \notin arrived
  /\ arrived' = arrived \union {c}
  /\ equeue' = equeue \union {c}
  /\ UNCHANGED <<sound, wqueue, answers, executor, worker, ran, faults>>

------------------------------------------------------------------------------
(* executord: process_active.                                              *)

ExecutorPoll(d) ==
  /\ ExecutorAt(d, "idle") /\ equeue # {}
  /\ executor' = [executor EXCEPT ![d] =
       [pc |-> "loop", batch |-> FirstCalls(equeue), call |-> NoCall]]
  /\ UNCHANGED <<published, queues, answers, worker, ran, faults>>

(* ZREM decides which daemon takes the call. *)
ExecutorClaim(d) ==
  /\ ExecutorAt(d, "loop")
  /\ \E c \in executor[d].batch :
       /\ \A e \in executor[d].batch : c <= e
       /\ LET rest == executor[d].batch \ {c} IN
          IF c \in equeue
          THEN /\ equeue' = equeue \ {c}
               /\ executor' = [executor EXCEPT ![d] =
                    [pc |-> "prepare", batch |-> rest, call |-> c]]
          ELSE /\ executor' = [executor EXCEPT ![d] =
                    [pc |-> IF rest = {} THEN "idle" ELSE "loop", batch |-> rest, call |-> NoCall]]
               /\ UNCHANGED equeue
  /\ UNCHANGED <<published, wqueue, answers, worker, ran, faults>>

(* prepare_first_step: the task hash, then its queue entry. *)
ExecutorPrepare(d) ==
  /\ ExecutorAt(d, "prepare") /\ Preparable(executor[d].call, 1)
  /\ PutTask(<<executor[d].call, 1>>)
  /\ ExecutorContinues(d)
  /\ UNCHANGED <<published, equeue, answers, worker, ran, faults>>

(* An exception there leaves a diagnostic and nothing else, whether the    *)
(* call cannot be prepared or a write of the two raised.                   *)
ExecutorRefuses(d) ==
  /\ ExecutorAt(d, "prepare") /\ ~Preparable(executor[d].call, 1)
  /\ diagnosed' = diagnosed \union {executor[d].call}
  /\ ExecutorContinues(d)
  /\ UNCHANGED <<published, queues, results, resp, answered, worker, ran, faults>>

ExecutorRaises(d) ==
  /\ ExecutorAt(d, "prepare") /\ AnError
  /\ \/ Preparable(executor[d].call, 1) /\ PutTask(<<executor[d].call, 1>>)
     \/ UNCHANGED wqueue
  /\ diagnosed' = diagnosed \union {executor[d].call}
  /\ ExecutorContinues(d)
  /\ UNCHANGED <<published, equeue, results, resp, answered, worker, ran>>

------------------------------------------------------------------------------
(* workerd: process_ready.                                                 *)

WorkerPoll(w) ==
  /\ WorkerAt(w, "idle") /\ wqueue # {}
  /\ worker' = [worker EXCEPT ![w] =
       [pc |-> "loop", batch |-> FirstTasks(wqueue), task |-> NoTask]]
  /\ UNCHANGED <<published, queues, answers, executor, ran, faults>>

WorkerClaim(w) ==
  /\ WorkerAt(w, "loop")
  /\ \E t \in worker[w].batch :
       /\ \A u \in worker[w].batch : ~Before(u, t)
       /\ LET rest == worker[w].batch \ {t} IN
          IF t \in wqueue
          THEN /\ wqueue' = wqueue \ {t}
               /\ worker' = [worker EXCEPT ![w] = [pc |-> "read", batch |-> rest, task |-> t]]
          ELSE /\ worker' = [worker EXCEPT ![w] =
                    [pc |-> IF rest = {} THEN "idle" ELSE "loop", batch |-> rest, task |-> NoTask]]
               /\ UNCHANGED wqueue
  /\ UNCHANGED <<published, equeue, answers, executor, ran, faults>>

WorkerRead(w) ==
  /\ WorkerAt(w, "read")
  /\ WorkerGoto(w, "run")
  /\ UNCHANGED <<published, queues, answers, executor, ran, faults>>

(* Until the task hash is read call_id is None, and a failure is only      *)
(* printed.                                                                *)
WorkerReadRaises(w) ==
  /\ WorkerAt(w, "read") /\ AnError
  /\ WorkerContinues(w)
  /\ UNCHANGED <<published, queues, answers, executor, ran>>

(* execute_task on the result of the step before. *)
WorkerRun(w) ==
  /\ WorkerAt(w, "run")
  /\ StepOf(w) = 1 \/ <<CallOf(w), StepOf(w) - 1>> \in results
  /\ Effect(worker[w].task)
  /\ WorkerGoto(w, "persist")
  /\ UNCHANGED <<published, queues, answers, executor, faults>>

(* A step may fail on its own account, before or after its effect.         *)
WorkerRunFails(w) ==
  /\ WorkerAt(w, "run")
  /\ Effect(worker[w].task) \/ UNCHANGED ran
  /\ WorkerGoto(w, "fail")
  /\ UNCHANGED <<published, queues, answers, executor, faults>>

WorkerPersist(w) ==
  /\ WorkerAt(w, "persist")
  /\ PutResult(worker[w].task)
  /\ WorkerGoto(w, IF StepOf(w) < NumSteps THEN "next" ELSE "respond")
  /\ UNCHANGED <<published, queues, resp, answered, diagnosed, executor, ran, faults>>

WorkerNext(w) ==
  /\ WorkerAt(w, "next") /\ Preparable(CallOf(w), StepOf(w) + 1)
  /\ PutTask(<<CallOf(w), StepOf(w) + 1>>)
  /\ WorkerContinues(w)
  /\ UNCHANGED <<published, equeue, answers, executor, ran, faults>>

(* A next step that cannot be prepared raises after the result is stored.  *)
WorkerRefuses(w) ==
  /\ WorkerAt(w, "next") /\ ~Preparable(CallOf(w), StepOf(w) + 1)
  /\ WorkerGoto(w, "fail")
  /\ UNCHANGED <<published, queues, answers, executor, ran, faults>>

(* persist_redis_response: HSET leaves a failure field alone.              *)
WorkerRespond(w) ==
  /\ WorkerAt(w, "respond")
  /\ PutSuccess(CallOf(w))
  /\ WorkerGoto(w, "record")
  /\ UNCHANGED <<published, queues, results, answered, diagnosed, executor, ran, faults>>

WorkerRecord(w) ==
  /\ WorkerAt(w, "record")
  /\ PutAnswer(CallOf(w))
  /\ WorkerContinues(w)
  /\ UNCHANGED <<published, queues, results, resp, diagnosed, executor, ran, faults>>

(* Any write of the try block may raise, having taken effect or not.       *)
WorkerRaises(w) ==
  /\ AnError
  /\ \/ /\ WorkerAt(w, "persist") /\ UNCHANGED <<wqueue, resp, answered>>
        /\ PutResult(worker[w].task) \/ UNCHANGED results
     \/ /\ WorkerAt(w, "next") /\ UNCHANGED <<results, resp, answered>>
        /\ \/ Preparable(CallOf(w), StepOf(w) + 1) /\ PutTask(<<CallOf(w), StepOf(w) + 1>>)
           \/ UNCHANGED wqueue
     \/ /\ WorkerAt(w, "respond") /\ UNCHANGED <<wqueue, results, answered>>
        /\ PutSuccess(CallOf(w)) \/ UNCHANGED resp
     \/ /\ WorkerAt(w, "record") /\ UNCHANGED <<wqueue, results, resp>>
        /\ PutAnswer(CallOf(w)) \/ UNCHANGED answered
  /\ WorkerGoto(w, "fail")
  /\ UNCHANGED <<published, equeue, diagnosed, executor, ran>>

(* The handler: register_failure, in Redis and then in the ledger.         *)
WorkerFail(w) ==
  /\ WorkerAt(w, "fail")
  /\ PutFailure(CallOf(w))
  /\ WorkerGoto(w, "fail_record")
  /\ UNCHANGED <<published, queues, results, answered, diagnosed, executor, ran, faults>>

WorkerFailRecord(w) ==
  /\ WorkerAt(w, "fail_record")
  /\ PutAnswer(CallOf(w))
  /\ WorkerContinues(w)
  /\ UNCHANGED <<published, queues, results, resp, diagnosed, executor, ran, faults>>

------------------------------------------------------------------------------
(* A daemon is killed, or a call outside a try (ZRANGE, ZREM, the handler) *)
(* raises; systemd starts it again with nothing in hand.                   *)
Stops == crashes < MaxCrashes /\ crashes' = crashes + 1 /\ UNCHANGED errors

ExecutorCrash(d) ==
  /\ ~ExecutorAt(d, "idle") /\ Stops
  /\ executor' = [executor EXCEPT ![d] = IdleExecutor]
  /\ UNCHANGED <<published, queues, answers, worker, ran>>

WorkerCrash(w) ==
  /\ ~WorkerAt(w, "idle") /\ Stops
  /\ worker' = [worker EXCEPT ![w] = IdleWorker]
  /\ UNCHANGED <<published, queues, answers, executor, ran>>

ExecutorStep(d) ==
  \/ ExecutorPoll(d) \/ ExecutorClaim(d)
  \/ ExecutorPrepare(d) \/ ExecutorRefuses(d) \/ ExecutorRaises(d)

WorkerStep(w) ==
  \/ WorkerPoll(w) \/ WorkerClaim(w) \/ WorkerRead(w) \/ WorkerReadRaises(w)
  \/ WorkerRun(w) \/ WorkerRunFails(w) \/ WorkerPersist(w) \/ WorkerNext(w)
  \/ WorkerRefuses(w) \/ WorkerRespond(w) \/ WorkerRecord(w) \/ WorkerRaises(w)
  \/ WorkerFail(w) \/ WorkerFailRecord(w)

Next ==
  \/ \E c \in Call : Publish(c)
  \/ \E d \in Executor : ExecutorStep(d) \/ ExecutorCrash(d)
  \/ \E w \in Worker : WorkerStep(w) \/ WorkerCrash(w)

Spec == Init /\ [][Next]_vars

(* The daemons keep polling: Restart=on-failure, and POLL_SECONDS apart.   *)
FairSpec ==
  /\ Spec
  /\ \A d \in Executor : WF_vars(ExecutorStep(d))
  /\ \A w \in Worker : WF_vars(WorkerStep(w))

------------------------------------------------------------------------------
(* Properties.                                                             *)

(* Where the work left for a call is held. *)
Holders(c) ==
  {<<"executor queue", e>> : e \in equeue \intersect {c}}
  \union {<<"executor", d>> : d \in {e \in Executor : ExecutorAt(e, "prepare") /\ executor[e].call = c}}
  \union {<<"task", t>> : t \in {u \in wqueue : u[1] = c}}
  \union {<<"worker", w>> : w \in {v \in Worker :
            worker[v].pc \in {"read", "run", "persist", "next"} /\ CallOf(v) = c}}

(* The work of a call is held in at most one place, through both queues,   *)
(* both daemons and every lost reply (executord.py:38, workerd.py:43).     *)
OneToken == \A c \in Call : Cardinality(Holders(c)) <= 1

(* Steps take effect once and in order, each on the persisted result of    *)
(* the step before (workerd.py:49-67).                                     *)
StepsOnceInOrder ==
  \A c \in Call, s \in Steps :
    /\ ran[c][s] <= 1
    /\ ran[c][s] = 1 /\ s > 1 => ran[c][s - 1] = 1 /\ <<c, s - 1>> \in results

(* As long as no Redis or SQLite call has raised, the daemons do what      *)
(* CallLifecycle promises, crashes or not (executord.py:36-50,             *)
(* workerd.py:41-97).                                                      *)
Phase == [c \in Call |->
  CASE c \notin arrived                      -> "absent"
    [] c \in arrived /\ c \notin answered    -> "pending"
    [] c \in answered /\ resp[c].failure     -> "failed"
    [] c \in answered /\ ~resp[c].failure    -> "completed"]
Lifecycle == INSTANCE CallLifecycle WITH phase <- Phase
ImplementsLifecycle ==
  /\ Lifecycle!Init
  /\ [][errors' = 0 => Lifecycle!Next \/ UNCHANGED Lifecycle!vars]_vars

(* Without crashes and errors every call is answered, failed steps and     *)
(* steps that cannot be prepared included (executord.py:36-50,             *)
(* workerd.py:41-97), but for one whose first step cannot be prepared:     *)
(* that one ends with a diagnostic and no answer (executord.py:51-55).     *)
Ended(c) == IF Preparable(c, 1) THEN c \in answered ELSE c \in diagnosed \ answered
EveryCallEnds ==
  [](crashes = 0 /\ errors = 0) => \A c \in Call : c \in arrived ~> Ended(c)
=============================================================================
