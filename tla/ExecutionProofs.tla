--------------------------- MODULE ExecutionProofs ---------------------------
(***************************************************************************)
(* Proofs about Execution, for any set of calls, daemons and any plan      *)
(* length, and any bound on crashes and errors: the types, that the work   *)
(* of a call is held in at most one place, that its steps take effect once *)
(* and in order, and that the queues implement CallLifecycle.              *)
(***************************************************************************)
EXTENDS Execution, FiniteSetTheorems, TLAPS

------------------------------------------------------------------------------
(* The inductive invariant, in named parts.                                *)

Executors == [pc: ExecutorLabels, batch: SUBSET Call, call: Call \union {NoCall}]
Workers   == [pc: WorkerLabels, batch: SUBSET Task, task: Task \union {NoTask}]

(* A daemon past its claim has a call, or a task, of the plan in hand.     *)
InHand ==
  /\ \A d \in Executor : ExecutorAt(d, "prepare") => executor[d].call \in Call
  /\ \A w \in Worker : worker[w].pc \notin {"idle", "loop"} => worker[w].task \in Task
  /\ \A w \in Worker : WorkerAt(w, "next") => StepOf(w) < NumSteps
  /\ \A w \in Worker : worker[w].pc \in {"respond", "record"} => StepOf(w) = NumSteps

(* The work of a call is with a worker until the next task is queued or    *)
(* the answer recorded; with one that fails, as long as nothing has raised *)
(* (a write that raised may have queued the next task).                    *)
Holding(w) ==
  \/ worker[w].pc \in {"read", "run", "persist", "next", "respond", "record"}
  \/ errors = 0 /\ worker[w].pc \in {"fail", "fail_record"}
Preparing(d, c) == ExecutorAt(d, "prepare") /\ executor[d].call = c

TokenInv ==
  /\ equeue \subseteq arrived
  /\ \A d \in Executor : ExecutorAt(d, "prepare") => executor[d].call \in arrived \ equeue
  /\ \A d, e \in Executor :
       ExecutorAt(d, "prepare") /\ Preparing(e, executor[d].call) => d = e
  /\ \A t \in wqueue : t[1] \in arrived \ equeue /\ \A d \in Executor : ~Preparing(d, t[1])
  /\ \A t, u \in wqueue : t[1] = u[1] => t = u
  /\ \A w \in Worker : Holding(w) =>
       /\ CallOf(w) \in arrived \ equeue
       /\ \A d \in Executor : ~Preparing(d, CallOf(w))
       /\ \A t \in wqueue : t[1] # CallOf(w)
  /\ \A w, v \in Worker : Holding(w) /\ Holding(v) /\ CallOf(w) = CallOf(v) => w = v

(* What has run of a call, where its work is. *)
RanBelow(r, t) == \A s \in Steps : r[t[1]][s] = IF s < t[2] THEN 1 ELSE 0
RanTo(r, t)    == \A s \in Steps : r[t[1]][s] = IF s <= t[2] THEN 1 ELSE 0
Fed(done, t)   == t[2] > 1 => <<t[1], t[2] - 1>> \in done

StepInv ==
  /\ \A c \in Call, s \in Steps : c \notin arrived \/ c \in equeue => ran[c][s] = 0
  /\ \A d \in Executor, s \in Steps : ExecutorAt(d, "prepare") => ran[executor[d].call][s] = 0
  /\ \A t \in wqueue : RanBelow(ran, t) /\ Fed(results, t)
  /\ \A w \in Worker : worker[w].pc \in {"read", "run"} =>
       RanBelow(ran, worker[w].task) /\ Fed(results, worker[w].task)
  /\ \A w \in Worker : WorkerAt(w, "persist") =>
       RanTo(ran, worker[w].task) /\ Fed(results, worker[w].task)
  /\ \A w \in Worker : WorkerAt(w, "next") =>
       RanTo(ran, worker[w].task) /\ worker[w].task \in results
  /\ \A w \in Worker : worker[w].pc \in {"respond", "record"} => RanTo(ran, worker[w].task)
  /\ StepsOnceInOrder

(* While nothing has raised, work in hand or in a queue is of calls that   *)
(* are not answered, and only a failing call has a failure stored.         *)
Open(c) == c \notin answered /\ ~resp[c].failure

LifeInv ==
  /\ answered \subseteq arrived
  /\ \A c \in Call : c \notin arrived => ~resp[c].failure
  /\ \A w \in Worker : worker[w].pc \notin {"idle", "loop"} => CallOf(w) \in arrived
  /\ errors = 0 =>
       /\ \A c \in equeue : Open(c)
       /\ \A d \in Executor : ExecutorAt(d, "prepare") => Open(executor[d].call)
       /\ \A t \in wqueue : Open(t[1])
       /\ \A w \in Worker : Holding(w) /\ ~WorkerAt(w, "fail_record") => Open(CallOf(w))
       /\ \A w \in Worker : WorkerAt(w, "fail_record") =>
            CallOf(w) \notin answered /\ resp[CallOf(w)].failure

------------------------------------------------------------------------------
(* Types.                                                                  *)

LEMMA FirstOf ==
  /\ \A S : FirstCalls(S) \subseteq S
  /\ \A S : FirstTasks(S) \subseteq S
BY DEF FirstCalls, FirstTasks

(* What the moves of a daemon do to it, and that they leave the others.    *)
LEMMA ExecutorMoves ==
  ASSUME executor \in [Executor -> Executors], NEW d \in Executor
  PROVE  /\ ExecutorContinues(d) =>
              /\ executor' \in [Executor -> Executors]
              /\ executor'[d].pc \in {"idle", "loop"}
              /\ \A e \in Executor : e # d => executor'[e] = executor[e]
         /\ \A r \in Executors : executor' = [executor EXCEPT ![d] = r] =>
              /\ executor' \in [Executor -> Executors]
              /\ executor'[d] = r
              /\ \A e \in Executor : e # d => executor'[e] = executor[e]
<1>1. ASSUME NEW r \in Executors, executor' = [executor EXCEPT ![d] = r]
      PROVE  /\ executor' \in [Executor -> Executors]
             /\ executor'[d] = r
             /\ \A e \in Executor : e # d => executor'[e] = executor[e]
  BY <1>1
<1>2. ASSUME ExecutorContinues(d)
      PROVE  /\ executor' \in [Executor -> Executors]
             /\ executor'[d].pc \in {"idle", "loop"}
             /\ \A e \in Executor : e # d => executor'[e] = executor[e]
  <2> DEFINE r == [executor[d] EXCEPT !.pc = IF executor[d].batch = {} THEN "idle" ELSE "loop",
                                      !.call = NoCall]
  <2>1. r \in Executors /\ r.pc \in {"idle", "loop"}
    BY DEF Executors, ExecutorLabels
  <2>2. executor' = [executor EXCEPT ![d] = r]
    BY <1>2 DEF ExecutorContinues
  <2> HIDE DEF r
  <2> QED
    BY <2>1, <2>2
<1> QED
  BY <1>1, <1>2

LEMMA WorkerMoves ==
  ASSUME worker \in [Worker -> Workers], NEW w \in Worker
  PROVE  /\ WorkerContinues(w) =>
              /\ worker' \in [Worker -> Workers]
              /\ worker'[w].pc \in {"idle", "loop"}
              /\ \A v \in Worker : v # w => worker'[v] = worker[v]
         /\ \A l \in WorkerLabels : WorkerGoto(w, l) =>
              /\ worker' \in [Worker -> Workers]
              /\ worker'[w].pc = l
              /\ worker'[w].task = worker[w].task
              /\ \A v \in Worker : v # w => worker'[v] = worker[v]
         /\ \A r \in Workers : worker' = [worker EXCEPT ![w] = r] =>
              /\ worker' \in [Worker -> Workers]
              /\ worker'[w] = r
              /\ \A v \in Worker : v # w => worker'[v] = worker[v]
<1>1. ASSUME WorkerContinues(w)
      PROVE  /\ worker' \in [Worker -> Workers]
             /\ worker'[w].pc \in {"idle", "loop"}
             /\ \A v \in Worker : v # w => worker'[v] = worker[v]
  <2> DEFINE r == [worker[w] EXCEPT !.pc = IF worker[w].batch = {} THEN "idle" ELSE "loop",
                                    !.task = NoTask]
  <2>1. r \in Workers /\ r.pc \in {"idle", "loop"}
    BY DEF Workers, WorkerLabels
  <2>2. worker' = [worker EXCEPT ![w] = r]
    BY <1>1 DEF WorkerContinues
  <2> HIDE DEF r
  <2> QED
    BY <2>1, <2>2
<1>2. ASSUME NEW l \in WorkerLabels, WorkerGoto(w, l)
      PROVE  /\ worker' \in [Worker -> Workers]
             /\ worker'[w].pc = l
             /\ worker'[w].task = worker[w].task
             /\ \A v \in Worker : v # w => worker'[v] = worker[v]
  BY <1>2 DEF WorkerGoto, Workers
<1> QED
  BY <1>1, <1>2

LEMMA InitTyped == Init => TypeOK /\ InHand
<1> SUFFICES ASSUME Init PROVE TypeOK /\ InHand
  OBVIOUS
<1>1. executor \in [Executor -> Executors] /\ worker \in [Worker -> Workers]
  BY DEF Init, Executors, Workers, IdleExecutor, IdleWorker, ExecutorLabels, WorkerLabels
<1>2. resp \in [Call -> Response] /\ ran \in [Call -> [Steps -> Nat]]
  BY DEF Init, Response
<1>3. crashes \in 0..MaxCrashes /\ errors \in 0..MaxErrors
  BY BoundsAssumption DEF Init
<1>4. InHand
  BY DEF Init, InHand, ExecutorAt, WorkerAt, IdleExecutor, IdleWorker
<1> QED
  BY <1>1, <1>2, <1>3, <1>4 DEF Init, TypeOK, Executors, Workers

(* The writes keep the types of what they write. *)
LEMMA WritesTyped ==
  ASSUME TypeOK
  PROVE  /\ \A t \in Task : PutTask(t) => wqueue' \subseteq Task
         /\ \A t \in Task : PutResult(t) => results' \subseteq Task
         /\ \A c \in Call : PutSuccess(c) => resp' \in [Call -> Response]
         /\ \A c \in Call : PutFailure(c) => resp' \in [Call -> Response]
         /\ \A c \in Call : PutAnswer(c) => answered' \subseteq Call
         /\ \A t \in Task : Effect(t) => ran' \in [Call -> [Steps -> Nat]]
<1> USE DEF TypeOK
<1>1. ASSUME NEW c \in Call, PutSuccess(c) PROVE resp' \in [Call -> Response]
  BY <1>1 DEF PutSuccess, Response
<1>2. ASSUME NEW c \in Call, PutFailure(c) PROVE resp' \in [Call -> Response]
  BY <1>2 DEF PutFailure, Response
<1>3. ASSUME NEW t \in Task, Effect(t) PROVE ran' \in [Call -> [Steps -> Nat]]
  BY <1>3 DEF Effect, Task
<1> QED
  BY <1>1, <1>2, <1>3 DEF PutTask, PutResult, PutAnswer

(* What a daemon holds is of the right kind. *)
LEMMA HeldTyped ==
  ASSUME TypeOK, InHand
  PROVE  /\ executor \in [Executor -> Executors]
         /\ worker \in [Worker -> Workers]
         /\ \A d \in Executor : ExecutorAt(d, "prepare") =>
              executor[d].call \in Call /\ <<executor[d].call, 1>> \in Task
         /\ \A w \in Worker : worker[w].pc \notin {"idle", "loop"} =>
              /\ worker[w].task \in Task
              /\ CallOf(w) \in Call /\ StepOf(w) \in Steps
              /\ worker[w].task = <<CallOf(w), StepOf(w)>>
         /\ \A w \in Worker : WorkerAt(w, "next") => <<CallOf(w), StepOf(w) + 1>> \in Task
<1>1. executor \in [Executor -> Executors] /\ worker \in [Worker -> Workers]
  BY DEF TypeOK, Executors, Workers
<1>2. \A d \in Executor : ExecutorAt(d, "prepare") =>
        executor[d].call \in Call /\ <<executor[d].call, 1>> \in Task
  BY StepsAssumption DEF InHand, Task, Steps
<1>3. \A w \in Worker : worker[w].pc \notin {"idle", "loop"} =>
        /\ worker[w].task \in Task
        /\ CallOf(w) \in Call /\ StepOf(w) \in Steps
        /\ worker[w].task = <<CallOf(w), StepOf(w)>>
  BY DEF InHand, Task, CallOf, StepOf
<1>4. ASSUME NEW w \in Worker, WorkerAt(w, "next")
      PROVE  <<CallOf(w), StepOf(w) + 1>> \in Task
  <2>1. CallOf(w) \in Call /\ StepOf(w) \in Steps /\ StepOf(w) < NumSteps
    BY <1>3, <1>4 DEF InHand, WorkerAt
  <2>2. StepOf(w) + 1 \in Steps
    BY <2>1, StepsAssumption DEF Steps
  <2> QED
    BY <2>1, <2>2 DEF Task
<1> QED
  BY <1>1, <1>2, <1>3, <1>4

(* Every action keeps the types. *)
LEMMA StepTyped == TypeOK /\ InHand /\ [Next]_vars => TypeOK' /\ InHand'
<1> SUFFICES ASSUME TypeOK, InHand, [Next]_vars PROVE TypeOK' /\ InHand'
  OBVIOUS
<1> USE DEF published, queues, answers, faults
<1>a. /\ executor \in [Executor -> Executors]
      /\ worker \in [Worker -> Workers]
      /\ equeue \subseteq Call /\ wqueue \subseteq Task
  BY HeldTyped DEF TypeOK
<1>b. /\ \A d \in Executor : executor[d].batch \subseteq Call
      /\ \A w \in Worker : worker[w].batch \subseteq Task
  BY <1>a DEF Executors, Workers
(* It is enough that the variables an action writes keep their types, and  *)
(* that the daemon that moves has what its label asks for.                 *)
<1>c. ASSUME NEW d \in Executor, executor' \in [Executor -> Executors],
             \A e \in Executor : e # d => executor'[e] = executor[e],
             executor'[d].pc = "prepare" => executor'[d].call \in Call,
             UNCHANGED worker
      PROVE  InHand'
  BY <1>c DEF InHand, ExecutorAt, WorkerAt, StepOf
<1>d. ASSUME NEW w \in Worker, worker' \in [Worker -> Workers],
             \A v \in Worker : v # w => worker'[v] = worker[v],
             worker'[w].pc \notin {"idle", "loop"} => worker'[w].task \in Task,
             worker'[w].pc = "next" => worker'[w].task[2] < NumSteps,
             worker'[w].pc \in {"respond", "record"} => worker'[w].task[2] = NumSteps,
             UNCHANGED executor
      PROVE  InHand'
  BY <1>d DEF InHand, ExecutorAt, WorkerAt, StepOf
<1>e. ASSUME NEW w \in Worker, WorkerContinues(w), UNCHANGED executor PROVE InHand'
  BY <1>a, <1>d, <1>e, WorkerMoves
<1>f. ASSUME NEW w \in Worker, NEW l \in {"run", "persist", "fail", "fail_record"},
             worker[w].pc \notin {"idle", "loop"}, WorkerGoto(w, l), UNCHANGED executor
      PROVE  InHand'
  <2>1. l \in WorkerLabels /\ worker[w].task \in Task
    BY <1>f DEF WorkerLabels, InHand
  <2> QED
    BY <1>a, <1>d, <1>f, <2>1, WorkerMoves
<1>1. ASSUME NEW c \in Call, Publish(c) PROVE TypeOK' /\ InHand'
  BY <1>1 DEF Publish, TypeOK, InHand, ExecutorAt, WorkerAt, StepOf
<1>2. ASSUME NEW d \in Executor, ExecutorPoll(d) PROVE TypeOK' /\ InHand'
  <2> DEFINE r == [pc |-> "loop", batch |-> FirstCalls(equeue), call |-> NoCall]
  <2>1. r \in Executors /\ r.pc = "loop"
    BY <1>a, FirstOf DEF Executors, ExecutorLabels
  <2>2. executor' = [executor EXCEPT ![d] = r]
    BY <1>2 DEF ExecutorPoll
  <2> HIDE DEF r
  <2>3. executor' \in [Executor -> Executors] /\ InHand'
    BY <1>2, <1>a, <1>c, <2>1, <2>2, ExecutorMoves DEF ExecutorPoll
  <2> QED
    BY <1>2, <2>3 DEF ExecutorPoll, TypeOK, Executors
<1>3. ASSUME NEW d \in Executor, ExecutorClaim(d) PROVE TypeOK' /\ InHand'
  <2>1. PICK c \in executor[d].batch : LET rest == executor[d].batch \ {c} IN
          IF c \in equeue
          THEN /\ equeue' = equeue \ {c}
               /\ executor' = [executor EXCEPT ![d] =
                    [pc |-> "prepare", batch |-> rest, call |-> c]]
          ELSE /\ executor' = [executor EXCEPT ![d] =
                    [pc |-> IF rest = {} THEN "idle" ELSE "loop", batch |-> rest, call |-> NoCall]]
               /\ UNCHANGED equeue
    BY <1>3 DEF ExecutorClaim
  <2>2. equeue' \subseteq Call
    BY <1>a, <2>1
  <2>3. PICK r \in Executors : executor' = [executor EXCEPT ![d] = r] /\ r.call \in Call \union {NoCall}
                               /\ (r.pc = "prepare" => r.call \in Call)
    <3> DEFINE q == [pc |-> "prepare", batch |-> executor[d].batch \ {c}, call |-> c]
               p == [pc |-> IF executor[d].batch \ {c} = {} THEN "idle" ELSE "loop",
                     batch |-> executor[d].batch \ {c}, call |-> NoCall]
    <3>1. q \in Executors /\ p \in Executors /\ q.call \in Call /\ p.pc # "prepare" /\ p.call = NoCall
      BY <1>b DEF Executors, ExecutorLabels
    <3>2. executor' = [executor EXCEPT ![d] = q] \/ executor' = [executor EXCEPT ![d] = p]
      BY <2>1
    <3> HIDE DEF p, q
    <3> QED
      BY <3>1, <3>2
  <2>4. executor' \in [Executor -> Executors] /\ InHand'
    BY <1>3, <1>a, <1>c, <2>3, ExecutorMoves DEF ExecutorClaim
  <2> QED
    BY <1>3, <2>2, <2>4 DEF ExecutorClaim, TypeOK, Executors
<1>4. ASSUME NEW d \in Executor, ExecutorPrepare(d) PROVE TypeOK' /\ InHand'
  <2>1. executor' \in [Executor -> Executors] /\ InHand'
    BY <1>4, <1>a, <1>c, ExecutorMoves DEF ExecutorPrepare
  <2>2. wqueue' \subseteq Task
    BY <1>4, HeldTyped, WritesTyped DEF ExecutorPrepare
  <2> QED
    BY <1>4, <2>1, <2>2 DEF ExecutorPrepare, TypeOK, Executors
<1>5. ASSUME NEW d \in Executor, ExecutorRaises(d) PROVE TypeOK' /\ InHand'
  <2>1. executor' \in [Executor -> Executors] /\ InHand'
    BY <1>5, <1>a, <1>c, ExecutorMoves DEF ExecutorRaises
  <2>2. wqueue' \subseteq Task /\ diagnosed' \subseteq Call
    BY <1>5, <1>a, HeldTyped, WritesTyped DEF ExecutorRaises, TypeOK
  <2>3. errors' \in 0..MaxErrors /\ crashes' \in 0..MaxCrashes
    BY <1>5, BoundsAssumption DEF ExecutorRaises, AnError, TypeOK
  <2> QED
    BY <1>5, <2>1, <2>2, <2>3 DEF ExecutorRaises, TypeOK, Executors
<1>6. ASSUME NEW w \in Worker, WorkerPoll(w) PROVE TypeOK' /\ InHand'
  <2> DEFINE r == [pc |-> "loop", batch |-> FirstTasks(wqueue), task |-> NoTask]
  <2>1. r \in Workers /\ r.pc = "loop"
    BY <1>a, FirstOf DEF Workers, WorkerLabels
  <2>2. worker' = [worker EXCEPT ![w] = r]
    BY <1>6 DEF WorkerPoll
  <2> HIDE DEF r
  <2>3. worker' \in [Worker -> Workers] /\ InHand'
    BY <1>6, <1>a, <1>d, <2>1, <2>2, WorkerMoves DEF WorkerPoll
  <2> QED
    BY <1>6, <2>3 DEF WorkerPoll, TypeOK, Workers
<1>7. ASSUME NEW w \in Worker, WorkerClaim(w) PROVE TypeOK' /\ InHand'
  <2>1. PICK t \in worker[w].batch : LET rest == worker[w].batch \ {t} IN
          IF t \in wqueue
          THEN /\ wqueue' = wqueue \ {t}
               /\ worker' = [worker EXCEPT ![w] = [pc |-> "read", batch |-> rest, task |-> t]]
          ELSE /\ worker' = [worker EXCEPT ![w] =
                    [pc |-> IF rest = {} THEN "idle" ELSE "loop", batch |-> rest, task |-> NoTask]]
               /\ UNCHANGED wqueue
    BY <1>7 DEF WorkerClaim
  <2>2. wqueue' \subseteq Task
    BY <1>a, <2>1
  <2>3. PICK r \in Workers : /\ worker' = [worker EXCEPT ![w] = r]
                             /\ r.pc \in {"idle", "loop"} \/ (r.pc = "read" /\ r.task \in Task)
    <3> DEFINE q == [pc |-> "read", batch |-> worker[w].batch \ {t}, task |-> t]
               p == [pc |-> IF worker[w].batch \ {t} = {} THEN "idle" ELSE "loop",
                     batch |-> worker[w].batch \ {t}, task |-> NoTask]
    <3>1. q \in Workers /\ p \in Workers /\ q.task \in Task /\ q.pc = "read" /\ p.pc \in {"idle", "loop"}
      BY <1>b DEF Workers, WorkerLabels
    <3>2. worker' = [worker EXCEPT ![w] = q] \/ worker' = [worker EXCEPT ![w] = p]
      BY <2>1
    <3> HIDE DEF p, q
    <3> QED
      BY <3>1, <3>2
  <2>4. worker' \in [Worker -> Workers] /\ InHand'
    BY <1>7, <1>a, <1>d, <2>3, WorkerMoves DEF WorkerClaim
  <2> QED
    BY <1>7, <2>2, <2>4 DEF WorkerClaim, TypeOK, Workers
<1>8. ASSUME NEW w \in Worker, WorkerRead(w) PROVE TypeOK' /\ InHand'
  <2>1. worker' \in [Worker -> Workers] /\ InHand'
    BY <1>8, <1>a, <1>f, WorkerMoves DEF WorkerRead, WorkerAt, WorkerLabels
  <2> QED
    BY <1>8, <2>1 DEF WorkerRead, TypeOK, Workers
<1>9. ASSUME NEW w \in Worker, WorkerReadRaises(w) PROVE TypeOK' /\ InHand'
  <2>1. worker' \in [Worker -> Workers] /\ InHand'
    BY <1>9, <1>a, <1>e, WorkerMoves DEF WorkerReadRaises
  <2>2. errors' \in 0..MaxErrors /\ crashes' \in 0..MaxCrashes
    BY <1>9, BoundsAssumption DEF WorkerReadRaises, AnError, TypeOK
  <2> QED
    BY <1>9, <2>1, <2>2 DEF WorkerReadRaises, TypeOK, Workers
<1>10. ASSUME NEW w \in Worker, WorkerRun(w) \/ WorkerRunFails(w) PROVE TypeOK' /\ InHand'
  <2>1. worker' \in [Worker -> Workers] /\ InHand'
    BY <1>10, <1>a, <1>f, WorkerMoves DEF WorkerRun, WorkerRunFails, WorkerAt, WorkerLabels
  <2>2. ran' \in [Call -> [Steps -> Nat]]
    BY <1>10, HeldTyped, WritesTyped DEF WorkerRun, WorkerRunFails, WorkerAt, TypeOK
  <2> QED
    BY <1>10, <2>1, <2>2 DEF WorkerRun, WorkerRunFails, TypeOK, Workers
<1>11. ASSUME NEW w \in Worker, WorkerPersist(w) PROVE TypeOK' /\ InHand'
  <2> DEFINE l == IF StepOf(w) < NumSteps THEN "next" ELSE "respond"
  <2>1. l \in WorkerLabels /\ worker[w].task \in Task /\ StepOf(w) \in Steps
    BY <1>11, HeldTyped DEF WorkerLabels, WorkerPersist, WorkerAt
  <2>2. StepOf(w) < NumSteps \/ (StepOf(w) = NumSteps /\ ~(StepOf(w) < NumSteps))
    BY <2>1, StepsAssumption DEF Steps
  <2>3. /\ WorkerGoto(w, l)
        /\ (StepOf(w) < NumSteps /\ l = "next") \/ (StepOf(w) = NumSteps /\ l = "respond")
    BY <1>11, <2>2 DEF WorkerPersist
  <2> HIDE DEF l
  <2>4. worker' \in [Worker -> Workers] /\ InHand'
    BY <1>11, <1>a, <1>d, <2>1, <2>3, WorkerMoves DEF WorkerPersist, StepOf
  <2>5. results' \subseteq Task
    BY <1>11, <2>1, WritesTyped DEF WorkerPersist
  <2> QED
    BY <1>11, <2>4, <2>5 DEF WorkerPersist, TypeOK, Workers
<1>12. ASSUME NEW w \in Worker, WorkerNext(w) PROVE TypeOK' /\ InHand'
  <2>1. worker' \in [Worker -> Workers] /\ InHand'
    BY <1>12, <1>a, <1>e, WorkerMoves DEF WorkerNext
  <2>2. wqueue' \subseteq Task
    BY <1>12, HeldTyped, WritesTyped DEF WorkerNext
  <2> QED
    BY <1>12, <2>1, <2>2 DEF WorkerNext, TypeOK, Workers
<1>13. ASSUME NEW w \in Worker, WorkerRespond(w) PROVE TypeOK' /\ InHand'
  <2>1. CallOf(w) \in Call /\ worker[w].task \in Task /\ worker[w].task[2] = NumSteps
    BY <1>13, HeldTyped DEF InHand, WorkerRespond, WorkerAt, StepOf
  <2>2. worker' \in [Worker -> Workers] /\ InHand'
    BY <1>13, <1>a, <1>d, <2>1, WorkerMoves DEF WorkerRespond, WorkerLabels
  <2>3. resp' \in [Call -> Response]
    BY <1>13, <2>1, WritesTyped DEF WorkerRespond
  <2> QED
    BY <1>13, <2>2, <2>3 DEF WorkerRespond, TypeOK, Workers
<1>14. ASSUME NEW w \in Worker, WorkerRecord(w) \/ WorkerFailRecord(w) PROVE TypeOK' /\ InHand'
  <2>1. worker' \in [Worker -> Workers] /\ InHand'
    BY <1>14, <1>a, <1>e, WorkerMoves DEF WorkerRecord, WorkerFailRecord
  <2>2. answered' \subseteq Call
    BY <1>14, HeldTyped, WritesTyped DEF WorkerRecord, WorkerFailRecord, WorkerAt
  <2> QED
    BY <1>14, <2>1, <2>2 DEF WorkerRecord, WorkerFailRecord, TypeOK, Workers
<1>15. ASSUME NEW w \in Worker, WorkerRaises(w) PROVE TypeOK' /\ InHand'
  <2>1. worker[w].pc \in {"persist", "next", "respond", "record"} /\ WorkerGoto(w, "fail")
    BY <1>15 DEF WorkerRaises, WorkerAt
  <2>2. worker' \in [Worker -> Workers] /\ InHand'
    BY <1>15, <1>a, <1>f, <2>1, WorkerMoves DEF WorkerRaises, WorkerLabels
  <2>3. results' \subseteq Task /\ wqueue' \subseteq Task /\ answered' \subseteq Call
    BY <1>15, <2>1, HeldTyped, WritesTyped DEF WorkerRaises, TypeOK
  <2>4. resp' \in [Call -> Response]
    BY <1>15, <2>1, HeldTyped, WritesTyped DEF WorkerRaises, TypeOK
  <2>5. errors' \in 0..MaxErrors /\ crashes' \in 0..MaxCrashes
    BY <1>15, BoundsAssumption DEF WorkerRaises, AnError, TypeOK
  <2> QED
    BY <1>15, <2>2, <2>3, <2>4, <2>5 DEF WorkerRaises, TypeOK, Workers
<1>r. ASSUME NEW d \in Executor, ExecutorRefuses(d) PROVE TypeOK' /\ InHand'
  <2>1. executor' \in [Executor -> Executors] /\ InHand'
    BY <1>r, <1>a, <1>c, ExecutorMoves DEF ExecutorRefuses
  <2>2. diagnosed' \subseteq Call
    BY <1>r, HeldTyped DEF ExecutorRefuses, TypeOK
  <2> QED
    BY <1>r, <2>1, <2>2 DEF ExecutorRefuses, TypeOK, Executors
<1>s. ASSUME NEW w \in Worker, WorkerRefuses(w) PROVE TypeOK' /\ InHand'
  <2>1. worker' \in [Worker -> Workers] /\ InHand'
    BY <1>s, <1>a, <1>f, WorkerMoves DEF WorkerRefuses, WorkerLabels, WorkerAt
  <2> QED
    BY <1>s, <2>1 DEF WorkerRefuses, TypeOK, Workers
<1>16. ASSUME NEW w \in Worker, WorkerFail(w) PROVE TypeOK' /\ InHand'
  <2>1. worker' \in [Worker -> Workers] /\ InHand'
    BY <1>16, <1>a, <1>f, WorkerMoves DEF WorkerFail, WorkerLabels, WorkerAt
  <2>2. resp' \in [Call -> Response]
    BY <1>16, HeldTyped, WritesTyped DEF WorkerFail, WorkerAt
  <2> QED
    BY <1>16, <2>1, <2>2 DEF WorkerFail, TypeOK, Workers
<1>17. ASSUME NEW d \in Executor, ExecutorCrash(d) PROVE TypeOK' /\ InHand'
  <2>1. IdleExecutor \in Executors /\ IdleExecutor.pc = "idle"
    BY DEF IdleExecutor, Executors, ExecutorLabels
  <2>2. executor' \in [Executor -> Executors] /\ InHand'
    BY <1>17, <1>a, <1>c, <2>1, ExecutorMoves DEF ExecutorCrash
  <2>3. crashes' \in 0..MaxCrashes /\ errors' \in 0..MaxErrors
    BY <1>17, BoundsAssumption DEF ExecutorCrash, Stops, TypeOK
  <2> QED
    BY <1>17, <2>2, <2>3 DEF ExecutorCrash, TypeOK, Executors
<1>18. ASSUME NEW w \in Worker, WorkerCrash(w) PROVE TypeOK' /\ InHand'
  <2>1. IdleWorker \in Workers /\ IdleWorker.pc = "idle"
    BY DEF IdleWorker, Workers, WorkerLabels
  <2>2. worker' \in [Worker -> Workers] /\ InHand'
    BY <1>18, <1>a, <1>d, <2>1, WorkerMoves DEF WorkerCrash
  <2>3. crashes' \in 0..MaxCrashes /\ errors' \in 0..MaxErrors
    BY <1>18, BoundsAssumption DEF WorkerCrash, Stops, TypeOK
  <2> QED
    BY <1>18, <2>2, <2>3 DEF WorkerCrash, TypeOK, Workers
<1>19. CASE UNCHANGED vars
  BY <1>19 DEF vars, TypeOK, InHand, ExecutorAt, WorkerAt, StepOf
<1> QED
  BY <1>1, <1>2, <1>3, <1>4, <1>5, <1>6, <1>7, <1>8, <1>9, <1>10, <1>11, <1>12, <1>13, <1>14,
     <1>r, <1>s, <1>15, <1>16, <1>17, <1>18, <1>19 DEF Next, ExecutorStep, WorkerStep

(* Every variable keeps its type in every behaviour: no daemon goes on     *)
(* with a call or a task it has not claimed.                               *)
THEOREM TypeCorrect == Spec => []TypeOK
<1>1. Spec => [](TypeOK /\ InHand)
  BY InitTyped, StepTyped, PTL DEF Spec
<1> QED
  BY <1>1, PTL

------------------------------------------------------------------------------
(* The token of a call.                                                    *)

(* A step after which no work is anywhere it was not before. *)
Drops ==
  /\ arrived \subseteq arrived'
  /\ equeue' \subseteq equeue
  /\ wqueue' \subseteq wqueue
  /\ \A d \in Executor : ExecutorAt(d, "prepare")' =>
       ExecutorAt(d, "prepare") /\ executor'[d].call = executor[d].call
  /\ \A w \in Worker : Holding(w)' => Holding(w) /\ worker'[w].task = worker[w].task

LEMMA DropsKeepsToken == TokenInv /\ Drops => TokenInv'
BY DEF TokenInv, Drops, Preparing, ExecutorAt, CallOf

LEMMA InitToken == Init => TokenInv
BY DEF Init, TokenInv, Preparing, ExecutorAt, Holding, IdleExecutor, IdleWorker

(* The moves of one daemon, seen by the token. *)
LEMMA ExecutorDrops ==
  ASSUME TypeOK, arrived' = arrived, equeue' \subseteq equeue, wqueue' \subseteq wqueue,
         errors' = 0 => errors = 0, UNCHANGED worker,
         NEW d \in Executor, executor'[d].pc # "prepare",
         \A e \in Executor : e # d => executor'[e] = executor[e]
  PROVE  Drops
BY DEF Drops, ExecutorAt, Holding

LEMMA WorkerDrops ==
  ASSUME TypeOK, arrived' = arrived, equeue' \subseteq equeue, wqueue' \subseteq wqueue,
         errors' = 0 => errors = 0, UNCHANGED executor,
         NEW w \in Worker, Holding(w)' => Holding(w) /\ worker'[w].task = worker[w].task,
         \A v \in Worker : v # w => worker'[v] = worker[v]
  PROVE  Drops
BY DEF Drops, ExecutorAt, Holding

(* A daemon that takes a member off a queue, one that puts one there. *)
LEMMA ClaimKeepsToken ==
  ASSUME TypeOK, InHand, TokenInv, NEW d \in Executor, ExecutorClaim(d)
  PROVE  TokenInv'
<1>a. executor \in [Executor -> Executors]
  BY HeldTyped
<1>1. PICK c \in executor[d].batch : LET rest == executor[d].batch \ {c} IN
        IF c \in equeue
        THEN /\ equeue' = equeue \ {c}
             /\ executor' = [executor EXCEPT ![d] =
                  [pc |-> "prepare", batch |-> rest, call |-> c]]
        ELSE /\ executor' = [executor EXCEPT ![d] =
                  [pc |-> IF rest = {} THEN "idle" ELSE "loop", batch |-> rest, call |-> NoCall]]
             /\ UNCHANGED equeue
  BY DEF ExecutorClaim
<1>2. /\ arrived' = arrived /\ wqueue' = wqueue /\ worker' = worker /\ errors' = errors
      /\ \A e \in Executor : e # d => executor'[e] = executor[e]
  BY <1>a, <1>1 DEF ExecutorClaim, published, faults
<1>3. CASE c \in equeue
  <2>1. equeue' = equeue \ {c} /\ executor'[d].pc = "prepare" /\ executor'[d].call = c
    BY <1>a, <1>1, <1>3
  <2>2. \A w \in Worker : Holding(w)' <=> Holding(w)
    BY <1>2 DEF Holding
  <2> QED
    BY <1>2, <1>3, <2>1, <2>2 DEF TokenInv, Preparing, ExecutorAt, CallOf
<1>4. CASE c \notin equeue
  <2>1. executor'[d].pc # "prepare" /\ equeue' = equeue
    BY <1>a, <1>1, <1>4
  <2>2. Drops
    BY <1>2, <2>1, ExecutorDrops
  <2> QED
    BY <2>2, DropsKeepsToken
<1> QED
  BY <1>3, <1>4

LEMMA PrepareKeepsToken ==
  ASSUME TypeOK, InHand, TokenInv, NEW d \in Executor, ExecutorAt(d, "prepare"),
         ExecutorContinues(d), PutTask(<<executor[d].call, 1>>),
         UNCHANGED <<arrived, equeue, worker>>, errors' = 0 => errors = 0
  PROVE  TokenInv'
<1>1. /\ executor'[d].pc # "prepare"
      /\ \A e \in Executor : e # d => executor'[e] = executor[e]
  BY HeldTyped, ExecutorMoves
<1>2. wqueue' = wqueue \union {<<executor[d].call, 1>>}
  BY DEF PutTask
<1>3. \A w \in Worker : Holding(w)' => Holding(w)
  BY DEF Holding
<1> QED
  BY <1>1, <1>2, <1>3 DEF TokenInv, Preparing, ExecutorAt, CallOf

LEMMA TakeKeepsToken ==
  ASSUME TypeOK, InHand, TokenInv, NEW w \in Worker, WorkerClaim(w)
  PROVE  TokenInv'
<1>a. worker \in [Worker -> Workers]
  BY HeldTyped
<1>1. PICK t \in worker[w].batch : LET rest == worker[w].batch \ {t} IN
        IF t \in wqueue
        THEN /\ wqueue' = wqueue \ {t}
             /\ worker' = [worker EXCEPT ![w] = [pc |-> "read", batch |-> rest, task |-> t]]
        ELSE /\ worker' = [worker EXCEPT ![w] =
                  [pc |-> IF rest = {} THEN "idle" ELSE "loop", batch |-> rest, task |-> NoTask]]
             /\ UNCHANGED wqueue
  BY DEF WorkerClaim
<1>2. /\ arrived' = arrived /\ equeue' = equeue /\ executor' = executor /\ errors' = errors
      /\ \A v \in Worker : v # w => worker'[v] = worker[v]
  BY <1>a, <1>1 DEF WorkerClaim, published, faults
<1>3. CASE t \in wqueue
  <2>1. wqueue' = wqueue \ {t} /\ worker'[w].pc = "read" /\ worker'[w].task = t
    BY <1>a, <1>1, <1>3
  <2>2. \A v \in Worker : v # w => (Holding(v)' <=> Holding(v))
    BY <1>2 DEF Holding
  <2> QED
    BY <1>2, <1>3, <2>1, <2>2 DEF TokenInv, Preparing, ExecutorAt, CallOf
<1>4. CASE t \notin wqueue
  <2>1. worker'[w].pc \in {"idle", "loop"} /\ wqueue' = wqueue
    BY <1>a, <1>1, <1>4
  <2>2. Drops
    BY <1>2, <2>1, WorkerDrops DEF Holding
  <2> QED
    BY <2>2, DropsKeepsToken
<1> QED
  BY <1>3, <1>4

LEMMA HandOnKeepsToken ==
  ASSUME TypeOK, InHand, TokenInv, NEW w \in Worker, WorkerAt(w, "next"),
         PutTask(<<CallOf(w), StepOf(w) + 1>>), ~Holding(w)',
         \A v \in Worker : v # w => worker'[v] = worker[v],
         UNCHANGED <<arrived, equeue, executor>>, errors' = 0 => errors = 0
  PROVE  TokenInv'
<1>1. wqueue' = wqueue \union {<<CallOf(w), StepOf(w) + 1>>}
  BY DEF PutTask
<1>2. \A v \in Worker : Holding(v)' => v # w /\ Holding(v)
  BY DEF Holding
<1>3. Holding(w)
  BY DEF Holding, WorkerAt
<1> QED
  BY <1>1, <1>2, <1>3 DEF TokenInv, Preparing, ExecutorAt, CallOf

LEMMA StepToken == TypeOK /\ InHand /\ TokenInv /\ [Next]_vars => TokenInv'
<1> SUFFICES ASSUME TypeOK, InHand, TokenInv, [Next]_vars PROVE TokenInv'
  OBVIOUS
<1> USE DEF published, queues, answers, faults
<1>a. executor \in [Executor -> Executors] /\ worker \in [Worker -> Workers] /\ errors \in Nat
  BY HeldTyped DEF TypeOK
<1>b. ASSUME NEW w \in Worker, WorkerContinues(w), UNCHANGED <<arrived, queues, executor>>,
             errors' = 0 => errors = 0
      PROVE  TokenInv'
  BY <1>a, <1>b, WorkerMoves, WorkerDrops, DropsKeepsToken DEF Holding
<1>c. ASSUME NEW w \in Worker, NEW l \in WorkerLabels, WorkerGoto(w, l), Holding(w)' => Holding(w),
             UNCHANGED <<arrived, queues, executor>>, errors' = 0 => errors = 0
      PROVE  TokenInv'
  BY <1>a, <1>c, WorkerMoves, WorkerDrops, DropsKeepsToken
<1>1. ASSUME NEW c \in Call, Publish(c) PROVE TokenInv'
  BY <1>1 DEF Publish, TokenInv, Preparing, ExecutorAt, CallOf, Holding
<1>2. ASSUME NEW d \in Executor, ExecutorPoll(d) PROVE TokenInv'
  <2>1. /\ executor'[d].pc = "loop"
        /\ \A e \in Executor : e # d => executor'[e] = executor[e]
    BY <1>2, <1>a DEF ExecutorPoll
  <2> QED
    BY <1>2, <2>1, ExecutorDrops, DropsKeepsToken DEF ExecutorPoll
<1>3. ASSUME NEW d \in Executor, ExecutorClaim(d) PROVE TokenInv'
  BY <1>3, ClaimKeepsToken
<1>4. ASSUME NEW d \in Executor, ExecutorPrepare(d) PROVE TokenInv'
  BY <1>4, PrepareKeepsToken DEF ExecutorPrepare
<1>5. ASSUME NEW d \in Executor, ExecutorRaises(d) PROVE TokenInv'
  <2>1. errors' # 0
    BY <1>5, <1>a DEF ExecutorRaises, AnError
  <2>2. CASE PutTask(<<executor[d].call, 1>>)
    BY <1>5, <2>1, <2>2, PrepareKeepsToken DEF ExecutorRaises
  <2>3. CASE UNCHANGED wqueue
    BY <1>5, <1>a, <2>1, <2>3, ExecutorMoves, ExecutorDrops, DropsKeepsToken DEF ExecutorRaises
  <2> QED
    BY <1>5, <2>2, <2>3 DEF ExecutorRaises
<1>6. ASSUME NEW w \in Worker, WorkerPoll(w) PROVE TokenInv'
  <2>1. /\ worker'[w].pc = "loop"
        /\ \A v \in Worker : v # w => worker'[v] = worker[v]
    BY <1>6, <1>a DEF WorkerPoll
  <2> QED
    BY <1>6, <2>1, WorkerDrops, DropsKeepsToken DEF WorkerPoll, Holding
<1>7. ASSUME NEW w \in Worker, WorkerClaim(w) PROVE TokenInv'
  BY <1>7, TakeKeepsToken
<1>8. ASSUME NEW w \in Worker, WorkerRead(w) \/ WorkerRun(w) PROVE TokenInv'
  BY <1>8, <1>c DEF WorkerRead, WorkerRun, Holding, WorkerAt, WorkerLabels
<1>9. ASSUME NEW w \in Worker, WorkerReadRaises(w) PROVE TokenInv'
  BY <1>9, <1>a, <1>b DEF WorkerReadRaises, AnError
<1>10. ASSUME NEW w \in Worker, WorkerRunFails(w) PROVE TokenInv'
  BY <1>10, <1>c DEF WorkerRunFails, Holding, WorkerAt, WorkerLabels
<1>11. ASSUME NEW w \in Worker, WorkerPersist(w) PROVE TokenInv'
  BY <1>11, <1>c DEF WorkerPersist, Holding, WorkerAt, WorkerLabels
<1>12. ASSUME NEW w \in Worker, WorkerNext(w) PROVE TokenInv'
  BY <1>12, <1>a, WorkerMoves, HandOnKeepsToken DEF WorkerNext, Holding
<1>13. ASSUME NEW w \in Worker, WorkerRespond(w) PROVE TokenInv'
  BY <1>13, <1>c DEF WorkerRespond, Holding, WorkerAt, WorkerLabels
<1>14. ASSUME NEW w \in Worker, WorkerRecord(w) \/ WorkerFailRecord(w) PROVE TokenInv'
  BY <1>14, <1>b DEF WorkerRecord, WorkerFailRecord
<1>15. ASSUME NEW w \in Worker, WorkerRaises(w) PROVE TokenInv'
  <2>1. errors' # 0 /\ WorkerGoto(w, "fail") /\ "fail" \in WorkerLabels
    BY <1>15, <1>a DEF WorkerRaises, AnError, WorkerLabels
  <2>2. /\ ~Holding(w)'
        /\ \A v \in Worker : v # w => worker'[v] = worker[v]
    BY <2>1, <1>a, WorkerMoves DEF Holding
  <2>3. CASE UNCHANGED wqueue
    BY <1>15, <2>1, <2>3, <1>c, <2>2 DEF WorkerRaises
  <2>4. CASE WorkerAt(w, "next") /\ PutTask(<<CallOf(w), StepOf(w) + 1>>)
    BY <1>15, <2>1, <2>2, <2>4, HandOnKeepsToken DEF WorkerRaises
  <2> QED
    BY <1>15, <2>3, <2>4 DEF WorkerRaises
<1>r. ASSUME NEW d \in Executor, ExecutorRefuses(d) PROVE TokenInv'
  BY <1>r, <1>a, ExecutorMoves, ExecutorDrops, DropsKeepsToken DEF ExecutorRefuses
<1>s. ASSUME NEW w \in Worker, WorkerRefuses(w) PROVE TokenInv'
  BY <1>s, <1>c DEF WorkerRefuses, Holding, WorkerAt, WorkerLabels
<1>16. ASSUME NEW w \in Worker, WorkerFail(w) PROVE TokenInv'
  <2>1. errors' = errors /\ (Holding(w)' => Holding(w))
    BY <1>16, <1>a, WorkerMoves DEF WorkerFail, Holding, WorkerAt, WorkerLabels
  <2> QED
    BY <1>16, <1>c, <2>1 DEF WorkerFail, WorkerLabels
<1>17. ASSUME NEW d \in Executor, ExecutorCrash(d) PROVE TokenInv'
  <2>1. /\ executor'[d].pc = "idle"
        /\ \A e \in Executor : e # d => executor'[e] = executor[e]
    BY <1>17, <1>a DEF ExecutorCrash, IdleExecutor
  <2> QED
    BY <1>17, <2>1, ExecutorDrops, DropsKeepsToken DEF ExecutorCrash, Stops
<1>18. ASSUME NEW w \in Worker, WorkerCrash(w) PROVE TokenInv'
  <2>1. /\ worker'[w].pc = "idle"
        /\ \A v \in Worker : v # w => worker'[v] = worker[v]
    BY <1>18, <1>a DEF WorkerCrash, IdleWorker
  <2> QED
    BY <1>18, <2>1, WorkerDrops, DropsKeepsToken DEF WorkerCrash, Stops, Holding
<1>19. CASE UNCHANGED vars
  BY <1>19 DEF vars, TokenInv, Preparing, ExecutorAt, CallOf, Holding
<1> QED
  BY <1>1, <1>2, <1>3, <1>4, <1>5, <1>6, <1>7, <1>8, <1>9, <1>10, <1>11, <1>12, <1>13, <1>14,
     <1>r, <1>s, <1>15, <1>16, <1>17, <1>18, <1>19 DEF Next, ExecutorStep, WorkerStep

(* The work of a call is held in at most one place: TokenInv is what makes *)
(* it inductive, that each way of holding it excludes the others.          *)
THEOREM HeldOnce == Spec => []OneToken
<1>1. TokenInv => OneToken
  <2> SUFFICES ASSUME TokenInv, NEW c \in Call PROVE Cardinality(Holders(c)) <= 1
    BY DEF OneToken
  <2> DEFINE InQueue(x)  == x = <<"executor queue", c>> /\ c \in equeue
             InTask(x)   == \E t \in wqueue : x = <<"task", t>> /\ t[1] = c
             AtExec(x)   == \E d \in Executor : x = <<"executor", d>> /\ Preparing(d, c)
             AtWorker(x) == \E w \in Worker : x = <<"worker", w>> /\ Holding(w) /\ CallOf(w) = c
  <2>a. \A x \in Holders(c) : InQueue(x) \/ InTask(x) \/ AtExec(x) \/ AtWorker(x)
    BY DEF Holders, Preparing, Holding
  <2>b. \A x, y : InQueue(x) /\ (InQueue(y) \/ InTask(y) \/ AtExec(y) \/ AtWorker(y)) => x = y
    BY DEF TokenInv, Preparing
  <2>c. \A x, y : InTask(x) /\ (InTask(y) \/ AtExec(y) \/ AtWorker(y)) => x = y
    BY DEF TokenInv
  <2>d. \A x, y : AtExec(x) /\ (AtExec(y) \/ AtWorker(y)) => x = y
    BY DEF TokenInv, Preparing
  <2>e. \A x, y : AtWorker(x) /\ AtWorker(y) => x = y
    BY DEF TokenInv
  <2> HIDE DEF InQueue, InTask, AtExec, AtWorker
  <2>1. \A x, y \in Holders(c) : x = y
    BY <2>a, <2>b, <2>c, <2>d, <2>e
  <2>2. CASE Holders(c) = {}
    BY <2>2, FS_EmptySet
  <2>3. ASSUME NEW x \in Holders(c) PROVE Cardinality(Holders(c)) <= 1
    <3>1. Holders(c) = {x}
      BY <2>1
    <3>2. Cardinality({x}) = 1
      BY FS_Singleton
    <3> QED
      BY <3>1, <3>2
  <2> QED
    BY <2>2, <2>3
<1>2. Spec => [](TypeOK /\ InHand /\ TokenInv)
  BY InitTyped, InitToken, StepTyped, StepToken, PTL DEF Spec
<1> QED
  BY <1>1, <1>2, PTL

------------------------------------------------------------------------------
(* The steps of a call.                                                    *)

(* A step in which nothing runs and work stays where it is or is dropped.  *)
Stays(w, L) == worker'[w].pc \in L => worker[w].pc \in L /\ worker'[w].task = worker[w].task

NoneRuns ==
  /\ ran' = ran
  /\ results \subseteq results'
  /\ arrived \subseteq arrived'
  /\ equeue' \subseteq equeue
  /\ wqueue' \subseteq wqueue
  /\ \A d \in Executor : ExecutorAt(d, "prepare")' =>
       ExecutorAt(d, "prepare") /\ executor'[d].call = executor[d].call
  /\ \A w \in Worker :
       Stays(w, {"read", "run"}) /\ Stays(w, {"persist"}) /\ Stays(w, {"next"})
       /\ Stays(w, {"respond", "record"})

LEMMA NoneRunsKeepsSteps == StepInv /\ NoneRuns => StepInv'
<1> SUFFICES ASSUME StepInv, NoneRuns PROVE StepInv'
  OBVIOUS
<1> USE DEF NoneRuns
<1>1. \A t : Fed(results, t) => Fed(results', t)
  BY DEF Fed
<1>2. \A w \in Worker : worker'[w].pc \in {"read", "run"} =>
        RanBelow(ran', worker'[w].task) /\ Fed(results', worker'[w].task)
  BY <1>1 DEF StepInv, Stays
<1>3. \A w \in Worker : worker'[w].pc = "persist" =>
        RanTo(ran', worker'[w].task) /\ Fed(results', worker'[w].task)
  BY <1>1 DEF StepInv, Stays, WorkerAt
<1>4. \A w \in Worker : worker'[w].pc = "next" =>
        RanTo(ran', worker'[w].task) /\ worker'[w].task \in results'
  BY <1>1 DEF StepInv, Stays, WorkerAt
<1>5. \A w \in Worker : worker'[w].pc \in {"respond", "record"} => RanTo(ran', worker'[w].task)
  BY <1>1 DEF StepInv, Stays
<1>6. StepsOnceInOrder'
  BY DEF StepInv, StepsOnceInOrder
<1>7. \A t \in wqueue' : RanBelow(ran', t) /\ Fed(results', t)
  BY <1>1 DEF StepInv
<1>8. /\ \A c \in Call, s \in Steps : c \notin arrived' \/ c \in equeue' => ran'[c][s] = 0
      /\ \A d \in Executor, s \in Steps : ExecutorAt(d, "prepare")' => ran'[executor'[d].call][s] = 0
  BY DEF StepInv
<1> QED
  BY <1>2, <1>3, <1>4, <1>5, <1>6, <1>7, <1>8 DEF StepInv, WorkerAt, ExecutorAt

LEMMA InitSteps == Init => StepInv
BY DEF Init, StepInv, ExecutorAt, WorkerAt, IdleExecutor, IdleWorker, StepsOnceInOrder

(* The moves of one daemon that runs nothing. *)
LEMMA ExecutorRunsNone ==
  ASSUME TypeOK, ran' = ran, results' = results, arrived' = arrived,
         equeue' \subseteq equeue, wqueue' \subseteq wqueue, UNCHANGED worker,
         NEW d \in Executor, executor'[d].pc # "prepare",
         \A e \in Executor : e # d => executor'[e] = executor[e]
  PROVE  NoneRuns
BY DEF NoneRuns, ExecutorAt, Stays

LEMMA WorkerRunsNone ==
  ASSUME TypeOK, ran' = ran, results \subseteq results', arrived' = arrived,
         equeue' \subseteq equeue, wqueue' \subseteq wqueue, UNCHANGED executor,
         NEW w \in Worker, \A v \in Worker : v # w => worker'[v] = worker[v],
         Stays(w, {"read", "run"}), Stays(w, {"persist"}), Stays(w, {"next"}),
         Stays(w, {"respond", "record"})
  PROVE  NoneRuns
BY DEF NoneRuns, ExecutorAt, Stays

(* One more effect. *)
LEMMA EffectRuns ==
  ASSUME TypeOK, NEW t \in Task, Effect(t)
  PROVE  /\ \A c \in Call : c # t[1] => ran'[c] = ran[c]
         /\ \A s \in Steps : ran'[t[1]][s] = IF s = t[2] THEN ran[t[1]][s] + 1 ELSE ran[t[1]][s]
         /\ RanBelow(ran, t) => RanTo(ran', t)
<1>1. t[1] \in Call /\ t[2] \in Steps
  BY DEF Task
<1>2. \A c \in Call : c # t[1] => ran'[c] = ran[c]
  BY <1>1 DEF Effect, TypeOK
<1>3. \A s \in Steps : ran'[t[1]][s] = IF s = t[2] THEN ran[t[1]][s] + 1 ELSE ran[t[1]][s]
  BY <1>1 DEF Effect, TypeOK
<1>4. ASSUME RanBelow(ran, t) PROVE RanTo(ran', t)
  BY <1>1, <1>3, <1>4 DEF RanBelow, RanTo, Steps
<1> QED
  BY <1>2, <1>3, <1>4

(* The step of the task in hand takes effect: it is the only task of its   *)
(* call, so that no other place has anything to say about that call.       *)
LEMMA EffectKeepsSteps ==
  ASSUME TypeOK, InHand, TokenInv, StepInv, NEW w \in Worker, WorkerAt(w, "run"),
         NEW l \in {"persist", "fail"}, WorkerGoto(w, l), Effect(worker[w].task),
         UNCHANGED <<arrived, equeue, wqueue, results, executor>>
  PROVE  StepInv'
<1>t. PICK t \in Task : t = worker[w].task
  BY HeldTyped DEF WorkerAt
<1>a. /\ t \in Task /\ t[1] \in Call /\ t[2] \in Steps /\ t[1] \in arrived \ equeue
      /\ RanBelow(ran, t) /\ Fed(results, t)
  BY <1>t, HeldTyped DEF WorkerAt, TokenInv, Holding, CallOf, StepOf, StepInv
<1>b. /\ worker'[w].pc = l /\ worker'[w].task = t
      /\ \A v \in Worker : v # w => worker'[v] = worker[v]
  BY <1>t, HeldTyped, WorkerMoves DEF WorkerLabels
<1>c. /\ \A c \in Call : c # t[1] => ran'[c] = ran[c]
      /\ \A s \in Steps : ran'[t[1]][s] = IF s = t[2] THEN ran[t[1]][s] + 1 ELSE ran[t[1]][s]
      /\ RanTo(ran', t)
  BY <1>t, EffectRuns, <1>a
<1>d. Fed(results', t)
  BY <1>a DEF Fed
<1>e. \A u \in Task : u[1] # t[1] =>
        /\ RanBelow(ran, u) => RanBelow(ran', u)
        /\ RanTo(ran, u) => RanTo(ran', u)
        /\ Fed(results, u) => Fed(results', u)
  BY <1>c DEF RanBelow, RanTo, Fed, Task
<1>f. \A v \in Worker : v # w /\ Holding(v) => worker[v].task[1] # t[1]
  BY <1>t DEF TokenInv, CallOf, Holding, WorkerAt
<1>g. \A v \in Worker : v # w /\ worker[v].pc \in {"read", "run", "persist", "next", "respond", "record"}
        => worker[v].task[1] # t[1] /\ worker[v].task \in Task
  BY <1>f, HeldTyped DEF Holding
<1>1. \A c \in Call, s \in Steps : c \notin arrived' \/ c \in equeue' => ran'[c][s] = 0
  BY <1>a, <1>c DEF StepInv
<1>2. \A d \in Executor, s \in Steps : ExecutorAt(d, "prepare")' => ran'[executor'[d].call][s] = 0
  <2>1. \A d \in Executor : ExecutorAt(d, "prepare") => executor[d].call # t[1] /\ executor[d].call \in Call
    BY <1>t, HeldTyped DEF TokenInv, Preparing, Holding, CallOf, WorkerAt
  <2> QED
    BY <2>1, <1>c DEF StepInv, ExecutorAt
<1>3. \A u \in wqueue' : RanBelow(ran', u) /\ Fed(results', u)
  <2>1. \A u \in wqueue : u[1] # t[1] /\ u \in Task
    BY <1>t DEF TokenInv, Holding, CallOf, WorkerAt, TypeOK
  <2> QED
    BY <2>1, <1>e DEF StepInv
<1>4. \A v \in Worker : worker'[v].pc \in {"read", "run"} =>
        RanBelow(ran', worker'[v].task) /\ Fed(results', worker'[v].task)
  BY <1>b, <1>e, <1>g DEF StepInv
<1>5. \A v \in Worker : worker'[v].pc = "persist" =>
        RanTo(ran', worker'[v].task) /\ Fed(results', worker'[v].task)
  BY <1>b, <1>c, <1>d, <1>e, <1>g DEF StepInv, WorkerAt
<1>6. \A v \in Worker : worker'[v].pc = "next" =>
        RanTo(ran', worker'[v].task) /\ worker'[v].task \in results'
  BY <1>b, <1>e, <1>g DEF StepInv, WorkerAt
<1>7. \A v \in Worker : worker'[v].pc \in {"respond", "record"} => RanTo(ran', worker'[v].task)
  BY <1>b, <1>e, <1>g DEF StepInv
<1>8. StepsOnceInOrder'
  <2> SUFFICES ASSUME NEW c \in Call, NEW s \in Steps
               PROVE  /\ ran'[c][s] <= 1
                      /\ ran'[c][s] = 1 /\ s > 1 => ran'[c][s - 1] = 1 /\ <<c, s - 1>> \in results'
    BY DEF StepsOnceInOrder
  <2>1. CASE c # t[1]
    BY <2>1, <1>c DEF StepInv, StepsOnceInOrder
  <2>2. CASE c = t[1]
    <3>1. \A r \in Steps : ran'[c][r] = IF r <= t[2] THEN 1 ELSE 0
      BY <2>2, <1>c DEF RanTo
    <3>2. ran'[c][s] = 1 /\ s > 1 => s <= t[2] /\ s - 1 \in Steps /\ s - 1 <= t[2]
      BY <3>1, <1>a, StepsAssumption DEF Steps
    <3>3. ran'[c][s] = 1 /\ s > 1 => <<c, s - 1>> \in results
      <4>1. CASE s = t[2]
        BY <4>1, <2>2, <1>a DEF Fed
      <4>2. CASE s # t[2]
        <5>1. ran'[c][s] = ran[c][s]
          BY <4>2, <2>2, <1>c
        <5> QED
          BY <5>1 DEF StepInv, StepsOnceInOrder
      <4> QED
        BY <4>1, <4>2
    <3> QED
      BY <3>1, <3>2, <3>3
  <2> QED
    BY <2>1, <2>2
<1> QED
  BY <1>1, <1>2, <1>3, <1>4, <1>5, <1>6, <1>7, <1>8 DEF StepInv, WorkerAt, ExecutorAt

(* A step that runs nothing and stores no less, and after which every      *)
(* place of work is one that was there, or one of which the same holds.    *)
LEMMA StoredKeepsSteps ==
  ASSUME TypeOK, StepInv, ran' = ran, results \subseteq results', arrived \subseteq arrived',
         \A c \in equeue' \ equeue : \A s \in Steps : ran[c][s] = 0,
         \A d \in Executor : ExecutorAt(d, "prepare")' =>
           \A s \in Steps : ran[executor'[d].call][s] = 0,
         \A t \in wqueue' \ wqueue : RanBelow(ran, t) /\ Fed(results, t),
         \A w \in Worker : worker'[w] # worker[w] =>
           /\ worker'[w].pc \in {"read", "run"} =>
                RanBelow(ran, worker'[w].task) /\ Fed(results, worker'[w].task)
           /\ worker'[w].pc = "persist" =>
                RanTo(ran, worker'[w].task) /\ Fed(results, worker'[w].task)
           /\ worker'[w].pc = "next" => RanTo(ran, worker'[w].task) /\ worker'[w].task \in results'
           /\ worker'[w].pc \in {"respond", "record"} => RanTo(ran, worker'[w].task)
  PROVE  StepInv'
<1>1. \A t : Fed(results, t) => Fed(results', t)
  BY DEF Fed
<1>2. \A t \in wqueue' : RanBelow(ran', t) /\ Fed(results', t)
  BY <1>1 DEF StepInv
<1>3. \A w \in Worker : worker'[w].pc \in {"read", "run"} =>
        RanBelow(ran', worker'[w].task) /\ Fed(results', worker'[w].task)
  BY <1>1 DEF StepInv
<1>4. \A w \in Worker : worker'[w].pc = "persist" =>
        RanTo(ran', worker'[w].task) /\ Fed(results', worker'[w].task)
  BY <1>1 DEF StepInv, WorkerAt
<1>5. \A w \in Worker : worker'[w].pc = "next" =>
        RanTo(ran', worker'[w].task) /\ worker'[w].task \in results'
  BY DEF StepInv, WorkerAt
<1>6. \A w \in Worker : worker'[w].pc \in {"respond", "record"} => RanTo(ran', worker'[w].task)
  BY DEF StepInv
<1>7. \A c \in Call, s \in Steps : c \notin arrived' \/ c \in equeue' => ran'[c][s] = 0
  BY DEF StepInv
<1>8. \A d \in Executor, s \in Steps : ExecutorAt(d, "prepare")' => ran'[executor'[d].call][s] = 0
  BY DEF StepInv
<1>9. StepsOnceInOrder'
  BY DEF StepInv, StepsOnceInOrder
<1> QED
  BY <1>2, <1>3, <1>4, <1>5, <1>6, <1>7, <1>8, <1>9 DEF StepInv, WorkerAt, ExecutorAt

(* Handing a call on to the next step, or to the first one. *)
LEMMA FirstTaskReady ==
  ASSUME TypeOK, InHand, StepInv, NEW d \in Executor, ExecutorAt(d, "prepare")
  PROVE  LET t == <<executor[d].call, 1>> IN RanBelow(ran, t) /\ Fed(results, t)
<1>1. \A s \in Steps : ran[executor[d].call][s] = 0 /\ ~(s < 1)
  BY DEF StepInv, Steps
<1> QED
  BY <1>1 DEF RanBelow, Fed

LEMMA NextTaskReady ==
  ASSUME TypeOK, InHand, StepInv, NEW w \in Worker, WorkerAt(w, "next")
  PROVE  LET t == <<CallOf(w), StepOf(w) + 1>> IN RanBelow(ran, t) /\ Fed(results, t)
<1>1. /\ RanTo(ran, worker[w].task) /\ <<CallOf(w), StepOf(w)>> \in results
      /\ worker[w].task = <<CallOf(w), StepOf(w)>> /\ StepOf(w) \in Steps
  BY HeldTyped DEF StepInv, WorkerAt
<1>2. \A s \in Steps : s <= StepOf(w) <=> s < StepOf(w) + 1
  BY <1>1 DEF Steps
<1>4. \A s \in Steps : ran[CallOf(w)][s] = IF s <= StepOf(w) THEN 1 ELSE 0
  BY <1>1 DEF RanTo, CallOf, StepOf
<1>5. RanBelow(ran, <<CallOf(w), StepOf(w) + 1>>)
  BY <1>2, <1>4 DEF RanBelow
<1>6. Fed(results, <<CallOf(w), StepOf(w) + 1>>)
  <2> DEFINE n == StepOf(w) + 1
  <2>1. n - 1 = StepOf(w)
    BY <1>1 DEF Steps
  <2> HIDE DEF n
  <2>2. Fed(results, <<CallOf(w), n>>)
    BY <1>1, <2>1 DEF Fed
  <2> QED
    BY <2>2 DEF n
<1> QED
  BY <1>5, <1>6

LEMMA StepSteps == TypeOK /\ InHand /\ TokenInv /\ StepInv /\ [Next]_vars => StepInv'
<1> SUFFICES ASSUME TypeOK, InHand, TokenInv, StepInv, [Next]_vars PROVE StepInv'
  OBVIOUS
<1> USE DEF published, queues, answers, faults
<1>a. /\ executor \in [Executor -> Executors] /\ worker \in [Worker -> Workers]
      /\ \A w \in Worker : worker[w].pc \notin {"idle", "loop"} =>
           /\ worker[w].task \in Task /\ CallOf(w) \in Call /\ StepOf(w) \in Steps
           /\ worker[w].task = <<CallOf(w), StepOf(w)>>
  BY HeldTyped
<1>b. ASSUME NEW w \in Worker, WorkerContinues(w),
             UNCHANGED <<arrived, equeue, wqueue, results, executor, ran>>
      PROVE  StepInv'
  BY <1>a, <1>b, WorkerMoves, WorkerRunsNone, NoneRunsKeepsSteps DEF Stays
<1>c. ASSUME NEW w \in Worker, NEW l \in {"run", "fail", "fail_record", "record"},
             l = "run" => WorkerAt(w, "read"), l = "record" => WorkerAt(w, "respond"),
             WorkerGoto(w, l), ran' = ran, results \subseteq results',
             UNCHANGED <<arrived, equeue, wqueue, executor>>
      PROVE  StepInv'
  <2>1. /\ worker'[w].pc = l /\ worker'[w].task = worker[w].task
        /\ \A v \in Worker : v # w => worker'[v] = worker[v]
    BY <1>a, <1>c, WorkerMoves DEF WorkerLabels
  <2>2. /\ Stays(w, {"read", "run"}) /\ Stays(w, {"persist"}) /\ Stays(w, {"next"})
        /\ Stays(w, {"respond", "record"})
    BY <1>c, <2>1 DEF Stays, WorkerAt
  <2> QED
    BY <1>c, <2>1, <2>2, WorkerRunsNone, NoneRunsKeepsSteps
<1>1. ASSUME NEW c \in Call, Publish(c) PROVE StepInv'
  <2>1. \A d \in Executor : ExecutorAt(d, "prepare")' =>
          \A s \in Steps : ran[executor'[d].call][s] = 0
    BY <1>1 DEF Publish, StepInv, ExecutorAt
  <2>2. \A e \in equeue' \ equeue : \A s \in Steps : ran[e][s] = 0
    BY <1>1 DEF Publish, StepInv
  <2> QED
    BY <1>1, <2>1, <2>2, StoredKeepsSteps DEF Publish
<1>2. ASSUME NEW d \in Executor, ExecutorPoll(d) PROVE StepInv'
  <2>1. /\ executor'[d].pc = "loop"
        /\ \A e \in Executor : e # d => executor'[e] = executor[e]
    BY <1>2, <1>a DEF ExecutorPoll
  <2> QED
    BY <1>2, <2>1, ExecutorRunsNone, NoneRunsKeepsSteps DEF ExecutorPoll
<1>3. ASSUME NEW d \in Executor, ExecutorClaim(d) PROVE StepInv'
  <2>1. /\ \A e \in Executor : e # d => executor'[e] = executor[e]
        /\ executor'[d].pc = "prepare" => executor'[d].call \in equeue
        /\ equeue' \subseteq equeue
    BY <1>3, <1>a DEF ExecutorClaim
  <2>2. \A e \in Executor : ExecutorAt(e, "prepare")' =>
          \A s \in Steps : ran[executor'[e].call][s] = 0
    BY <2>1, <1>3 DEF StepInv, ExecutorAt, TypeOK
  <2> QED
    BY <1>3, <2>1, <2>2, StoredKeepsSteps DEF ExecutorClaim
<1>4. ASSUME NEW d \in Executor, ExecutorPrepare(d) \/ ExecutorRefuses(d) \/ ExecutorRaises(d)
      PROVE  StepInv'
  <2>1. /\ executor'[d].pc # "prepare"
        /\ \A e \in Executor : e # d => executor'[e] = executor[e]
    BY <1>4, <1>a, ExecutorMoves DEF ExecutorPrepare, ExecutorRefuses, ExecutorRaises
  <2>2. \A e \in Executor : ExecutorAt(e, "prepare")' =>
          \A s \in Steps : ran[executor'[e].call][s] = 0
    BY <2>1 DEF StepInv, ExecutorAt
  <2>3. \A t \in wqueue' \ wqueue : RanBelow(ran, t) /\ Fed(results, t)
    BY <1>4, FirstTaskReady DEF ExecutorPrepare, ExecutorRefuses, ExecutorRaises, PutTask
  <2> QED
    BY <1>4, <2>2, <2>3, StoredKeepsSteps DEF ExecutorPrepare, ExecutorRefuses, ExecutorRaises
<1>5. ASSUME NEW w \in Worker, WorkerPoll(w) PROVE StepInv'
  <2>1. /\ worker'[w].pc = "loop"
        /\ \A v \in Worker : v # w => worker'[v] = worker[v]
    BY <1>5, <1>a DEF WorkerPoll
  <2> QED
    BY <1>5, <2>1, WorkerRunsNone, NoneRunsKeepsSteps DEF WorkerPoll, Stays
<1>6. ASSUME NEW w \in Worker, WorkerClaim(w) PROVE StepInv'
  <2>1. /\ \A v \in Worker : v # w => worker'[v] = worker[v]
        /\ worker'[w].pc \in {"idle", "loop"} \/ (worker'[w].pc = "read" /\ worker'[w].task \in wqueue)
        /\ wqueue' \subseteq wqueue
    BY <1>6, <1>a DEF WorkerClaim
  <2>2. worker'[w].pc = "read" => RanBelow(ran, worker'[w].task) /\ Fed(results, worker'[w].task)
    BY <2>1 DEF StepInv
  <2>3. \A d \in Executor : ExecutorAt(d, "prepare")' =>
          \A s \in Steps : ran[executor'[d].call][s] = 0
    BY <1>6 DEF WorkerClaim, StepInv, ExecutorAt
  <2> QED
    BY <1>6, <2>1, <2>2, <2>3, StoredKeepsSteps DEF WorkerClaim
<1>7. ASSUME NEW w \in Worker, WorkerRead(w) PROVE StepInv'
  BY <1>7, <1>c DEF WorkerRead
<1>8. ASSUME NEW w \in Worker, WorkerReadRaises(w) PROVE StepInv'
  BY <1>8, <1>b DEF WorkerReadRaises
<1>9. ASSUME NEW w \in Worker, WorkerRun(w) PROVE StepInv'
  BY <1>9, EffectKeepsSteps DEF WorkerRun
<1>10. ASSUME NEW w \in Worker, WorkerRunFails(w) PROVE StepInv'
  <2>1. CASE Effect(worker[w].task)
    BY <1>10, <2>1, EffectKeepsSteps DEF WorkerRunFails
  <2>2. CASE UNCHANGED ran
    BY <1>10, <2>2, <1>c DEF WorkerRunFails
  <2> QED
    BY <1>10, <2>1, <2>2 DEF WorkerRunFails
<1>11. ASSUME NEW w \in Worker, WorkerPersist(w) PROVE StepInv'
  <2>1. /\ worker'[w].pc \in {"next", "respond"} /\ worker'[w].task = worker[w].task
        /\ \A v \in Worker : v # w => worker'[v] = worker[v]
    BY <1>11, <1>a, WorkerMoves DEF WorkerPersist, WorkerLabels
  <2>2. results' = results \union {worker[w].task} /\ RanTo(ran, worker[w].task)
    BY <1>11 DEF WorkerPersist, PutResult, StepInv
  <2>3. \A d \in Executor : ExecutorAt(d, "prepare")' =>
          \A s \in Steps : ran[executor'[d].call][s] = 0
    BY <1>11 DEF WorkerPersist, StepInv, ExecutorAt
  <2> QED
    BY <1>11, <2>1, <2>2, <2>3, StoredKeepsSteps DEF WorkerPersist
<1>12. ASSUME NEW w \in Worker, WorkerAt(w, "next"), PutTask(<<CallOf(w), StepOf(w) + 1>>),
              WorkerContinues(w) \/ WorkerGoto(w, "fail"),
              UNCHANGED <<arrived, equeue, results, executor, ran>>
       PROVE  StepInv'
  <2>1. /\ worker'[w].pc \in {"idle", "loop", "fail"}
        /\ \A v \in Worker : v # w => worker'[v] = worker[v]
    BY <1>12, <1>a, WorkerMoves DEF WorkerLabels
  <2>2. \A t \in wqueue' \ wqueue : RanBelow(ran, t) /\ Fed(results, t)
    BY <1>12, NextTaskReady DEF PutTask
  <2>3. \A d \in Executor : ExecutorAt(d, "prepare")' =>
          \A s \in Steps : ran[executor'[d].call][s] = 0
    BY <1>12 DEF StepInv, ExecutorAt
  <2> QED
    BY <1>12, <2>1, <2>2, <2>3, StoredKeepsSteps
<1>s. ASSUME NEW w \in Worker, WorkerRefuses(w) PROVE StepInv'
  BY <1>s, <1>c DEF WorkerRefuses
<1>13. ASSUME NEW w \in Worker, WorkerRespond(w) PROVE StepInv'
  BY <1>13, <1>c DEF WorkerRespond
<1>14. ASSUME NEW w \in Worker, WorkerRecord(w) \/ WorkerFailRecord(w) PROVE StepInv'
  BY <1>14, <1>b DEF WorkerRecord, WorkerFailRecord
<1>15. ASSUME NEW w \in Worker, WorkerRaises(w) PROVE StepInv'
  <2>1. CASE UNCHANGED wqueue
    <3>1. results \subseteq results'
      BY <1>15 DEF WorkerRaises, PutResult
    <3> QED
      BY <1>15, <2>1, <3>1, <1>c DEF WorkerRaises
  <2>2. CASE WorkerAt(w, "next") /\ PutTask(<<CallOf(w), StepOf(w) + 1>>)
    <3>1. results' = results
      BY <1>15, <2>2 DEF WorkerRaises, WorkerAt
    <3> QED
      BY <1>15, <2>2, <3>1, <1>12 DEF WorkerRaises
  <2> QED
    BY <1>15, <2>1, <2>2 DEF WorkerRaises
<1>16. ASSUME NEW w \in Worker, WorkerFail(w) PROVE StepInv'
  BY <1>16, <1>c DEF WorkerFail
<1>17. ASSUME NEW d \in Executor, ExecutorCrash(d) PROVE StepInv'
  <2>1. /\ executor'[d].pc = "idle"
        /\ \A e \in Executor : e # d => executor'[e] = executor[e]
    BY <1>17, <1>a DEF ExecutorCrash, IdleExecutor
  <2> QED
    BY <1>17, <2>1, ExecutorRunsNone, NoneRunsKeepsSteps DEF ExecutorCrash
<1>18. ASSUME NEW w \in Worker, WorkerCrash(w) PROVE StepInv'
  <2>1. /\ worker'[w].pc = "idle"
        /\ \A v \in Worker : v # w => worker'[v] = worker[v]
    BY <1>18, <1>a DEF WorkerCrash, IdleWorker
  <2> QED
    BY <1>18, <2>1, WorkerRunsNone, NoneRunsKeepsSteps DEF WorkerCrash, Stays
<1>19. CASE UNCHANGED vars
  BY <1>19, NoneRunsKeepsSteps DEF vars, NoneRuns, Stays, ExecutorAt
<1> QED
  BY <1>1, <1>2, <1>3, <1>4, <1>5, <1>6, <1>7, <1>8, <1>9, <1>10, <1>11, <1>12, <1>13, <1>14,
     <1>s, <1>15, <1>16, <1>17, <1>18, <1>19 DEF Next, ExecutorStep, WorkerStep, WorkerNext

(* Steps take effect once and in order, each on the stored result of the   *)
(* step before: by StepInv the place of its work fixes what a call has run *)
(* and stored, and by TokenInv there is only one such place.               *)
THEOREM RunsOnceInOrder == Spec => []StepsOnceInOrder
<1>1. Spec => [](TypeOK /\ InHand /\ TokenInv /\ StepInv)
  BY InitTyped, InitToken, InitSteps, StepTyped, StepToken, StepSteps, PTL DEF Spec
<1>2. StepInv => StepsOnceInOrder
  BY DEF StepInv
<1> QED
  BY <1>1, <1>2, PTL

------------------------------------------------------------------------------
(* The life of a call.                                                     *)

LEMMA InitLife == Init => LifeInv
<1> SUFFICES ASSUME Init PROVE LifeInv
  OBVIOUS
<1>1. \A c \in Call : ~resp[c].failure
  BY DEF Init
<1>2. /\ \A d \in Executor : executor[d].pc = "idle"
      /\ \A w \in Worker : worker[w].pc = "idle"
  BY DEF Init, IdleExecutor, IdleWorker
<1> QED
  BY <1>1, <1>2 DEF Init, LifeInv, ExecutorAt, WorkerAt, Holding

(* A step that answers nothing and stores no failure, and after which, if  *)
(* nothing has raised, every place of work is one of an open call.         *)
LEMMA QuietKeepsLife ==
  ASSUME TypeOK, LifeInv, answered' = answered, arrived \subseteq arrived',
         \A c \in Call : resp'[c].failure = resp[c].failure,
         equeue' \subseteq Call, wqueue' \subseteq Task,
         \A d \in Executor : ExecutorAt(d, "prepare")' => executor'[d].call \in Call,
         \A w \in Worker : worker'[w].pc \notin {"idle", "loop"} =>
           worker'[w].task[1] \in arrived' \intersect Call,
         errors' = 0 =>
           /\ errors = 0
           /\ \A c \in equeue' \ equeue : Open(c)
           /\ \A d \in Executor : ExecutorAt(d, "prepare")' => Open(executor'[d].call)
           /\ \A t \in wqueue' \ wqueue : Open(t[1])
           /\ \A w \in Worker : worker'[w] # worker[w] /\ worker'[w].pc \notin {"idle", "loop"} =>
                worker'[w].pc # "fail_record" /\ Open(worker'[w].task[1])
  PROVE  LifeInv'
<1>1. \A c \in Call : Open(c) => Open(c)'
  BY DEF Open
<1>2. answered' \subseteq arrived' /\ \A c \in Call : c \notin arrived' => ~resp'[c].failure
  BY DEF LifeInv
<1>3. ASSUME errors' = 0
      PROVE  /\ \A c \in equeue' : Open(c)'
             /\ \A t \in wqueue' : Open(t[1])'
  BY <1>1, <1>3 DEF LifeInv, Task
<1>4. ASSUME errors' = 0
      PROVE  \A d \in Executor : ExecutorAt(d, "prepare")' => Open(executor[d].call)'
  BY <1>1, <1>4 DEF Open, ExecutorAt
<1>5. ASSUME errors' = 0, NEW w \in Worker, worker'[w].pc \notin {"idle", "loop", "fail_record"}
      PROVE  Open(CallOf(w))'
  BY <1>5, <1>1 DEF Open, CallOf, LifeInv, Holding, WorkerAt, TypeOK, WorkerLabels
<1>6. ASSUME errors' = 0, NEW w \in Worker, worker'[w].pc = "fail_record"
      PROVE  CallOf(w)' \notin answered' /\ resp'[CallOf(w)'].failure
  BY <1>6 DEF LifeInv, CallOf, WorkerAt
<1> QED
  BY <1>2, <1>3, <1>4, <1>5, <1>6 DEF LifeInv, Holding, WorkerAt, CallOf

(* A failure is stored, and an answer recorded, for the call in hand; if   *)
(* nothing has raised no other place has work for it.                      *)
LEMMA FailKeepsLife ==
  ASSUME TypeOK, InHand, TokenInv, LifeInv, NEW w \in Worker, WorkerFail(w)
  PROVE  LifeInv'
<1>t. PICK c \in Call : c = CallOf(w) /\ c \in arrived
  BY HeldTyped DEF WorkerFail, WorkerAt, LifeInv
<1>1. /\ worker'[w].pc = "fail_record" /\ worker'[w].task[1] = c
      /\ \A v \in Worker : v # w => worker'[v] = worker[v]
      /\ UNCHANGED <<arrived, equeue, wqueue, answered, executor, errors>>
  BY <1>t, HeldTyped, WorkerMoves
     DEF WorkerFail, WorkerLabels, WorkerAt, CallOf, published, queues, faults
<1>2. resp'[c].failure /\ \A e \in Call : e # c => resp'[e] = resp[e]
  BY <1>t DEF WorkerFail, PutFailure, TypeOK
<1>3. \A e \in Call : e # c /\ Open(e) => Open(e)'
  BY <1>1, <1>2 DEF Open
<1>4. /\ answered' \subseteq arrived'
      /\ \A e \in Call : e \notin arrived' => ~resp'[e].failure
      /\ \A v \in Worker : worker'[v].pc \notin {"idle", "loop"} => CallOf(v)' \in arrived'
  BY <1>t, <1>1, <1>2 DEF LifeInv, CallOf
<1>5. ASSUME errors = 0
      PROVE  /\ Holding(w)
             /\ c \notin equeue /\ c \notin answered
             /\ \A d \in Executor : ExecutorAt(d, "prepare") => executor[d].call # c
             /\ \A t \in wqueue : t[1] # c
             /\ \A v \in Worker : v # w /\ Holding(v) => worker[v].task[1] # c
  BY <1>t, <1>5 DEF TokenInv, Holding, WorkerFail, WorkerAt, Preparing, CallOf, LifeInv, Open
<1>6. ASSUME errors = 0
      PROVE  /\ \A e \in equeue' : Open(e)'
             /\ \A t \in wqueue' : Open(t[1])'
             /\ \A d \in Executor : ExecutorAt(d, "prepare")' => Open(executor[d].call)'
  <2>1. \A d \in Executor : ExecutorAt(d, "prepare") => executor[d].call \in Call
    BY HeldTyped
  <2>2. executor' = executor /\ equeue' = equeue /\ wqueue' = wqueue
    BY <1>1
  <2>3. \A d \in Executor : ExecutorAt(d, "prepare")' => Open(executor[d].call)'
    BY <1>5, <1>6, <1>1, <1>2, <2>1, <2>2 DEF LifeInv, ExecutorAt, Open
  <2> QED
    BY <1>3, <1>5, <1>6, <2>2, <2>3 DEF LifeInv, TypeOK, Task
<1>7. ASSUME errors = 0, NEW v \in Worker, v # w, Holding(v)
      PROVE  /\ worker[v].pc # "fail_record" => Open(CallOf(v))'
             /\ worker[v].pc = "fail_record" => CallOf(v)' \notin answered' /\ resp'[CallOf(v)'].failure
  <2>1. worker'[v] = worker[v] /\ worker[v].task[1] \in Call /\ worker[v].task[1] # c
    BY <1>1, <1>5, <1>7, HeldTyped DEF Holding, CallOf
  <2> QED
    BY <1>1, <1>2, <1>7, <2>1 DEF LifeInv, CallOf, WorkerAt, Open
<1>8. errors' = errors
  BY <1>1
<1>9. \A v \in Worker : v # w /\ Holding(v)' => Holding(v)
  BY <1>1 DEF Holding
<1> QED
  BY <1>1, <1>2, <1>4, <1>5, <1>6, <1>7, <1>8, <1>9 DEF LifeInv, WorkerAt, CallOf, Holding

LEMMA AnswerKeepsLife ==
  ASSUME TypeOK, InHand, TokenInv, LifeInv, NEW w \in Worker, worker[w].pc \in {"record", "fail_record"},
         WorkerContinues(w), PutAnswer(CallOf(w)),
         UNCHANGED <<arrived, equeue, wqueue, resp, executor, errors>>
  PROVE  LifeInv'
<1>t. PICK c \in Call : c = CallOf(w) /\ c \in arrived
  BY HeldTyped DEF LifeInv
<1>1. /\ worker'[w].pc \in {"idle", "loop"}
      /\ \A v \in Worker : v # w => worker'[v] = worker[v]
      /\ answered' = answered \union {c}
  BY <1>t, HeldTyped, WorkerMoves DEF PutAnswer
<1>2. \A e \in Call : e # c /\ Open(e) => Open(e)'
  BY <1>1 DEF Open
<1>3. /\ answered' \subseteq arrived'
      /\ \A e \in Call : e \notin arrived' => ~resp'[e].failure
      /\ \A v \in Worker : worker'[v].pc \notin {"idle", "loop"} => CallOf(v)' \in arrived'
  BY <1>t, <1>1 DEF LifeInv, CallOf
<1>4. ASSUME errors = 0
      PROVE  /\ c \notin equeue
             /\ \A d \in Executor : ExecutorAt(d, "prepare") => executor[d].call # c
             /\ \A t \in wqueue : t[1] # c
             /\ \A v \in Worker : v # w /\ Holding(v) => worker[v].task[1] # c
  BY <1>t, <1>4 DEF TokenInv, Holding, Preparing, CallOf
<1>5. ASSUME errors = 0
      PROVE  /\ \A e \in equeue' : Open(e)'
             /\ \A t \in wqueue' : Open(t[1])'
             /\ \A d \in Executor : ExecutorAt(d, "prepare")' => Open(executor[d].call)'
  <2>1. \A d \in Executor : ExecutorAt(d, "prepare") => executor[d].call \in Call
    BY HeldTyped
  <2>2. \A d \in Executor : ExecutorAt(d, "prepare")' => Open(executor[d].call)'
    BY <1>4, <1>5, <1>1, <2>1 DEF LifeInv, ExecutorAt, Open
  <2> QED
    BY <1>2, <1>4, <1>5, <2>2 DEF LifeInv, TypeOK, Task
<1>6. ASSUME errors = 0, NEW v \in Worker, v # w, Holding(v)
      PROVE  /\ worker[v].pc # "fail_record" => Open(CallOf(v))'
             /\ worker[v].pc = "fail_record" => CallOf(v)' \notin answered' /\ resp'[CallOf(v)'].failure
  <2>1. worker'[v] = worker[v] /\ worker[v].task[1] \in Call /\ worker[v].task[1] # c
    BY <1>1, <1>4, <1>6, HeldTyped DEF Holding, CallOf
  <2> QED
    BY <1>1, <1>6, <2>1 DEF LifeInv, CallOf, WorkerAt, Open
<1>7. \A v \in Worker : Holding(v)' => v # w /\ Holding(v)
  BY <1>1 DEF Holding
<1> QED
  BY <1>1, <1>3, <1>5, <1>6, <1>7 DEF LifeInv, WorkerAt, CallOf, Holding

LEMMA StepLife == TypeOK /\ InHand /\ TokenInv /\ LifeInv /\ [Next]_vars => LifeInv'
<1> SUFFICES ASSUME TypeOK, InHand, TokenInv, LifeInv, [Next]_vars PROVE LifeInv'
  OBVIOUS
<1> USE DEF published, queues, answers, faults
<1>a. /\ executor \in [Executor -> Executors] /\ worker \in [Worker -> Workers]
      /\ equeue \subseteq Call /\ wqueue \subseteq Task /\ arrived \subseteq Call /\ errors \in Nat
      /\ \A d \in Executor : ExecutorAt(d, "prepare") =>
           executor[d].call \in Call /\ <<executor[d].call, 1>> \in Task
      /\ \A w \in Worker : worker[w].pc \notin {"idle", "loop"} =>
           /\ worker[w].task \in Task /\ CallOf(w) \in Call /\ CallOf(w) \in arrived
           /\ worker[w].task[1] = CallOf(w)
      /\ \A w \in Worker : WorkerAt(w, "next") => <<CallOf(w), StepOf(w) + 1>> \in Task
      /\ wqueue' \subseteq Task
      /\ \A d \in Executor : ExecutorAt(d, "prepare")' => executor'[d].call \in Call
  BY HeldTyped, StepTyped DEF TypeOK, LifeInv, CallOf, InHand, ExecutorAt
<1>b. \A t \in wqueue : t[1] \in Call /\ t[1] \in arrived
  BY <1>a DEF TokenInv, Task
(* A worker moves on with its call, or lets go of it. *)
<1>c. ASSUME NEW w \in Worker, \A v \in Worker : v # w => worker'[v] = worker[v],
             worker'[w].pc \notin {"idle", "loop"} =>
               worker'[w].task[1] \in arrived \intersect Call,
             errors' = 0 => errors = 0 /\
               (worker'[w].pc \notin {"idle", "loop"} =>
                  worker'[w].pc # "fail_record" /\ Open(worker'[w].task[1])),
             errors' = 0 => \A t \in wqueue' \ wqueue : Open(t[1]),
             \A c \in Call : resp'[c].failure = resp[c].failure,
             UNCHANGED <<arrived, equeue, answered, executor>>
      PROVE  LifeInv'
  <2>1. errors' = 0 => \A d \in Executor : ExecutorAt(d, "prepare")' => Open(executor'[d].call)
    BY <1>c DEF LifeInv, ExecutorAt
  <2>2. \A v \in Worker : worker'[v].pc \notin {"idle", "loop"} =>
          worker'[v].task[1] \in arrived' \intersect Call
    BY <1>a, <1>c
  <2> QED
    BY <1>a, <1>c, <2>1, <2>2, QuietKeepsLife
<1>d. ASSUME NEW w \in Worker, NEW l \in {"run", "persist", "next", "respond", "record", "fail"},
             worker[w].pc \in {"read", "run", "persist", "next", "respond", "record"},
             WorkerGoto(w, l), \A c \in Call : resp'[c].failure = resp[c].failure,
             UNCHANGED <<arrived, equeue, wqueue, answered, executor>>, errors' = 0 => errors = 0
      PROVE  LifeInv'
  <2>1. /\ worker'[w].pc = l /\ worker'[w].task = worker[w].task
        /\ \A v \in Worker : v # w => worker'[v] = worker[v]
    BY <1>a, <1>d, WorkerMoves DEF WorkerLabels
  <2>2. errors = 0 => Open(CallOf(w))
    BY <1>d DEF LifeInv, Holding, WorkerAt
  <2> QED
    BY <1>a, <1>c, <1>d, <2>1, <2>2
<1>e. ASSUME NEW w \in Worker, worker'[w].pc \in {"idle", "loop"},
             \A v \in Worker : v # w => worker'[v] = worker[v],
             UNCHANGED <<arrived, equeue, wqueue, answered, resp, executor>>, errors' = 0 => errors = 0
      PROVE  LifeInv'
  BY <1>c, <1>e
<1>f. ASSUME NEW d \in Executor, \A e \in Executor : e # d => executor'[e] = executor[e],
             executor'[d].pc = "prepare" => executor'[d].call \in equeue,
             equeue' \subseteq equeue, errors' = 0 => errors = 0,
             errors' = 0 => \A t \in wqueue' \ wqueue : Open(t[1]),
             UNCHANGED <<arrived, answered, resp, worker>>
      PROVE  LifeInv'
  <2>1. errors' = 0 => \A e \in Executor : ExecutorAt(e, "prepare")' => Open(executor'[e].call)
    BY <1>f DEF LifeInv, ExecutorAt
  <2>2. \A v \in Worker : worker'[v].pc \notin {"idle", "loop"} =>
          worker'[v].task[1] \in arrived' \intersect Call
    BY <1>a, <1>f
  <2> QED
    BY <1>a, <1>f, <2>1, <2>2, QuietKeepsLife
<1>1. ASSUME NEW c \in Call, Publish(c) PROVE LifeInv'
  <2>1. /\ answered' = answered /\ resp' = resp /\ executor' = executor /\ worker' = worker
        /\ wqueue' = wqueue /\ errors' = errors /\ arrived' = arrived \union {c}
        /\ equeue' = equeue \union {c} /\ c \notin arrived
    BY <1>1 DEF Publish
  <2>2. Open(c)
    BY <2>1 DEF LifeInv, Open
  <2>3. errors' = 0 => \A d \in Executor : ExecutorAt(d, "prepare")' => Open(executor'[d].call)
    BY <2>1 DEF LifeInv, ExecutorAt
  <2>4. \A w \in Worker : worker'[w].pc \notin {"idle", "loop"} =>
          worker'[w].task[1] \in arrived' \intersect Call
    BY <1>a, <2>1
  <2> QED
    BY <1>a, <2>1, <2>2, <2>3, <2>4, QuietKeepsLife
<1>2. ASSUME NEW d \in Executor, ExecutorPoll(d) PROVE LifeInv'
  <2>1. /\ executor'[d].pc = "loop"
        /\ \A e \in Executor : e # d => executor'[e] = executor[e]
    BY <1>2, <1>a DEF ExecutorPoll
  <2> QED
    BY <1>2, <1>f, <2>1 DEF ExecutorPoll
<1>3. ASSUME NEW d \in Executor, ExecutorClaim(d) PROVE LifeInv'
  <2>1. /\ \A e \in Executor : e # d => executor'[e] = executor[e]
        /\ executor'[d].pc = "prepare" => executor'[d].call \in equeue
        /\ equeue' \subseteq equeue
    BY <1>3, <1>a DEF ExecutorClaim
  <2> QED
    BY <1>3, <1>f, <2>1 DEF ExecutorClaim
<1>4. ASSUME NEW d \in Executor, ExecutorPrepare(d) PROVE LifeInv'
  <2>1. /\ executor'[d].pc # "prepare"
        /\ \A e \in Executor : e # d => executor'[e] = executor[e]
    BY <1>4, <1>a, ExecutorMoves DEF ExecutorPrepare
  <2>2. errors = 0 => Open(executor[d].call)
    BY <1>4 DEF LifeInv, ExecutorPrepare
  <2> QED
    BY <1>4, <1>f, <2>1, <2>2 DEF ExecutorPrepare, PutTask
<1>5. ASSUME NEW d \in Executor, ExecutorRaises(d) PROVE LifeInv'
  <2>1. /\ executor'[d].pc # "prepare" /\ errors' # 0
        /\ \A e \in Executor : e # d => executor'[e] = executor[e]
    BY <1>5, <1>a, ExecutorMoves DEF ExecutorRaises, AnError
  <2> QED
    BY <1>5, <1>f, <2>1 DEF ExecutorRaises
<1>r. ASSUME NEW d \in Executor, ExecutorRefuses(d) PROVE LifeInv'
  <2>1. /\ executor'[d].pc # "prepare"
        /\ \A e \in Executor : e # d => executor'[e] = executor[e]
    BY <1>r, <1>a, ExecutorMoves DEF ExecutorRefuses
  <2> QED
    BY <1>r, <1>f, <2>1 DEF ExecutorRefuses
<1>6. ASSUME NEW w \in Worker, WorkerPoll(w) PROVE LifeInv'
  <2>1. /\ worker'[w].pc = "loop"
        /\ \A v \in Worker : v # w => worker'[v] = worker[v]
    BY <1>6, <1>a DEF WorkerPoll
  <2> QED
    BY <1>6, <1>e, <2>1 DEF WorkerPoll
<1>7. ASSUME NEW w \in Worker, WorkerClaim(w) PROVE LifeInv'
  <2>1. /\ \A v \in Worker : v # w => worker'[v] = worker[v]
        /\ worker'[w].pc \in {"idle", "loop"} \/ (worker'[w].pc = "read" /\ worker'[w].task \in wqueue)
        /\ wqueue' \subseteq wqueue
    BY <1>7, <1>a DEF WorkerClaim
  <2>2. errors = 0 => \A t \in wqueue : Open(t[1])
    BY DEF LifeInv
  <2> QED
    BY <1>7, <1>b, <1>c, <2>1, <2>2 DEF WorkerClaim
<1>8. ASSUME NEW w \in Worker, WorkerRead(w) \/ WorkerRun(w) \/ WorkerRunFails(w) PROVE LifeInv'
  BY <1>8, <1>d DEF WorkerRead, WorkerRun, WorkerRunFails, WorkerAt
<1>9. ASSUME NEW w \in Worker, WorkerReadRaises(w) PROVE LifeInv'
  BY <1>9, <1>a, <1>e, WorkerMoves DEF WorkerReadRaises, AnError
<1>10. ASSUME NEW w \in Worker, WorkerPersist(w) PROVE LifeInv'
  BY <1>10, <1>d DEF WorkerPersist, WorkerAt
<1>11. ASSUME NEW w \in Worker, WorkerNext(w) PROVE LifeInv'
  <2>1. /\ worker'[w].pc \in {"idle", "loop"}
        /\ \A v \in Worker : v # w => worker'[v] = worker[v]
    BY <1>11, <1>a, WorkerMoves DEF WorkerNext
  <2>2. errors = 0 => Open(CallOf(w))
    BY <1>11 DEF LifeInv, Holding, WorkerAt, WorkerNext
  <2> QED
    BY <1>11, <1>c, <2>1, <2>2 DEF WorkerNext, PutTask
<1>12. ASSUME NEW w \in Worker, WorkerRespond(w) PROVE LifeInv'
  <2>1. \A c \in Call : resp'[c].failure = resp[c].failure
    BY <1>12 DEF WorkerRespond, PutSuccess, TypeOK, Response
  <2> QED
    BY <1>12, <1>d, <2>1 DEF WorkerRespond, WorkerAt
<1>s. ASSUME NEW w \in Worker, WorkerRefuses(w) PROVE LifeInv'
  BY <1>s, <1>d DEF WorkerRefuses, WorkerAt
<1>13. ASSUME NEW w \in Worker, WorkerRecord(w) \/ WorkerFailRecord(w) PROVE LifeInv'
  BY <1>13, AnswerKeepsLife DEF WorkerRecord, WorkerFailRecord, WorkerAt
<1>14. ASSUME NEW w \in Worker, WorkerRaises(w) PROVE LifeInv'
  <2>1. /\ errors' # 0 /\ UNCHANGED <<arrived, equeue, executor>>
        /\ worker[w].pc \in {"persist", "next", "respond", "record"}
        /\ answered' = answered \/ answered' = answered \union {CallOf(w)}
    BY <1>14, <1>a DEF WorkerRaises, AnError, PutAnswer, WorkerAt
  <2>2. /\ worker'[w].pc = "fail" /\ worker'[w].task = worker[w].task
        /\ \A v \in Worker : v # w => worker'[v] = worker[v]
    BY <1>14, <1>a, WorkerMoves DEF WorkerRaises, WorkerLabels
  <2>3. \A c \in Call : resp'[c].failure = resp[c].failure
    <3>1. resp' = resp \/ PutSuccess(CallOf(w))
      BY <1>14 DEF WorkerRaises
    <3> QED
      BY <3>1 DEF PutSuccess, TypeOK, Response
  <2> QED
    BY <1>a, <2>1, <2>2, <2>3 DEF LifeInv, CallOf
<1>15. ASSUME NEW w \in Worker, WorkerFail(w) PROVE LifeInv'
  BY <1>15, FailKeepsLife
<1>16. ASSUME NEW d \in Executor, ExecutorCrash(d) PROVE LifeInv'
  <2>1. /\ executor'[d].pc = "idle"
        /\ \A e \in Executor : e # d => executor'[e] = executor[e]
    BY <1>16, <1>a DEF ExecutorCrash, IdleExecutor
  <2> QED
    BY <1>16, <1>f, <2>1 DEF ExecutorCrash, Stops
<1>17. ASSUME NEW w \in Worker, WorkerCrash(w) PROVE LifeInv'
  <2>1. /\ worker'[w].pc = "idle"
        /\ \A v \in Worker : v # w => worker'[v] = worker[v]
    BY <1>17, <1>a DEF WorkerCrash, IdleWorker
  <2> QED
    BY <1>17, <1>e, <2>1 DEF WorkerCrash, Stops
<1>18. CASE UNCHANGED vars
  BY <1>18 DEF vars, LifeInv, ExecutorAt, WorkerAt, Holding, CallOf, Open
<1> QED
  BY <1>1, <1>2, <1>3, <1>4, <1>5, <1>6, <1>7, <1>8, <1>9, <1>10, <1>11, <1>12, <1>13, <1>14,
     <1>r, <1>s, <1>15, <1>16, <1>17, <1>18 DEF Next, ExecutorStep, WorkerStep

------------------------------------------------------------------------------
(* The queues implement CallLifecycle.                                     *)

PhaseByAnswer == \A c \in Call :
  /\ c \notin arrived => Phase[c] = "absent"
  /\ c \in arrived \ answered => Phase[c] = "pending"
  /\ c \in answered /\ resp[c].failure => Phase[c] = "failed"
  /\ c \in answered /\ ~resp[c].failure => Phase[c] = "completed"

LEMMA PhaseIs == TypeOK /\ LifeInv => PhaseByAnswer
<1> SUFFICES ASSUME TypeOK, answered \subseteq arrived, NEW c \in Call
             PROVE  /\ c \notin arrived => Phase[c] = "absent"
                    /\ c \in arrived \ answered => Phase[c] = "pending"
                    /\ c \in answered /\ resp[c].failure => Phase[c] = "failed"
                    /\ c \in answered /\ ~resp[c].failure => Phase[c] = "completed"
  BY DEF PhaseByAnswer, LifeInv
<1>1. resp[c].failure \in BOOLEAN
  BY DEF TypeOK, Response
<1>2. Phase[c] = CASE c \notin arrived                   -> "absent"
                   [] c \in arrived /\ c \notin answered -> "pending"
                   [] c \in answered /\ resp[c].failure  -> "failed"
                   [] c \in answered /\ ~resp[c].failure -> "completed"
  BY DEF Phase
<1> QED
  BY <1>1, <1>2

LEMMA PhaseIsNext == (TypeOK /\ LifeInv)' => PhaseByAnswer'
BY PhaseIs, PTL

LEMMA PhaseInit == Init => Lifecycle!Init
<1> SUFFICES ASSUME Init PROVE Lifecycle!Init
  OBVIOUS
<1>1. \A c \in Call : Phase[c] = "absent"
  BY InitTyped, InitLife, PhaseIs DEF Init, PhaseByAnswer
<1>2. Phase = [c \in Call |-> "absent"]
  BY <1>1 DEF Phase
<1> QED
  BY <1>2 DEF Init, Lifecycle!Init, Lifecycle!Steps, Steps

(* A step that answers no call and admits none leaves every phase.         *)
LEMMA PhaseStays ==
  ASSUME UNCHANGED <<arrived, answered>>,
         \A c \in answered : resp'[c].failure = resp[c].failure
  PROVE  Phase' = Phase
BY DEF Phase

(* A step that changes the phase of one call.                              *)
LEMMA PhaseMoves ==
  ASSUME NEW c \in Call, NEW ph, Phase'[c] = ph,
         \A e \in Call : e # c =>
           /\ (e \in arrived' <=> e \in arrived) /\ (e \in answered' <=> e \in answered)
           /\ resp'[e].failure = resp[e].failure
  PROVE  Phase' = [Phase EXCEPT ![c] = ph]
<1>1. \A e \in Call : e # c => Phase'[e] = Phase[e]
  BY DEF Phase
<1>2. Phase = [e \in Call |-> Phase[e]] /\ Phase' = [e \in Call |-> Phase'[e]]
  BY DEF Phase
<1> QED
  BY <1>1, <1>2

LEMMA StepImplements ==
  TypeOK /\ InHand /\ TokenInv /\ StepInv /\ LifeInv /\ (TypeOK /\ LifeInv)' /\ [Next]_vars
    => (errors' = 0 => Lifecycle!Next \/ UNCHANGED Lifecycle!vars)
<1> SUFFICES ASSUME TypeOK, InHand, TokenInv, StepInv, LifeInv, TypeOK', LifeInv', [Next]_vars, errors' = 0
             PROVE  Lifecycle!Next \/ UNCHANGED Lifecycle!vars
  OBVIOUS
<1> USE DEF published, queues, answers, faults
<1>a. /\ PhaseByAnswer /\ PhaseByAnswer' /\ errors \in Nat
      /\ \A w \in Worker : worker[w].pc \notin {"idle", "loop"} =>
           /\ worker[w].task \in Task /\ CallOf(w) \in Call /\ StepOf(w) \in Steps
           /\ worker[w].task = <<CallOf(w), StepOf(w)>>
           /\ CallOf(w) \in arrived
  BY PhaseIs, PhaseIsNext, HeldTyped DEF TypeOK, LifeInv
<1>b. ASSUME UNCHANGED <<arrived, answered, resp, ran>> PROVE UNCHANGED Lifecycle!vars
  BY <1>b, PhaseStays DEF Lifecycle!vars
<1>1. ASSUME NEW c \in Call, Publish(c) PROVE Lifecycle!Next
  <2>1. Phase[c] = "absent" /\ Phase'[c] = "pending"
    BY <1>1, <1>a DEF Publish, PhaseByAnswer, LifeInv
  <2>2. Phase' = [Phase EXCEPT ![c] = "pending"]
    BY <1>1, <2>1, PhaseMoves DEF Publish
  <2> QED
    BY <1>1, <2>1, <2>2 DEF Publish, Lifecycle!Next, Lifecycle!Accept
<1>2. ASSUME NEW d \in Executor, ExecutorStep(d) \/ ExecutorCrash(d)
      PROVE  UNCHANGED Lifecycle!vars
  BY <1>2, <1>b DEF ExecutorStep, ExecutorPoll, ExecutorClaim, ExecutorPrepare, ExecutorRefuses,
                    ExecutorRaises, ExecutorCrash
<1>3. ASSUME NEW w \in Worker, \/ WorkerPoll(w) \/ WorkerClaim(w) \/ WorkerRead(w)
                               \/ WorkerReadRaises(w) \/ WorkerPersist(w) \/ WorkerNext(w)
                               \/ WorkerRefuses(w) \/ WorkerCrash(w)
      PROVE  UNCHANGED Lifecycle!vars
  BY <1>3, <1>b DEF WorkerPoll, WorkerClaim, WorkerRead, WorkerReadRaises, WorkerPersist,
                    WorkerNext, WorkerRefuses, WorkerCrash
(* A step that takes effect: the call is open, and what ran is what is     *)
(* before the step.                                                        *)
<1>4. ASSUME NEW w \in Worker, WorkerAt(w, "run"), Effect(worker[w].task),
             UNCHANGED <<arrived, answered, resp>>, errors' = errors
      PROVE  Lifecycle!Next
  <2>t. PICK c \in Call, s \in Steps : c = CallOf(w) /\ s = StepOf(w) /\ worker[w].task = <<c, s>>
    BY <1>a, <1>4 DEF WorkerAt
  <2>1. Phase[c] = "pending"
    BY <2>t, <1>a, <1>4 DEF PhaseByAnswer, LifeInv, Holding, WorkerAt, Open
  <2>2. \A t \in Steps : ran[c][t] = IF t < s THEN 1 ELSE 0
    BY <2>t, <1>4 DEF StepInv, WorkerAt, RanBelow
  <2>3. ran' = [ran EXCEPT ![c][s] = 1]
    <3>1. ran[c][s] = 0
      BY <2>2 DEF Steps
    <3> QED
      BY <3>1, <2>t, <1>4 DEF Effect, TypeOK
  <2>4. Phase' = Phase
    BY <1>4, PhaseStays
  <2> QED
    BY <2>1, <2>2, <2>3, <2>4 DEF Lifecycle!Next, Lifecycle!RunStep, Lifecycle!Steps, Steps
<1>5. ASSUME NEW w \in Worker, WorkerRun(w) PROVE Lifecycle!Next
  BY <1>4, <1>5 DEF WorkerRun
<1>6. ASSUME NEW w \in Worker, WorkerRunFails(w) PROVE Lifecycle!Next \/ UNCHANGED Lifecycle!vars
  BY <1>4, <1>6, <1>b DEF WorkerRunFails
<1>7. ASSUME NEW w \in Worker, WorkerRespond(w) PROVE UNCHANGED Lifecycle!vars
  <2>1. \A c \in Call : resp'[c].failure = resp[c].failure
    BY <1>7 DEF WorkerRespond, PutSuccess, TypeOK, Response
  <2> QED
    BY <1>7, <2>1, PhaseStays DEF WorkerRespond, Lifecycle!vars, TypeOK
(* The answer: of an open call whose last step has run, or that failed.    *)
<1>8. ASSUME NEW w \in Worker, WorkerRecord(w) PROVE Lifecycle!Next
  <2>t. PICK c \in Call : c = CallOf(w) /\ c \in arrived
    BY <1>a, <1>8 DEF WorkerRecord, WorkerAt
  <2>1. Open(c) /\ answered' = answered \union {c} /\ UNCHANGED <<arrived, resp, ran>>
    BY <2>t, <1>8 DEF LifeInv, Holding, WorkerRecord, WorkerAt, PutAnswer
  <2>2. \A s \in Steps : ran[c][s] = 1
    <3>1. RanTo(ran, worker[w].task) /\ worker[w].task[1] = c /\ worker[w].task[2] = NumSteps
      BY <2>t, <1>8 DEF StepInv, WorkerRecord, WorkerAt, InHand, StepOf, CallOf
    <3> QED
      BY <3>1, StepsAssumption DEF RanTo, Steps
  <2>3. Phase[c] = "pending" /\ Phase'[c] = "completed"
    BY <2>t, <2>1, <1>a DEF PhaseByAnswer, Open
  <2>4. Phase' = [Phase EXCEPT ![c] = "completed"]
    BY <2>1, <2>3, PhaseMoves
  <2> QED
    BY <2>1, <2>2, <2>3, <2>4 DEF Lifecycle!Next, Lifecycle!Complete, Lifecycle!Steps, Steps
<1>9. ASSUME NEW w \in Worker, WorkerFailRecord(w) PROVE Lifecycle!Next
  <2>t. PICK c \in Call : c = CallOf(w) /\ c \in arrived
    BY <1>a, <1>9 DEF WorkerFailRecord, WorkerAt
  <2>1. c \notin answered /\ resp[c].failure
    BY <2>t, <1>9 DEF LifeInv, WorkerFailRecord
  <2>2. answered' = answered \union {c} /\ UNCHANGED <<arrived, resp, ran>>
    BY <2>t, <1>9 DEF WorkerFailRecord, PutAnswer
  <2>3. Phase[c] = "pending" /\ Phase'[c] = "failed"
    BY <2>t, <2>1, <2>2, <1>a DEF PhaseByAnswer
  <2>4. Phase' = [Phase EXCEPT ![c] = "failed"]
    BY <2>2, <2>3, PhaseMoves
  <2> QED
    BY <2>2, <2>3, <2>4 DEF Lifecycle!Next, Lifecycle!Fail
<1>10. ASSUME NEW w \in Worker, WorkerFail(w) PROVE UNCHANGED Lifecycle!vars
  <2>t. PICK c \in Call : c = CallOf(w)
    BY <1>a, <1>10 DEF WorkerFail, WorkerAt
  <2>1. c \notin answered
    BY <2>t, <1>10 DEF LifeInv, Holding, WorkerFail, WorkerAt, Open
  <2>2. \A e \in answered : resp'[e] = resp[e]
    BY <2>t, <2>1, <1>10 DEF WorkerFail, PutFailure, TypeOK
  <2> QED
    BY <1>10, <2>2, PhaseStays DEF WorkerFail, Lifecycle!vars
<1>11. ASSUME NEW w \in Worker, WorkerRaises(w) PROVE FALSE
  BY <1>11, <1>a DEF WorkerRaises, AnError
<1>12. CASE UNCHANGED vars
  BY <1>12, <1>b DEF vars
<1> QED
  BY <1>1, <1>2, <1>3, <1>5, <1>6, <1>7, <1>8, <1>9, <1>10, <1>11, <1>12 DEF Next, WorkerStep

(* As long as no Redis or SQLite call has raised, the daemons do what      *)
(* CallLifecycle promises, whichever of them crash (executord.py:36-50,    *)
(* workerd.py:41-97).                                                      *)
THEOREM QueuesImplementLifecycle == Spec => ImplementsLifecycle
<1> DEFINE IInv == TypeOK /\ InHand /\ TokenInv /\ StepInv /\ LifeInv
<1>1. Init => IInv
  BY InitTyped, InitToken, InitSteps, InitLife
<1>2. IInv /\ [Next]_vars => IInv'
  BY StepTyped, StepToken, StepSteps, StepLife
<1>3. IInv /\ IInv' /\ [Next]_vars => [errors' = 0 => Lifecycle!Next \/ UNCHANGED Lifecycle!vars]_vars
  BY StepImplements
<1>4. Init => Lifecycle!Init
  BY PhaseInit
<1> QED
  BY <1>1, <1>2, <1>3, <1>4, PTL DEF Spec, ImplementsLifecycle

==============================================================================
