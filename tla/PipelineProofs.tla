---------------------------- MODULE PipelineProofs ----------------------------
(***************************************************************************)
(* Proofs about Pipeline, for any callers, inputs, daemons and plan length,*)
(* and any bound on stops, crashes and errors: each side                   *)
(* keeps to what the other assumes of it, so that what is proved of the    *)
(* parts holds of the whole.                                               *)
(***************************************************************************)
EXTENDS Pipeline, TLAPS

EP == INSTANCE EnqueueProofs WITH CallOf <- CallFor, answered <- registered,
                                  crashes <- stops, MaxCrashes <- MaxStops
XP == INSTANCE ExecutionProofs WITH arrived <- Arrived, equeue <- queue, answered <- executed

------------------------------------------------------------------------------
(* The proofs of the parts speak of the same Enqueue and Execution.        *)

LEMMA SameEnqueue ==
  /\ E!Init <=> EP!Init
  /\ E!Next <=> EP!Next
  /\ UNCHANGED E!vars <=> UNCHANGED EP!vars
<1> USE DEF E!Call, E!At, E!In, E!Key, E!Mine, E!Goto, E!Raise, E!Settle, E!Return, E!PublishCall,
            E!Push, E!Idle, E!ledgerVars, E!redisVars, E!Verdict, E!NoContent,
            EP!Call, EP!At, EP!In, EP!Key, EP!Mine, EP!Goto, EP!Raise, EP!Settle, EP!Return,
            EP!PublishCall, EP!Push, EP!Idle, EP!ledgerVars, EP!redisVars, EP!Verdict, EP!NoContent
<1>1. ASSUME NEW k PROVE E!Advance(k) <=> EP!Advance(k)
  BY DEF E!Claim, E!LoadDone, E!GetMarker, E!LoadPrior, E!ResolvePlan, E!RecordCall, E!Eval,
         E!Register, E!Respond, E!Done, E!Advance,
         EP!Claim, EP!LoadDone, EP!GetMarker, EP!LoadPrior, EP!ResolvePlan, EP!RecordCall,
         EP!Eval, EP!Register, EP!Respond, EP!Done, EP!Advance
<1>2. ASSUME NEW k PROVE E!Crash(k) <=> EP!Crash(k)
  BY DEF E!Crash, EP!Crash
<1>3. ASSUME NEW k, NEW i PROVE E!Start(k, i) <=> EP!Start(k, i)
  BY DEF E!Start, EP!Start
<1>4. ASSUME NEW c PROVE E!ExecutorTakes(c) <=> EP!ExecutorTakes(c)
  BY DEF E!ExecutorTakes, EP!ExecutorTakes
<1>5. ASSUME NEW v PROVE E!EditPlan(v) <=> EP!EditPlan(v)
  BY DEF E!EditPlan, EP!EditPlan
<1>6. E!Next <=> EP!Next
  BY <1>1, <1>2, <1>3, <1>4, <1>5 DEF E!Next, EP!Next
<1>7. E!Init <=> EP!Init
  BY DEF E!Init, EP!Init
<1>8. UNCHANGED E!vars <=> UNCHANGED EP!vars
  BY DEF E!vars, EP!vars
<1> QED
  BY <1>6, <1>7, <1>8

LEMMA SameExecution ==
  /\ X!Init <=> XP!Init
  /\ X!Next <=> XP!Next
  /\ UNCHANGED X!vars <=> UNCHANGED XP!vars
<1>a. \A S : X!FirstCalls(S) = XP!FirstCalls(S) /\ X!FirstTasks(S) = XP!FirstTasks(S)
  BY DEF X!FirstCalls, XP!FirstCalls, X!FirstTasks, XP!FirstTasks, X!Before, XP!Before,
         X!Cardinality, XP!Cardinality
<1>b. \A t, u : X!Before(t, u) <=> XP!Before(t, u)
  BY DEF X!Before, XP!Before
<1> USE DEF X!Steps, X!Task, X!queues, X!answers, X!faults, X!NoCall, X!NoTask,
            X!IdleExecutor, X!IdleWorker,
            X!ExecutorAt, X!WorkerAt, X!CallOf, X!StepOf, X!ExecutorContinues, X!WorkerGoto,
            X!WorkerContinues, X!AnError, X!Stops, X!PutTask, X!PutResult, X!PutSuccess,
            X!PutFailure, X!PutAnswer, X!Effect, X!published, X!Preparable,
            XP!Steps, XP!Task, XP!queues, XP!answers, XP!faults, XP!NoCall, XP!NoTask,
            XP!IdleExecutor, XP!IdleWorker,
            XP!ExecutorAt, XP!WorkerAt, XP!CallOf, XP!StepOf, XP!ExecutorContinues, XP!WorkerGoto,
            XP!WorkerContinues, XP!AnError, XP!Stops, XP!PutTask, XP!PutResult, XP!PutSuccess,
            XP!PutFailure, XP!PutAnswer, XP!Effect, XP!published, XP!Preparable
<1>1. ASSUME NEW c PROVE X!Publish(c) <=> XP!Publish(c)
  BY DEF X!Publish, XP!Publish
<1>2. ASSUME NEW d PROVE X!ExecutorStep(d) <=> XP!ExecutorStep(d)
  <2>1. X!ExecutorPoll(d) <=> XP!ExecutorPoll(d)
    BY <1>a DEF X!ExecutorPoll, XP!ExecutorPoll
  <2>2. X!ExecutorClaim(d) <=> XP!ExecutorClaim(d)
    BY <1>a DEF X!ExecutorClaim, XP!ExecutorClaim
  <2>3. X!ExecutorPrepare(d) <=> XP!ExecutorPrepare(d)
    BY <1>a DEF X!ExecutorPrepare, XP!ExecutorPrepare
  <2>4. X!ExecutorRaises(d) <=> XP!ExecutorRaises(d)
    BY <1>a DEF X!ExecutorRaises, XP!ExecutorRaises
  <2>5. X!ExecutorRefuses(d) <=> XP!ExecutorRefuses(d)
    BY <1>a DEF X!ExecutorRefuses, XP!ExecutorRefuses
  <2> QED
    BY <2>1, <2>2, <2>3, <2>4, <2>5 DEF X!ExecutorStep, XP!ExecutorStep
<1>3. ASSUME NEW d PROVE X!ExecutorCrash(d) <=> XP!ExecutorCrash(d)
  BY DEF X!ExecutorCrash, XP!ExecutorCrash
<1>4. ASSUME NEW w PROVE X!WorkerStep(w) <=> XP!WorkerStep(w)
  <2>1. X!WorkerPoll(w) <=> XP!WorkerPoll(w)
    BY <1>a DEF X!WorkerPoll, XP!WorkerPoll
  <2>2. X!WorkerClaim(w) <=> XP!WorkerClaim(w)
    BY <1>b DEF X!WorkerClaim, XP!WorkerClaim
  <2>3. X!WorkerRead(w) <=> XP!WorkerRead(w)
    BY <1>a DEF X!WorkerRead, XP!WorkerRead
  <2>4. X!WorkerReadRaises(w) <=> XP!WorkerReadRaises(w)
    BY <1>a DEF X!WorkerReadRaises, XP!WorkerReadRaises
  <2>5. X!WorkerRun(w) <=> XP!WorkerRun(w)
    BY <1>a DEF X!WorkerRun, XP!WorkerRun
  <2>6. X!WorkerRunFails(w) <=> XP!WorkerRunFails(w)
    BY <1>a DEF X!WorkerRunFails, XP!WorkerRunFails
  <2>7. X!WorkerPersist(w) <=> XP!WorkerPersist(w)
    BY <1>a DEF X!WorkerPersist, XP!WorkerPersist
  <2>8. X!WorkerNext(w) <=> XP!WorkerNext(w)
    BY <1>a DEF X!WorkerNext, XP!WorkerNext
  <2>9. X!WorkerRespond(w) <=> XP!WorkerRespond(w)
    BY <1>a DEF X!WorkerRespond, XP!WorkerRespond
  <2>10. X!WorkerRecord(w) <=> XP!WorkerRecord(w)
    BY <1>a DEF X!WorkerRecord, XP!WorkerRecord
  <2>11. X!WorkerRaises(w) <=> XP!WorkerRaises(w)
    BY <1>a DEF X!WorkerRaises, XP!WorkerRaises
  <2>12. X!WorkerFail(w) <=> XP!WorkerFail(w)
    BY <1>a DEF X!WorkerFail, XP!WorkerFail
  <2>13. X!WorkerFailRecord(w) <=> XP!WorkerFailRecord(w)
    BY <1>a DEF X!WorkerFailRecord, XP!WorkerFailRecord
  <2>14. X!WorkerRefuses(w) <=> XP!WorkerRefuses(w)
    BY <1>a DEF X!WorkerRefuses, XP!WorkerRefuses
  <2> QED
    BY <2>1, <2>2, <2>3, <2>4, <2>5, <2>6, <2>7, <2>8, <2>9, <2>10, <2>11, <2>12, <2>13, <2>14
    DEF X!WorkerStep, XP!WorkerStep
<1>5. ASSUME NEW w PROVE X!WorkerCrash(w) <=> XP!WorkerCrash(w)
  BY DEF X!WorkerCrash, XP!WorkerCrash
<1>6. X!Next <=> XP!Next
  BY <1>1, <1>2, <1>3, <1>4, <1>5 DEF X!Next, XP!Next
<1>7. X!Init <=> XP!Init
  BY DEF X!Init, XP!Init
<1>8. UNCHANGED X!vars <=> UNCHANGED XP!vars
  BY DEF X!vars, XP!vars
<1> QED
  BY <1>6, <1>7, <1>8
------------------------------------------------------------------------------
(* Each side keeps to what the other assumes of it.                        *)

EInv == EP!TypeOK /\ EP!IInv
XInv == XP!TypeOK /\ XP!InHand /\ XP!TokenInv /\ XP!StepInv /\ XP!LifeInv

LEMMA LedgerShared == LedgerOf \in [Caller -> Ledger]
BY DEF LedgerOf, Ledger

LEMMA EnqueueInv ==
  /\ E!Init => EInv
  /\ EInv /\ [E!Next]_E!vars => EInv'
<1> USE LedgerShared, EnqueueAssumption, BoundsAssumption, SameEnqueue
<1>1. E!Init => EInv
  BY EP!InitTyped, EP!InitIInv DEF EInv
<1>2. ASSUME EInv, [E!Next]_E!vars PROVE EInv'
  <2>1. EP!TypeOK /\ EP!IInv /\ [EP!Next]_EP!vars
    BY <1>2 DEF EInv
  <2>2. EP!TypeOK'
    BY <2>1, EP!StepTyped DEF EP!IInv
  <2>3. EP!CallerInv' /\ EP!StoreInv' /\ EP!QueuedMeansFinished' /\ EP!VerdictsAgree'
    BY <2>1, EP!StepCallers, EP!StepStore, EP!StepRows, EP!StepVerdicts
  <2> QED
    BY <2>2, <2>3 DEF EInv, EP!IInv
<1> QED
  BY <1>1, <1>2

LEMMA ExecutionInv ==
  /\ X!Init => XInv
  /\ XInv /\ [X!Next]_X!vars => XInv'
<1> USE ExecutionAssumption, BoundsAssumption, SameExecution
<1>1. X!Init => XInv
  BY XP!InitTyped, XP!InitToken, XP!InitSteps, XP!InitLife DEF XInv
<1>2. ASSUME XInv, [X!Next]_X!vars PROVE XInv'
  <2>1. [XP!Next]_XP!vars
    BY <1>2
  <2> QED
    BY <1>2, <2>1, XP!StepTyped, XP!StepToken, XP!StepSteps, XP!StepLife DEF XInv
<1> QED
  BY <1>1, <1>2

(* Steps of the two sides, and that a step of the whole is one of them.    *)
EnqueueStep ==
  \E k \in Caller : E!Advance(k) \/ E!Crash(k) \/ \E i \in Input : E!Start(k, i)
DaemonStep ==
  \/ \E d \in Executor : X!ExecutorStep(d) \/ X!ExecutorCrash(d)
  \/ \E w \in Worker : X!WorkerStep(w) \/ X!WorkerCrash(w)

LEMMA OneSide ==
  ASSUME Next
  PROVE  \/ EnqueueStep /\ UNCHANGED daemonVars
         \/ DaemonStep /\ UNCHANGED enqueueVars
BY DEF Next, Enqueues, Daemon, EnqueueStep, DaemonStep

(* To Enqueue, a daemon is an executor that takes a call, or nothing.      *)
LEMMA DaemonsTake ==
  ASSUME DaemonStep
  PROVE  queue' = queue \/ \E c \in queue : queue' = queue \ {c}
<1> USE DEF X!queues
<1>1. ASSUME NEW d, X!ExecutorStep(d)
      PROVE  queue' = queue \/ \E c \in queue : queue' = queue \ {c}
  BY <1>1 DEF X!ExecutorStep, X!ExecutorPoll, X!ExecutorClaim, X!ExecutorPrepare, X!ExecutorRaises,
       X!ExecutorRefuses, X!published
<1>2. ASSUME NEW d, X!ExecutorCrash(d) PROVE queue' = queue
  BY <1>2 DEF X!ExecutorCrash
<1>3. ASSUME NEW w, X!WorkerStep(w) PROVE queue' = queue
  BY <1>3 DEF X!WorkerStep, X!WorkerPoll, X!WorkerClaim, X!WorkerRead, X!WorkerReadRaises,
       X!WorkerRun, X!WorkerRunFails, X!WorkerPersist, X!WorkerNext, X!WorkerRefuses,
       X!WorkerRespond, X!WorkerRecord, X!WorkerRaises, X!WorkerFail, X!WorkerFailRecord
<1>4. ASSUME NEW w, X!WorkerCrash(w) PROVE queue' = queue
  BY <1>4 DEF X!WorkerCrash
<1> QED
  BY <1>1, <1>2, <1>3, <1>4 DEF DaemonStep

LEMMA StepEnqueues ==
  ASSUME EInv, [Next]_vars
  PROVE  [E!Next]_E!vars
<1> USE DEF enqueueVars
<1>1. CASE EnqueueStep
  BY <1>1 DEF EnqueueStep, E!Next
<1>2. CASE DaemonStep /\ UNCHANGED enqueueVars
  <2>1. CASE queue' = queue
    BY <1>2, <2>1 DEF E!vars, E!ledgerVars, E!redisVars
  <2>2. ASSUME NEW c \in queue, queue' = queue \ {c} PROVE E!Next
    <3>1. c \in E!Call
      BY DEF EInv, EP!TypeOK, EP!Call, E!Call
    <3>2. E!ExecutorTakes(c)
      BY <1>2, <2>2 DEF E!ExecutorTakes, E!ledgerVars
    <3> QED
      BY <3>1, <3>2 DEF E!Next
  <2> QED
    BY <1>2, <2>1, <2>2, DaemonsTake
<1>3. CASE UNCHANGED vars
  BY <1>3 DEF vars, E!vars, E!ledgerVars, E!redisVars
<1> QED
  BY <1>1, <1>2, <1>3, OneSide

(* To Execution, a caller publishes a call that has not arrived, or does   *)
(* nothing.                                                                *)
Pushes(c) ==
  /\ c \in Call /\ pushed[c] = 0
  /\ queue' = queue \union {c} /\ pushed' = [pushed EXCEPT ![c] = @ + 1]

LEMMA CallersPush ==
  ASSUME EInv, EnqueueStep
  PROVE  UNCHANGED <<queue, pushed>> \/ \E c \in Call : Pushes(c)
<1> DEFINE Goal == UNCHANGED <<queue, pushed>> \/ \E c \in Call : Pushes(c)
<1> USE DEF E!redisVars
<1>1. ASSUME NEW k \in Caller, E!Eval(k) PROVE Goal
  <2>1. CASE marker[E!Key(k)] = NoInput /\ E!Push(k)
    <3>1. E!In(k) \in Input
      BY <1>1 DEF EInv, EP!IInv, EP!CallerInv, EP!CallerOK, EP!At, EP!In, E!In, E!Eval, E!At
    <3>2. E!Key(k) \in Call
      BY <3>1 DEF E!Key, Call
    <3>3. pushed[E!Key(k)] = 0
      BY <2>1, <3>2 DEF EInv, EP!IInv, EP!StoreInv, EP!Call, Call
    <3> QED
      BY <2>1, <3>2, <3>3 DEF E!Push, Pushes
  <2> QED
    BY <1>1, <2>1 DEF E!Eval
<1>2. ASSUME NEW k \in Caller, E!Advance(k), ~E!Eval(k) PROVE Goal
  BY <1>2 DEF E!Advance, E!Claim, E!LoadDone, E!GetMarker, E!LoadPrior, E!ResolvePlan,
       E!RecordCall, E!Register, E!Respond, E!Done
<1>3. ASSUME NEW k \in Caller, E!Crash(k) \/ \E i \in Input : E!Start(k, i) PROVE Goal
  BY <1>3 DEF E!Crash, E!Start
<1> QED
  BY <1>1, <1>2, <1>3 DEF EnqueueStep

LEMMA PushArrives ==
  ASSUME EInv, NEW c \in Call, Pushes(c)
  PROVE  c \notin Arrived /\ Arrived' = Arrived \union {c}
<1>1. pushed \in [Call -> Nat]
  BY DEF EInv, EP!TypeOK, EP!Call, Call
<1>2. pushed'[c] = 1 /\ \A e \in Call : e # c => pushed'[e] = pushed[e]
  BY <1>1 DEF Pushes
<1> QED
  BY <1>2 DEF Arrived, Pushes

LEMMA StepExecutes ==
  ASSUME EInv, [Next]_vars
  PROVE  [X!Next]_X!vars
<1> USE DEF daemonVars, X!queues, X!answers, X!faults
<1>1. CASE EnqueueStep /\ UNCHANGED daemonVars
  <2>1. CASE UNCHANGED <<queue, pushed>>
    BY <1>1, <2>1 DEF X!vars, X!published, Arrived
  <2>2. ASSUME NEW c \in Call, Pushes(c) PROVE X!Next
    <3>1. X!Publish(c)
      BY <1>1, <2>2, PushArrives DEF X!Publish, Pushes
    <3> QED
      BY <3>1 DEF X!Next
  <2> QED
    BY <1>1, <2>1, <2>2, CallersPush
<1>2. CASE DaemonStep
  BY <1>2 DEF DaemonStep, X!Next
<1>3. CASE UNCHANGED vars
  BY <1>3 DEF vars, enqueueVars, X!vars, X!published, Arrived
<1> QED
  BY <1>1, <1>2, <1>3, OneSide

(* Pipeline implements both of its parts: a call is published once over    *)
(* all callers and retries, and a daemon only ever takes calls out of the  *)
(* queue.                                                                  *)
LEMMA Invariance == Spec => [](EInv /\ XInv)
<1>1. Init => EInv /\ XInv
  BY EnqueueInv, ExecutionInv DEF Init
<1>2. EInv /\ XInv /\ [Next]_vars => (EInv /\ XInv)'
  BY StepEnqueues, StepExecutes, EnqueueInv, ExecutionInv
<1> QED
  BY <1>1, <1>2, PTL DEF Spec

THEOREM PartsImplemented == Spec => ImplementsParts
<1>1. Init => E!Init /\ X!Init
  BY DEF Init
<1>2. EInv /\ [Next]_vars => [E!Next]_E!vars /\ [X!Next]_X!vars
  BY StepEnqueues, StepExecutes
<1>3. Spec => []EInv
  BY Invariance, PTL
<1> QED
  BY <1>1, <1>2, <1>3, PTL DEF Spec, ImplementsParts, E!Spec, X!Spec

------------------------------------------------------------------------------
(* What is proved of the parts holds of the whole.                         *)

LEMMA ExecutionSpec == Spec => XP!Spec
<1>1. [X!Next]_X!vars => [XP!Next]_XP!vars
  BY SameExecution
<1> QED
  BY <1>1, PartsImplemented, SameExecution, PTL DEF ImplementsParts, X!Spec, XP!Spec

LEMMA SameVerdicts ==
  EInv => E!VerdictsAgree /\ E!QueuedMeansFinished
BY DEF EInv, EP!IInv, E!VerdictsAgree, EP!VerdictsAgree, E!QueuedMeansFinished,
       EP!QueuedMeansFinished

LEMMA SameHolders == XP!OneToken => X!OneToken
<1>1. \A S : X!Cardinality(S) = XP!Cardinality(S)
  BY DEF X!Cardinality, XP!Cardinality
<1>2. \A c : X!Holders(c) = XP!Holders(c)
  BY DEF X!Holders, XP!Holders, X!ExecutorAt, XP!ExecutorAt, X!CallOf, XP!CallOf
<1> QED
  BY <1>1, <1>2 DEF X!OneToken, XP!OneToken

LEMMA SameSteps == XP!StepsOnceInOrder => X!StepsOnceInOrder
BY DEF X!StepsOnceInOrder, XP!StepsOnceInOrder, X!Steps, XP!Steps

(* A call that runs has arrived, so it can be executed. *)
LEMMA RunsAccepted ==
  ASSUME EInv, XInv, NEW c \in Call, ran[c][1] > 0
  PROVE  content[c].input \in Queued \intersect Ready /\ content[c].plan # NoPlan
<1>1. 1 \in XP!Steps
  BY ExecutionAssumption DEF XP!Steps
<1>2. c \in Arrived
  BY <1>1 DEF XInv, XP!StepInv
<1>3. pushed[c] > 0
  BY <1>2 DEF Arrived
<1> QED
  BY <1>3 DEF EInv, EP!IInv, EP!StoreInv, EP!QueueIsExecutable, EP!Call, Call

(* Callers and daemons together: the work of a call is held in one place,  *)
(* its steps take effect once and in order and only if it was accepted for *)
(* it, and every caller is told what Redis holds.                          *)
THEOREM OneVerdictThenOneExecution == Spec => []OneVerdictOneExecution
<1>1. EInv /\ XInv /\ XP!OneToken /\ XP!StepsOnceInOrder => OneVerdictOneExecution
  BY SameVerdicts, SameHolders, SameSteps, RunsAccepted DEF OneVerdictOneExecution
<1>2. Spec => []XP!OneToken
  BY ExecutionSpec, XP!HeldOnce, ExecutionAssumption, BoundsAssumption, PTL
<1>3. Spec => []XP!StepsOnceInOrder
  BY ExecutionSpec, XP!RunsOnceInOrder, ExecutionAssumption, BoundsAssumption, PTL
<1> QED
  BY <1>1, <1>2, <1>3, Invariance, PTL

------------------------------------------------------------------------------
(* The promise of CallLifecycle, end to end.                               *)

(* A registered failure is one of a call that was published without a plan *)
(* and so is never executed; a ledger answers for it only then.            *)
FailInv ==
  /\ \A c \in failed : marker[c] # NoInput /\ content[c].plan = NoPlan
  /\ registered[LedgerDb] \subseteq failed

LEMMA EnqueueKeeps ==
  ASSUME EInv, [E!Next]_E!vars
  PROVE  EP!Keeps
<1>1. EP!TypeOK /\ EP!CallerInv /\ [EP!Next]_EP!vars
  BY SameEnqueue DEF EInv, EP!IInv
<1> QED
  BY <1>1, EP!StepKeeps, LedgerShared, EnqueueAssumption, BoundsAssumption

(* What a caller that registers a failure, and one that answers for it,    *)
(* has in hand.                                                            *)
LEMMA RegisterHas ==
  ASSUME EInv, NEW k \in Caller, E!Register(k)
  PROVE  /\ E!Key(k) \in Call /\ marker[E!Key(k)] # NoInput
         /\ content[E!Key(k)].plan = NoPlan
<1>1. EP!At(k, "register") /\ EP!Key(k) = E!Key(k)
  BY DEF E!Register, E!At, EP!At, E!Key, EP!Key, E!In, EP!In
<1>2. EP!CallerOK(k)
  BY DEF EInv, EP!IInv, EP!CallerInv
<1>3. EP!In(k) \in Input /\ marker[EP!Key(k)] = EP!In(k) /\ content[EP!Key(k)].plan = NoPlan
  BY <1>1, <1>2 DEF EP!CallerOK, EP!At, EP!Registered
<1> QED
  BY <1>1, <1>3, EnqueueAssumption DEF EP!Key, Call

LEMMA RespondHas ==
  ASSUME EInv, NEW k \in Caller, E!Respond(k)
  PROVE  E!Key(k) \in Call /\ E!Key(k) \in failed
<1>1. EP!At(k, "respond") /\ EP!Key(k) = E!Key(k)
  BY DEF E!Respond, E!At, EP!At, E!Key, EP!Key, E!In, EP!In
<1>2. EP!CallerOK(k) /\ failed \subseteq Call
  BY DEF EInv, EP!IInv, EP!CallerInv, EP!TypeOK, EP!Call, Call
<1> QED
  BY <1>1, <1>2 DEF EP!CallerOK

(* What Enqueue does to the variables that a reader sees. *)
LEMMA EnqueueSees ==
  ASSUME EInv, EnqueueStep
  PROVE  \/ UNCHANGED <<marker, failed, registered>>
         \/ /\ UNCHANGED <<failed, registered>>
            /\ \E c \in Call, i \in Input :
                 marker[c] = NoInput /\ marker' = [marker EXCEPT ![c] = i]
         \/ /\ UNCHANGED <<marker, content, registered>>
            /\ \E c \in Call : /\ failed' = failed \union {c}
                               /\ marker[c] # NoInput /\ content[c].plan = NoPlan
         \/ /\ UNCHANGED <<marker, content, failed>>
            /\ \E c \in failed :
                 registered' = [registered EXCEPT ![LedgerDb] = @ \union {c}]
<1> DEFINE Unseen == UNCHANGED <<marker, failed, registered>>
           Publishes == /\ UNCHANGED <<failed, registered>>
                        /\ \E c \in Call, i \in Input :
                             marker[c] = NoInput /\ marker' = [marker EXCEPT ![c] = i]
           Fails == /\ UNCHANGED <<marker, content, registered>>
                    /\ \E c \in Call : /\ failed' = failed \union {c}
                                       /\ marker[c] # NoInput /\ content[c].plan = NoPlan
           Responds == /\ UNCHANGED <<marker, content, failed>>
                       /\ \E c \in failed :
                            registered' = [registered EXCEPT ![LedgerDb] = @ \union {c}]
<1> USE DEF E!redisVars, E!ledgerVars
<1>1. ASSUME NEW k \in Caller, E!Eval(k) PROVE Unseen \/ Publishes
  <2>1. CASE marker[E!Key(k)] = NoInput /\ E!PublishCall(k)
    <3>1. E!In(k) \in Input
      BY <1>1 DEF EInv, EP!IInv, EP!CallerInv, EP!CallerOK, EP!At, EP!In, E!In, E!Eval, E!At
    <3>2. E!Key(k) \in Call
      BY <3>1 DEF E!Key, Call
    <3> QED
      BY <1>1, <2>1, <3>1, <3>2 DEF E!PublishCall, E!Eval
  <2> QED
    BY <1>1, <2>1 DEF E!Eval
<1>2. ASSUME NEW k \in Caller, E!Register(k) PROVE Fails
  BY <1>2, RegisterHas DEF E!Register
<1>3. ASSUME NEW k \in Caller, E!Respond(k) PROVE Unseen \/ Responds
  <2>1. \/ UNCHANGED <<marker, content, failed, registered>>
        \/ /\ UNCHANGED <<marker, content, failed>>
           /\ registered' = [registered EXCEPT ![LedgerDb] = @ \union {E!Key(k)}]
    BY <1>3 DEF E!Respond, LedgerOf
  <2> QED
    BY <1>3, <2>1, RespondHas
<1>4. ASSUME NEW k \in Caller, E!Advance(k), ~E!Eval(k), ~E!Register(k), ~E!Respond(k)
      PROVE  Unseen
  BY <1>4 DEF E!Advance, E!Claim, E!LoadDone, E!GetMarker, E!LoadPrior, E!ResolvePlan,
       E!RecordCall, E!Done
<1>5. ASSUME NEW k \in Caller, E!Crash(k) \/ \E i \in Input : E!Start(k, i) PROVE Unseen
  BY <1>5 DEF E!Crash, E!Start
<1> QED
  BY <1>1, <1>2, <1>3, <1>4, <1>5 DEF EnqueueStep

LEMMA StepFails ==
  ASSUME EInv, FailInv, [Next]_vars
  PROVE  FailInv'
<1>0. EP!Keeps /\ failed \subseteq Call /\ registered \in [{LedgerDb} -> SUBSET Call]
  BY StepEnqueues, EnqueueKeeps DEF EInv, EP!TypeOK, EP!Call, Call, Ledger
<1>1. CASE failed' = failed /\ registered' = registered
  BY <1>0, <1>1 DEF FailInv, EP!Keeps, EP!Call, Call, Ledger
<1>2. CASE EnqueueStep
  <2>1. ASSUME UNCHANGED <<marker, content, registered>>,
               NEW c \in Call, failed' = failed \union {c},
               marker[c] # NoInput, content[c].plan = NoPlan
        PROVE  FailInv'
    BY <2>1 DEF FailInv
  <2>2. ASSUME UNCHANGED <<marker, content, failed>>, NEW c \in failed,
               registered' = [registered EXCEPT ![LedgerDb] = @ \union {c}]
        PROVE  FailInv'
    BY <1>0, <2>2 DEF FailInv
  <2> QED
    BY <1>1, <1>2, <2>1, <2>2, EnqueueSees
<1>3. CASE UNCHANGED enqueueVars
  BY <1>1, <1>3 DEF enqueueVars
<1> QED
  BY <1>2, <1>3, OneSide DEF vars

LEMMA FailInvariance == Spec => []FailInv
<1>1. Init => FailInv
  BY DEF Init, E!Init, FailInv, Ledger
<1>2. EInv /\ FailInv /\ [Next]_vars => FailInv'
  BY StepFails
<1> QED
  BY <1>1, <1>2, Invariance, PTL DEF Spec

(* A call that has arrived is answered by the daemons alone, one that has  *)
(* not by registration alone.                                              *)
LEMMA AnsweredByOne ==
  ASSUME EInv, XInv, FailInv, NEW c \in Call
  PROVE  /\ c \in Arrived => marker[c] # NoInput /\ c \notin failed
         /\ c \notin Arrived => c \notin executed /\ ~resp[c].failure
         /\ c \in registered[LedgerDb] => c \in failed
<1>1. c \in Arrived => pushed[c] > 0 /\ pushed[c] # 0
  BY DEF Arrived
<1>2. c \in Arrived => marker[c] # NoInput /\ content[c].plan # NoPlan
  BY <1>1 DEF EInv, EP!IInv, EP!StoreInv, EP!QueueIsExecutable, EP!Call, Call
<1>3. c \notin Arrived => c \notin executed /\ ~resp[c].failure
  BY DEF XInv, XP!LifeInv
<1> QED
  BY <1>2, <1>3 DEF FailInv

(* What is told of it. *)
LEMMA PhaseOf ==
  ASSUME EInv, XInv, FailInv, NEW c \in Call
  PROVE  /\ c \in Arrived => Phase[c] = XP!Phase[c]
         /\ c \notin Arrived => XP!Phase[c] = "absent"
         /\ c \notin Arrived => Phase[c] =
              IF marker[c] = NoInput THEN "absent"
              ELSE IF c \in registered[LedgerDb] THEN "failed" ELSE "pending"
         /\ c \in Arrived => XP!Phase[c] =
              IF c \notin executed THEN "pending"
              ELSE IF resp[c].failure THEN "failed" ELSE "completed"
<1>1. XP!PhaseByAnswer
  BY XP!PhaseIs, ExecutionAssumption, BoundsAssumption DEF XInv
<1>2. /\ c \notin Arrived => XP!Phase[c] = "absent"
      /\ c \in Arrived => XP!Phase[c] =
              IF c \notin executed THEN "pending"
              ELSE IF resp[c].failure THEN "failed" ELSE "completed"
  BY <1>1 DEF XP!PhaseByAnswer
<1>3. Phase[c] = IF marker[c] = NoInput THEN "absent" ELSE IF ~Answered(c) THEN "pending"
                 ELSE IF c \in failed \/ resp[c].failure THEN "failed" ELSE "completed"
  BY DEF Phase
<1> QED
  BY <1>2, <1>3, AnsweredByOne DEF Answered

PhasesOf == \A c \in Call :
  /\ c \in Arrived => Phase[c] = XP!Phase[c]
  /\ c \notin Arrived => XP!Phase[c] = "absent"
  /\ c \notin Arrived => Phase[c] =
       IF marker[c] = NoInput THEN "absent"
       ELSE IF c \in registered[LedgerDb] THEN "failed" ELSE "pending"

LEMMA PhasesAre == EInv /\ XInv /\ FailInv => PhasesOf
BY PhaseOf DEF PhasesOf

LEMMA PhasesNext == (EInv /\ XInv /\ FailInv)' => PhasesOf'
BY PhasesAre, PTL

(* The phases of Pipeline move as those of Execution do. *)
LEMMA DaemonMoves ==
  ASSUME PhasesOf, PhasesOf', UNCHANGED enqueueVars
  PROVE  /\ XP!Phase' = XP!Phase => Phase' = Phase
         /\ \A v : \A c \in Arrived :
              XP!Phase' = [XP!Phase EXCEPT ![c] = v] => Phase' = [Phase EXCEPT ![c] = v]
<1>1. Arrived' = Arrived /\ marker' = marker /\ registered' = registered /\ Arrived \subseteq Call
  BY DEF enqueueVars, Arrived
<1>2. \A c \in Call : c \notin Arrived => Phase'[c] = Phase[c]
  BY <1>1 DEF PhasesOf
<1>3. Phase = [c \in Call |-> Phase[c]] /\ Phase' = [c \in Call |-> Phase'[c]]
  BY DEF Phase
<1>4. XP!Phase = [c \in Call |-> XP!Phase[c]]
  BY DEF XP!Phase
<1>5. ASSUME XP!Phase' = XP!Phase PROVE Phase' = Phase
  <2>1. \A c \in Call : Phase'[c] = Phase[c]
    BY <1>1, <1>2, <1>5 DEF PhasesOf
  <2> QED
    BY <1>3, <2>1
<1>6. ASSUME NEW c \in Arrived, NEW v, XP!Phase' = [XP!Phase EXCEPT ![c] = v]
      PROVE  Phase' = [Phase EXCEPT ![c] = v]
  <2>1. \A e \in Call : XP!Phase'[e] = IF e = c THEN v ELSE XP!Phase[e]
    BY <1>4, <1>6
  <2>2. \A e \in Call : Phase'[e] = IF e = c THEN v ELSE Phase[e]
    BY <1>1, <1>2, <2>1 DEF PhasesOf
  <2> QED
    BY <1>1, <1>3, <2>2
<1> QED
  BY <1>5, <1>6

LEMMA DaemonsPromise ==
  ASSUME XInv, XInv', PhasesOf, PhasesOf', [X!Next]_X!vars, UNCHANGED enqueueVars, errors' = 0
  PROVE  Lifecycle!Next \/ UNCHANGED Lifecycle!vars
<1>1. XP!Lifecycle!Next \/ UNCHANGED XP!Lifecycle!vars
  <2>1. [XP!Next]_XP!vars
    BY SameExecution
  <2> QED
    BY <2>1, XP!StepImplements, ExecutionAssumption, BoundsAssumption DEF XInv
<1>2. CASE UNCHANGED XP!Lifecycle!vars
  BY <1>2, DaemonMoves DEF XP!Lifecycle!vars, Lifecycle!vars
<1>3. ASSUME NEW c \in Call, XP!Lifecycle!Accept(c) PROVE FALSE
  <2>1. Arrived' = Arrived
    BY DEF enqueueVars, Arrived
  <2>2. XP!Phase[c] = "absent" /\ XP!Phase'[c] = "pending"
    BY <1>3 DEF XP!Lifecycle!Accept, XP!Phase
  <2>3. c \in Arrived
    BY <2>1, <2>2 DEF PhasesOf
  <2>4. XP!Phase[c] # "absent"
    BY <2>3, XP!PhaseIs, ExecutionAssumption, BoundsAssumption DEF XInv, XP!PhaseByAnswer
  <2> QED
    BY <2>2, <2>4
<1>4. ASSUME NEW c \in Call, XP!Phase[c] = "pending" PROVE c \in Arrived /\ Phase[c] = "pending"
  BY <1>4 DEF PhasesOf
<1>5. ASSUME NEW c \in Call, NEW s \in XP!Lifecycle!Steps, XP!Lifecycle!RunStep(c, s)
      PROVE  Lifecycle!Next
  <2>1. Lifecycle!RunStep(c, s)
    BY <1>4, <1>5, DaemonMoves DEF XP!Lifecycle!RunStep, Lifecycle!RunStep,
                                   XP!Lifecycle!Steps, Lifecycle!Steps
  <2> QED
    BY <2>1 DEF Lifecycle!Next, Lifecycle!Steps, XP!Lifecycle!Steps
<1>6. ASSUME NEW c \in Call, XP!Lifecycle!Complete(c) PROVE Lifecycle!Next
  <2>1. Lifecycle!Complete(c)
    BY <1>4, <1>6, DaemonMoves DEF XP!Lifecycle!Complete, Lifecycle!Complete,
                                   XP!Lifecycle!Steps, Lifecycle!Steps
  <2> QED
    BY <2>1 DEF Lifecycle!Next
<1>7. ASSUME NEW c \in Call, XP!Lifecycle!Fail(c) PROVE Lifecycle!Next
  <2>1. Lifecycle!Fail(c)
    BY <1>4, <1>7, DaemonMoves DEF XP!Lifecycle!Fail, Lifecycle!Fail
  <2> QED
    BY <2>1 DEF Lifecycle!Next
<1> QED
  BY <1>1, <1>2, <1>3, <1>5, <1>6, <1>7 DEF XP!Lifecycle!Next

(* A caller moves the phase of the call that it publishes or answers for.  *)
LEMMA CallersPromise ==
  ASSUME EInv, XInv, FailInv, EnqueueStep, UNCHANGED daemonVars
  PROVE  Lifecycle!Next \/ UNCHANGED Lifecycle!vars
<1>1. /\ executed' = executed /\ resp' = resp /\ ran' = ran
      /\ marker \in [Call -> Input \union {NoInput}] /\ registered \in [{LedgerDb} -> SUBSET Call]
      /\ NoInput \notin Input /\ failed \subseteq Call
  BY EnqueueAssumption DEF daemonVars, EInv, EP!TypeOK, EP!Call, Call, Ledger
<1>2. Phase = [c \in Call |-> Phase[c]] /\ Phase' = [c \in Call |-> Phase'[c]]
  BY DEF Phase
<1>3. ASSUME NEW c \in Call, NEW v, Phase'[c] = v, \A e \in Call : e # c => Phase'[e] = Phase[e]
      PROVE  Phase' = [Phase EXCEPT ![c] = v]
  BY <1>2, <1>3
<1>4. ASSUME \A e \in Call : Phase'[e] = Phase[e] PROVE UNCHANGED Lifecycle!vars
  BY <1>1, <1>2, <1>4 DEF Lifecycle!vars
<1>5. CASE UNCHANGED <<marker, failed, registered>>
  BY <1>1, <1>4, <1>5 DEF Phase, Answered
<1>6. ASSUME UNCHANGED <<failed, registered>>, NEW c \in Call, NEW i \in Input,
             marker[c] = NoInput, marker' = [marker EXCEPT ![c] = i]
      PROVE  Lifecycle!Next
  <2>1. ~Answered(c) /\ ~Answered(c)'
    BY <1>1, <1>6, AnsweredByOne DEF Answered, FailInv
  <2>2. marker'[c] # NoInput /\ \A e \in Call : e # c => marker'[e] = marker[e]
    BY <1>1, <1>6
  <2>3. Phase[c] = "absent" /\ Phase'[c] = "pending"
    BY <1>6, <2>1, <2>2 DEF Phase
  <2>4. \A e \in Call : e # c => Phase'[e] = Phase[e]
    BY <1>1, <1>6, <2>2 DEF Phase, Answered
  <2>5. Lifecycle!Accept(c)
    BY <1>1, <1>3, <2>3, <2>4 DEF Lifecycle!Accept
  <2> QED
    BY <2>5 DEF Lifecycle!Next
<1>7. ASSUME UNCHANGED <<marker, content, registered>>, NEW c \in Call, failed' = failed \union {c},
             marker[c] # NoInput, content[c].plan = NoPlan
      PROVE  UNCHANGED Lifecycle!vars
  <2>1. c \notin Arrived
    <3>1. c \in Arrived => pushed[c] > 0
      BY DEF Arrived
    <3> QED
      BY <1>7, <3>1 DEF EInv, EP!IInv, EP!StoreInv, EP!QueueIsExecutable, EP!Call, Call
  <2>2. Answered(c) => c \in failed
    BY <2>1, AnsweredByOne DEF Answered
  <2>3. \A e \in Call : Answered(e)' <=> Answered(e)
    BY <1>1, <1>7 DEF Answered
  <2>4. \A e \in Call : Phase'[e] = Phase[e]
    BY <1>1, <1>7, <2>2, <2>3 DEF Phase
  <2> QED
    BY <1>4, <2>4
<1>8. ASSUME UNCHANGED <<marker, content, failed>>, NEW c \in failed,
             registered' = [registered EXCEPT ![LedgerDb] = @ \union {c}]
      PROVE  Lifecycle!Next \/ UNCHANGED Lifecycle!vars
  <2>1. c \in Call /\ marker[c] # NoInput
    BY <1>1 DEF FailInv
  <2>2. Answered(c)' /\ \A e \in Call : e # c => (Answered(e)' <=> Answered(e))
    BY <1>1, <1>8 DEF Answered
  <2>3. Phase'[c] = "failed" /\ Phase[c] \in {"pending", "failed"}
    BY <1>8, <2>1, <2>2 DEF Phase
  <2>4. \A e \in Call : e # c => Phase'[e] = Phase[e]
    BY <1>1, <1>8, <2>2 DEF Phase
  <2>5. CASE Phase[c] = "pending"
    <3>1. Lifecycle!Fail(c)
      BY <1>1, <1>3, <2>1, <2>3, <2>4, <2>5 DEF Lifecycle!Fail
    <3> QED
      BY <2>1, <3>1 DEF Lifecycle!Next
  <2>6. CASE Phase[c] = "failed"
    BY <1>4, <2>3, <2>4, <2>6
  <2> QED
    BY <2>3, <2>5, <2>6
<1> QED
  BY <1>5, <1>6, <1>7, <1>8, EnqueueSees

(* The daemons take back neither an answer nor a failure: storing a result *)
(* leaves the failure field alone.                                         *)
LEMMA DaemonsKeep ==
  ASSUME XInv, [X!Next]_X!vars
  PROVE  executed \subseteq executed' /\ \A c \in Call : resp[c].failure => resp'[c].failure
<1> DEFINE Kept == executed \subseteq executed' /\ \A c \in Call : resp[c].failure => resp'[c].failure
<1> USE DEF X!answers
<1>1. resp \in [Call -> [content: {"none", "empty", "result"}, failure: BOOLEAN]]
  BY DEF XInv, XP!TypeOK, XP!Response
<1>2. ASSUME NEW c, X!PutSuccess(c) PROVE \A e \in Call : resp[e].failure => resp'[e].failure
  BY <1>1, <1>2 DEF X!PutSuccess
<1>3. ASSUME NEW c, X!PutFailure(c) PROVE \A e \in Call : resp[e].failure => resp'[e].failure
  BY <1>1, <1>3 DEF X!PutFailure
<1>4. ASSUME NEW w, X!WorkerRespond(w) \/ X!WorkerFail(w) PROVE Kept
  BY <1>2, <1>3, <1>4 DEF X!WorkerRespond, X!WorkerFail
<1>5. ASSUME NEW w, X!WorkerRecord(w) \/ X!WorkerFailRecord(w) PROVE Kept
  BY <1>5 DEF X!WorkerRecord, X!WorkerFailRecord, X!PutAnswer
<1>6. ASSUME NEW w, X!WorkerRaises(w) PROVE Kept
  BY <1>2, <1>6 DEF X!WorkerRaises, X!PutAnswer
<1>7. ASSUME NEW w, X!WorkerStep(w), ~X!WorkerRespond(w), ~X!WorkerFail(w), ~X!WorkerRecord(w),
             ~X!WorkerFailRecord(w), ~X!WorkerRaises(w)
      PROVE  UNCHANGED <<executed, resp>>
  BY <1>7 DEF X!WorkerStep, X!WorkerPoll, X!WorkerClaim, X!WorkerRead, X!WorkerReadRaises,
       X!WorkerRun, X!WorkerRunFails, X!WorkerPersist, X!WorkerNext, X!WorkerRefuses
<1>8. ASSUME NEW d, X!ExecutorStep(d) \/ X!ExecutorCrash(d) PROVE UNCHANGED <<executed, resp>>
  BY <1>8 DEF X!ExecutorStep, X!ExecutorPoll, X!ExecutorClaim, X!ExecutorPrepare,
       X!ExecutorRefuses, X!ExecutorRaises, X!ExecutorCrash
<1>9. ASSUME NEW w, X!WorkerCrash(w) PROVE UNCHANGED <<executed, resp>>
  BY <1>9 DEF X!WorkerCrash
<1>10. ASSUME NEW c, X!Publish(c) PROVE UNCHANGED <<executed, resp>>
  BY <1>10 DEF X!Publish
<1>11. CASE UNCHANGED X!vars
  BY <1>11 DEF X!vars
<1> QED
  BY <1>4, <1>5, <1>6, <1>7, <1>8, <1>9, <1>10, <1>11 DEF X!Next

LEMMA FailureStays ==
  ASSUME EInv, XInv, [Next]_vars, NEW c \in Call, Phase[c] = "failed"
  PROVE  Phase'[c] = "failed"
<1>1. EP!Keeps
  BY StepEnqueues, EnqueueKeeps
<1>2. executed \subseteq executed' /\ (resp[c].failure => resp'[c].failure)
  BY StepExecutes, DaemonsKeep
<1>3. /\ marker[c] # NoInput /\ Answered(c) /\ (c \in failed \/ resp[c].failure)
  BY DEF Phase
<1>4. marker'[c] # NoInput /\ Answered(c)' /\ (c \in failed' \/ resp'[c].failure)
  BY <1>1, <1>2, <1>3 DEF EP!Keeps, EP!Call, Call, Answered, Ledger
<1> QED
  BY <1>4 DEF Phase

(* End to end a call is answered once, by registration or by the daemons,  *)
(* as CallLifecycle promises, as long as no Redis or SQLite call of a      *)
(* daemon has raised; and a failure that was answered is not taken back    *)
(* even then.                                                              *)
THEOREM PromiseIsKept == Spec => PromiseKept
<1> DEFINE Inv == EInv /\ XInv /\ FailInv
           Kept == /\ errors' = 0 => Lifecycle!Next \/ UNCHANGED Lifecycle!vars
                   /\ \A c \in Call : Phase[c] = "failed" => Phase'[c] = "failed"
<1>1. ASSUME Inv, Inv', PhasesOf, PhasesOf', Next PROVE Kept
  <2>1. ASSUME errors' = 0 PROVE Lifecycle!Next \/ UNCHANGED Lifecycle!vars
    <3>1. CASE EnqueueStep /\ UNCHANGED daemonVars
      BY <1>1, <3>1, CallersPromise
    <3>2. CASE UNCHANGED enqueueVars
      BY <1>1, <2>1, <3>2, StepExecutes, DaemonsPromise
    <3> QED
      BY <1>1, <3>1, <3>2, OneSide
  <2> QED
    BY <1>1, <2>1, FailureStays
<1>2. Inv /\ Inv' /\ PhasesOf /\ PhasesOf' /\ [Next]_vars => [Kept]_vars
  BY <1>1
<1>3. Inv => PhasesOf
  BY PhasesAre
<1> HIDE DEF Kept
<1>4. Spec => [][Kept]_vars
  BY <1>2, <1>3, Invariance, FailInvariance, PTL DEF Spec
<1> QED
  BY <1>4 DEF Kept, PromiseKept

==============================================================================
