-------------------------------- MODULE Plans --------------------------------
(***************************************************************************)
(* From the rows of a plan to the chain of its steps.  A plan's positions  *)
(* are whatever the Control database holds: not 1..n, possibly negative or *)
(* zero, and, where its schema has no unique index, possibly shared.  Two  *)
(* drivers walk the same materialised plan in two ways: `asc job execute`  *)
(* loops over the sorted steps, while executord and workerd know only the  *)
(* ordinal in a task and look for the next one.  Here both run one call of *)
(* their own with the same content, without crashes (SshJobs and Execution *)
(* have those), to see whether they do the same.                           *)
(***************************************************************************)
EXTENDS Integers, FiniteSets, Sequences

CONSTANTS
  StepId,      \* steps, numbers so that ORDER BY s.id is <
  Position,    \* positions that occur
  NoStep,      \* None
  MaxRows      \* bound on the rows of the plan

ASSUME StepIdAssumption   == StepId \subseteq Nat
ASSUME PositionAssumption == Position \subseteq Int /\ NoStep \notin Position
ASSUME RowsAssumption     == MaxRows \in Nat

Row == [id: StepId, position: Position]

(* What becomes of a step: it runs; it takes effect and then raises; it    *)
(* can be prepared but not run (rag, an unregistered script, an engine     *)
(* other than chatgpt); prepare_step refuses it (no engine, no entrypoint, *)
(* unknown kind); its args_json is no object.                              *)
Kinds == {"runs", "raises", "unrunnable", "unpreparable", "badargs"}

Driver   == {"direct", "queued"}
Outcomes == {"none", "completed", "failed", "silent"}

VARIABLES
  table,    \* plan_steps of the plan, joined with steps
  kind,     \* what each step is
  plan,     \* rows of the materialised plan, {} until there is one
  driver,   \* the drivers
  results,  \* result:<call>:<ordinal>:content, per driver
  effects   \* rows whose step took effect, in that order (history)

vars == <<table, kind, plan, driver, results, effects>>

NoResult == [found |-> FALSE, content |-> <<>>]

(* A text is represented by the steps it has been through.                 *)
Texts     == Seq(Row)
Results   == [found: BOOLEAN, content: Texts]
Drivers   == [pc: {"start", "loop", "run", "next", "done"},
              todo: SUBSET Row,                  \* direct: rest of the loop
              ordinal: Position \union {NoStep}, \* the task at hand
              input: Position \union {NoStep},   \* its input_key
              outcome: Outcomes, response: Texts]
Fresh     == [pc |-> "start", todo |-> {}, ordinal |-> NoStep, input |-> NoStep,
              outcome |-> "none", response |-> <<>>]

TypeOK ==
  /\ table \subseteq Row
  /\ kind \in [StepId -> Kinds]
  /\ plan \subseteq table
  /\ driver \in [Driver -> Drivers]
  /\ results \in [Driver -> [Position -> Results]]
  /\ effects \in [Driver -> Texts]

Init ==
  /\ table \in SUBSET Row /\ IsFiniteSet(table) /\ Cardinality(table) <= MaxRows
  /\ kind \in [StepId -> Kinds]
  /\ plan = {}
  /\ driver = [d \in Driver |-> Fresh]
  /\ results = [d \in Driver |-> [p \in Position |-> NoResult]]
  /\ effects = [d \in Driver |-> <<>>]

------------------------------------------------------------------------------
(* The functions on steps.                                                 *)

(* ordered_steps: by position, and in the order of the query within one.   *)
Before(r, s) == r.position < s.position \/ (r.position = s.position /\ r.id < s.id)
FaultyFirst(S) == CHOOSE r \in S : \A s \in S : r.id <= s.id  \* not sorted by position
First(S) == CHOOSE r \in S : \A s \in S : s = r \/ Before(r, s)

(* The rows prepare_step and _step find at an ordinal; they want one.      *)
Matches(ordinal) == {r \in plan : r.position = ordinal}
StepAt(ordinal)  == CHOOSE r \in Matches(ordinal) : TRUE
CanPrepare(ordinal) ==
  /\ Cardinality(Matches(ordinal)) = 1
  /\ kind[StepAt(ordinal).id] # "unpreparable"

(* next_step_ordinal: the least position that is strictly later.           *)
Later(ordinal) == {p \in {r.position : r \in plan} : p > ordinal}
FaultyNextOrdinal(ordinal) ==       \* zero taken for None
  IF Later(ordinal) = {} \/ 0 \in Later(ordinal) THEN NoStep
  ELSE CHOOSE p \in Later(ordinal) : \A q \in Later(ordinal) : p <= q
NextOrdinal(ordinal) ==
  IF Later(ordinal) = {} THEN NoStep
  ELSE CHOOSE p \in Later(ordinal) : \A q \in Later(ordinal) : p <= q

(* _task_input: the result under input_key, else the call's own input.     *)
TaskInput(d) ==
  IF driver[d].input = NoStep THEN <<>> ELSE results[d][driver[d].input].content

At(d, l) == driver[d].pc = l
End(d, outcome, text) == driver' = [driver EXCEPT ![d] =
  [@ EXCEPT !.pc = "done", !.todo = {}, !.ordinal = NoStep, !.input = NoStep,
            !.outcome = outcome, !.response = text]]

(* execute_task and persist_step_result for the task of d.                 *)
Execute(d, l) ==
  LET ordinal == driver[d].ordinal
      row == StepAt(ordinal)
  IN  /\ kind[row.id] = "runs"
      /\ effects' = [effects EXCEPT ![d] = Append(@, row)]
      /\ results' = [results EXCEPT ![d][ordinal] =
           [found |-> TRUE, content |-> Append(TaskInput(d), row)]]
      /\ driver' = [driver EXCEPT ![d].pc = l]
ExecuteRaises(d) ==
  LET row == StepAt(driver[d].ordinal)
  IN  /\ kind[row.id] # "runs"
      /\ IF kind[row.id] = "raises"
         THEN effects' = [effects EXCEPT ![d] = Append(@, row)]
         ELSE UNCHANGED effects
      /\ End(d, "failed", <<>>)
      /\ UNCHANGED results
FaultyPrepareTask(d, ordinal, input) == driver' = [driver EXCEPT   \* counts from one
  ![d].pc = "run", ![d].todo = @ \ Matches(ordinal), ![d].ordinal = ordinal + 1, ![d].input = input]
PrepareTask(d, ordinal, input) == driver' = [driver EXCEPT
  ![d].pc = "run", ![d].todo = @ \ Matches(ordinal), ![d].ordinal = ordinal, ![d].input = input]

------------------------------------------------------------------------------
(* materialize_plan, when the call is enqueued: it wants steps, and args   *)
(* that are objects; otherwise enqueue_record raises and nothing runs.     *)
Materialize ==
  /\ plan = {} /\ table # {}
  /\ \A r \in table : kind[r.id] # "badargs"
  /\ plan' = table
  /\ UNCHANGED <<table, kind, driver, results, effects>>

------------------------------------------------------------------------------
(* asc job execute: a loop over the sorted steps.                          *)
DirectStart ==
  /\ At("direct", "start") /\ plan # {}
  /\ driver' = [driver EXCEPT !["direct"] = [@ EXCEPT !.pc = "loop", !.todo = plan]]
  /\ UNCHANGED <<table, kind, plan, results, effects>>

DirectPrepare ==
  /\ At("direct", "loop") /\ driver["direct"].todo # {}
  /\ LET ordinal == First(driver["direct"].todo).position IN
     IF CanPrepare(ordinal)
     THEN PrepareTask("direct", ordinal, driver["direct"].ordinal)
     ELSE End("direct", "failed", <<>>)
  /\ UNCHANGED <<table, kind, plan, results, effects>>

DirectRun ==
  /\ At("direct", "run")
  /\ Execute("direct", "loop") \/ ExecuteRaises("direct")
  /\ UNCHANGED <<table, kind, plan>>

DirectEnd ==
  /\ At("direct", "loop") /\ driver["direct"].todo = {}
  /\ End("direct", "completed", results["direct"][driver["direct"].ordinal].content)
  /\ UNCHANGED <<table, kind, plan, results, effects>>

------------------------------------------------------------------------------
(* executord prepares the first step; if it cannot, it leaves a diagnostic *)
(* and no response.                                                        *)
QueuedFirst ==
  /\ At("queued", "start") /\ plan # {}
  /\ LET ordinal == First(plan).position IN
     IF CanPrepare(ordinal)
     THEN PrepareTask("queued", ordinal, NoStep)
     ELSE End("queued", "silent", <<>>)
  /\ UNCHANGED <<table, kind, plan, results, effects>>

(* workerd runs a task, then looks for the next ordinal and prepares it,   *)
(* or responds; any exception is answered as a failure.                    *)
QueuedRun ==
  /\ At("queued", "run")
  /\ Execute("queued", "next") \/ ExecuteRaises("queued")
  /\ UNCHANGED <<table, kind, plan>>

QueuedNext ==
  /\ At("queued", "next")
  /\ LET ordinal == driver["queued"].ordinal
         next == NextOrdinal(ordinal)
     IN  IF next = NoStep
         THEN End("queued", "completed", results["queued"][ordinal].content)
         ELSE IF CanPrepare(next)
              THEN PrepareTask("queued", next, ordinal)
              ELSE End("queued", "failed", <<>>)
  /\ UNCHANGED <<table, kind, plan, results, effects>>

Next ==
  \/ Materialize
  \/ DirectStart \/ DirectPrepare \/ DirectRun \/ DirectEnd
  \/ QueuedFirst \/ QueuedRun \/ QueuedNext

Spec == Init /\ [][Next]_vars

------------------------------------------------------------------------------
(* Properties.                                                             *)

(* Whatever its positions, a plan's steps take effect in strictly rising   *)
(* position, each on the result of the one before, and a completed call    *)
(* has been through every row of it (executor.py:23-31, 94-97;             *)
(* workerd.py:58-67, ssh_jobs.py:214-220).                                 *)
ChainInOrder ==
  \A d \in Driver :
    LET done == effects[d] IN
    /\ \A i, j \in DOMAIN done : i < j => done[i].position < done[j].position
    /\ \A i \in DOMAIN done : LET r == results[d][done[i].position] IN
         r.found => r.content = SubSeq(done, 1, i)
    /\ driver[d].outcome = "completed" =>
         driver[d].response = done /\ {done[i] : i \in DOMAIN done} = plan

(* The two drivers agree: the same steps take effect, and the caller is    *)
(* told the same, except that a plan whose first step cannot be prepared   *)
(* fails under `asc job execute` and is met with silence in the queue      *)
(* (executord.py:51-55, ssh_jobs.py:221-225).                              *)
DriversAgree ==
  At("direct", "done") /\ At("queued", "done") =>
    /\ effects["direct"] = effects["queued"]
    /\ driver["direct"].response = driver["queued"].response
    /\ driver["queued"].outcome =
         IF CanPrepare(First(plan).position) THEN driver["direct"].outcome ELSE "silent"
=============================================================================
