# A TLA+ model of Autoscribe

Autoscribe takes a document, resolves the plan its author asked for, runs the
plan's steps (scripts or language models), and delivers the result, over SSH or
into a repository. Its state lives in three places that no transaction spans: a
SQLite *ledger*, *Redis* hashes and queues, and package directories on disk.
Several short-lived `asc` processes, one systemd unit per SSH job and three
polling daemons write to them, and any of them may stop between two writes.
This directory models that: what may be run twice, lost, answered wrongly or
left waiting.

## Inventory

| Component (under `src/app`) | State | Operations | Correct when |
|---|---|---|---|
| SSH jobs, `autoscribe/ssh_jobs.py` | row of `ssh_jobs`; package directory; response, receipt | submit, status, execute, cleanup, launch, complete_response | a step runs at most once; a completed job is answered, exported and fetchable; cleanup loses nothing; a job settles unless a crash made its effects uncertain |
| Enqueue, `autoscribe/enqueue.py` | `enqueue_inputs`; marker, content and baggage in Redis; executor queue | enqueue_record, register_failure | a submission is bound, published and queued once; retries and concurrent callers get one verdict |
| Executor daemon, `daemon/executord.py`, `autoscribe/executor.py` | `queue:executor`, `queue:worker`, task hashes | process_active, prepare_step | a claimed call gets its first task |
| Worker daemon, `daemon/workerd.py`, `autoscribe/worker.py` | `queue:worker`, result and response hashes | process_ready, execute_task | steps in order and once; one final answer |
| Ledger, `autoscribe/ledger.py` | `calls`, `call_keys`, `responses`, `exports` | record_call, record_response, record_export, pending_exports | facts are written once and only for what happened |
| Repository output, `daemon/responsed.py`, `autoscribe/effects.py` | socket, receipts, `exports` | pass over pending responses, notify, mark_exported | an export fact stands for an applied effect; one destination's trouble is its own |
| Redis client, `autoscribe/redis_runtime.py` | none | one connection per command, two second timeout | a lost reply is an exception |
| Control, `autoscribe/control.py` | Control database (read only here) | materialize_plan | whatever positions a plan has, both drivers run its steps in the same order |
| Preprocessing: `preprocess.py`, `assets.py`, `ids.py` | the record it fills; an asset directory | prepare, stage_assets | what it returns with an identity enqueue takes; only a whole record is ready |
| `bin/asc` | none but its output and exit status | prepare and ingest line by line, the job commands, `effects`, `response` | each line gets one answer, its own |
| Installer, `src/install-release.py` | links, databases, policy, backup, deployment record | main, db_replace, extract, atomic_link, atomic_text | the old release can be restored wherever it stops; what a new link leads to is whole |
| Git writers, `responses.py` and `ingest.py` | a git ref | write by compare-and-swap | used by tests only |
| `release.py`, `install.sh`, units, acceptance poll | none shared | build, configure, read | |

How they interact: `asc enqueue` and `asc ingest` call enqueue_record in queued
mode, and the executor queue hands the call to executord, which puts the task
of the first step in the worker queue; workerd runs a step, stores its result
and puts the next task in the queue, or records the response. `asc job submit`
calls enqueue_record in direct mode and starts a unit that runs `asc job
execute`. Both drivers leave a response fact in the ledger. SSH clients fetch
`response.ndjson`, which complete_response writes together with the export
fact; responsed handles the responses that have none.

The hard behaviours are the interleavings of processes on one row or one queue,
crashes between the stores, lost replies, rows read before and used after
another process's write, and everything that must eventually be answered. They
are listed, each at its line, under `hazards` in `PROJECT.json`.

## Modules

**CallLifecycle** is the abstract specification of both drivers: a call is
accepted, its steps take effect in order and at most once, it is completed only
after its last step or failed, and after the answer nothing more is done for it.

**SshJobs** (`ssh_jobs.py`) follows one dispatch; dispatches share no row, key
or directory. Processes are the clients and the unit; `proc[p].pc` names the
next statement that touches shared state, `seen` is the row a process read
earlier and still relies on, `got` the response it holds. One action is one
SQLite transaction, one Redis command, one file operation or one call of
systemctl. `job`, `claim`, `queued` and `facts` are rows of the ledger; `call`,
`resp` and `receipt` are Redis hashes; `dir` and `file` the package. A file and
its checksum are functions of the response hash and are represented by it.
What enqueue_record does in direct mode is part of the module (`Enq...`),
without a second binding of the record: only one dispatch carries its id.
A result and a receipt expire (`worker.py:252`, `ssh_jobs.py:187`), a failure
does not: `resp` and `receipt` are what was last written, `expired` which of the
two are gone, and `Answer` and `Receipt` what Redis still holds.
Preparing the package may yield a ready or a failed record at each try, since
it depends on Pandoc. rmtree is two steps, the file and the directory.
`Phase` maps the state to CallLifecycle.

**Enqueue** (`enqueue.py`, with `ledger.py` and `control.py` where it calls
them) follows the inputs that share one record id. An *input* stands for the
fingerprint, that is, a prepared record with the execution mode. Validation
changes nothing and is represented by handing in valid records. The Lua script
is one atomic action, `Eval`. Plans may be edited at any time, so an unknown
plan, an invalid plan and two versions are all possible between two reads. A
caller has a ledger (`LedgerOf`), and several ledgers may share the one Redis:
a response for a call that the caller's own ledger does not know is refused by
the foreign key (`ledger.py:25-26, 51`), and `Respond` raises.

**Execution** (`executord.py`, `workerd.py`, `executor.py`, `worker.py`)
follows calls through the two queues. A daemon's snapshot is its `batch`, its
claim the ZREM. Every Redis or SQLite call in the try blocks may raise with or
without having taken effect (`ExecutorRaises`, `WorkerRaises`), bounded by
`MaxErrors`; exceptions outside them end the daemon (`ExecutorCrash`,
`WorkerCrash`). A task hash is represented by its queue entry: it is written
first and never removed. `sound` says how many steps of a call's plan can be
prepared, which its content decides: for the first that cannot,
prepare_first_step and prepare_next_step raise without any fault
(`ExecutorRefuses`, `WorkerRefuses`). `Phase` maps the state to CallLifecycle.

**Responsed** (`responsed.py`, `effects.py`, `asc response`) models the passes
of the daemon and of `--once`. A pass lists the pending responses, goes through
them in the order of call ids, skips those whose route cannot be read, defers
those whose destination is blocked, and hands the others over: read, write,
receipt, export. srv-output and srv-writeback are external: the first accepts
successful responses only, the second applies an effect once and answers the
same afterwards (`tests/qualification_smoke.py:226-228`). Successful response
hashes expire, failures and the call's own keys do not (`enqueue.py:132,
180-182`); a receipt expires too (`effects.py:104`), and a baggage key may still
be lost (`effects.py:42`). For the calls in `SshCall` completers of an SSH job
publish the response as well, whatever route the baggage names
(`ssh_jobs.py:183-192` asks for none): file, receipt, export fact.

**Pipeline** composes Enqueue and Execution: both are instances over one Redis
and the one ledger that executord opens (`executord.py:20, 41`), a step of the
composition is a step of one side, and the other side sees its effect on
`queue:executor`. `arrived` of Execution is
what callers have published; `answered` is split into what enqueue_record has
registered and what workerd has recorded. `ImplementsParts` says that the composition
behaves, for each side, like the specification that side was checked in: so
what Enqueue assumes of its environment (others only take calls out of the
queue) and what Execution assumes (a call arrives once) is discharged. Callers
with ledgers of their own are left to the run of Enqueue.

**Plans** (`control.py`, `executor.py`, `worker.py`) is about positions. A plan
is a set of rows with any positions: gaps, zero, negative, shared.
`tests/test_control.py` and `test_enqueue.py` create `plan_steps` without the unique
index that the fixture's schema has, and the code checks for shared positions
itself, so they are in. The loop of `asc job execute` and the chain of tasks of
executord and workerd walk the same plan side by side; a text is represented by
the sequence of steps it has been through.

**Ingest** (`preprocess.py`, `assets.py`, `validate_input_record`, the loop of
`bin/asc`) fills a record in place as prepare does. An envelope is the set of
requirements it fails, in the order in which prepare looks; Pandoc, the filters
and staging fail or return what prepare's own checks let through, as far as
enqueue distinguishes it: whose call, which slug, a plan or a failure, assets,
values that are no strict JSON. `told` remembers what the interpretation said,
`out` what was printed. The metadata it adds may take the record past the limit
(`large`).

**InstallRelease** (`install-release.py`) has the pieces of a release in the
order in which they are put in place, the backup, the old write-ahead logs, and
any number of invocations that overlap, stop anywhere and are started again,
while users submit jobs. One action replaces one piece (each replacement is a
rename); removing the old log of a database is a step of its own before it, and
so is the last look at Redis before the record. A submission binds its record,
records its call, writes its keys and marks its input, each on whatever ledger
is there (`enqueue.py:141-194`), and may end between any two of them. A ledger
transaction is one step: one that opened the old file and commits after the
replacement has the effect of one that committed before.

The `...Proofs` modules hold the theorems about the module they are named for.
The `MC...` modules give the model values of the runs. Operators named `Faulty...` are slips a programmer
might make in the action of that name; they are not part of any Next and serve
to show that each property notices a mistake.

## Runs

| Run | Bounds | Shows |
|---|---|---|
| `ssh_safety` | 2 clients, the unit, 2 steps, 2 crashes | type, NoStepTwice, SettledIsBacked, NothingLostByCleanup, AnswerIsTruthful, AnswerIsFinal, ImplementsLifecycle |
| `ssh_retry` | 2 clients, 1 step, 1 crash or expired answer, fair | an accepted job is taken up; jobs settle or are stranded in one of two named ways; without the crash they settle |
| `ssh_regress` | 2 clients, no crash | *violated*: CleanedIsFinal |
| `ssh_cleanup` | 1 client, 1 crash | *violated*: CleanupRepeatable |
| `enqueue` | 2 callers with a ledger each, one submission queued and direct, 2 plan versions, 1 crash, fair | QueuedOnce, QueueIsExecutable, QueuedMeansFinished, VerdictsAgree, BindingsStay, BoundGetsThrough |
| `exec_crash` | 2 executors, 2 workers, 2 calls of 2 steps (any number of them preparable in one), 1 crash or 1 error, fair | OneToken; ImplementsLifecycle up to the first error; EveryCallEnds: without faults every call is answered, or diagnosed if its first step cannot be prepared |
| `pipeline` | 2 callers on the one ledger, one submission queued, direct and failed, 1 executor, 2 workers, 2 steps, 1 stop or crash, 1 error | OneVerdictOneExecution, ImplementsParts, PromiseKept |
| `plans` | plans of 1 to 3 rows at positions -1, 0, 1 and 4, every kind of step | ChainInOrder, DriversAgree |
| `ingest` | 2 lines, 2 defects in all, 3 commands | PreparedIsAccepted, OnlyWholeIsReady, LinesAnswered |
| `resp_safety` | daemon and --once, 2 calls to one destination, one of them published by SSH too, 1 without a route; 1 error, crash or vanished key | ExportIsBacked, OnlySuccessWritten, InOrderPerPass |
| `resp_live` | daemon, 3 calls to 2 destinations, 1 vanished key, 1 error, 1 crash, fair | GoodIsExported |
| `install` | 3 invocations, 2 submissions | RestorableFromBackup, WholeWhenReached, NeverRepaired |

Two clients and the unit are enough for every pair of commands to overlap with
an execution; a second step distinguishes a repeated step from a repeated plan;
a call is independent of another but for the queues and the destination, where
two (three with a second destination) show an order. Two crashes let a retry
crash as well. The batch of a pass is 32 in the code and 1 (executord) or 2
(workerd) here, so that a snapshot is really cut off, and a later member of it
really stale. Histories (`ran`, `pushed`, `verdicts`) count what happened
and guide no action. The runs of Execution and Responsed do not check deadlock:
calls arrive once, and when all are answered the system rightly rests; Pipeline,
Plans, Ingest and InstallRelease end as well. SshJobs and Enqueue never rest,
since a client may always ask again.

In `exec_crash` the constraint OneFault allows a crash or a raising call, not
both; faults are under no fairness, so it cuts off no fair behaviour with fewer
faults. OneSound makes one of its two calls preparable throughout; the other
may fail to be at any step. In `ssh_retry` it allows a crash or an answer that
expires (receipts, which nobody reads, stay). In `resp_safety` it allows a
failing command, a crash or a vanished key (an expired response or receipt, a
lost baggage), and RoutelessStays makes the call without a route a success that
stays. In
`enqueue` the two callers share no ledger, so only the Redis marker can decide
between them; callers that race for the rows of one ledger are those of
`pipeline`, and failed inputs are there as well. In `pipeline` the constraint OneStop allows a stop of a caller or a crash of a
daemon, not both; a call of Redis or SQLite may raise besides. The plan is not
edited there, that is left to `enqueue`. In `plans`, three rows are enough for
a step before, between and after two others, and four positions for a gap, zero
and a negative one. In `ingest` two defects make every pair, in one line or in
two, and a second line shows what a first one leaves behind. Three invocations
of the installer let two overlap and a third come after both have stopped.

### What the violated runs say

* `ssh_regress`: complete_response checks the row it was given, not the row it
  updates. A completer delayed past another's completion and the client's
  cleanup turns `cleaned` into `completed`.
* `ssh_cleanup`: after a stop inside rmtree the response file can be missing
  while the directory exists; the repeated cleanup raises at its checksum.

### What the passing runs allow

The properties are as strong as the code permits. What they except is behaviour
of the code that a reader may not expect:

* After a stop between the `failed` row and its failure response nothing
  publishes the response; the job is one of the stranded of SettlesOrStranded
  (`ssh_jobs.py:222-225`).
* If the first step cannot be prepared, the caller of a queued call gets a
  diagnostic and no response, while `asc job execute` answers it as failed
  (`executord.py:51-55`; the last conjunct of DriversAgree).
* If the reply to the next task's ZADD is lost, a call is answered as failed
  and that task runs all the same (`workerd.py:95`). PromiseKept says that the
  failure then stays.
* A pass of responsed orders by call id, a digest, so the "earlier response" of
  its message (`responsed.py:273`) may be one that was recorded later.
* What prepare hands over with an identity is refused by enqueue, and so
  registered nowhere, in six cases, the exceptions of PreparedIsAccepted: a
  failed record whose `baggage.client` is no object; one that has grown past the
  limit; values that are no strict JSON (`enqueue.py:38-40`); and an
  interpretation that names the call of another submission (`enqueue.py:56-59`)
  or is ready with an empty document (91) or with a slug other than the client's
  (75), which prepare does not compare (`preprocess.py:151-185`).
* A bound input may stay refused for ever if another ledger shares the Redis and
  has taken its call: with another input, or as a failure, whose response the
  own ledger cannot hold (`TakenElsewhere` in BoundGetsThrough).
* The answer and the receipt of a cleaned SSH job are gone after thirty days,
  and with the directory removed only the checksum in its row is left
  (SettledIsBacked).
* An SSH job whose baggage names a route is exported by whoever comes first; the
  repository write, or the file, may then never be made (ExportIsBacked).
* An installer that stops between the databases and the links leaves the old
  programs on new, empty databases until the backup is restored; it refuses to
  run again (`install-release.py:87-90`, NeverRepaired).
* A job submitted after the installer has found Redis empty
  (`install-release.py:70`) may end in the old ledger, or leave an old log
  beside the new one. If its keys are in Redis by then, the installer notices
  before it records the deployment (`install-release.py:143`), not before it
  changes the links. A submission that is under way, with rows but no keys, goes
  unnoticed: it is accepted after the last look although its rows went with the
  old ledger. `db_replace` says that its targets are quiescent, which nothing
  enforces for SSH users; WholeWhenReached says what holds without that.
* The backup holds a piece as it was archived: rows that a user adds to the old
  ledger after its snapshot are not in it.

## Fairness

Only `ssh_retry`, `enqueue`, `exec_crash` and `resp_live` check liveness.

SshJobs: the operating system does not starve a started process, a started unit
begins, and each client resubmits an unsettled job (the code's only retry). No
fairness for new submissions, cleanups, foreign `execute` or crashes.
SettlesOrStranded names the jobs that retries cannot settle: a claimed job whose
process ended. `ssh_jobs.py:202-203` forbids repeating those on purpose, a
result that was stored but not published (`ExecPersist`) is among them.
Results and receipts may expire at any time, except that the thirty days do not
pass between a process's write of an answer and its own read of it
(`ExpireResponse`); expiry is under no fairness.
Enqueue: callers advance, and each input is handed in again and again (strong
fairness, since a caller is busy at times); the property assumes that the plan
is not invalid for ever. Execution: the units restart on failure and poll.
Responsed: the unit restarts, passes advance, and someone keeps calling `asc
effects notify`: nothing in the repository does, and without it a response
recorded after a pass has listed waits until the next restart. GoodIsExported
excepts a destination with a failed or expired response of smaller call id: that
one fails in every pass and holds the others up until it loses its place, which
a failed response never does.

Pipeline has no liveness property of its own. That a call which is handed in
again and again is answered in the end follows from BoundGetsThrough for the
first half (with one ledger nothing is taken elsewhere) and EveryCallEnds for
the second; ImplementsParts shows that each half, in the composition, keeps to
the actions it was checked with.

## Proofs

Eight modules, one for each module with a run, hold the theorems; each extends
the module it is about. They hold for any clients, callers, daemons,
calls, plans, positions and bounds that satisfy the named ASSUMEs, which only
give the constants their types: a None is none of the values it stands for, a
plan has a step, call ids are ordered like numbers. Every safety and action
property of a passing run is the statement of a theorem, and so are the refinements. A property is
seldom inductive. What its invariant adds is, in each case, what the code
relies on without saying so; each was model-checked before it was proved.

| Module | Theorem | Property | What the inductive invariant adds |
|---|---|---|---|
| SshJobsProofs | StepsRunOnce | NoStepTwice | ClaimInv: one process at most is past the claim, nobody and no effect before it; it has run exactly the steps below its index |
| | SettledBacked, CleanupLosesNothing, AnswersAreTruthful, AnswersAreFinal | SettledIsBacked, NothingLostByCleanup, AnswerIsTruthful, AnswerIsFinal | StoreInv: which answers a call can have, and that facts, receipt and checksum are copies of the one last written, expired or not; Knows: what each process has read and is about to rely on |
| | JobsImplementLifecycle | ImplementsLifecycle | the same |
| EnqueueProofs | CallsQueuedOnce, QueueHoldsExecutable, QueuedRowsFinished, SameVerdict, BindingsAreForGood | QueuedOnce, QueueIsExecutable, QueuedMeansFinished, VerdictsAgree, BindingsStay | StoreInv: a marker is that of the content, and without one nothing was pushed; CallerInv: what a caller past the claim has seen of the row and of Redis still holds |
| ExecutionProofs | HeldOnce | OneToken | TokenInv: the work of a call is in one queue or one process's hands, a claim takes it away |
| | RunsOnceInOrder | (StepsOnceInOrder, part of OneVerdictOneExecution) | StepInv: whoever holds the work of a call has run exactly the steps below, and their results are stored |
| | QueuesImplementLifecycle | ImplementsLifecycle | LifeInv: as long as nothing has raised, work is held only for calls that are not answered |
| ResponsedProofs | ExportsAreBacked, SuccessesWritten, PassWritesInOrder | ExportIsBacked, OnlySuccessWritten, InOrderPerPass | a process works on one listed call, unblocked and smaller than what is left of its batch; every listed predecessor is written or blocks; what it knows of the call stays so; Shipped: a completer has a file before a receipt and a receipt before the export |
| InstallReleaseProofs | OldIsRestorable, ReachedIsWhole, NothingIsRepaired | RestorableFromBackup, WholeWhenReached, NeverRepaired | RunInv: only the owner of the backup gets past it; PlaceInv: the new pieces are those before its stage; WalInv, SubmitInv: an old log beside a new ledger belongs to a submission with rows in the old one; CheckInv: no keys are older than a last look that was passed |
| IngestProofs | PrepareMeetsEnqueue, BoundIsWhole, EveryLineAnswered | PreparedIsAccepted, OnlyWholeIsReady, LinesAnswered | PartsInv: what the record holds at each stage of prepare, which every early exit hands over as it is |
| PlansProofs | ChainsInOrder, DriversDoTheSame | ChainInOrder, DriversAgree | DriverInv: what a driver has done is the rows below the position at hand, in order; it stops only at the first that cannot be prepared or run |
| PipelineProofs | PartsImplemented, OneVerdictThenOneExecution, PromiseIsKept | ImplementsParts, OneVerdictOneExecution, PromiseKept | the invariants of both parts; FailInv: a call that failed in enqueue is never queued |

Each of the seven modules other than PipelineProofs also proves `TypeCorrect`,
`Spec => []TypeOK`.

How the arguments go:

* *SshJobs.* Two facts carry the rest. An action outside execute neither runs a
  step nor puts anyone past the claim (`Quiet`), so the claim is at most once.
  And an answer in Redis is never replaced by another (`AnswerStays`): register
  and execute publish only where there is none, which is so because the one
  writes for calls without a plan and the other past the claim. All copies are
  taken from that answer, hence they agree whoever makes them and however late;
  expiry takes one away and never brings another.
* *Enqueue.* The store only grows (`Keeps`): row, marker and content of a call
  are written where there was none. What one caller has read therefore stays
  true while others move.
* *Execution.* ZREM hands out the work of a call once. The steps that move it
  (claim, prepare, next) keep the token single; the ones that use it may then
  assume that nobody else does. A ZADD that raises after its effect leaves the
  next task in the queue and the worker on its way to a failure; OneToken counts
  that worker as holding nothing, and the refinement is promised up to the first
  such error only.
* *Responsed.* Of overlapping passes nothing is needed but that facts stay: the
  order within a pass comes from its own list and its own blocked destinations.
* *InstallRelease.* The pieces are replaced in the order of a fixed list by one
  run, so a state is known by how far that run has come; 15 positions are
  written out where arithmetic over them is needed. Submissions only add rows
  to the ledger of the moment, so whatever log they leave beside a new ledger
  has rows of theirs in the old one.
* *Plans.* The sorted loop and the search for the next ordinal both continue at
  the least position above the last (`NextOfTodo`, `NextIs`), so both stop at
  the first bad position; then they have run the same rows, and two rising
  sequences of the same rows are equal (`RisingUnique`). That a finite set of
  rows has a first one (`FirstExists`) is an induction. It is done as a least
  counterexample, from the well-foundedness of `<`, since the induction
  theorems of the library take an operator that the provers cannot instantiate.
  `Init` says that the table is finite, as a table is.
* *Pipeline.* PipelineProofs takes EnqueueProofs and ExecutionProofs as
  instances. A step of one side is a step or a stutter of the other's
  environment (`StepEnqueues`, `StepExecutes`): that a call arrives once needs
  the invariant of Enqueue, that callers are left alone is by construction.
  The theorems of the parts then hold of the whole. PromiseKept maps each step
  to CallLifecycle as ExecutionProofs does, and adds the calls that enqueue
  itself answers.

What a step may rely on is stated once per action: its effect on the process it
moves, with types (`...Moves`), and which parts of the invariant it keeps
(`...Keeps`). Where a new field depends on the old one, the modules write one
EXCEPT with a path per field: in the inner of two EXCEPTs the prover takes `@`
for the wrong value.

Model-checked only: AcceptedIsTaken, SettlesOrStranded and EveryJobSettles
(SshJobs), BoundGetsThrough (Enqueue), EveryCallEnds (Execution) and
GoodIsExported (Responsed). They need fairness, for which the prover has no
rules. The two violated properties are false.

## Plan

Done: all modules of the inventory that are marked as modelled or partly
modelled, their runs, and the proofs above. Next:

1. Proofs of the safety half of the liveness properties: that whatever is not
   answered is in the hands of a process, in a queue, stranded in a way that
   SettlesOrStranded names, or waits for a caller to try again.
2. A plan that is edited between the SELECTs of materialize_plan.

## Not modelled

* Wording, JSON layout, logging and timestamps; the engines' own work (a step
  takes effect or raises); the instructions of a step, which only fill its
  prompt; Pandoc and its filters; signing inside srv-output and srv-writeback.
* The reply parser of `redis_runtime.py`: a command takes effect or not, and
  the caller sees its reply or an exception.
* `responses.py` and `ingest.py`: functions around git that only tests call, so
  there is no order of calls to model.
* `live_acceptance_poll.py` only reads; what it waits for is EveryJobSettles.
* `release.py` builds inputs in a fresh directory and changes nothing shared;
  `install.sh` is kept for history; units and configuration are data.
* executord with calls of another ledger: a call that was enqueued through a
  ledger other than its own is unknown to it and ends with a diagnostic
  (`executord.py:41`, `ledger.py:97-98`). Pipeline has one ledger; Execution has
  the same diagnostic for calls that cannot be prepared.
* A restart of Redis that loses writes, and its eviction of single keys other
  than the ones named in Responsed. An import of the Control database while a
  plan is read: the importer is external and decides what a reader may see.
