------------------------------- MODULE SshJobs -------------------------------
(***************************************************************************)
(* One SSH dispatch from `asc job submit` to `asc job cleanup`             *)
(* (autoscribe/ssh_jobs.py).  Several `asc job` processes and one systemd  *)
(* unit work on the same dispatch at once; they share the SQLite ledger,   *)
(* the Redis hashes and the package directory, and any of them may stop    *)
(* between two writes.                                                     *)
(*                                                                         *)
(* One process runs one command at a time.  proc[p].pc names the next      *)
(* statement that touches shared state; seen is the row the process read   *)
(* and carries along, got the response or checksum it holds.  Dispatches   *)
(* share no row, key or directory, so one is enough.                       *)
(***************************************************************************)
EXTENDS Naturals, FiniteSets

CONSTANTS
  Client,       \* asc processes started over SSH
  Unit,         \* the process of the systemd unit asc-<call_id>
  NumSteps,     \* length of the call's plan
  Outcomes,     \* what preparing the package may yield, see InputKinds
  MaxCrashes    \* bound on processes that stop half way

Proc  == Client \union {Unit}
Steps == 1..NumSteps

InputKinds == {"ready", "failed"}

ASSUME UnitAssumption     == Unit \notin Client
ASSUME NumStepsAssumption == NumSteps \in Nat \ {0}
ASSUME OutcomesAssumption == Outcomes \subseteq InputKinds
ASSUME CrashesAssumption  == MaxCrashes \in Nat

VARIABLES
  job,       \* row of ssh_jobs: state and response_sha256
  claim,     \* enqueue_inputs: the input the record id is bound to
  queued,    \* enqueue_inputs.queued
  call,      \* call:<id>:content in Redis: a plan or a terminal failure
  resp,      \* response:<id>:content in Redis, as last written
  facts,     \* rows of the ledger tables responses and exports
  receipt,   \* export:<id>:receipt in Redis, as last written
  expired,   \* of these two keys, those whose time to live has run out
  dir,       \* ROOT/<dispatch>
  file,      \* response.ndjson in that directory
  proc,      \* the processes, see Processes
  ran,       \* how often each step of the plan took effect (history)
  crashes    \* processes that stopped half way (history, bounded)

rowVars   == <<job, claim, queued, facts>>
redisVars == <<call, resp, receipt, expired>>
diskVars  == <<dir, file>>
vars == <<rowVars, redisVars, diskVars, proc, ran, crashes>>

JobStates == {"absent", "accepted", "running", "failed", "completed", "cleaned"}
Settled   == {"completed", "cleaned"}
Labels == {"idle", "sub_resp", "prepare", "enq_claim", "enq_publish", "enq_hset",
           "enq_ledger", "enq_done", "insert", "reread", "la_read", "la_show",
           "la_run", "ex_start", "ex_resp", "ex_claim", "ex_read", "ex_step",
           "ex_failed", "ex_hset", "ex_ledger", "ex_persist", "cr_read",
           "cr_file", "cr_receipt", "cr_txn", "cl_check", "cl_unlink",
           "cl_rmdir", "cl_update"}

(* A response hash, and the checksum of the file written from it: the file *)
(* is a function of the hash, so the hash stands for both.                 *)
Responses == [content: {"none", "empty", "result"},
              failure: {"none", "prep", "exec"}]
NoResponse == [content |-> "none", failure |-> "none"]
Failure(kind) == [content |-> "empty", failure |-> kind]

(* A process that ends forgets what it has read. *)
Processes == [pc: Labels, seen: JobStates, input: {"none"} \union InputKinds,
              got: Responses, idx: Steps]
Idle == [pc |-> "idle", seen |-> "absent", input |-> "none",
         got |-> NoResponse, idx |-> 1]

TypeOK ==
  /\ job \in [state: JobStates, sha: Responses]
  /\ claim \in {"none"} \union InputKinds
  /\ queued \in BOOLEAN
  /\ call \in {"none", "plan", "failure"}
  /\ resp \in Responses
  /\ facts \subseteq {"response", "export"}
  /\ receipt \in Responses
  /\ expired \subseteq {"response", "receipt"}
  /\ dir \in {"package", "gone"}
  /\ file \in Responses
  /\ proc \in [Proc -> Processes]
  /\ ran \in [Steps -> Nat]
  /\ crashes \in 0..MaxCrashes

Init ==
  /\ job = [state |-> "absent", sha |-> NoResponse]
  /\ claim = "none"
  /\ queued = FALSE
  /\ call = "none"
  /\ resp = NoResponse
  /\ facts = {}
  /\ receipt = NoResponse
  /\ expired = {}
  /\ dir = "package"
  /\ file = NoResponse
  /\ proc = [p \in Proc |-> Idle]
  /\ ran = [s \in Steps |-> 0]
  /\ crashes = 0

At(p, l)   == proc[p].pc = l
Goto(p, l) == proc' = [proc EXCEPT ![p].pc = l]
Exit(p)    == proc' = [proc EXCEPT ![p] = Idle]   \* a return or an exception

(* What a read of the two hashes returns.                                  *)
Answer  == IF "response" \in expired THEN NoResponse ELSE resp
Receipt == IF "receipt" \in expired THEN NoResponse ELSE receipt

(* HSET; one that finds no key makes a new one.                            *)
HsetResponse(fields) == resp' = fields /\ expired' = expired \ {"response"}

(* complete_response begins by looking at the row its caller passes in.    *)
Complete(p, row) == IF row \in Settled THEN Exit(p) ELSE Goto(p, "cr_read")

(* An UPDATE of ssh_jobs ... WHERE dispatch_id=? changes an existing row.  *)
UpdateJob(fields) == job' = IF job.state = "absent" THEN job ELSE fields

Effect(s) == ran' = [ran EXCEPT ![s] = @ + 1]

------------------------------------------------------------------------------
(* Faulty variants of actions below.  Each stands for a plausible slip in  *)
(* the code and shows that a property notices it; none is part of Next.    *)

FaultySubmitNeverLaunches(p) ==
  /\ At(p, "sub_resp")
  /\ IF Answer.failure # "none" THEN Complete(p, proc[p].seen) ELSE Exit(p)
  /\ UNCHANGED <<rowVars, redisVars, diskVars, ran, crashes>>

FaultySubmitNeverCompletes(p) ==
  /\ At(p, "sub_resp")
  /\ Goto(p, "la_read")
  /\ UNCHANGED <<rowVars, redisVars, diskVars, ran, crashes>>

FaultyInsertOrReplace(p) ==
  /\ At(p, "insert")
  /\ job' = [state |-> IF call = "failure" THEN "failed" ELSE "accepted", sha |-> NoResponse]
  /\ Goto(p, IF call = "failure" THEN "reread" ELSE "la_read")
  /\ UNCHANGED <<claim, queued, facts, redisVars, diskVars, ran, crashes>>

FaultyClaimAnyState(p) ==
  /\ At(p, "ex_claim")
  /\ job' = [job EXCEPT !.state = "running"] /\ Goto(p, "ex_read")
  /\ UNCHANGED <<claim, queued, facts, redisVars, diskVars, ran, crashes>>

FaultyStepPastEnd(p) ==
  /\ At(p, "ex_step")
  /\ Effect(proc[p].idx)
  /\ IF proc[p].idx <= NumSteps
     THEN proc' = [proc EXCEPT ![p].idx = @ + 1]
     ELSE Goto(p, "ex_persist")
  /\ UNCHANGED <<rowVars, redisVars, diskVars, crashes>>

FaultyStepSwallowed(p) ==
  /\ At(p, "ex_step")
  /\ Goto(p, "ex_persist")
  /\ UNCHANGED <<rowVars, redisVars, diskVars, ran, crashes>>

FaultyPersistOnly(p) ==
  /\ At(p, "ex_persist")
  /\ HsetResponse([Answer EXCEPT !.content = "result"])
  /\ Exit(p)
  /\ UNCHANGED <<rowVars, call, receipt, diskVars, ran, crashes>>

FaultyTxnWithoutExport(p) ==
  /\ At(p, "cr_txn")
  /\ facts' = facts \union {"response"}
  /\ UpdateJob([state |-> "completed", sha |-> proc[p].got])
  /\ Exit(p)
  /\ UNCHANGED <<claim, queued, redisVars, diskVars, ran, crashes>>

FaultyCleanupAnyState(c, checksum) ==
  /\ At(c, "idle")
  /\ job.sha = checksum
  /\ proc' = [proc EXCEPT ![c] = [@ EXCEPT !.pc = "cl_check", !.got = checksum]]
  /\ UNCHANGED <<rowVars, redisVars, diskVars, ran, crashes>>

------------------------------------------------------------------------------
(* asc job submit.                                                         *)

SubmitNew(c) ==
  /\ At(c, "idle") /\ job.state = "absent"
  /\ Goto(c, "prepare")
  /\ UNCHANGED <<rowVars, redisVars, diskVars, ran, crashes>>

SubmitAgain(c) ==
  /\ At(c, "idle") /\ job.state \notin {"absent"} \union Settled
  /\ proc' = [proc EXCEPT ![c] = [@ EXCEPT !.pc = "sub_resp", !.seen = job.state]]
  /\ UNCHANGED <<rowVars, redisVars, diskVars, ran, crashes>>

SubmitResp(p) ==
  /\ At(p, "sub_resp")
  /\ IF Answer.failure # "none" THEN Complete(p, proc[p].seen) ELSE Goto(p, "la_read")
  /\ UNCHANGED <<rowVars, redisVars, diskVars, ran, crashes>>

(* The package is verified and prepared; Pandoc may fail once and succeed  *)
(* later, so the outcome is not a function of the package.                 *)
Prepare(p) ==
  /\ At(p, "prepare")
  /\ \/ /\ dir = "package"
        /\ \E k \in Outcomes :
              proc' = [proc EXCEPT ![p] = [@ EXCEPT !.pc = "enq_claim", !.input = k]]
     \/ dir = "gone" /\ Exit(p)
  /\ UNCHANGED <<rowVars, redisVars, diskVars, ran, crashes>>

(* enqueue_record(queue=False): bind the record id to one input ...        *)
EnqClaim(p) ==
  /\ At(p, "enq_claim")
  /\ \/ claim = "none" /\ claim' = proc[p].input /\ Goto(p, "enq_publish")
     \/ /\ claim = proc[p].input /\ UNCHANGED claim
        /\ Goto(p, IF queued THEN "insert" ELSE "enq_publish")
     \/ claim \notin {"none", proc[p].input} /\ UNCHANGED claim /\ Exit(p)
  /\ UNCHANGED <<job, queued, facts, redisVars, diskVars, ran, crashes>>

(* ... publish the content under the marker, first writer wins; an unknown *)
(* plan is a failure, any other plan error raises ...                      *)
EnqPublish(p) ==
  /\ At(p, "enq_publish")
  /\ \/ /\ call = "none"
        /\ call' \in IF proc[p].input = "failed" THEN {"failure"} ELSE {"plan", "failure"}
     \/ call # "none" /\ UNCHANGED call
  /\ Goto(p, IF call' = "failure" THEN "enq_hset" ELSE "enq_done")
  /\ UNCHANGED <<rowVars, resp, receipt, expired, diskVars, ran, crashes>>

EnqBadPlan(p) ==
  /\ At(p, "enq_publish") /\ call = "none" /\ proc[p].input = "ready"
  /\ Exit(p)
  /\ UNCHANGED <<rowVars, redisVars, diskVars, ran, crashes>>

(* ... register a failure in Redis, without a time to live, then in the    *)
(* ledger ...                                                              *)
EnqHset(p) ==
  /\ At(p, "enq_hset")
  /\ HsetResponse(Failure("prep"))
  /\ Goto(p, "enq_ledger")
  /\ UNCHANGED <<rowVars, call, receipt, diskVars, ran, crashes>>

EnqLedger(p) ==
  /\ At(p, "enq_ledger")
  /\ facts' = facts \union {"response"}
  /\ Goto(p, "enq_done")
  /\ UNCHANGED <<job, claim, queued, redisVars, diskVars, ran, crashes>>

(* ... and note that all of it is done.                                    *)
EnqDone(p) ==
  /\ At(p, "enq_done")
  /\ queued' = TRUE
  /\ Goto(p, "insert")
  /\ UNCHANGED <<job, claim, facts, redisVars, diskVars, ran, crashes>>

(* INSERT OR IGNORE INTO ssh_jobs.                                         *)
Insert(p) ==
  /\ At(p, "insert")
  /\ job' = IF job.state # "absent" THEN job
            ELSE [job EXCEPT !.state = IF call = "failure" THEN "failed" ELSE "accepted"]
  /\ Goto(p, IF call = "failure" THEN "reread" ELSE "la_read")
  /\ UNCHANGED <<claim, queued, facts, redisVars, diskVars, ran, crashes>>

(* complete_response(ledger, client, read_job(...)).                       *)
Reread(p) ==
  /\ At(p, "reread")
  /\ IF job.state \in Settled
     THEN Exit(p)
     ELSE proc' = [proc EXCEPT ![p] = [@ EXCEPT !.pc = "cr_read", !.seen = job.state]]
  /\ UNCHANGED <<rowVars, redisVars, diskVars, ran, crashes>>

------------------------------------------------------------------------------
(* launch: start the unit unless systemd already has it.                   *)

LaunchRead(p) ==
  /\ At(p, "la_read")
  /\ IF job.state = "accepted" THEN Goto(p, "la_show") ELSE Exit(p)
  /\ UNCHANGED <<rowVars, redisVars, diskVars, ran, crashes>>

LaunchShow(p) ==
  /\ At(p, "la_show")
  /\ IF At(Unit, "idle") THEN Goto(p, "la_run") ELSE Exit(p)
  /\ UNCHANGED <<rowVars, redisVars, diskVars, ran, crashes>>

(* systemd-run refuses a unit that another submit has started meanwhile.   *)
LaunchRun(p) ==
  /\ At(p, "la_run")
  /\ \/ At(Unit, "idle") /\ proc' = [proc EXCEPT ![p] = Idle, ![Unit].pc = "ex_start"]
     \/ ~At(Unit, "idle") /\ Exit(p)
  /\ UNCHANGED <<rowVars, redisVars, diskVars, ran, crashes>>

------------------------------------------------------------------------------
(* asc job execute, run by the unit; the command line allows it to anyone. *)

ExecStart(p) ==
  /\ At(p, IF p = Unit THEN "ex_start" ELSE "idle")
  /\ IF job.state \in {"absent"} \union Settled
     THEN Exit(p)
     ELSE proc' = [proc EXCEPT ![p] = [@ EXCEPT !.pc = "ex_resp", !.seen = job.state]]
  /\ UNCHANGED <<rowVars, redisVars, diskVars, ran, crashes>>

ExecResp(p) ==
  /\ At(p, "ex_resp")
  /\ IF Answer.failure # "none" THEN Complete(p, proc[p].seen) ELSE Goto(p, "ex_claim")
  /\ UNCHANGED <<rowVars, redisVars, diskVars, ran, crashes>>

(* UPDATE ... SET state='running' ... WHERE ... AND state='accepted'.      *)
ExecClaim(p) ==
  /\ At(p, "ex_claim")
  /\ IF job.state = "accepted"
     THEN job' = [job EXCEPT !.state = "running"] /\ Goto(p, "ex_read")
     ELSE Exit(p) /\ UNCHANGED job
  /\ UNCHANGED <<claim, queued, facts, redisVars, diskVars, ran, crashes>>

ExecRead(p) ==
  /\ At(p, "ex_read")
  /\ proc' = [proc EXCEPT ![p] = [@ EXCEPT !.pc = "ex_step", !.seen = job.state, !.idx = 1]]
  /\ UNCHANGED <<rowVars, redisVars, diskVars, ran, crashes>>

ExecStep(p) ==
  /\ At(p, "ex_step")
  /\ Effect(proc[p].idx)
  /\ IF proc[p].idx < NumSteps
     THEN proc' = [proc EXCEPT ![p].idx = @ + 1]
     ELSE Goto(p, "ex_persist")
  /\ UNCHANGED <<rowVars, redisVars, diskVars, crashes>>

(* A step raises before or after its effect; a lost Redis reply is one of  *)
(* the ways.                                                               *)
ExecStepRaises(p) ==
  /\ At(p, "ex_step")
  /\ Effect(proc[p].idx) \/ UNCHANGED ran
  /\ Goto(p, "ex_failed")
  /\ UNCHANGED <<rowVars, redisVars, diskVars, crashes>>

ExecFailed(p) ==
  /\ At(p, "ex_failed")
  /\ UpdateJob([job EXCEPT !.state = "failed"])
  /\ Goto(p, "ex_hset")
  /\ UNCHANGED <<claim, queued, facts, redisVars, diskVars, ran, crashes>>

ExecHset(p) ==
  /\ At(p, "ex_hset")
  /\ HsetResponse(Failure("exec"))
  /\ Goto(p, "ex_ledger")
  /\ UNCHANGED <<rowVars, call, receipt, diskVars, ran, crashes>>

ExecLedger(p) ==
  /\ At(p, "ex_ledger")
  /\ facts' = facts \union {"response"}
  /\ Goto(p, "reread")
  /\ UNCHANGED <<job, claim, queued, redisVars, diskVars, ran, crashes>>

(* persist_redis_response: HSET leaves the failure field alone; the key    *)
(* may expire from here on, see ExpireResponse.                            *)
ExecPersist(p) ==
  /\ At(p, "ex_persist")
  /\ HsetResponse([Answer EXCEPT !.content = "result"])
  /\ Complete(p, proc[p].seen)
  /\ UNCHANGED <<rowVars, call, receipt, diskVars, ran, crashes>>

------------------------------------------------------------------------------
(* complete_response after its check of the caller's row.                  *)

CompleteRead(p) ==
  /\ At(p, "cr_read")
  /\ IF Answer.content = "none"
     THEN Exit(p)
     ELSE proc' = [proc EXCEPT ![p] = [@ EXCEPT !.pc = "cr_file", !.got = Answer]]
  /\ UNCHANGED <<rowVars, redisVars, diskVars, ran, crashes>>

(* A temporary file renamed over response.ndjson.                          *)
CompleteFile(p) ==
  /\ At(p, "cr_file")
  /\ IF dir = "gone"
     THEN Exit(p) /\ UNCHANGED file
     ELSE Goto(p, "cr_receipt") /\ file' = proc[p].got
  /\ UNCHANGED <<rowVars, redisVars, dir, ran, crashes>>

CompleteReceipt(p) ==
  /\ At(p, "cr_receipt")
  /\ receipt' = proc[p].got /\ expired' = expired \ {"receipt"}
  /\ Goto(p, "cr_txn")
  /\ UNCHANGED <<rowVars, call, resp, diskVars, ran, crashes>>

(* One transaction: responses, exports and the row, whatever it now holds. *)
CompleteTxn(p) ==
  /\ At(p, "cr_txn")
  /\ facts' = {"response", "export"}
  /\ UpdateJob([state |-> "completed", sha |-> proc[p].got])
  /\ Exit(p)
  /\ UNCHANGED <<claim, queued, redisVars, diskVars, ran, crashes>>

------------------------------------------------------------------------------
(* asc job cleanup: the client names the checksum of the file it fetched.  *)

CleanupStart(c, checksum) ==
  /\ At(c, "idle")
  /\ job.state = "completed" /\ job.sha = checksum
  /\ proc' = [proc EXCEPT ![c] = [@ EXCEPT !.pc = "cl_check", !.got = checksum]]
  /\ UNCHANGED <<rowVars, redisVars, diskVars, ran, crashes>>

CleanupCheck(p) ==
  /\ At(p, "cl_check")
  /\ \/ dir = "gone" /\ Goto(p, "cl_update")
     \/ dir = "package" /\ file = proc[p].got /\ Goto(p, "cl_unlink")
     \/ dir = "package" /\ file # proc[p].got /\ Exit(p)
  /\ UNCHANGED <<rowVars, redisVars, diskVars, ran, crashes>>

(* shutil.rmtree removes the entries it listed, then the directory.  An    *)
(* entry that another process removed first makes it raise, one that       *)
(* appears after the listing makes the final rmdir raise.                  *)
CleanupUnlink(p) ==
  /\ At(p, "cl_unlink")
  /\ \/ dir = "package" /\ file' = NoResponse /\ Goto(p, "cl_rmdir")
     \/ file = NoResponse /\ UNCHANGED file /\ Exit(p)
  /\ UNCHANGED <<rowVars, redisVars, dir, ran, crashes>>

CleanupRmdir(p) ==
  /\ At(p, "cl_rmdir")
  /\ IF dir = "package" /\ file = NoResponse
     THEN dir' = "gone" /\ Goto(p, "cl_update")
     ELSE UNCHANGED dir /\ Exit(p)
  /\ UNCHANGED <<rowVars, redisVars, file, ran, crashes>>

CleanupUpdate(p) ==
  /\ At(p, "cl_update")
  /\ UpdateJob([job EXCEPT !.state = "cleaned"])
  /\ Exit(p)
  /\ UNCHANGED <<claim, queued, facts, redisVars, diskVars, ran, crashes>>

------------------------------------------------------------------------------
(* FORENSIC_TTL runs out: of an answer that is a result, or of a receipt.  *)
(* The thirty days do not pass between a process's write of the answer and *)
(* its own read of it.                                                     *)
ExpireResponse ==
  /\ resp.content = "result" /\ \A p \in Proc : ~At(p, "cr_read")
  /\ expired' = expired \union {"response"}
  /\ UNCHANGED <<rowVars, call, resp, receipt, diskVars, proc, ran, crashes>>

ExpireReceipt ==
  /\ receipt # NoResponse
  /\ expired' = expired \union {"receipt"}
  /\ UNCHANGED <<rowVars, call, resp, receipt, diskVars, proc, ran, crashes>>

(* A process is killed, or an exception outside the try of execute ends    *)
(* it: what it has written stays.                                          *)
Crash(p) ==
  /\ ~At(p, "idle") /\ crashes < MaxCrashes
  /\ crashes' = crashes + 1
  /\ Exit(p)
  /\ UNCHANGED <<rowVars, redisVars, diskVars, ran>>

(* What a started process does next. *)
Advance(p) ==
  \/ SubmitResp(p) \/ Prepare(p) \/ EnqClaim(p) \/ EnqPublish(p) \/ EnqBadPlan(p)
  \/ EnqHset(p) \/ EnqLedger(p) \/ EnqDone(p) \/ Insert(p) \/ Reread(p)
  \/ LaunchRead(p) \/ LaunchShow(p) \/ LaunchRun(p)
  \/ ExecResp(p) \/ ExecClaim(p) \/ ExecRead(p) \/ ExecStep(p) \/ ExecStepRaises(p)
  \/ ExecFailed(p) \/ ExecHset(p) \/ ExecLedger(p) \/ ExecPersist(p)
  \/ CompleteRead(p) \/ CompleteFile(p) \/ CompleteReceipt(p) \/ CompleteTxn(p)
  \/ CleanupCheck(p) \/ CleanupUnlink(p) \/ CleanupRmdir(p) \/ CleanupUpdate(p)

(* What a client may ask for. *)
Request(c) ==
  \/ SubmitNew(c) \/ SubmitAgain(c)
  \/ \E checksum \in Responses : CleanupStart(c, checksum)

Next ==
  \/ \E p \in Proc : Advance(p) \/ ExecStart(p) \/ Crash(p)
  \/ \E c \in Client : Request(c)
  \/ ExpireResponse \/ ExpireReceipt

Spec == Init /\ [][Next]_vars

(* A client that keeps resubmitting, and processes that are not starved by *)
(* the operating system; nothing is fair about crashes or expiry.          *)
FairSpec ==
  /\ Spec
  /\ \A p \in Proc : WF_vars(Advance(p))
  /\ WF_vars(ExecStart(Unit))
  /\ \A c \in Client : WF_vars(SubmitAgain(c))

------------------------------------------------------------------------------
(* Properties.                                                             *)

(* No step of the plan takes effect twice, whatever is resubmitted, run in *)
(* parallel or restarted: the claim of execute (ssh_jobs.py:202-206).      *)
NoStepTwice == \A s \in Steps : ran[s] <= 1

(* A job that says completed or cleaned has its rows in the ledger and     *)
(* advertises the checksum of an answer (complete_response,                *)
(* ssh_jobs.py:163-192).  What Redis still holds of it is that answer and  *)
(* its receipt, or nothing once FORENSIC_TTL has run out (ssh_jobs.py:187, *)
(* worker.py:252); a failure is kept for ever (enqueue.py:130-131).        *)
SettledIsBacked ==
  job.state \in Settled =>
    /\ facts = {"response", "export"} /\ job.sha.content # "none"
    /\ Answer \in {job.sha, NoResponse} /\ Receipt \in {job.sha, NoResponse}
    /\ job.sha.failure # "none" => Answer = job.sha

(* The package directory disappears, even in part, only once the answer    *)
(* has been exported (cleanup, ssh_jobs.py:234-240).                       *)
NothingLostByCleanup ==
  dir = "gone" \/ (\E p \in Proc : At(p, "cl_rmdir"))
    => "export" \in facts /\ job.state \in Settled

(* The answer tells what happened: a result means every step ran, a        *)
(* preparation failure that none did, and an execution failure is never    *)
(* reported for a job nobody claimed.                                      *)
AnswerIsTruthful ==
  /\ resp.content = "result" => resp.failure = "none" /\ \A s \in Steps : ran[s] = 1
  /\ resp.failure = "prep" => \A s \in Steps : ran[s] = 0
  /\ resp.failure = "exec" => claim = "ready" /\ call = "plan"

(* An answer the ledger holds is final, and so are the file and the        *)
(* receipt made from it: late or repeated completers rewrite the same, and *)
(* an answer that has expired is never given again.                        *)
AnswerIsFinal ==
  [][ /\ "response" \in facts => UNCHANGED resp /\ Answer' \in {Answer, NoResponse}
      /\ receipt # NoResponse => UNCHANGED receipt
      /\ job.sha # NoResponse => job'.sha = job.sha ]_vars

(* What `asc job` reports is what CallLifecycle promises for a call: steps *)
(* in order and once, one answer, nothing after it.  The call is answered  *)
(* when the ledger has its response (ssh_jobs.py:190-191, enqueue.py:133). *)
TheCall == {"call"}
Phase ==
  CASE claim = "none"                                       -> "absent"
    [] claim # "none" /\ "response" \notin facts            -> "pending"
    [] "response" \in facts /\ resp.failure # "none"        -> "failed"
    [] "response" \in facts /\ resp.failure = "none"        -> "completed"
Lifecycle == INSTANCE CallLifecycle WITH
  Call <- TheCall, phase <- [c \in TheCall |-> Phase], ran <- [c \in TheCall |-> ran]
ImplementsLifecycle == Lifecycle!Spec

(* test_ssh_jobs.py:88: a cleaned job answers cleaned.                     *)
CleanedIsFinal == [][job.state = "cleaned" => job'.state = "cleaned"]_vars

(* INGEST-REFACTOR.md:30: cleanup can be repeated.  When nobody is         *)
(* cleaning, a completed job whose directory is still there has the file   *)
(* the repeated cleanup will compare.                                      *)
Cleaning(p) == proc[p].pc \in {"cl_unlink", "cl_rmdir", "cl_update"}
CleanupRepeatable ==
  job.state = "completed" /\ dir = "package" /\ (\A p \in Proc : ~Cleaning(p))
    => file = job.sha

(* An accepted job does not wait for ever: a crash before the claim is     *)
(* made good by the next submit (launch, ssh_jobs.py:90-105).              *)
AcceptedIsTaken == job.state = "accepted" ~> job.state # "accepted"

(* Crashes may strand a job in two ways only: a claimed execution that     *)
(* ended without an answer, or an answer that is a result but was not      *)
(* published (ssh_jobs.py:202-203 forbids repeating either).  Every other  *)
(* job the ledger knows settles.                                           *)
Executing(p) == proc[p].pc \in {"ex_read", "ex_step", "ex_failed", "ex_hset",
                                 "ex_ledger", "ex_persist", "reread", "cr_read",
                                 "cr_file", "cr_receipt", "cr_txn"}
Stranded ==
  /\ job.state \in {"running", "failed"} /\ resp.failure = "none"
  /\ \A p \in Proc : ~Executing(p)
SettlesOrStranded == job.state # "absent" ~> job.state \in Settled \/ Stranded

(* Without crashes every job the ledger knows is answered, whichever       *)
(* process does it (ssh_jobs.py:108-227).                                  *)
EveryJobSettles ==
  [](crashes = 0) => (job.state # "absent" ~> job.state \in Settled)
=============================================================================
