---------------------------- MODULE SshJobsProofs ----------------------------
(***************************************************************************)
(* Proofs about SshJobs, for any number of clients, any plan length and    *)
(* any bound on crashes: that no step of a plan takes effect twice, that   *)
(* what a settled job promises is there, that cleanup loses nothing, that  *)
(* answers are true and final, and that the job commands implement         *)
(* CallLifecycle.                                                          *)
(***************************************************************************)
EXTENDS SshJobs, TLAPS

LEMMA OneIsStep == 1 \in Steps
BY NumStepsAssumption DEF Steps

LEMMA NoResponseTyped == NoResponse \in Responses
BY DEF NoResponse, Responses

LEMMA IdleTyped == Idle \in Processes
BY OneIsStep, NoResponseTyped DEF Idle, Processes, Labels, JobStates

(* The initial state has the types of the variables. *)
LEMMA InitTyped == Init => TypeOK
<1> SUFFICES ASSUME Init PROVE TypeOK
  OBVIOUS
<1>1. job \in [state: JobStates, sha: Responses]
  BY NoResponseTyped DEF Init, JobStates
<1>2. proc \in [Proc -> Processes]
  BY IdleTyped DEF Init
<1>3. crashes \in 0..MaxCrashes
  BY CrashesAssumption DEF Init
<1>4. ran \in [Steps -> Nat]
  BY DEF Init
<1> QED
  BY <1>1, <1>2, <1>3, <1>4, NoResponseTyped DEF Init, TypeOK

(* A process record stays one when it moves and stores what it read. *)
LEMMA RecordTyped ==
  ASSUME NEW r \in Processes, NEW l \in Labels
  PROVE  /\ [r EXCEPT !.pc = l] \in Processes
         /\ \A v \in JobStates : [r EXCEPT !.pc = l, !.seen = v] \in Processes
         /\ \A v \in JobStates, i \in Steps : [r EXCEPT !.pc = l, !.seen = v, !.idx = i] \in Processes
         /\ \A v \in InputKinds : [r EXCEPT !.pc = l, !.input = v] \in Processes
         /\ \A v \in Responses : [r EXCEPT !.pc = l, !.got = v] \in Processes
BY DEF Processes

(* The moves of a process that every action is made of stay in its type.   *)
LEMMA MovesTyped ==
  ASSUME proc \in [Proc -> Processes], NEW p \in Proc
  PROVE  /\ \A l \in Labels : Goto(p, l) => proc' \in [Proc -> Processes]
         /\ Exit(p) => proc' \in [Proc -> Processes]
         /\ \A row : Complete(p, row) => proc' \in [Proc -> Processes]
<1>1. ASSUME NEW l \in Labels, Goto(p, l)
      PROVE  proc' \in [Proc -> Processes]
  BY <1>1 DEF Goto, Processes
<1>2. ASSUME Exit(p)
      PROVE  proc' \in [Proc -> Processes]
  BY <1>2, IdleTyped DEF Exit
<1>3. ASSUME NEW row, Complete(p, row)
      PROVE  proc' \in [Proc -> Processes]
  BY <1>1, <1>2, <1>3 DEF Complete, Labels
<1> QED
  BY <1>1, <1>2, <1>3

(* The index of a process moves within the plan. *)
LEMMA IndexTyped ==
  ASSUME proc \in [Proc -> Processes], NEW p \in Proc, NEW i \in Steps,
         proc' = [proc EXCEPT ![p].idx = i]
  PROVE  proc' \in [Proc -> Processes]
<1>1. [proc[p] EXCEPT !.idx = i] \in Processes
  BY DEF Processes
<1>2. proc' = [proc EXCEPT ![p] = [proc[p] EXCEPT !.idx = i]]
  OBVIOUS
<1> QED
  BY <1>1, <1>2

(* Every action keeps the types. *)
LEMMA StepTyped == TypeOK /\ [Next]_vars => TypeOK'
<1> SUFFICES ASSUME TypeOK, [Next]_vars PROVE TypeOK'
  OBVIOUS
<1> USE NoResponseTyped DEF TypeOK, rowVars, redisVars, diskVars
<1>a. /\ \A p \in Proc : proc[p] \in Processes
      /\ job.state \in JobStates
      /\ \A c \in Client : c \in Proc
      /\ Unit \in Proc
  BY DEF Proc
<1>1. ASSUME NEW c \in Client, SubmitNew(c) PROVE TypeOK'
  BY <1>1, <1>a, MovesTyped DEF SubmitNew, Labels
<1>2. ASSUME NEW c \in Client, SubmitAgain(c) PROVE TypeOK'
  <2>1. proc' \in [Proc -> Processes]
    BY <1>2, <1>a, RecordTyped DEF SubmitAgain, Labels
  <2> QED
    BY <1>2, <2>1 DEF SubmitAgain
<1>3. ASSUME NEW c \in Client, NEW checksum \in Responses, CleanupStart(c, checksum)
      PROVE  TypeOK'
  <2>1. proc' \in [Proc -> Processes]
    BY <1>3, <1>a, RecordTyped DEF CleanupStart, Labels
  <2> QED
    BY <1>3, <2>1 DEF CleanupStart
<1>4. ASSUME NEW p \in Proc, ExecStart(p) PROVE TypeOK'
  <2>1. CASE Exit(p)
    BY <1>4, <2>1, MovesTyped DEF ExecStart
  <2>2. CASE proc' = [proc EXCEPT ![p] = [@ EXCEPT !.pc = "ex_resp", !.seen = job.state]]
    <3>1. proc' \in [Proc -> Processes]
      BY <2>2, <1>a, RecordTyped DEF Labels
    <3> QED
      BY <1>4, <3>1 DEF ExecStart
  <2> QED
    BY <1>4, <2>1, <2>2 DEF ExecStart
<1>5. ASSUME NEW p \in Proc, Crash(p) PROVE TypeOK'
  BY <1>5, <1>a, MovesTyped, CrashesAssumption DEF Crash
<1>6. ASSUME NEW p \in Proc, Prepare(p) PROVE TypeOK'
  <2>1. CASE Exit(p)
    BY <1>6, <2>1, MovesTyped DEF Prepare
  <2>2. ASSUME NEW k \in Outcomes,
               proc' = [proc EXCEPT ![p] = [@ EXCEPT !.pc = "enq_claim", !.input = k]]
        PROVE  TypeOK'
    <3>1. proc' \in [Proc -> Processes]
      BY <2>2, <1>a, RecordTyped, OutcomesAssumption DEF Labels
    <3> QED
      BY <1>6, <3>1 DEF Prepare
  <2> QED
    BY <1>6, <2>1, <2>2 DEF Prepare
<1>7. ASSUME NEW p \in Proc, Reread(p) PROVE TypeOK'
  <2>1. CASE Exit(p)
    BY <1>7, <2>1, MovesTyped DEF Reread
  <2>2. CASE proc' = [proc EXCEPT ![p] = [@ EXCEPT !.pc = "cr_read", !.seen = job.state]]
    <3>1. proc' \in [Proc -> Processes]
      BY <2>2, <1>a, RecordTyped DEF Labels
    <3> QED
      BY <1>7, <3>1 DEF Reread
  <2> QED
    BY <1>7, <2>1, <2>2 DEF Reread
<1>8. ASSUME NEW p \in Proc, LaunchRun(p) PROVE TypeOK'
  <2>1. CASE At(Unit, "idle") /\ proc' = [proc EXCEPT ![p] = Idle, ![Unit].pc = "ex_start"]
    <3>1. "ex_start" \in Labels
      BY DEF Labels
    <3>2. proc' \in [Proc -> Processes]
      BY <2>1, <3>1, <1>a, RecordTyped, IdleTyped
    <3> QED
      BY <1>8, <3>2 DEF LaunchRun
  <2>2. CASE Exit(p)
    BY <1>8, <2>2, MovesTyped DEF LaunchRun
  <2> QED
    BY <1>8, <2>1, <2>2 DEF LaunchRun
<1>9. ASSUME NEW p \in Proc, ExecRead(p) PROVE TypeOK'
  <2>1. proc' \in [Proc -> Processes]
    BY <1>9, <1>a, RecordTyped, OneIsStep DEF ExecRead, Labels
  <2> QED
    BY <1>9, <2>1 DEF ExecRead
<1>10. ASSUME NEW p \in Proc, ExecStep(p) PROVE TypeOK'
  <2>1. proc[p].idx \in Steps
    BY <1>a DEF Processes
  <2>2. ran' \in [Steps -> Nat]
    BY <1>10, <2>1 DEF ExecStep, Effect
  <2>3. proc' \in [Proc -> Processes]
    <3>1. CASE proc[p].idx < NumSteps
      <4>1. proc[p].idx + 1 \in Steps
        BY <2>1, <3>1, NumStepsAssumption DEF Steps
      <4>2. proc' = [proc EXCEPT ![p].idx = proc[p].idx + 1]
        BY <1>10, <3>1 DEF ExecStep
      <4> QED
        BY <4>1, <4>2, IndexTyped
    <3>2. CASE ~(proc[p].idx < NumSteps)
      BY <1>10, <3>2, MovesTyped DEF ExecStep, Labels
    <3> QED
      BY <3>1, <3>2
  <2> QED
    BY <1>10, <2>2, <2>3 DEF ExecStep
<1>11. ASSUME NEW p \in Proc, CompleteRead(p) PROVE TypeOK'
  <2>1. CASE Exit(p)
    BY <1>11, <2>1, MovesTyped DEF CompleteRead
  <2>2. CASE proc' = [proc EXCEPT ![p] = [@ EXCEPT !.pc = "cr_file", !.got = Answer]]
    <3>1. proc' \in [Proc -> Processes]
      BY <2>2, <1>a, RecordTyped DEF Labels, Answer
    <3> QED
      BY <1>11, <3>1 DEF CompleteRead
  <2> QED
    BY <1>11, <2>1, <2>2 DEF CompleteRead
<1>12. ASSUME NEW p \in Proc, SubmitResp(p) PROVE TypeOK'
  BY <1>12, <1>a, MovesTyped DEF SubmitResp, Labels
<1>13. ASSUME NEW p \in Proc, EnqClaim(p) PROVE TypeOK'
  BY <1>13, <1>a, MovesTyped DEF EnqClaim, Labels, Processes
<1>14. ASSUME NEW p \in Proc, EnqPublish(p) PROVE TypeOK'
  BY <1>14, <1>a, MovesTyped DEF EnqPublish, Labels
<1>15. ASSUME NEW p \in Proc, EnqBadPlan(p) PROVE TypeOK'
  BY <1>15, <1>a, MovesTyped DEF EnqBadPlan, Labels
<1>16. ASSUME NEW p \in Proc, EnqHset(p) PROVE TypeOK'
  BY <1>16, <1>a, MovesTyped DEF EnqHset, HsetResponse, Labels, Failure, Responses
<1>17. ASSUME NEW p \in Proc, EnqLedger(p) PROVE TypeOK'
  BY <1>17, <1>a, MovesTyped DEF EnqLedger, Labels
<1>18. ASSUME NEW p \in Proc, EnqDone(p) PROVE TypeOK'
  BY <1>18, <1>a, MovesTyped DEF EnqDone, Labels
<1>19. ASSUME NEW p \in Proc, Insert(p) PROVE TypeOK'
  BY <1>19, <1>a, MovesTyped DEF Insert, Labels, JobStates
<1>20. ASSUME NEW p \in Proc, LaunchRead(p) PROVE TypeOK'
  BY <1>20, <1>a, MovesTyped DEF LaunchRead, Labels
<1>21. ASSUME NEW p \in Proc, LaunchShow(p) PROVE TypeOK'
  BY <1>21, <1>a, MovesTyped DEF LaunchShow, Labels
<1>22. ASSUME NEW p \in Proc, ExecResp(p) PROVE TypeOK'
  BY <1>22, <1>a, MovesTyped DEF ExecResp, Labels
<1>23. ASSUME NEW p \in Proc, ExecClaim(p) PROVE TypeOK'
  BY <1>23, <1>a, MovesTyped DEF ExecClaim, Labels, JobStates
<1>24. ASSUME NEW p \in Proc, ExecStepRaises(p) PROVE TypeOK'
  BY <1>24, <1>a, MovesTyped DEF ExecStepRaises, Labels, Effect, Processes
<1>25. ASSUME NEW p \in Proc, ExecFailed(p) PROVE TypeOK'
  BY <1>25, <1>a, MovesTyped DEF ExecFailed, Labels, UpdateJob, JobStates
<1>26. ASSUME NEW p \in Proc, ExecHset(p) PROVE TypeOK'
  BY <1>26, <1>a, MovesTyped DEF ExecHset, HsetResponse, Labels, Failure, Responses
<1>27. ASSUME NEW p \in Proc, ExecLedger(p) PROVE TypeOK'
  BY <1>27, <1>a, MovesTyped DEF ExecLedger, Labels
<1>28. ASSUME NEW p \in Proc, ExecPersist(p) PROVE TypeOK'
  BY <1>28, <1>a, MovesTyped DEF ExecPersist, HsetResponse, Answer, Labels, Responses
<1>29. ASSUME NEW p \in Proc, CompleteFile(p) PROVE TypeOK'
  BY <1>29, <1>a, MovesTyped DEF CompleteFile, Labels, Processes
<1>30. ASSUME NEW p \in Proc, CompleteReceipt(p) PROVE TypeOK'
  BY <1>30, <1>a, MovesTyped DEF CompleteReceipt, Labels, Processes
<1>31. ASSUME NEW p \in Proc, CompleteTxn(p) PROVE TypeOK'
  BY <1>31, <1>a, MovesTyped DEF CompleteTxn, Labels, UpdateJob, JobStates, Processes
<1>32. ASSUME NEW p \in Proc, CleanupCheck(p) PROVE TypeOK'
  BY <1>32, <1>a, MovesTyped DEF CleanupCheck, Labels
<1>33. ASSUME NEW p \in Proc, CleanupUnlink(p) PROVE TypeOK'
  BY <1>33, <1>a, MovesTyped DEF CleanupUnlink, Labels
<1>34. ASSUME NEW p \in Proc, CleanupRmdir(p) PROVE TypeOK'
  BY <1>34, <1>a, MovesTyped DEF CleanupRmdir, Labels
<1>35. ASSUME NEW p \in Proc, CleanupUpdate(p) PROVE TypeOK'
  BY <1>35, <1>a, MovesTyped DEF CleanupUpdate, Labels, UpdateJob, JobStates
<1>36. CASE UNCHANGED vars
  BY <1>36 DEF vars
<1>37. CASE ExpireResponse \/ ExpireReceipt
  BY <1>37 DEF ExpireResponse, ExpireReceipt
<1> QED
  BY <1>1, <1>2, <1>3, <1>4, <1>5, <1>6, <1>7, <1>8, <1>9, <1>10, <1>11, <1>12, <1>13, <1>14,
     <1>15, <1>16, <1>17, <1>18, <1>19, <1>20, <1>21, <1>22, <1>23, <1>24, <1>25, <1>26, <1>27,
     <1>28, <1>29, <1>30, <1>31, <1>32, <1>33, <1>34, <1>35, <1>36, <1>37 DEF Next, Advance, Request

(* Every variable keeps its type in every behaviour. *)
THEOREM TypeCorrect == Spec => []TypeOK
BY InitTyped, StepTyped, PTL DEF Spec

------------------------------------------------------------------------------
(* At most one process is past the claim, and nothing has run before it.   *)
(* NoStepTwice alone is not inductive: a step taken by a second claimant,  *)
(* or by one whose index lags behind, would break it.                      *)
Claimed(p) == proc[p].pc \in {"ex_read", "ex_step", "ex_failed", "ex_hset",
                              "ex_ledger", "ex_persist"}
Unclaimed  == job.state \in {"absent", "accepted"}

ClaimInv ==
  /\ Unclaimed => (\A p \in Proc : ~Claimed(p)) /\ \A s \in Steps : ran[s] = 0
  /\ \A p, q \in Proc : Claimed(p) /\ Claimed(q) => p = q
  /\ \A p \in Proc : proc[p].pc = "ex_read" => \A s \in Steps : ran[s] = 0
  /\ \A p \in Proc : proc[p].pc = "ex_step" =>
        \A s \in Steps : s >= proc[p].idx => ran[s] = 0
  /\ NoStepTwice

(* A step that runs nothing, claims nothing and does not undo the claim. *)
Quiet ==
  /\ ran' = ran
  /\ Unclaimed' => Unclaimed
  /\ \A p \in Proc : Claimed(p)' => Claimed(p)
  /\ \A p \in Proc : proc[p].pc' \in {"ex_read", "ex_step"} => proc'[p] = proc[p]

LEMMA QuietKeepsClaim == ClaimInv /\ Quiet => ClaimInv'
BY DEF ClaimInv, Quiet, Claimed, Unclaimed, NoStepTwice

(* The moves that actions are made of, seen by the claim. *)
LEMMA QuietMoves ==
  ASSUME proc \in [Proc -> Processes], NEW p \in Proc, ran' = ran, Unclaimed' => Unclaimed
  PROVE  /\ Exit(p) => Quiet
         /\ \A l \in Labels : Goto(p, l) /\ l \notin {"ex_read", "ex_step"}
               /\ (Claimed(p) \/ l \notin {"ex_failed", "ex_hset", "ex_ledger", "ex_persist"})
               => Quiet
         /\ \A row : Complete(p, row) => Quiet
<1>1. Exit(p) => Quiet
  BY DEF Exit, Quiet, Claimed, Idle, Processes
<1>2. ASSUME NEW l \in Labels, Goto(p, l), l \notin {"ex_read", "ex_step"},
             Claimed(p) \/ l \notin {"ex_failed", "ex_hset", "ex_ledger", "ex_persist"}
      PROVE  Quiet
  <2>1. \A q \in Proc : q # p => proc'[q] = proc[q]
    BY <1>2 DEF Goto
  <2>2. proc'[p].pc = l
    BY <1>2 DEF Goto, Processes
  <2> QED
    BY <1>2, <2>1, <2>2 DEF Quiet, Claimed
<1>3. ASSUME NEW row, Complete(p, row) PROVE Quiet
  BY <1>1, <1>2, <1>3 DEF Complete, Labels
<1> QED
  BY <1>1, <1>2, <1>3

(* A process that starts or reads and moves to a label before the claim. *)
LEMMA QuietUpdate ==
  ASSUME proc \in [Proc -> Processes], NEW p \in Proc, ran' = ran, Unclaimed' => Unclaimed,
         NEW r, proc' = [proc EXCEPT ![p] = r],
         r.pc \notin {"ex_read", "ex_step", "ex_failed", "ex_hset", "ex_ledger", "ex_persist"}
  PROVE  Quiet
BY DEF Quiet, Claimed

LEMMA InitClaim == Init => ClaimInv
BY DEF Init, ClaimInv, NoStepTwice, Claimed, Unclaimed, Idle

(* The actions that neither claim nor run a step. *)
LEMMA OthersQuiet ==
  ASSUME TypeOK, NEW p \in Proc,
         \/ SubmitNew(p) \/ SubmitAgain(p) \/ (\E checksum \in Responses : CleanupStart(p, checksum))
         \/ ExecStart(p) \/ Crash(p) \/ Prepare(p) \/ Reread(p) \/ LaunchRun(p) \/ CompleteRead(p)
         \/ SubmitResp(p) \/ EnqClaim(p) \/ EnqPublish(p) \/ EnqBadPlan(p)
         \/ EnqHset(p) \/ EnqLedger(p) \/ EnqDone(p) \/ Insert(p)
         \/ LaunchRead(p) \/ LaunchShow(p) \/ ExecResp(p) \/ ExecFailed(p)
         \/ ExecHset(p) \/ ExecLedger(p) \/ ExecPersist(p) \/ CompleteFile(p)
         \/ CompleteReceipt(p) \/ CompleteTxn(p) \/ CleanupCheck(p)
         \/ CleanupUnlink(p) \/ CleanupRmdir(p) \/ CleanupUpdate(p)
  PROVE  Quiet
<1> USE DEF TypeOK, rowVars
<1>a. proc \in [Proc -> Processes] /\ proc[p] \in Processes
  OBVIOUS
<1>1. ASSUME SubmitNew(p) PROVE Quiet
  BY <1>1, <1>a, QuietMoves DEF SubmitNew, Unclaimed, Labels
<1>2. ASSUME SubmitAgain(p) PROVE Quiet
  <2>1. ran' = ran /\ (Unclaimed' => Unclaimed)
    BY <1>2 DEF SubmitAgain, Unclaimed
  <2>2. CASE proc' = [proc EXCEPT ![p] = [@ EXCEPT !.pc = "sub_resp", !.seen = job.state]]
    <3>1. [proc[p] EXCEPT !.pc = "sub_resp", !.seen = job.state].pc = "sub_resp"
      BY <1>a DEF Processes
    <3> QED
      BY <2>1, <2>2, <3>1, <1>a, QuietUpdate
  <2> QED
    BY <1>2, <2>2 DEF SubmitAgain
<1>3. ASSUME NEW checksum \in Responses, CleanupStart(p, checksum) PROVE Quiet
  <2>1. ran' = ran /\ (Unclaimed' => Unclaimed)
    BY <1>3 DEF CleanupStart, Unclaimed
  <2>2. CASE proc' = [proc EXCEPT ![p] = [@ EXCEPT !.pc = "cl_check", !.got = checksum]]
    <3>1. [proc[p] EXCEPT !.pc = "cl_check", !.got = checksum].pc = "cl_check"
      BY <1>a DEF Processes
    <3> QED
      BY <2>1, <2>2, <3>1, <1>a, QuietUpdate
  <2> QED
    BY <1>3, <2>2 DEF CleanupStart
<1>4. ASSUME ExecStart(p) PROVE Quiet
  <2>1. ran' = ran /\ (Unclaimed' => Unclaimed)
    BY <1>4 DEF ExecStart, Unclaimed
  <2>2. CASE proc' = [proc EXCEPT ![p] = [@ EXCEPT !.pc = "ex_resp", !.seen = job.state]]
    <3>1. [proc[p] EXCEPT !.pc = "ex_resp", !.seen = job.state].pc = "ex_resp"
      BY <1>a DEF Processes
    <3> QED
      BY <2>1, <2>2, <3>1, <1>a, QuietUpdate
  <2>3. CASE Exit(p)
    BY <2>1, <2>3, <1>a, QuietMoves
  <2> QED
    BY <1>4, <2>2, <2>3 DEF ExecStart
<1>5. ASSUME Reread(p) PROVE Quiet
  <2>1. ran' = ran /\ (Unclaimed' => Unclaimed)
    BY <1>5 DEF Reread, Unclaimed
  <2>2. CASE proc' = [proc EXCEPT ![p] = [@ EXCEPT !.pc = "cr_read", !.seen = job.state]]
    <3>1. [proc[p] EXCEPT !.pc = "cr_read", !.seen = job.state].pc = "cr_read"
      BY <1>a DEF Processes
    <3> QED
      BY <2>1, <2>2, <3>1, <1>a, QuietUpdate
  <2>3. CASE Exit(p)
    BY <2>1, <2>3, <1>a, QuietMoves
  <2> QED
    BY <1>5, <2>2, <2>3 DEF Reread
<1>6. ASSUME CompleteRead(p) PROVE Quiet
  <2>1. ran' = ran /\ (Unclaimed' => Unclaimed)
    BY <1>6 DEF CompleteRead, Unclaimed
  <2>2. CASE proc' = [proc EXCEPT ![p] = [@ EXCEPT !.pc = "cr_file", !.got = Answer]]
    <3>1. [proc[p] EXCEPT !.pc = "cr_file", !.got = Answer].pc = "cr_file"
      BY <1>a DEF Processes
    <3> QED
      BY <2>1, <2>2, <3>1, <1>a, QuietUpdate
  <2>3. CASE Exit(p)
    BY <2>1, <2>3, <1>a, QuietMoves
  <2> QED
    BY <1>6, <2>2, <2>3 DEF CompleteRead
<1>7. ASSUME Prepare(p) PROVE Quiet
  <2>1. ran' = ran /\ (Unclaimed' => Unclaimed)
    BY <1>7 DEF Prepare, Unclaimed
  <2>2. ASSUME NEW k \in Outcomes,
               proc' = [proc EXCEPT ![p] = [@ EXCEPT !.pc = "enq_claim", !.input = k]]
        PROVE  Quiet
    <3>1. [proc[p] EXCEPT !.pc = "enq_claim", !.input = k].pc = "enq_claim"
      BY <1>a DEF Processes
    <3> QED
      BY <2>1, <2>2, <3>1, <1>a, QuietUpdate
  <2>3. CASE Exit(p)
    BY <2>1, <2>3, <1>a, QuietMoves
  <2> QED
    BY <1>7, <2>2, <2>3 DEF Prepare
<1>8. ASSUME LaunchRun(p) PROVE Quiet
  <2>1. ran' = ran /\ (Unclaimed' => Unclaimed)
    BY <1>8 DEF LaunchRun, Unclaimed
  <2>2. CASE proc' = [proc EXCEPT ![p] = Idle, ![Unit].pc = "ex_start"]
    <3>1. \A q \in Proc : proc'[q] = proc[q] \/ proc'[q].pc \in {"idle", "ex_start"}
      BY <2>2, <1>a DEF Idle, Processes
    <3> QED
      BY <2>1, <3>1 DEF Quiet, Claimed
  <2>3. CASE Exit(p)
    BY <2>1, <2>3, <1>a, QuietMoves
  <2> QED
    BY <1>8, <2>2, <2>3 DEF LaunchRun
<1>9. ASSUME SubmitResp(p) PROVE Quiet
  BY <1>9, <1>a, QuietMoves DEF SubmitResp, Labels, Unclaimed
<1>10. ASSUME EnqClaim(p) PROVE Quiet
  BY <1>10, <1>a, QuietMoves DEF EnqClaim, Labels, Unclaimed
<1>11. ASSUME EnqPublish(p) PROVE Quiet
  BY <1>11, <1>a, QuietMoves DEF EnqPublish, Labels, Unclaimed
<1>12. ASSUME EnqBadPlan(p) PROVE Quiet
  BY <1>12, <1>a, QuietMoves DEF EnqBadPlan, Labels, Unclaimed
<1>13. ASSUME EnqHset(p) PROVE Quiet
  BY <1>13, <1>a, QuietMoves DEF EnqHset, Labels, Unclaimed
<1>14. ASSUME EnqLedger(p) PROVE Quiet
  BY <1>14, <1>a, QuietMoves DEF EnqLedger, Labels, Unclaimed
<1>15. ASSUME EnqDone(p) PROVE Quiet
  BY <1>15, <1>a, QuietMoves DEF EnqDone, Labels, Unclaimed
<1>16. ASSUME Insert(p) PROVE Quiet
  BY <1>16, <1>a, QuietMoves DEF Insert, Labels, Unclaimed, JobStates
<1>17. ASSUME LaunchRead(p) PROVE Quiet
  BY <1>17, <1>a, QuietMoves DEF LaunchRead, Labels, Unclaimed
<1>18. ASSUME LaunchShow(p) PROVE Quiet
  BY <1>18, <1>a, QuietMoves DEF LaunchShow, Labels, Unclaimed
<1>19. ASSUME ExecResp(p) PROVE Quiet
  BY <1>19, <1>a, QuietMoves DEF ExecResp, Labels, Unclaimed
<1>20. ASSUME ExecFailed(p) PROVE Quiet
  BY <1>20, <1>a, QuietMoves DEF ExecFailed, Labels, Unclaimed, UpdateJob, Claimed, At, JobStates
<1>21. ASSUME ExecHset(p) PROVE Quiet
  BY <1>21, <1>a, QuietMoves DEF ExecHset, Labels, Unclaimed, Claimed, At
<1>22. ASSUME ExecLedger(p) PROVE Quiet
  BY <1>22, <1>a, QuietMoves DEF ExecLedger, Labels, Unclaimed, Claimed, At
<1>23. ASSUME ExecPersist(p) PROVE Quiet
  BY <1>23, <1>a, QuietMoves DEF ExecPersist, Labels, Unclaimed
<1>24. ASSUME CompleteFile(p) PROVE Quiet
  BY <1>24, <1>a, QuietMoves DEF CompleteFile, Labels, Unclaimed
<1>25. ASSUME CompleteReceipt(p) PROVE Quiet
  BY <1>25, <1>a, QuietMoves DEF CompleteReceipt, Labels, Unclaimed
<1>26. ASSUME CompleteTxn(p) PROVE Quiet
  BY <1>26, <1>a, QuietMoves DEF CompleteTxn, Labels, Unclaimed, UpdateJob, JobStates
<1>27. ASSUME CleanupCheck(p) PROVE Quiet
  BY <1>27, <1>a, QuietMoves DEF CleanupCheck, Labels, Unclaimed
<1>28. ASSUME CleanupUnlink(p) PROVE Quiet
  BY <1>28, <1>a, QuietMoves DEF CleanupUnlink, Labels, Unclaimed
<1>29. ASSUME CleanupRmdir(p) PROVE Quiet
  BY <1>29, <1>a, QuietMoves DEF CleanupRmdir, Labels, Unclaimed
<1>30. ASSUME CleanupUpdate(p) PROVE Quiet
  BY <1>30, <1>a, QuietMoves DEF CleanupUpdate, Labels, Unclaimed, UpdateJob, JobStates
<1>31. ASSUME Crash(p) PROVE Quiet
  BY <1>31, <1>a, QuietMoves DEF Crash, Labels, Unclaimed
<1> QED
  BY <1>1, <1>2, <1>3, <1>4, <1>5, <1>6, <1>7, <1>8, <1>9, <1>10, <1>11, <1>12, <1>13, <1>14,
     <1>15, <1>16, <1>17, <1>18, <1>19, <1>20, <1>21, <1>22, <1>23, <1>24, <1>25, <1>26, <1>27,
     <1>28, <1>29, <1>30, <1>31

(* The claim: only one process can find the row accepted. *)
LEMMA ClaimKeepsClaim ==
  ASSUME TypeOK, ClaimInv, NEW p \in Proc, ExecClaim(p)
  PROVE  ClaimInv'
<1> USE DEF TypeOK
<1>1. CASE job.state = "accepted"
  <2>1. Unclaimed /\ ran' = ran /\ ~Unclaimed'
    BY <1>1 DEF ExecClaim, Unclaimed
  <2>2. \A q \in Proc : ~Claimed(q) /\ (q # p => proc'[q] = proc[q])
    BY <1>1, <2>1 DEF ExecClaim, ClaimInv, Goto
  <2>3. proc'[p].pc = "ex_read"
    BY <1>1 DEF ExecClaim, Goto, Processes
  <2>4. (\A s \in Steps : ran[s] = 0)' /\ NoStepTwice'
    BY <2>1 DEF ClaimInv, NoStepTwice
  <2>5. \A q \in Proc : Claimed(q)' => q = p
    BY <2>2 DEF Claimed
  <2>6. \A q \in Proc : proc'[q].pc # "ex_step"
    BY <2>2, <2>3 DEF Claimed
  <2> QED
    BY <2>1, <2>4, <2>5, <2>6 DEF ClaimInv
<1>2. CASE job.state # "accepted"
  <2>1. ran' = ran /\ job' = job /\ Exit(p)
    BY <1>2 DEF ExecClaim
  <2> QED
    BY <2>1, QuietMoves, QuietKeepsClaim DEF Unclaimed
<1> QED
  BY <1>1, <1>2

(* The claimant starts at the first step. *)
LEMMA ReadKeepsClaim ==
  ASSUME TypeOK, ClaimInv, NEW p \in Proc, ExecRead(p)
  PROVE  ClaimInv'
<1> USE DEF TypeOK, rowVars
<1>1. ran' = ran /\ job' = job /\ Claimed(p) /\ \A s \in Steps : ran[s] = 0
  BY DEF ExecRead, ClaimInv, Claimed, At
<1>2. \A q \in Proc : q # p => proc'[q] = proc[q]
  BY DEF ExecRead
<1>3. proc'[p].pc = "ex_step"
  BY DEF ExecRead, Processes
<1>4. \A q \in Proc : Claimed(q)' => Claimed(q)
  BY <1>1, <1>2 DEF Claimed
<1> QED
  BY <1>1, <1>2, <1>3, <1>4 DEF ClaimInv, Unclaimed, NoStepTwice

(* Running or failing a step is the claimant's, and moves past that step.  *)
LEMMA RunKeepsClaim ==
  ASSUME TypeOK, ClaimInv, NEW p \in Proc, ExecStep(p) \/ ExecStepRaises(p)
  PROVE  ClaimInv'
<1> USE DEF TypeOK, rowVars
<1>1. /\ job' = job /\ Claimed(p) /\ ~Unclaimed
      /\ proc[p] \in Processes /\ proc[p].idx \in Steps
      /\ \A s \in Steps : s >= proc[p].idx => ran[s] = 0
  BY DEF ExecStep, ExecStepRaises, ClaimInv, Claimed, At, Processes
<1>2. \A q \in Proc : q # p => proc'[q] = proc[q] /\ ~Claimed(q) /\ ~Claimed(q)'
  BY <1>1 DEF ExecStep, ExecStepRaises, ClaimInv, Claimed, Goto
<1>3. proc'[p].pc # "ex_read"
  BY <1>1 DEF ExecStep, ExecStepRaises, Goto, Processes, At
<1>4. ran' = [ran EXCEPT ![proc[p].idx] = @ + 1] \/ ran' = ran
  BY DEF ExecStep, ExecStepRaises, Effect
<1>5. \A s \in Steps : ran'[s] <= 1
  <2>1. \A s \in Steps : ran[s] \in Nat /\ ran[s] <= 1
    BY DEF ClaimInv, NoStepTwice
  <2>2. ran[proc[p].idx] = 0
    BY <1>1, NumStepsAssumption DEF Steps
  <2> QED
    BY <1>1, <1>4, <2>1, <2>2
<1>6. proc'[p].pc = "ex_step" =>
        ran' = [ran EXCEPT ![proc[p].idx] = @ + 1] /\ proc'[p].idx = proc[p].idx + 1
  BY <1>1 DEF ExecStep, ExecStepRaises, Effect, Goto, Processes, At
<1>7. proc'[p].pc = "ex_step" => \A s \in Steps : s >= proc'[p].idx => ran'[s] = 0
  BY <1>1, <1>6, NumStepsAssumption DEF Steps
<1>8. \A q \in Proc : proc'[q].pc \in {"ex_read", "ex_step"} => q = p
  BY <1>2 DEF Claimed
<1> QED
  BY <1>1, <1>2, <1>3, <1>5, <1>7, <1>8 DEF ClaimInv, Unclaimed, NoStepTwice

LEMMA StepClaim == TypeOK /\ ClaimInv /\ [Next]_vars => ClaimInv'
<1> SUFFICES ASSUME TypeOK, ClaimInv, [Next]_vars PROVE ClaimInv'
  OBVIOUS
<1>1. ASSUME NEW p \in Proc, Advance(p) PROVE ClaimInv'
  BY <1>1, OthersQuiet, QuietKeepsClaim, ClaimKeepsClaim, ReadKeepsClaim, RunKeepsClaim DEF Advance
<1>2. ASSUME NEW p \in Proc, ExecStart(p) \/ Crash(p) PROVE ClaimInv'
  BY <1>2, OthersQuiet, QuietKeepsClaim
<1>3. ASSUME NEW c \in Client, Request(c) PROVE ClaimInv'
  BY <1>3, OthersQuiet, QuietKeepsClaim DEF Request, Proc
<1>4. CASE UNCHANGED vars
  BY <1>4 DEF vars, rowVars, ClaimInv, Claimed, Unclaimed, NoStepTwice
<1>5. CASE ExpireResponse \/ ExpireReceipt
  BY <1>5 DEF ExpireResponse, ExpireReceipt, rowVars, ClaimInv, Claimed, Unclaimed, NoStepTwice
<1> QED
  BY <1>1, <1>2, <1>3, <1>4, <1>5 DEF Next

(* No step of the plan takes effect twice: the conditional UPDATE of       *)
(* execute (ssh_jobs.py:204-208) lets one process in, once.                *)
THEOREM StepsRunOnce == Spec => []NoStepTwice
<1>1. Spec => []TypeOK
  BY TypeCorrect
<1>2. ClaimInv => NoStepTwice
  BY DEF ClaimInv
<1> QED
  BY <1>1, <1>2, InitClaim, StepClaim, PTL DEF Spec
------------------------------------------------------------------------------
(* The answer.  The properties about it hold together or not at all: what  *)
(* the row, the ledger and the receipt say follows from what the processes *)
(* carry, and what they carry stays true because an answer, once in Redis, *)
(* is never written over with another one.                                 *)
Result == [content |-> "result", failure |-> "none"]

(* What the shared state says, whoever is working. *)
BindingInv ==
  /\ call # "none" => claim # "none"
  /\ call = "plan" => claim = "ready"
  /\ queued \/ job.state # "absent" => call # "none"
  /\ call = "failure" => job.state \notin {"accepted", "running"} /\ \A s \in Steps : ran[s] = 0

AnswerInv ==
  /\ call = "none" => resp = NoResponse
  /\ call = "failure" => resp \in {NoResponse, Failure("prep")}
  /\ call = "plan" => resp \in {NoResponse, Failure("exec"), Result}
  /\ call = "plan" /\ Unclaimed => resp = NoResponse
  /\ resp = Result => \A s \in Steps : ran[s] = 1

(* What was derived from the answer.                                       *)
CopiesInv ==
  /\ facts # {} => resp # NoResponse
  /\ receipt \in {NoResponse, resp} /\ job.sha \in {NoResponse, resp}
  /\ job.state \in Settled => /\ facts = {"response", "export"}
                              /\ resp # NoResponse /\ job.sha = resp /\ receipt = resp
  /\ dir = "gone" => job.state \in Settled

(* Only a result expires, and only a receipt that was written.             *)
ExpiryInv ==
  /\ "response" \in expired => resp = Result
  /\ "receipt" \in expired => receipt # NoResponse

StoreInv == BindingInv /\ AnswerInv /\ CopiesInv /\ ExpiryInv

(* What a process may rely on at the statement it is about to execute.     *)
Knows(p) ==
  LET pc == proc[p].pc
  IN  /\ pc \in {"enq_claim", "enq_publish"} => proc[p].input # "none"
      /\ pc = "enq_publish" => proc[p].input = claim
      /\ pc \in {"enq_hset", "enq_ledger"} => call = "failure"
      /\ pc \in {"enq_done", "insert"} => call # "none"
      /\ pc = "enq_ledger" => resp = Failure("prep")
      /\ Claimed(p) => call = "plan"
      /\ Claimed(p) /\ pc # "ex_ledger" => resp = NoResponse
      /\ pc = "ex_ledger" => resp = Failure("exec")
      /\ pc = "ex_step" => \A s \in Steps : s < proc[p].idx => ran[s] = 1
      /\ pc = "ex_persist" => \A s \in Steps : ran[s] = 1
      /\ pc \in {"cr_file", "cr_receipt", "cr_txn"} => proc[p].got = resp /\ resp # NoResponse
      /\ pc = "cr_txn" => receipt = resp
      /\ pc \in {"cl_check", "cl_unlink", "cl_rmdir", "cl_update"} => job.state \in Settled

IInv == StoreInv /\ \A p \in Proc : Knows(p)

LEMMA InitAnswer == Init => IInv
BY DEF Init, IInv, StoreInv, BindingInv, AnswerInv, CopiesInv, ExpiryInv, Knows, Claimed, Unclaimed, Idle,
       Settled, NoResponse, Result

(* At these statements a process relies on nothing it has read.            *)
Careless == {"idle", "sub_resp", "prepare", "reread", "la_read", "la_show", "la_run",
             "ex_start", "ex_resp", "ex_claim", "cr_read"}

LEMMA CarelessKnows == ASSUME NEW p \in Proc, proc[p].pc \in Careless PROVE Knows(p)
BY DEF Careless, Knows, Claimed

LEMMA CarelessKnowsNext == ASSUME NEW p \in Proc, (proc[p].pc \in Careless)' PROVE Knows(p)'
BY DEF Careless, Knows, Claimed

(* Only p moves. *)
Alone(p) == \A q \in Proc : q # p => proc'[q] = proc[q]

(* Nothing that outlives a process changes; the file is derived from got.  *)
Still == UNCHANGED <<job, claim, queued, facts, call, resp, receipt, expired, dir, ran>>

(* What a step of p does to the shared state leaves the others right: set  *)
(* once, the binding, the content, the answer and the receipt stay, and    *)
(* nobody runs a step or answers beside a process that has claimed.        *)
Respects(p) ==
  /\ claim # "none" => claim' = claim
  /\ call # "none" => call' = call
  /\ resp # NoResponse => resp' = resp
  /\ receipt # NoResponse => receipt' = receipt
  /\ job.state \in Settled => job'.state \in Settled
  /\ \A q \in Proc : q # p /\ Claimed(q) => ran' = ran /\ resp' = resp

LEMMA StillRespects == ASSUME NEW p \in Proc, Still PROVE Respects(p)
BY DEF Still, Respects

LEMMA StillStore == StoreInv /\ Still => StoreInv'
BY DEF Still, StoreInv, BindingInv, AnswerInv, CopiesInv, ExpiryInv, Unclaimed

LEMMA OthersKnow ==
  ASSUME NEW p \in Proc, NEW q \in Proc, q # p, Knows(q), Respects(p), proc'[q] = proc[q]
  PROVE  Knows(q)'
<1>1. CASE Claimed(q)
  <2>1. ran' = ran /\ resp' = resp /\ Claimed(q)' /\ (call = "plan" => call' = "plan")
    BY <1>1 DEF Respects, Claimed
  <2> QED
    BY <1>1, <2>1 DEF Knows, Claimed
<1>2. CASE ~Claimed(q)
  <2>1. /\ claim # "none" => claim' = claim
        /\ call # "none" => call' = call
        /\ resp # NoResponse => resp' = resp
        /\ receipt # NoResponse => receipt' = receipt
        /\ job.state \in Settled => job'.state \in Settled
    BY DEF Respects
  <2>2. Failure("prep") # NoResponse
    BY DEF Failure, NoResponse
  <2> QED
    BY <1>2, <2>1, <2>2 DEF Knows, Claimed
<1> QED
  BY <1>1, <1>2

LEMMA Kept ==
  ASSUME IInv, NEW p \in Proc, StoreInv', Respects(p), Alone(p), Knows(p)'
  PROVE  IInv'
BY OthersKnow DEF IInv, Alone

LEMMA StillKept ==
  ASSUME IInv, NEW p \in Proc, Still, Alone(p), Knows(p)'
  PROVE  IInv'
BY Kept, StillRespects, StillStore DEF IInv

(* The moves that actions are made of, pointwise.                          *)
Moves(p, l) ==
  /\ Alone(p) /\ proc'[p].pc = l
  /\ proc'[p].input = proc[p].input /\ proc'[p].got = proc[p].got /\ proc'[p].idx = proc[p].idx
Ends(p) == Alone(p) /\ proc'[p].pc = "idle"

LEMMA MovesTo ==
  ASSUME proc \in [Proc -> Processes], NEW p \in Proc
  PROVE  /\ \A l : Goto(p, l) => Moves(p, l)
         /\ Exit(p) => Ends(p)
         /\ \A row : Complete(p, row) => Alone(p) /\ proc'[p].pc \in {"idle", "cr_read"}
<1>1. ASSUME NEW l, Goto(p, l) PROVE Moves(p, l)
  BY <1>1 DEF Goto, Moves, Alone, Processes
<1>2. ASSUME Exit(p) PROVE Ends(p)
  BY <1>2 DEF Exit, Ends, Alone, Idle
<1>3. ASSUME NEW row, Complete(p, row) PROVE Alone(p) /\ proc'[p].pc \in {"idle", "cr_read"}
  BY <1>1, <1>2, <1>3 DEF Complete, Moves, Ends
<1> QED
  BY <1>1, <1>2, <1>3

LEMMA EndsKept ==
  ASSUME IInv, NEW p \in Proc, Still, Ends(p)
  PROVE  IInv'
<1>1. proc'[p].pc \in Careless
  BY DEF Ends, Careless
<1> QED
  BY <1>1, CarelessKnowsNext, StillKept DEF Ends

(* The actions that only read, and decide what the process does next. *)
LEMMA ReadersKeep ==
  ASSUME TypeOK, IInv, NEW p \in Proc,
         \/ SubmitNew(p) \/ SubmitAgain(p) \/ SubmitResp(p) \/ Prepare(p) \/ EnqBadPlan(p)
         \/ Reread(p) \/ LaunchRead(p) \/ LaunchShow(p) \/ ExecStart(p) \/ ExecResp(p)
         \/ CompleteRead(p) \/ CleanupCheck(p) \/ Crash(p)
         \/ \E checksum \in Responses : CleanupStart(p, checksum)
  PROVE  IInv'
<1> USE DEF TypeOK
<1>a. proc \in [Proc -> Processes] /\ proc[p] \in Processes
  OBVIOUS
<1>b. ASSUME Still, Alone(p), proc'[p].pc \in Careless PROVE IInv'
  BY <1>b, CarelessKnowsNext, StillKept
<1>1. ASSUME SubmitNew(p) PROVE IInv'
  <2>1. Still /\ Moves(p, "prepare")
    BY <1>1, <1>a, MovesTo DEF SubmitNew, Still, rowVars, redisVars, diskVars
  <2> QED
    BY <1>b, <2>1 DEF Moves, Careless
<1>2. ASSUME SubmitAgain(p) PROVE IInv'
  <2>1. Still /\ Alone(p) /\ proc'[p].pc = "sub_resp"
    BY <1>2, <1>a DEF SubmitAgain, Still, rowVars, redisVars, diskVars, Alone, Processes
  <2> QED
    BY <1>b, <2>1 DEF Careless
<1>3. ASSUME SubmitResp(p) PROVE IInv'
  <2>1. Still /\ Alone(p) /\ proc'[p].pc \in {"idle", "cr_read", "la_read"}
    BY <1>3, <1>a, MovesTo DEF SubmitResp, Still, rowVars, redisVars, diskVars, Moves
  <2> QED
    BY <1>b, <2>1 DEF Careless
<1>4. ASSUME Prepare(p) PROVE IInv'
  <2>1. Still
    BY <1>4 DEF Prepare, Still, rowVars, redisVars, diskVars
  <2>2. CASE Exit(p)
    BY <2>1, <2>2, <1>a, MovesTo, EndsKept
  <2>3. ASSUME NEW k \in Outcomes,
               proc' = [proc EXCEPT ![p] = [@ EXCEPT !.pc = "enq_claim", !.input = k]]
        PROVE  IInv'
    <3>1. Alone(p) /\ proc'[p].pc = "enq_claim" /\ proc'[p].input # "none"
      BY <2>3, <1>a, OutcomesAssumption DEF Alone, Processes, InputKinds
    <3>2. Knows(p)'
      BY <3>1 DEF Knows, Claimed
    <3> QED
      BY <2>1, <3>1, <3>2, StillKept
  <2> QED
    BY <1>4, <2>2, <2>3 DEF Prepare
<1>5. ASSUME EnqBadPlan(p) PROVE IInv'
  BY <1>5, <1>a, MovesTo, EndsKept DEF EnqBadPlan, Still, rowVars, redisVars, diskVars
<1>6. ASSUME Reread(p) PROVE IInv'
  <2>1. Still /\ Alone(p) /\ proc'[p].pc \in {"idle", "cr_read"}
    <3>1. CASE Exit(p)
      BY <1>6, <1>a, <3>1, MovesTo DEF Reread, Still, rowVars, redisVars, diskVars, Ends
    <3>2. CASE proc' = [proc EXCEPT ![p] = [@ EXCEPT !.pc = "cr_read", !.seen = job.state]]
      BY <1>6, <1>a, <3>2 DEF Reread, Still, rowVars, redisVars, diskVars, Alone, Processes
    <3> QED
      BY <1>6, <3>1, <3>2 DEF Reread
  <2> QED
    BY <1>b, <2>1 DEF Careless
<1>7. ASSUME LaunchRead(p) PROVE IInv'
  <2>1. Still /\ Alone(p) /\ proc'[p].pc \in {"idle", "la_show"}
    BY <1>7, <1>a, MovesTo DEF LaunchRead, Still, rowVars, redisVars, diskVars, Ends, Moves
  <2> QED
    BY <1>b, <2>1 DEF Careless
<1>8. ASSUME LaunchShow(p) PROVE IInv'
  <2>1. Still /\ Alone(p) /\ proc'[p].pc \in {"idle", "la_run"}
    BY <1>8, <1>a, MovesTo DEF LaunchShow, Still, rowVars, redisVars, diskVars, Ends, Moves
  <2> QED
    BY <1>b, <2>1 DEF Careless
<1>9. ASSUME ExecStart(p) PROVE IInv'
  <2>1. Still /\ Alone(p) /\ proc'[p].pc \in {"idle", "ex_resp"}
    <3>1. CASE Exit(p)
      BY <1>9, <1>a, <3>1, MovesTo DEF ExecStart, Still, rowVars, redisVars, diskVars, Ends
    <3>2. CASE proc' = [proc EXCEPT ![p] = [@ EXCEPT !.pc = "ex_resp", !.seen = job.state]]
      BY <1>9, <1>a, <3>2 DEF ExecStart, Still, rowVars, redisVars, diskVars, Alone, Processes
    <3> QED
      BY <1>9, <3>1, <3>2 DEF ExecStart
  <2> QED
    BY <1>b, <2>1 DEF Careless
<1>10. ASSUME ExecResp(p) PROVE IInv'
  <2>1. Still /\ Alone(p) /\ proc'[p].pc \in {"idle", "cr_read", "ex_claim"}
    BY <1>10, <1>a, MovesTo DEF ExecResp, Still, rowVars, redisVars, diskVars, Moves
  <2> QED
    BY <1>b, <2>1 DEF Careless
<1>11. ASSUME CompleteRead(p) PROVE IInv'
  <2>1. Still
    BY <1>11 DEF CompleteRead, Still, rowVars, redisVars, diskVars
  <2>2. CASE Answer.content = "none"
    BY <1>11, <2>1, <2>2, <1>a, MovesTo, EndsKept DEF CompleteRead
  <2>3. CASE Answer.content # "none"
    <3>a. Answer = resp /\ resp # NoResponse
      BY <2>3 DEF Answer, NoResponse
    <3>1. Alone(p) /\ proc'[p].pc = "cr_file" /\ proc'[p].got = resp
      BY <1>11, <2>3, <1>a, <3>a DEF CompleteRead, Alone, Processes
    <3>2. resp' = resp /\ resp # NoResponse
      BY <2>1, <3>a DEF Still
    <3>3. Knows(p)'
      BY <3>1, <3>2 DEF Knows, Claimed
    <3> QED
      BY <2>1, <3>1, <3>3, StillKept
  <2> QED
    BY <2>2, <2>3
<1>12. ASSUME CleanupCheck(p) PROVE IInv'
  <2>1. Still /\ At(p, "cl_check") /\ job.state \in Settled /\ job'.state \in Settled
    BY <1>12 DEF CleanupCheck, Still, rowVars, redisVars, diskVars, IInv, Knows, At
  <2>2. Alone(p) /\ proc'[p].pc \in {"idle", "cl_update", "cl_unlink"}
    BY <1>12, <1>a, MovesTo DEF CleanupCheck, Ends, Moves
  <2>3. Knows(p)'
    BY <2>1, <2>2 DEF Knows, Claimed
  <2> QED
    BY <2>1, <2>2, <2>3, StillKept
<1>13. ASSUME Crash(p) PROVE IInv'
  BY <1>13, <1>a, MovesTo, EndsKept DEF Crash, Still, rowVars, redisVars, diskVars
<1>14. ASSUME NEW checksum \in Responses, CleanupStart(p, checksum) PROVE IInv'
  <2>1. Still /\ job'.state \in Settled
    BY <1>14 DEF CleanupStart, Still, rowVars, redisVars, diskVars, Settled
  <2>2. Alone(p) /\ proc'[p].pc = "cl_check"
    BY <1>14, <1>a DEF CleanupStart, Alone, Processes
  <2>3. Knows(p)'
    BY <2>1, <2>2 DEF Knows, Claimed
  <2> QED
    BY <2>1, <2>2, <2>3, StillKept
<1> QED
  BY <1>1, <1>2, <1>3, <1>4, <1>5, <1>6, <1>7, <1>8, <1>9, <1>10, <1>11, <1>12, <1>13, <1>14

(* launch moves two processes: itself and the unit it starts. *)
LEMMA LaunchKeeps ==
  ASSUME TypeOK, IInv, NEW p \in Proc, LaunchRun(p)
  PROVE  IInv'
<1>a. proc \in [Proc -> Processes] /\ Unit \in Proc /\ Still
  BY DEF TypeOK, Proc, LaunchRun, Still, rowVars, redisVars, diskVars
<1>1. CASE Exit(p)
  BY <1>1, <1>a, MovesTo, EndsKept
<1>2. CASE proc' = [proc EXCEPT ![p] = Idle, ![Unit].pc = "ex_start"]
  <2>1. \A q \in Proc : proc'[q].pc \in Careless \/ (q # p /\ proc'[q] = proc[q])
    BY <1>2, <1>a DEF Idle, Processes, Careless
  <2>2. \A q \in Proc : Knows(q)'
    BY <2>1, <1>a, CarelessKnowsNext, OthersKnow, StillRespects DEF IInv
  <2> QED
    BY <2>2, <1>a, StillStore DEF IInv
<1> QED
  BY <1>1, <1>2 DEF LaunchRun

(* The writers of enqueue_record. *)
LEMMA EnqClaimKeeps ==
  ASSUME TypeOK, IInv, NEW p \in Proc, EnqClaim(p)
  PROVE  IInv'
<1> USE DEF TypeOK
<1>a. /\ proc \in [Proc -> Processes] /\ proc[p].input # "none"
      /\ UNCHANGED <<job, queued, facts, call, resp, receipt, expired, dir, ran>>
  BY DEF EnqClaim, redisVars, diskVars, IInv, Knows, At
<1>1. claim = "none" => call = "none"
  BY DEF IInv, StoreInv, BindingInv
<1>2. /\ claim' \in {claim, proc[p].input} /\ (claim # "none" => claim' = claim)
      /\ (Alone(p) /\ proc'[p].input = proc[p].input) \/ Ends(p)
      /\ proc'[p].pc \in {"idle", "enq_publish"} \/ (proc'[p].pc = "insert" /\ queued)
      /\ proc'[p].pc = "enq_publish" => claim' = proc[p].input
  BY <1>a, MovesTo DEF EnqClaim, Moves, Ends
<1>3. StoreInv' /\ Respects(p)
  BY <1>a, <1>1, <1>2 DEF IInv, StoreInv, BindingInv, AnswerInv, CopiesInv, ExpiryInv, Unclaimed, Respects
<1>4. Knows(p)'
  <2>1. queued => call' # "none"
    BY <1>a DEF IInv, StoreInv, BindingInv
  <2> QED
    BY <1>a, <1>2, <2>1 DEF Knows, Claimed, Ends
<1> QED
  BY <1>2, <1>3, <1>4, Kept DEF Ends

LEMMA EnqPublishKeeps ==
  ASSUME TypeOK, ClaimInv, IInv, NEW p \in Proc, EnqPublish(p)
  PROVE  IInv'
<1> USE DEF TypeOK
<1>a. /\ proc \in [Proc -> Processes] /\ claim = proc[p].input /\ claim # "none"
      /\ UNCHANGED <<job, claim, queued, facts, resp, receipt, expired, dir, ran>>
  BY DEF EnqPublish, rowVars, diskVars, IInv, Knows, At
<1>1. /\ call # "none" => call' = call
      /\ call = "none" => call' = "failure" \/ (call' = "plan" /\ claim = "ready")
  BY <1>a DEF EnqPublish, InputKinds
<1>2. Alone(p) /\ proc'[p].pc = IF call' = "failure" THEN "enq_hset" ELSE "enq_done"
  BY <1>a, MovesTo DEF EnqPublish, Moves
<1>3. call = "none" => job.state = "absent" /\ \A s \in Steps : ran[s] = 0
  BY DEF IInv, StoreInv, BindingInv, ClaimInv, Unclaimed
<1>4. StoreInv'
  <2>1. BindingInv'
    BY <1>a, <1>1, <1>3 DEF IInv, StoreInv, BindingInv
  <2>2. AnswerInv' /\ CopiesInv' /\ ExpiryInv'
    BY <1>a, <1>1 DEF IInv, StoreInv, AnswerInv, CopiesInv, ExpiryInv, Unclaimed
  <2> QED
    BY <2>1, <2>2 DEF StoreInv
<1>5. Respects(p)
  BY <1>a, <1>1 DEF Respects
<1>6. Knows(p)'
  BY <1>1, <1>2 DEF Knows, Claimed
<1> QED
  BY <1>2, <1>4, <1>5, <1>6, Kept

LEMMA EnqHsetKeeps ==
  ASSUME TypeOK, IInv, NEW p \in Proc, EnqHset(p)
  PROVE  IInv'
<1> USE DEF TypeOK
<1>a. /\ proc \in [Proc -> Processes] /\ call = "failure"
      /\ UNCHANGED <<job, claim, queued, facts, call, receipt, dir, ran>>
      /\ resp' = Failure("prep") /\ expired' = expired \ {"response"}
  BY DEF EnqHset, HsetResponse, rowVars, diskVars, IInv, Knows, At
<1>1. resp \in {NoResponse, Failure("prep")} /\ Failure("prep") \notin {NoResponse, Result}
  BY <1>a DEF IInv, StoreInv, AnswerInv, Failure, NoResponse, Result
<1>2. Alone(p) /\ proc'[p].pc = "enq_ledger"
  BY <1>a, MovesTo DEF EnqHset, Moves
<1>3. StoreInv'
  BY <1>a, <1>1 DEF IInv, StoreInv, BindingInv, AnswerInv, CopiesInv, ExpiryInv, Unclaimed
<1>4. Respects(p)
  BY <1>a, <1>1 DEF Respects, IInv, Knows
<1>5. Knows(p)'
  BY <1>a, <1>2 DEF Knows, Claimed
<1> QED
  BY <1>2, <1>3, <1>4, <1>5, Kept

LEMMA EnqLedgerKeeps ==
  ASSUME TypeOK, IInv, NEW p \in Proc, EnqLedger(p)
  PROVE  IInv'
<1> USE DEF TypeOK
<1>a. /\ proc \in [Proc -> Processes] /\ call = "failure" /\ resp = Failure("prep")
      /\ UNCHANGED <<job, claim, queued, call, resp, receipt, expired, dir, ran>>
      /\ facts' = facts \union {"response"}
  BY DEF EnqLedger, redisVars, diskVars, IInv, Knows, At
<1>1. Failure("prep") # NoResponse
  BY DEF Failure, NoResponse
<1>2. Alone(p) /\ proc'[p].pc = "enq_done"
  BY <1>a, MovesTo DEF EnqLedger, Moves
<1>3. StoreInv'
  BY <1>a, <1>1 DEF IInv, StoreInv, BindingInv, AnswerInv, CopiesInv, ExpiryInv, Unclaimed
<1>4. Respects(p) /\ Knows(p)'
  BY <1>a, <1>2 DEF Respects, Knows, Claimed
<1> QED
  BY <1>2, <1>3, <1>4, Kept

LEMMA EnqDoneKeeps ==
  ASSUME TypeOK, IInv, NEW p \in Proc, EnqDone(p)
  PROVE  IInv'
<1> USE DEF TypeOK
<1>a. /\ proc \in [Proc -> Processes] /\ call # "none" /\ queued' = TRUE
      /\ UNCHANGED <<job, claim, facts, call, resp, receipt, expired, dir, ran>>
  BY DEF EnqDone, redisVars, diskVars, IInv, Knows, At
<1>1. Alone(p) /\ proc'[p].pc = "insert"
  BY <1>a, MovesTo DEF EnqDone, Moves
<1>2. StoreInv'
  BY <1>a DEF IInv, StoreInv, BindingInv, AnswerInv, CopiesInv, ExpiryInv, Unclaimed
<1>3. Respects(p) /\ Knows(p)'
  BY <1>a, <1>1 DEF Respects, Knows, Claimed
<1> QED
  BY <1>1, <1>2, <1>3, Kept

LEMMA InsertKeeps ==
  ASSUME TypeOK, IInv, NEW p \in Proc, Insert(p)
  PROVE  IInv'
<1> USE DEF TypeOK
<1>a. /\ proc \in [Proc -> Processes] /\ call # "none"
      /\ UNCHANGED <<claim, queued, facts, call, resp, receipt, expired, dir, ran>>
  BY DEF Insert, redisVars, diskVars, IInv, Knows, At
<1>1. Alone(p) /\ proc'[p].pc \in {"reread", "la_read"}
  BY <1>a, MovesTo DEF Insert, Moves
<1>2. CASE job' = job
  <2>1. Still
    BY <1>a, <1>2 DEF Still
  <2> QED
    BY <1>1, <2>1, StillKept, CarelessKnowsNext DEF Careless
<1>3. CASE job' # job
  <2>1. /\ job.state = "absent" /\ job'.sha = job.sha
        /\ job'.state = IF call = "failure" THEN "failed" ELSE "accepted"
    BY <1>3 DEF Insert
  <2>2. BindingInv' /\ AnswerInv' /\ CopiesInv' /\ ExpiryInv'
    BY <1>a, <2>1 DEF IInv, StoreInv, BindingInv, AnswerInv, CopiesInv, ExpiryInv, Unclaimed, Settled
  <2>3. Respects(p)
    BY <1>a, <2>1 DEF Respects, Settled
  <2> QED
    BY <1>1, <2>2, <2>3, Kept, CarelessKnowsNext DEF Careless, StoreInv
<1> QED
  BY <1>2, <1>3

(* The writers of execute. *)
LEMMA ExecClaimKeeps ==
  ASSUME TypeOK, IInv, NEW p \in Proc, ExecClaim(p)
  PROVE  IInv'
<1> USE DEF TypeOK
<1>a. /\ proc \in [Proc -> Processes]
      /\ UNCHANGED <<claim, queued, facts, call, resp, receipt, expired, dir, ran>>
  BY DEF ExecClaim, redisVars, diskVars
<1>1. CASE job.state = "accepted"
  <2>1. job'.state = "running" /\ job'.sha = job.sha /\ Alone(p) /\ proc'[p].pc = "ex_read"
    BY <1>1, <1>a, MovesTo DEF ExecClaim, Moves
  <2>2. call = "plan" /\ resp = NoResponse
    BY <1>1 DEF IInv, StoreInv, BindingInv, AnswerInv, Unclaimed
  <2>3. StoreInv'
    BY <1>1, <1>a, <2>1, <2>2
    DEF IInv, StoreInv, BindingInv, AnswerInv, CopiesInv, ExpiryInv, Unclaimed, Settled
  <2>4. Respects(p) /\ Knows(p)'
    BY <1>1, <1>a, <2>1, <2>2 DEF Respects, Knows, Claimed, Settled
  <2> QED
    BY <2>1, <2>3, <2>4, Kept
<1>2. CASE job.state # "accepted"
  BY <1>2, <1>a, MovesTo, EndsKept DEF ExecClaim, Still
<1> QED
  BY <1>1, <1>2

LEMMA ExecReadKeeps ==
  ASSUME TypeOK, IInv, NEW p \in Proc, ExecRead(p)
  PROVE  IInv'
<1> USE DEF TypeOK
<1>1. Still /\ Claimed(p) /\ call = "plan" /\ resp = NoResponse
  BY DEF ExecRead, Still, rowVars, redisVars, diskVars, At, Claimed, IInv, Knows
<1>2. Alone(p) /\ proc'[p].pc = "ex_step" /\ proc'[p].idx = 1
  BY DEF ExecRead, Alone, Processes
<1>3. \A s \in Steps : ~(s < 1)
  BY NumStepsAssumption DEF Steps
<1>4. Knows(p)'
  BY <1>1, <1>2, <1>3 DEF Knows, Claimed, Still
<1> QED
  BY <1>1, <1>2, <1>4, StillKept

LEMMA RunKeeps ==
  ASSUME TypeOK, ClaimInv, IInv, NEW p \in Proc, ExecStep(p) \/ ExecStepRaises(p)
  PROVE  IInv'
<1> USE DEF TypeOK
<1>a. /\ proc \in [Proc -> Processes] /\ proc[p].idx \in Steps
      /\ Claimed(p) /\ call = "plan" /\ resp = NoResponse
      /\ \A s \in Steps : s < proc[p].idx => ran[s] = 1
      /\ ran[proc[p].idx] = 0
      /\ UNCHANGED <<job, claim, queued, facts, call, resp, receipt, expired, dir>>
  <2>1. proc[p].pc = "ex_step" /\ proc[p].idx \in Steps
    BY DEF ExecStep, ExecStepRaises, At, Processes
  <2>2. ran[proc[p].idx] = 0
    BY <2>1, NumStepsAssumption DEF ClaimInv, Steps
  <2> QED
    BY <2>1, <2>2 DEF ExecStep, ExecStepRaises, rowVars, redisVars, diskVars, Claimed, IInv, Knows
<1>1. StoreInv'
  BY <1>a DEF IInv, StoreInv, BindingInv, AnswerInv, CopiesInv, ExpiryInv, Unclaimed, Result, NoResponse
<1>2. Respects(p)
  BY <1>a DEF Respects, ClaimInv
<1>3. CASE ExecStep(p)
  <2>1. ran' = [ran EXCEPT ![proc[p].idx] = ran[proc[p].idx] + 1]
    BY <1>3 DEF ExecStep, Effect
  <2>2. \A s \in Steps : s < proc[p].idx + 1 => ran'[s] = 1
    BY <1>a, <2>1, NumStepsAssumption DEF Steps
  <2>3. CASE proc[p].idx < NumSteps
    <3>1. Alone(p) /\ proc'[p].pc = "ex_step" /\ proc'[p].idx = proc[p].idx + 1
      BY <1>3, <2>3, <1>a DEF ExecStep, Alone, At, Processes
    <3>2. Knows(p)'
      BY <1>a, <2>2, <3>1 DEF Knows, Claimed
    <3> QED
      BY <1>1, <1>2, <3>1, <3>2, Kept
  <2>4. CASE ~(proc[p].idx < NumSteps)
    <3>1. Alone(p) /\ proc'[p].pc = "ex_persist"
      BY <1>3, <2>4, <1>a, MovesTo DEF ExecStep, Moves
    <3>2. \A s \in Steps : ran'[s] = 1
      BY <1>a, <2>2, <2>4, NumStepsAssumption DEF Steps
    <3>3. Knows(p)'
      BY <1>a, <3>1, <3>2 DEF Knows, Claimed
    <3> QED
      BY <1>1, <1>2, <3>1, <3>3, Kept
  <2> QED
    BY <2>3, <2>4
<1>4. CASE ExecStepRaises(p)
  <2>1. Alone(p) /\ proc'[p].pc = "ex_failed"
    BY <1>4, <1>a, MovesTo DEF ExecStepRaises, Moves
  <2>2. Knows(p)'
    BY <1>a, <2>1 DEF Knows, Claimed
  <2> QED
    BY <1>1, <1>2, <2>1, <2>2, Kept
<1> QED
  BY <1>3, <1>4

LEMMA ExecFailedKeeps ==
  ASSUME TypeOK, ClaimInv, IInv, NEW p \in Proc, ExecFailed(p)
  PROVE  IInv'
<1> USE DEF TypeOK
<1>a. /\ proc \in [Proc -> Processes] /\ Claimed(p) /\ call = "plan" /\ resp = NoResponse
      /\ UNCHANGED <<claim, queued, facts, call, resp, receipt, expired, dir, ran>>
  BY DEF ExecFailed, At, redisVars, diskVars, Claimed, IInv, Knows
<1>1. job.state \notin Settled /\ ~Unclaimed
  BY <1>a DEF IInv, StoreInv, CopiesInv, ClaimInv
<1>2. job'.state = "failed" /\ job'.sha = job.sha
  BY <1>1 DEF ExecFailed, UpdateJob, Unclaimed
<1>3. Alone(p) /\ proc'[p].pc = "ex_hset"
  BY <1>a, MovesTo DEF ExecFailed, Moves
<1>4. StoreInv'
  BY <1>a, <1>1, <1>2 DEF IInv, StoreInv, BindingInv, AnswerInv, CopiesInv, ExpiryInv, Unclaimed, Settled
<1>5. Respects(p) /\ Knows(p)'
  BY <1>a, <1>1, <1>3 DEF Respects, Knows, Claimed
<1> QED
  BY <1>3, <1>4, <1>5, Kept

(* The two answers of an execution: there was none, and nobody else can be *)
(* about to give one.                                                      *)
LEMMA FirstAnswer ==
  ASSUME TypeOK, ClaimInv, IInv, NEW p \in Proc, Claimed(p), resp = NoResponse,
         UNCHANGED <<job, claim, queued, facts, call, receipt, dir, ran>>,
         expired' = expired \ {"response"},
         resp' = Failure("exec") \/ (resp' = Result /\ \A s \in Steps : ran[s] = 1)
  PROVE  StoreInv' /\ Respects(p) /\ call = "plan"
<1>1. call = "plan" /\ ~Unclaimed
  BY DEF IInv, Knows, ClaimInv
<1>2. facts = {} /\ receipt = NoResponse /\ job.sha = NoResponse /\ job.state \notin Settled
  BY DEF IInv, StoreInv, CopiesInv
<1>3. StoreInv'
  BY <1>1, <1>2
  DEF IInv, StoreInv, BindingInv, AnswerInv, CopiesInv, ExpiryInv, Unclaimed, Failure, Result, NoResponse
<1>4. Respects(p)
  BY DEF Respects, ClaimInv
<1> QED
  BY <1>1, <1>3, <1>4

LEMMA ExecHsetKeeps ==
  ASSUME TypeOK, ClaimInv, IInv, NEW p \in Proc, ExecHset(p)
  PROVE  IInv'
<1>1. /\ proc \in [Proc -> Processes] /\ Claimed(p) /\ resp = NoResponse
      /\ UNCHANGED <<job, claim, queued, facts, call, receipt, dir, ran>>
      /\ resp' = Failure("exec") /\ expired' = expired \ {"response"}
  BY DEF TypeOK, ExecHset, HsetResponse, At, rowVars, diskVars, Claimed, IInv, Knows
<1>2. Alone(p) /\ proc'[p].pc = "ex_ledger"
  BY <1>1, MovesTo DEF ExecHset, Moves
<1>3. StoreInv' /\ Respects(p) /\ call = "plan"
  BY <1>1, FirstAnswer
<1>4. Knows(p)'
  BY <1>1, <1>2, <1>3 DEF Knows, Claimed
<1> QED
  BY <1>2, <1>3, <1>4, Kept

LEMMA ExecPersistKeeps ==
  ASSUME TypeOK, ClaimInv, IInv, NEW p \in Proc, ExecPersist(p)
  PROVE  IInv'
<1>1. /\ proc \in [Proc -> Processes] /\ Claimed(p) /\ resp = NoResponse
      /\ UNCHANGED <<job, claim, queued, facts, call, receipt, dir, ran>>
      /\ resp' = [Answer EXCEPT !.content = "result"] /\ expired' = expired \ {"response"}
      /\ \A s \in Steps : ran[s] = 1
  BY DEF TypeOK, ExecPersist, HsetResponse, At, rowVars, diskVars, Claimed, IInv, Knows
<1>2. resp' = Result
  BY <1>1 DEF Answer, NoResponse, Result
<1>3. Alone(p) /\ proc'[p].pc \in {"idle", "cr_read"}
  BY <1>1, MovesTo DEF ExecPersist
<1>4. StoreInv' /\ Respects(p)
  BY <1>1, <1>2, FirstAnswer
<1> QED
  BY <1>3, <1>4, Kept, CarelessKnowsNext DEF Careless

LEMMA ExecLedgerKeeps ==
  ASSUME TypeOK, IInv, NEW p \in Proc, ExecLedger(p)
  PROVE  IInv'
<1>a. /\ proc \in [Proc -> Processes] /\ resp = Failure("exec")
      /\ UNCHANGED <<job, claim, queued, call, resp, receipt, expired, dir, ran>>
      /\ facts' = facts \union {"response"}
  BY DEF TypeOK, ExecLedger, redisVars, diskVars, IInv, Knows, At
<1>1. Failure("exec") # NoResponse
  BY DEF Failure, NoResponse
<1>2. Alone(p) /\ proc'[p].pc = "reread"
  BY <1>a, MovesTo DEF ExecLedger, Moves
<1>3. StoreInv'
  BY <1>a, <1>1 DEF IInv, StoreInv, BindingInv, AnswerInv, CopiesInv, ExpiryInv, Unclaimed
<1>4. Respects(p)
  BY <1>a DEF Respects
<1> QED
  BY <1>2, <1>3, <1>4, Kept, CarelessKnowsNext DEF Careless

(* The writers of complete_response. *)
LEMMA CompleteFileKeeps ==
  ASSUME TypeOK, IInv, NEW p \in Proc, CompleteFile(p)
  PROVE  IInv'
<1>a. /\ proc \in [Proc -> Processes] /\ Still
      /\ proc[p].got = resp /\ resp # NoResponse
  BY DEF TypeOK, CompleteFile, rowVars, redisVars, Still, IInv, Knows, At
<1>1. CASE Exit(p)
  BY <1>1, <1>a, MovesTo, EndsKept
<1>2. CASE Goto(p, "cr_receipt")
  <2>1. Alone(p) /\ proc'[p].pc = "cr_receipt" /\ proc'[p].got = proc[p].got
    BY <1>2, <1>a, MovesTo DEF Moves
  <2>2. Knows(p)'
    BY <1>a, <2>1 DEF Knows, Claimed, Still
  <2> QED
    BY <1>a, <2>1, <2>2, StillKept
<1> QED
  BY <1>1, <1>2 DEF CompleteFile

LEMMA CompleteReceiptKeeps ==
  ASSUME TypeOK, IInv, NEW p \in Proc, CompleteReceipt(p)
  PROVE  IInv'
<1>a. /\ proc \in [Proc -> Processes]
      /\ UNCHANGED <<job, claim, queued, facts, call, resp, dir, ran>>
      /\ expired' = expired \ {"receipt"}
      /\ proc[p].got = resp /\ resp # NoResponse /\ receipt' = resp
  BY DEF TypeOK, CompleteReceipt, rowVars, diskVars, IInv, Knows, At
<1>1. Alone(p) /\ proc'[p].pc = "cr_txn" /\ proc'[p].got = proc[p].got
  BY <1>a, MovesTo DEF CompleteReceipt, Moves
<1>2. receipt \in {NoResponse, resp}
  BY DEF IInv, StoreInv, CopiesInv
<1>3. StoreInv'
  BY <1>a DEF IInv, StoreInv, BindingInv, AnswerInv, CopiesInv, ExpiryInv, Unclaimed
<1>4. Respects(p) /\ Knows(p)'
  BY <1>a, <1>1, <1>2 DEF Respects, Knows, Claimed
<1> QED
  BY <1>1, <1>3, <1>4, Kept

LEMMA CompleteTxnKeeps ==
  ASSUME TypeOK, IInv, NEW p \in Proc, CompleteTxn(p)
  PROVE  IInv'
<1>a. /\ proc \in [Proc -> Processes]
      /\ UNCHANGED <<claim, queued, call, resp, receipt, expired, dir, ran>>
      /\ proc[p].got = resp /\ resp # NoResponse /\ receipt = resp
      /\ facts' = {"response", "export"}
  BY DEF TypeOK, CompleteTxn, redisVars, diskVars, IInv, Knows, At
<1>1. Alone(p) /\ proc'[p].pc = "idle"
  BY <1>a, MovesTo DEF CompleteTxn, Ends
<1>2. \/ job.state = "absent" /\ job' = job
      \/ job.state # "absent" /\ job'.state = "completed" /\ job'.sha = resp
  BY <1>a DEF CompleteTxn, UpdateJob
<1>3. BindingInv' /\ AnswerInv' /\ CopiesInv' /\ ExpiryInv'
  BY <1>a, <1>2 DEF IInv, StoreInv, BindingInv, AnswerInv, CopiesInv, ExpiryInv, Unclaimed, Settled
<1>4. Respects(p)
  BY <1>a, <1>2 DEF Respects, Settled
<1> QED
  BY <1>1, <1>3, <1>4, Kept, CarelessKnowsNext DEF Careless, StoreInv

(* The writers of cleanup. *)
LEMMA CleanupKeeps ==
  ASSUME TypeOK, IInv, NEW p \in Proc,
         CleanupUnlink(p) \/ CleanupRmdir(p) \/ CleanupUpdate(p)
  PROVE  IInv'
<1>a. /\ proc \in [Proc -> Processes] /\ job.state \in Settled
      /\ UNCHANGED <<claim, queued, facts, call, resp, receipt, expired, ran>>
  BY DEF TypeOK, CleanupUnlink, CleanupRmdir, CleanupUpdate, rowVars, redisVars, IInv, Knows, At
<1>1. /\ job'.state \in Settled /\ job'.sha = job.sha
  <2>1. CASE CleanupUpdate(p)
    <3>1. job' = job \/ job' = [job EXCEPT !.state = "cleaned"]
      BY <2>1 DEF CleanupUpdate, UpdateJob
    <3> QED
      BY <1>a, <3>1 DEF TypeOK, Settled
  <2>2. CASE CleanupUnlink(p) \/ CleanupRmdir(p)
    BY <1>a, <2>2 DEF CleanupUnlink, CleanupRmdir, rowVars
  <2> QED
    BY <2>1, <2>2
<1>2. Alone(p) /\ proc'[p].pc \in {"idle", "cl_rmdir", "cl_update"}
  BY <1>a, MovesTo DEF CleanupUnlink, CleanupRmdir, CleanupUpdate, Moves, Ends
<1>3. BindingInv' /\ AnswerInv' /\ CopiesInv' /\ ExpiryInv'
  BY <1>a, <1>1 DEF IInv, StoreInv, BindingInv, AnswerInv, CopiesInv, ExpiryInv, Unclaimed, Settled
<1>4. Respects(p) /\ Knows(p)'
  BY <1>a, <1>1, <1>2 DEF Respects, Knows, Claimed
<1> QED
  BY <1>2, <1>3, <1>4, Kept DEF StoreInv

(* Expiry takes a result or a receipt out of sight, and changes neither.   *)
LEMMA ExpiryKeeps == TypeOK /\ IInv /\ (ExpireResponse \/ ExpireReceipt) => IInv'
<1> SUFFICES ASSUME TypeOK, IInv, ExpireResponse \/ ExpireReceipt PROVE IInv'
  OBVIOUS
<1>1. UNCHANGED <<job, claim, queued, facts, call, resp, receipt, dir, proc, ran>>
  BY DEF ExpireResponse, ExpireReceipt, rowVars, diskVars
<1>2. ExpireResponse => resp = Result
  BY DEF ExpireResponse, TypeOK, IInv, StoreInv, AnswerInv, Failure, NoResponse, Result
<1>3. ExpiryInv'
  BY <1>1, <1>2 DEF ExpireResponse, ExpireReceipt, IInv, StoreInv, ExpiryInv
<1>4. BindingInv' /\ AnswerInv' /\ CopiesInv'
  BY <1>1 DEF IInv, StoreInv, BindingInv, AnswerInv, CopiesInv, Unclaimed
<1>5. \A p \in Proc : Knows(p)'
  BY <1>1 DEF IInv, Knows, Claimed
<1> QED
  BY <1>3, <1>4, <1>5 DEF IInv, StoreInv

LEMMA StepAnswer == TypeOK /\ ClaimInv /\ IInv /\ [Next]_vars => IInv'
<1> SUFFICES ASSUME TypeOK, ClaimInv, IInv, [Next]_vars PROVE IInv'
  OBVIOUS
<1>1. ASSUME NEW p \in Proc, Advance(p) PROVE IInv'
  BY <1>1, ReadersKeep, LaunchKeeps, EnqClaimKeeps, EnqPublishKeeps, EnqHsetKeeps, EnqLedgerKeeps,
     EnqDoneKeeps, InsertKeeps, ExecClaimKeeps, ExecReadKeeps, RunKeeps, ExecFailedKeeps,
     ExecHsetKeeps, ExecLedgerKeeps, ExecPersistKeeps, CompleteFileKeeps, CompleteReceiptKeeps,
     CompleteTxnKeeps, CleanupKeeps
  DEF Advance
<1>2. ASSUME NEW p \in Proc, ExecStart(p) \/ Crash(p) PROVE IInv'
  BY <1>2, ReadersKeep
<1>3. ASSUME NEW c \in Client, Request(c) PROVE IInv'
  BY <1>3, ReadersKeep DEF Request, Proc
<1>4. CASE UNCHANGED vars
  BY <1>4 DEF vars, rowVars, redisVars, diskVars, IInv, StoreInv, BindingInv, AnswerInv, CopiesInv, ExpiryInv,
              Knows, Claimed, Unclaimed
<1> QED
  BY <1>1, <1>2, <1>3, <1>4, ExpiryKeeps DEF Next

(* Everything that holds in every state. *)
SshInv == TypeOK /\ ClaimInv /\ IInv

LEMMA Invariant == Spec => []SshInv
<1>1. Spec => []TypeOK
  BY TypeCorrect
<1>2. Init => ClaimInv /\ IInv
  BY InitClaim, InitAnswer
<1>3. TypeOK /\ ClaimInv /\ IInv /\ [Next]_vars => ClaimInv' /\ IInv'
  BY StepClaim, StepAnswer
<1> QED
  BY <1>1, <1>2, <1>3, PTL DEF Spec, SshInv

(* A settled job has its rows in the ledger and advertises the checksum of *)
(* the one answer that was ever given; Redis holds that answer and its     *)
(* receipt, or nothing once they have expired, and a failure for ever.     *)
THEOREM SettledBacked == Spec => []SettledIsBacked
<1>1. SshInv => SettledIsBacked
  <2> SUFFICES ASSUME SshInv, job.state \in Settled PROVE SettledIsBacked
    BY DEF SettledIsBacked
  <2>1. /\ facts = {"response", "export"} /\ resp # NoResponse
        /\ job.sha = resp /\ receipt = resp
    BY DEF SshInv, IInv, StoreInv, CopiesInv
  <2>2. resp \in {Failure("prep"), Failure("exec"), Result}
    BY <2>1 DEF SshInv, TypeOK, IInv, StoreInv, AnswerInv
  <2>3. resp.content # "none" /\ (resp.failure # "none" => resp # Result)
    BY <2>2 DEF Failure, Result
  <2>4. resp.failure # "none" => "response" \notin expired
    BY <2>3 DEF SshInv, IInv, StoreInv, ExpiryInv
  <2> QED
    BY <2>1, <2>3, <2>4 DEF SettledIsBacked, Answer, Receipt
<1> QED
  BY <1>1, Invariant, PTL

(* cleanup removes the package only after the answer has been exported.    *)
THEOREM CleanupLosesNothing == Spec => []NothingLostByCleanup
<1>1. SshInv => NothingLostByCleanup
  BY DEF SshInv, IInv, StoreInv, CopiesInv, Knows, At, NothingLostByCleanup
<1> QED
  BY <1>1, Invariant, PTL

(* The answer tells what happened. *)
THEOREM AnswersAreTruthful == Spec => []AnswerIsTruthful
<1>1. SshInv => AnswerIsTruthful
  <2> SUFFICES ASSUME SshInv PROVE AnswerIsTruthful
    OBVIOUS
  <2>1. CASE call = "none"
    BY <2>1 DEF SshInv, IInv, StoreInv, AnswerInv, AnswerIsTruthful, NoResponse
  <2>2. CASE call = "failure"
    BY <2>2 DEF SshInv, IInv, StoreInv, BindingInv, AnswerInv, AnswerIsTruthful, NoResponse, Failure
  <2>3. CASE call = "plan"
    BY <2>3 DEF SshInv, IInv, StoreInv, BindingInv, AnswerInv, AnswerIsTruthful, NoResponse,
       Failure, Result
  <2> QED
    BY <2>1, <2>2, <2>3 DEF SshInv, TypeOK
<1> QED
  BY <1>1, Invariant, PTL

(* Who writes what. *)
LEMMA Writers ==
  [Next]_vars =>
    /\ resp' = resp \/ \E p \in Proc : EnqHset(p) \/ ExecHset(p) \/ ExecPersist(p)
    /\ receipt' = receipt \/ \E p \in Proc : CompleteReceipt(p)
    /\ job' = job \/ \E p \in Proc : Insert(p) \/ ExecClaim(p) \/ ExecFailed(p)
                                     \/ CompleteTxn(p) \/ CleanupUpdate(p)
    /\ claim' = claim \/ \E p \in Proc : EnqClaim(p)
    /\ ran' = ran \/ \E p \in Proc : ExecStep(p) \/ ExecStepRaises(p)
    /\ facts' = facts \/ \E p \in Proc : EnqLedger(p) \/ ExecLedger(p) \/ CompleteTxn(p)
    /\ \/ expired' = expired \/ ExpireResponse \/ ExpireReceipt
       \/ \E p \in Proc : EnqHset(p) \/ ExecHset(p) \/ ExecPersist(p) \/ CompleteReceipt(p)
<1> DEFINE All == UNCHANGED <<resp, receipt, job, claim, ran, facts, expired>>
<1> SUFFICES ASSUME [Next]_vars, ~All
             PROVE  /\ resp' = resp \/ \E p \in Proc : EnqHset(p) \/ ExecHset(p) \/ ExecPersist(p)
                    /\ receipt' = receipt \/ \E p \in Proc : CompleteReceipt(p)
                    /\ job' = job \/ \E p \in Proc : Insert(p) \/ ExecClaim(p) \/ ExecFailed(p)
                                                     \/ CompleteTxn(p) \/ CleanupUpdate(p)
                    /\ claim' = claim \/ \E p \in Proc : EnqClaim(p)
                    /\ ran' = ran \/ \E p \in Proc : ExecStep(p) \/ ExecStepRaises(p)
                    /\ facts' = facts
                         \/ \E p \in Proc : EnqLedger(p) \/ ExecLedger(p) \/ CompleteTxn(p)
                    /\ \/ expired' = expired \/ ExpireResponse \/ ExpireReceipt
                       \/ \E p \in Proc : \/ EnqHset(p) \/ ExecHset(p)
                                           \/ ExecPersist(p) \/ CompleteReceipt(p)
  OBVIOUS
<1> USE DEF rowVars, redisVars
<1>e. CASE ExpireResponse \/ ExpireReceipt
  BY <1>e DEF ExpireResponse, ExpireReceipt
<1> SUFFICES ASSUME ~ExpireResponse, ~ExpireReceipt
             PROVE  /\ resp' = resp \/ \E p \in Proc : EnqHset(p) \/ ExecHset(p) \/ ExecPersist(p)
                    /\ receipt' = receipt \/ \E p \in Proc : CompleteReceipt(p)
                    /\ job' = job \/ \E p \in Proc : Insert(p) \/ ExecClaim(p) \/ ExecFailed(p)
                                                     \/ CompleteTxn(p) \/ CleanupUpdate(p)
                    /\ claim' = claim \/ \E p \in Proc : EnqClaim(p)
                    /\ ran' = ran \/ \E p \in Proc : ExecStep(p) \/ ExecStepRaises(p)
                    /\ facts' = facts
                         \/ \E p \in Proc : EnqLedger(p) \/ ExecLedger(p) \/ CompleteTxn(p)
                    /\ \/ expired' = expired
                       \/ \E p \in Proc : \/ EnqHset(p) \/ ExecHset(p)
                                           \/ ExecPersist(p) \/ CompleteReceipt(p)
  BY <1>e
<1>1. ASSUME NEW p \in Proc, SubmitNew(p) \/ SubmitAgain(p) \/ SubmitResp(p) \/ Prepare(p) \/ EnqBadPlan(p)
      PROVE  All
  BY <1>1 DEF SubmitNew, SubmitAgain, SubmitResp, Prepare, EnqBadPlan
<1>2. ASSUME NEW p \in Proc, EnqPublish(p) \/ EnqDone(p) \/ Reread(p) \/ LaunchRead(p)
                             \/ LaunchShow(p) \/ LaunchRun(p)
      PROVE  All
  BY <1>2 DEF EnqPublish, EnqDone, Reread, LaunchRead, LaunchShow, LaunchRun
<1>3. ASSUME NEW p \in Proc, ExecStart(p) \/ ExecResp(p) \/ ExecRead(p) \/ CompleteRead(p)
                             \/ CompleteFile(p) \/ Crash(p)
      PROVE  All
  BY <1>3 DEF ExecStart, ExecResp, ExecRead, CompleteRead, CompleteFile, Crash
<1>4. ASSUME NEW p \in Proc, (\E checksum \in Responses : CleanupStart(p, checksum))
                             \/ CleanupCheck(p) \/ CleanupUnlink(p) \/ CleanupRmdir(p)
      PROVE  All
  BY <1>4 DEF CleanupStart, CleanupCheck, CleanupUnlink, CleanupRmdir
<1>5. UNCHANGED vars => All
  BY DEF vars
<1>6. PICK p \in Proc :
        \/ EnqHset(p) \/ ExecHset(p) \/ ExecPersist(p) \/ CompleteReceipt(p)
        \/ Insert(p) \/ ExecClaim(p) \/ ExecFailed(p) \/ CompleteTxn(p) \/ CleanupUpdate(p)
        \/ EnqClaim(p) \/ ExecStep(p) \/ ExecStepRaises(p) \/ EnqLedger(p) \/ ExecLedger(p)
  <2> HIDE DEF All
  <2> QED
    BY <1>1, <1>2, <1>3, <1>4, <1>5 DEF Next, Advance, Request, Proc
<1>7. CASE EnqHset(p) \/ ExecHset(p) \/ ExecPersist(p)
  BY <1>7 DEF EnqHset, ExecHset, ExecPersist, HsetResponse
<1>8. CASE Insert(p) \/ ExecClaim(p) \/ ExecFailed(p) \/ CleanupUpdate(p)
  BY <1>8 DEF Insert, ExecClaim, ExecFailed, CleanupUpdate
<1>9. CASE CompleteReceipt(p) \/ EnqClaim(p) \/ ExecStep(p) \/ ExecStepRaises(p)
  BY <1>9 DEF CompleteReceipt, EnqClaim, ExecStep, ExecStepRaises
<1>10. CASE EnqLedger(p) \/ ExecLedger(p) \/ CompleteTxn(p)
  BY <1>10 DEF EnqLedger, ExecLedger, CompleteTxn
<1> QED
  BY <1>6, <1>7, <1>8, <1>9, <1>10

(* No step writes over an answer with another one, nor over a receipt or   *)
(* an advertised checksum.                                                 *)
LEMMA AnswerStays ==
  SshInv /\ [Next]_vars =>
    /\ resp # NoResponse => resp' = resp
    /\ receipt # NoResponse => receipt' = receipt
    /\ job.sha # NoResponse => job'.sha = job.sha
    /\ "response" \in expired => "response" \in expired'
<1> SUFFICES ASSUME SshInv, [Next]_vars
             PROVE  /\ resp # NoResponse => resp' = resp
                    /\ receipt # NoResponse => receipt' = receipt
                    /\ job.sha # NoResponse => job'.sha = job.sha
                    /\ "response" \in expired => "response" \in expired'
  OBVIOUS
<1>1. resp # NoResponse => resp' = resp
  <2>1. CASE UNCHANGED resp
    BY <2>1
  <2>2. ASSUME NEW p \in Proc, EnqHset(p) PROVE resp # NoResponse => resp' = resp
    BY <2>2 DEF EnqHset, HsetResponse, At, SshInv, IInv, StoreInv, AnswerInv, Knows
  <2>3. ASSUME NEW p \in Proc, ExecHset(p) \/ ExecPersist(p)
        PROVE  resp # NoResponse => resp' = resp
    BY <2>3 DEF ExecHset, ExecPersist, At, SshInv, IInv, Knows, Claimed
  <2> QED
    BY <2>1, <2>2, <2>3, Writers
<1>2. (receipt \in {NoResponse, resp} /\ job.sha \in {NoResponse, resp})
      /\ (receipt' \in {NoResponse, resp'} /\ job'.sha \in {NoResponse, resp'})
  <2>1. IInv /\ IInv'
    BY StepAnswer DEF SshInv
  <2> QED
    BY <2>1 DEF IInv, StoreInv, CopiesInv
<1>3. receipt' = receipt \/ \E p \in Proc : CompleteReceipt(p)
  BY Writers
<1>4. job'.sha = job.sha \/ \E p \in Proc : CompleteTxn(p)
  <2>1. job \in [state: JobStates, sha: Responses]
    BY DEF SshInv, TypeOK
  <2>2. CASE job' = job
    BY <2>2
  <2>3. ASSUME NEW p \in Proc,
               Insert(p) \/ ExecClaim(p) \/ ExecFailed(p) \/ CleanupUpdate(p)
        PROVE  job'.sha = job.sha
    BY <2>1, <2>3 DEF Insert, ExecClaim, ExecFailed, CleanupUpdate, UpdateJob
  <2> QED
    BY <2>2, <2>3, Writers
<1>5. receipt # NoResponse => receipt' # NoResponse
  BY <1>3 DEF CompleteReceipt, At, SshInv, IInv, Knows
<1>6. job.sha # NoResponse => job'.sha # NoResponse
  BY <1>4 DEF CompleteTxn, UpdateJob, At, SshInv, IInv, Knows
<1>7. ASSUME "response" \in expired PROVE "response" \in expired'
  <2>a. resp = Result /\ Result \notin {NoResponse, Failure("prep")}
    BY <1>7 DEF SshInv, IInv, StoreInv, ExpiryInv, Result, NoResponse, Failure
  <2>1. CASE expired' = expired \/ ExpireResponse \/ ExpireReceipt
    BY <1>7, <2>1 DEF ExpireResponse, ExpireReceipt
  <2>2. ASSUME NEW p \in Proc, EnqHset(p) PROVE FALSE
    <3>1. call = "failure"
      BY <2>2 DEF EnqHset, At, SshInv, IInv, Knows
    <3>2. resp \in {NoResponse, Failure("prep")}
      BY <3>1 DEF SshInv, IInv, StoreInv, AnswerInv
    <3> QED
      BY <2>a, <3>2
  <2>3. ASSUME NEW p \in Proc, ExecHset(p) \/ ExecPersist(p) PROVE FALSE
    BY <2>3, <2>a DEF ExecHset, ExecPersist, At, SshInv, IInv, Knows, Claimed
  <2>4. ASSUME NEW p \in Proc, CompleteReceipt(p) PROVE "response" \in expired'
    BY <1>7, <2>4 DEF CompleteReceipt
  <2> QED
    BY <2>1, <2>2, <2>3, <2>4, Writers
<1> QED
  BY <1>1, <1>2, <1>5, <1>6, <1>7

(* An answer the ledger holds is final, and so are the receipt and the     *)
(* checksum made from it; one that has expired does not come back.         *)
THEOREM AnswersAreFinal == Spec => AnswerIsFinal
<1>1. SshInv /\ [Next]_vars =>
        /\ "response" \in facts => UNCHANGED resp /\ Answer' \in {Answer, NoResponse}
        /\ receipt # NoResponse => UNCHANGED receipt
        /\ job.sha # NoResponse => job'.sha = job.sha
  <2>1. SshInv /\ "response" \in facts => resp # NoResponse
    BY DEF SshInv, IInv, StoreInv, CopiesInv
  <2> QED
    BY <2>1, AnswerStays DEF Answer
<1>2. Spec => []SshInv /\ [][Next]_vars
  BY Invariant DEF Spec
<1> QED
  BY <1>1, <1>2, PTL DEF AnswerIsFinal
------------------------------------------------------------------------------
(* The refinement: each step of SshJobs is one of CallLifecycle, or none.  *)
Answered == "response" \in facts

(* Only an accepted call is answered, and only by an answer. *)
LEMMA AnsweredIsAccepted == SshInv /\ Answered => claim # "none" /\ resp # NoResponse
BY DEF SshInv, IInv, StoreInv, BindingInv, AnswerInv, CopiesInv, ExpiryInv, Answered, TypeOK

(* The phase, with its undetermined case excluded. *)
PhaseNow == /\ claim = "none" => Phase = "absent"
            /\ claim # "none" /\ ~Answered => Phase = "pending"
            /\ claim # "none" /\ Answered =>
                 Phase = IF resp.failure # "none" THEN "failed" ELSE "completed"

LEMMA PhaseCases == SshInv => PhaseNow
BY AnsweredIsAccepted DEF PhaseNow, Phase, Answered

(* A step that accepts, runs and answers nothing. *)
Silent ==
  /\ UNCHANGED <<claim, ran>> /\ Answered' = Answered
  /\ Answered => UNCHANGED resp

LEMMA SilentStutters == PhaseNow /\ PhaseNow' /\ Silent => UNCHANGED Lifecycle!vars
<1> SUFFICES ASSUME PhaseNow, PhaseNow', Silent PROVE UNCHANGED Lifecycle!vars
  OBVIOUS
<1>1. Phase' = Phase
  <2>1. claim' = claim /\ Answered' = Answered /\ (Answered => resp' = resp)
    BY DEF Silent
  <2> QED
    BY <2>1 DEF PhaseNow
<1> QED
  BY <1>1 DEF Silent, Lifecycle!vars

(* What the phases of the calls become. *)
LEMMA PhaseStep ==
  ASSUME NEW x, Phase' = x
  PROVE  [c \in TheCall |-> Phase]' = [[c \in TheCall |-> Phase] EXCEPT !["call"] = x]
BY DEF TheCall

LEMMA AcceptStep ==
  ASSUME PhaseNow, PhaseNow', claim = "none", claim' # "none", ~Answered', UNCHANGED ran
  PROVE  Lifecycle!Next
<1>1. Phase = "absent" /\ Phase' = "pending"
  BY DEF PhaseNow
<1>2. Lifecycle!Accept("call")
  BY <1>1, PhaseStep DEF Lifecycle!Accept, TheCall
<1> QED
  BY <1>2 DEF Lifecycle!Next, TheCall

LEMMA AnswerStep ==
  ASSUME PhaseNow, PhaseNow', claim # "none", ~Answered, Answered', UNCHANGED <<claim, ran, resp>>,
         resp.failure = "none" => \A s \in Steps : ran[s] = 1
  PROVE  Lifecycle!Next
<1>1. Phase = "pending"
  BY DEF PhaseNow
<1>2. CASE resp.failure # "none"
  <2>1. Phase' = "failed"
    BY <1>2 DEF PhaseNow
  <2>2. Lifecycle!Fail("call")
    BY <1>1, <2>1, PhaseStep DEF Lifecycle!Fail, TheCall
  <2> QED
    BY <2>2 DEF Lifecycle!Next, TheCall
<1>3. CASE resp.failure = "none"
  <2>1. Phase' = "completed"
    BY <1>3 DEF PhaseNow
  <2>2. Lifecycle!Complete("call")
    BY <1>1, <1>3, <2>1, PhaseStep DEF Lifecycle!Complete, Lifecycle!Steps, Steps, TheCall
  <2> QED
    BY <2>2 DEF Lifecycle!Next, TheCall
<1> QED
  BY <1>2, <1>3

LEMMA EffectStep ==
  ASSUME PhaseNow, PhaseNow', claim # "none", ~Answered, UNCHANGED <<claim, facts>>,
         ran \in [Steps -> Nat], NEW i \in Steps, ran' = [ran EXCEPT ![i] = 1],
         \A s \in Steps : s < i => ran[s] = 1, \A s \in Steps : s >= i => ran[s] = 0
  PROVE  Lifecycle!Next
<1>1. Phase = "pending" /\ Phase' = "pending"
  BY DEF PhaseNow, Answered
<1>2. Lifecycle!RunStep("call", i)
  <2>1. \A s \in Steps : ran[s] = IF s < i THEN 1 ELSE 0
    BY NumStepsAssumption DEF Steps
  <2>2. [c \in TheCall |-> ran]' = [[c \in TheCall |-> ran] EXCEPT !["call"][i] = 1]
    BY DEF TheCall
  <2> QED
    BY <1>1, <2>1, <2>2 DEF Lifecycle!RunStep, Lifecycle!Steps, Steps, TheCall
<1> QED
  BY <1>2 DEF Lifecycle!Next, Lifecycle!Steps, Steps, TheCall

LEMMA StepRefines ==
  SshInv /\ SshInv' /\ [Next]_vars => Lifecycle!Next \/ UNCHANGED Lifecycle!vars
<1> SUFFICES ASSUME SshInv, SshInv', [Next]_vars
             PROVE  Lifecycle!Next \/ UNCHANGED Lifecycle!vars
  OBVIOUS
<1>a. PhaseNow /\ PhaseNow' /\ (Answered => resp' = resp)
  <2>1. PhaseNow /\ PhaseNow'
    BY PhaseCases, PTL
  <2> QED
    BY <2>1, AnsweredIsAccepted, AnswerStays
<1>1. CASE UNCHANGED <<claim, ran, facts>>
  <2>1. Silent
    BY <1>1, <1>a DEF Silent, Answered
  <2> QED
    BY <1>a, <2>1, SilentStutters
<1>2. ASSUME NEW p \in Proc, EnqClaim(p) PROVE Lifecycle!Next \/ UNCHANGED Lifecycle!vars
  <2>1. UNCHANGED <<ran, facts>>
    BY <1>2 DEF EnqClaim
  <2>2. CASE claim' = claim
    BY <1>1, <2>1, <2>2
  <2>3. CASE claim' # claim
    <3>1. claim = "none" /\ claim' # "none"
      BY <1>2, <2>3 DEF EnqClaim
    <3>2. ~Answered'
      BY <2>1, <3>1, AnsweredIsAccepted DEF Answered
    <3> QED
      BY <1>a, <2>1, <3>1, <3>2, AcceptStep
  <2> QED
    BY <2>2, <2>3
<1>3. ASSUME NEW p \in Proc, ExecStep(p) \/ ExecStepRaises(p)
      PROVE  Lifecycle!Next \/ UNCHANGED Lifecycle!vars
  <2>1. UNCHANGED <<claim, facts>> /\ (ran' = ran \/ Effect(proc[p].idx))
    BY <1>3 DEF ExecStep, ExecStepRaises, rowVars
  <2>2. CASE ran' = ran
    BY <1>1, <2>1, <2>2
  <2>3. CASE Effect(proc[p].idx)
    <3>1. proc[p].idx \in Steps /\ proc[p].pc = "ex_step" /\ ran \in [Steps -> Nat]
      BY <1>3 DEF SshInv, TypeOK, Processes, ExecStep, ExecStepRaises, At
    <3>2. /\ claim # "none" /\ ~Answered
          /\ \A s \in Steps : s < proc[p].idx => ran[s] = 1
      BY <3>1 DEF SshInv, IInv, Knows, Claimed, StoreInv, BindingInv, CopiesInv, Answered
    <3>3. \A s \in Steps : s >= proc[p].idx => ran[s] = 0
      BY <3>1 DEF SshInv, ClaimInv
    <3>4. ran' = [ran EXCEPT ![proc[p].idx] = 1]
      <4>1. ran[proc[p].idx] = 0
        BY <3>1, <3>3, NumStepsAssumption DEF Steps
      <4> QED
        BY <2>3, <3>1, <4>1 DEF Effect
    <3> QED
      BY <1>a, <2>1, <3>1, <3>2, <3>3, <3>4, EffectStep
  <2> QED
    BY <2>1, <2>2, <2>3
<1>4. ASSUME NEW p \in Proc, EnqLedger(p) \/ ExecLedger(p) \/ CompleteTxn(p)
      PROVE  Lifecycle!Next \/ UNCHANGED Lifecycle!vars
  <2>1. UNCHANGED <<claim, ran, resp>> /\ Answered'
    BY <1>4 DEF EnqLedger, ExecLedger, CompleteTxn, redisVars, Answered
  <2>2. CASE Answered
    <3>1. Silent
      BY <2>1, <2>2 DEF Silent
    <3> QED
      BY <1>a, <3>1, SilentStutters
  <2>3. CASE ~Answered
    <3>1. resp # NoResponse /\ claim # "none"
      <4>1. SshInv' /\ Answered' => claim' # "none" /\ resp' # NoResponse
        BY DEF SshInv, IInv, StoreInv, BindingInv, AnswerInv, CopiesInv, ExpiryInv, Answered, TypeOK
      <4> QED
        BY <2>1, <4>1
    <3>2. resp.failure = "none" => \A s \in Steps : ran[s] = 1
      <4>1. resp \in {Failure("prep"), Failure("exec"), Result}
        BY <3>1 DEF SshInv, TypeOK, IInv, StoreInv, AnswerInv
      <4>2. resp.failure = "none" => resp = Result
        BY <4>1 DEF Failure, Result
      <4> QED
        BY <4>2 DEF SshInv, IInv, StoreInv, AnswerInv
    <3> QED
      BY <1>a, <2>1, <2>3, <3>1, <3>2, AnswerStep
  <2> QED
    BY <2>2, <2>3
<1> QED
  BY <1>1, <1>2, <1>3, <1>4, Writers

LEMMA InitRefines == Init => Lifecycle!Init
BY DEF Init, Phase, Lifecycle!Init, Lifecycle!Steps, Steps, TheCall

(* `asc job` implements CallLifecycle for its call. *)
THEOREM JobsImplementLifecycle == Spec => ImplementsLifecycle
<1>1. Spec => []SshInv
  BY Invariant
<1> QED
  BY <1>1, InitRefines, StepRefines, PTL DEF Spec, ImplementsLifecycle, Lifecycle!Spec

==============================================================================
