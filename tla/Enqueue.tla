------------------------------- MODULE Enqueue -------------------------------
(***************************************************************************)
(* enqueue_record (autoscribe/enqueue.py): callers that register one       *)
(* submission, as the CLI or an SSH submit does, at the same time, again   *)
(* after a crash, or with a record prepared differently.                   *)
(*                                                                         *)
(* An input stands for the fingerprint: the prepared record together with  *)
(* the execution mode.  All inputs here carry the record id of the one     *)
(* submission; preparation gives it one of two call ids (call_..., or      *)
(* failed_... when Pandoc could not run).  Two ledgers stand for callers   *)
(* configured with different AUTOSCRIBE_LEDGER_DB but one Redis: there     *)
(* only the marker can tell that a call is taken, and a caller that finds  *)
(* it may have no row of the call in its own ledger.                       *)
(***************************************************************************)
EXTENDS Naturals, FiniteSets

CONSTANTS
  Caller, Ledger, LedgerOf,   \* who calls, and the ledger each one opens
  Input, CallOf,              \* fingerprints, and the call id in each record
  Ready,                      \* inputs with status ready (the others are failures)
  Queued,                     \* inputs in queued mode (the others are direct)
  Plan, NoPlan, BadPlan,      \* plan versions; the plan is unknown; it is invalid
  NoInput,
  MaxCrashes                  \* bound on callers that stop half way

Call == {CallOf[i] : i \in Input}

ASSUME LedgerAssumption == LedgerOf \in [Caller -> Ledger]
ASSUME InputAssumption  == NoInput \notin Input /\ CallOf = [i \in Input |-> CallOf[i]]
ASSUME KindAssumption   == Ready \subseteq Input /\ Queued \subseteq Input
ASSUME PlanAssumption   == NoPlan \notin Plan /\ BadPlan \notin Plan \union {NoPlan}
ASSUME CrashesAssumption == MaxCrashes \in Nat

VARIABLES
  row,      \* enqueue_inputs, per ledger: the bound input, and its queued flag
  calls,    \* calls and call_keys, per ledger
  answered, \* responses, per ledger
  marker,   \* enqueue:<call> in Redis
  content,  \* call:<call>:content in Redis: its input and its plan
  queue,    \* queue:executor in Redis
  failed,   \* calls whose response:<call>:content holds a failure
  control,  \* the plan row of the Control database
  caller,   \* the callers
  pushed,   \* how often each call was put in the queue (history)
  verdicts, \* what calls of enqueue_record returned: a plan or NoPlan (history)
  crashes   \* callers that stopped half way (history, bounded)

ledgerVars  == <<row, calls, answered>>
redisVars   == <<marker, content, queue, failed, pushed>>
vars == <<ledgerVars, redisVars, control, caller, verdicts, crashes>>

Verdict   == Plan \union {NoPlan}
Contents  == [input: Input \union {NoInput}, plan: Verdict]
NoContent == [input |-> NoInput, plan |-> NoPlan]
Labels == {"idle", "claim", "load", "get", "load_prior", "plan", "record", "eval",
           "register", "respond", "done"}
Callers == [pc: Labels, input: Input \union {NoInput}, verdict: Verdict]
Idle    == [pc |-> "idle", input |-> NoInput, verdict |-> NoPlan]

TypeOK ==
  /\ row \in [Ledger -> [input: Input \union {NoInput}, queued: BOOLEAN]]
  /\ calls \in [Ledger -> SUBSET Call]
  /\ answered \in [Ledger -> SUBSET Call]
  /\ marker \in [Call -> Input \union {NoInput}]
  /\ content \in [Call -> Contents]
  /\ queue \subseteq Call
  /\ failed \subseteq Call
  /\ control \in Verdict \union {BadPlan}
  /\ caller \in [Caller -> Callers]
  /\ pushed \in [Call -> Nat]
  /\ verdicts \in [Input -> SUBSET Verdict]
  /\ crashes \in 0..MaxCrashes

Init ==
  /\ row = [l \in Ledger |-> [input |-> NoInput, queued |-> FALSE]]
  /\ calls = [l \in Ledger |-> {}]
  /\ answered = [l \in Ledger |-> {}]
  /\ marker = [c \in Call |-> NoInput]
  /\ content = [c \in Call |-> NoContent]
  /\ queue = {}
  /\ failed = {}
  /\ control \in Verdict \union {BadPlan}
  /\ caller = [k \in Caller |-> Idle]
  /\ pushed = [c \in Call |-> 0]
  /\ verdicts = [i \in Input |-> {}]
  /\ crashes = 0

At(k, l)   == caller[k].pc = l
In(k)      == caller[k].input
Key(k)     == CallOf[In(k)]
Mine(k)    == row[LedgerOf[k]]
Goto(k, l) == caller' = [caller EXCEPT ![k].pc = l]
Raise(k)   == caller' = [caller EXCEPT ![k] = Idle]

(* The call is settled as v: a failure has to be registered first.         *)
Settle(k, v) == caller' = [caller EXCEPT ![k] =
                  [@ EXCEPT !.pc = IF v = NoPlan THEN "register" ELSE "done", !.verdict = v]]

Return(k, v) ==
  /\ verdicts' = [verdicts EXCEPT ![In(k)] = @ \union {v}]
  /\ Raise(k)

(* The effect of the script on a call that has no marker yet.              *)
PublishCall(k) ==
  /\ content' = [content EXCEPT ![Key(k)] = [input |-> In(k), plan |-> caller[k].verdict]]
  /\ marker' = [marker EXCEPT ![Key(k)] = In(k)]

Push(k) ==
  /\ queue' = queue \union {Key(k)}
  /\ pushed' = [pushed EXCEPT ![Key(k)] = @ + 1]

------------------------------------------------------------------------------
(* Faulty variants of actions below, each a plausible slip in the code;    *)
(* none is part of Next.                                                   *)

FaultyClaimLastWins(k) ==
  /\ At(k, "claim")
  /\ IF Mine(k).input = In(k) /\ Mine(k).queued
     THEN Goto(k, "load") /\ UNCHANGED row
     ELSE Goto(k, "get") /\ row' = [row EXCEPT ![LedgerOf[k]].input = In(k)]
  /\ UNCHANGED <<calls, answered, redisVars, control, verdicts, crashes>>

FaultyEvalIgnoresMarker(k) ==
  /\ At(k, "eval")
  /\ PublishCall(k)
  /\ IF In(k) \in Queued /\ caller[k].verdict # NoPlan THEN Push(k) ELSE UNCHANGED <<queue, pushed>>
  /\ Settle(k, caller[k].verdict)
  /\ UNCHANGED <<ledgerVars, failed, control, verdicts, crashes>>

FaultyEvalQueuesAll(k) ==
  /\ At(k, "eval") /\ marker[Key(k)] = NoInput
  /\ PublishCall(k) /\ Push(k)
  /\ Settle(k, caller[k].verdict)
  /\ UNCHANGED <<ledgerVars, failed, control, verdicts, crashes>>

FaultyEvalKeepsOwn(k) ==
  /\ At(k, "eval")
  /\ IF marker[Key(k)] = NoInput THEN PublishCall(k) ELSE UNCHANGED <<content, marker>>
  /\ Settle(k, caller[k].verdict)
  /\ UNCHANGED <<ledgerVars, queue, pushed, failed, control, verdicts, crashes>>

FaultyRegisterSkipped(k) ==
  /\ At(k, "register")
  /\ Goto(k, "done")
  /\ UNCHANGED <<ledgerVars, redisVars, control, verdicts, crashes>>

FaultyPriorReturns(k) ==
  /\ At(k, "load_prior")
  /\ Return(k, content[Key(k)].plan)
  /\ UNCHANGED <<ledgerVars, redisVars, control, crashes>>

FaultyTwoCalls(k) ==
  /\ At(k, "record")
  /\ calls' = [calls EXCEPT ![LedgerOf[k]] = @ \union {In(k)}]
  /\ Goto(k, "eval")
  /\ UNCHANGED <<row, answered, redisVars, control, verdicts, crashes>>

------------------------------------------------------------------------------
(* A valid record is handed in; validation itself changes nothing.         *)
Start(k, i) ==
  /\ At(k, "idle")
  /\ caller' = [caller EXCEPT ![k] = [@ EXCEPT !.pc = "claim", !.input = i]]
  /\ UNCHANGED <<ledgerVars, redisVars, control, verdicts, crashes>>

(* One transaction binds the record id to the first input that comes.      *)
Claim(k) ==
  /\ At(k, "claim")
  /\ \/ /\ Mine(k).input = NoInput
        /\ row' = [row EXCEPT ![LedgerOf[k]].input = In(k)]
        /\ Goto(k, "get")
     \/ /\ Mine(k).input = In(k) /\ UNCHANGED row
        /\ Goto(k, IF Mine(k).queued THEN "load" ELSE "get")
     \/ Mine(k).input \notin {NoInput, In(k)} /\ UNCHANGED row /\ Raise(k)
  /\ UNCHANGED <<calls, answered, redisVars, control, verdicts, crashes>>

LoadDone(k) ==
  /\ At(k, "load")
  /\ Return(k, content[Key(k)].plan)
  /\ UNCHANGED <<ledgerVars, redisVars, control, crashes>>

GetMarker(k) ==
  /\ At(k, "get")
  /\ \/ marker[Key(k)] = NoInput /\ Goto(k, "plan")
     \/ marker[Key(k)] = In(k) /\ Goto(k, "load_prior")
     \/ marker[Key(k)] \notin {NoInput, In(k)} /\ Raise(k)
  /\ UNCHANGED <<ledgerVars, redisVars, control, verdicts, crashes>>

LoadPrior(k) ==
  /\ At(k, "load_prior")
  /\ Settle(k, content[Key(k)].plan)
  /\ UNCHANGED <<ledgerVars, redisVars, control, verdicts, crashes>>

(* materialize_plan: a failed record needs no plan, an unknown plan makes  *)
(* it a failure, any other ControlError raises.                            *)
ResolvePlan(k) ==
  /\ At(k, "plan")
  /\ \/ In(k) \notin Ready /\ Goto(k, "record")
     \/ /\ In(k) \in Ready /\ control # BadPlan
        /\ caller' = [caller EXCEPT ![k] = [@ EXCEPT !.pc = "record", !.verdict = control]]
     \/ In(k) \in Ready /\ control = BadPlan /\ Raise(k)
  /\ UNCHANGED <<ledgerVars, redisVars, control, verdicts, crashes>>

RecordCall(k) ==
  /\ At(k, "record")
  /\ calls' = [calls EXCEPT ![LedgerOf[k]] = @ \union {Key(k)}]
  /\ Goto(k, "eval")
  /\ UNCHANGED <<row, answered, redisVars, control, verdicts, crashes>>

(* The script: atomic, and the first one for a call wins.                  *)
Eval(k) ==
  /\ At(k, "eval")
  /\ \/ /\ marker[Key(k)] = NoInput
        /\ PublishCall(k)
        /\ IF In(k) \in Queued /\ caller[k].verdict # NoPlan
           THEN Push(k) ELSE UNCHANGED <<queue, pushed>>
        /\ Settle(k, caller[k].verdict)
     \/ /\ marker[Key(k)] = In(k) /\ Goto(k, "load_prior")
        /\ UNCHANGED <<marker, content, queue, pushed>>
     \/ /\ marker[Key(k)] \notin {NoInput, In(k)} /\ Raise(k)
        /\ UNCHANGED <<marker, content, queue, pushed>>
  /\ UNCHANGED <<ledgerVars, failed, control, verdicts, crashes>>

(* register_failure: Redis, then the ledger.                               *)
Register(k) ==
  /\ At(k, "register")
  /\ failed' = failed \union {Key(k)}
  /\ Goto(k, "respond")
  /\ UNCHANGED <<ledgerVars, marker, content, queue, pushed, control, verdicts, crashes>>

(* A response refers to its call: where another ledger has that row, the   *)
(* foreign key refuses it, and enqueue_record raises.                      *)
Respond(k) ==
  /\ At(k, "respond")
  /\ \/ /\ Key(k) \in calls[LedgerOf[k]]
        /\ answered' = [answered EXCEPT ![LedgerOf[k]] = @ \union {Key(k)}]
        /\ Goto(k, "done")
     \/ Key(k) \notin calls[LedgerOf[k]] /\ UNCHANGED answered /\ Raise(k)
  /\ UNCHANGED <<row, calls, redisVars, control, verdicts, crashes>>

Done(k) ==
  /\ At(k, "done")
  /\ row' = [row EXCEPT ![LedgerOf[k]].queued = TRUE]
  /\ Return(k, caller[k].verdict)
  /\ UNCHANGED <<calls, answered, redisVars, control, crashes>>

------------------------------------------------------------------------------
(* The caller is killed, or a Redis or SQLite call raises.                 *)
Crash(k) ==
  /\ ~At(k, "idle") /\ crashes < MaxCrashes
  /\ crashes' = crashes + 1
  /\ Raise(k)
  /\ UNCHANGED <<ledgerVars, redisVars, control, verdicts>>

(* executord claims a call: ZREM in process_active.                        *)
ExecutorTakes(c) ==
  /\ c \in queue
  /\ queue' = queue \ {c}
  /\ UNCHANGED <<ledgerVars, marker, content, failed, pushed, control, caller, verdicts, crashes>>

(* An `asc control` import replaces the plan between two calls.             *)
EditPlan(v) ==
  /\ control # v
  /\ control' = v
  /\ UNCHANGED <<ledgerVars, redisVars, caller, verdicts, crashes>>

Advance(k) ==
  \/ Claim(k) \/ LoadDone(k) \/ GetMarker(k) \/ LoadPrior(k) \/ ResolvePlan(k)
  \/ RecordCall(k) \/ Eval(k) \/ Register(k) \/ Respond(k) \/ Done(k)

Next ==
  \/ \E k \in Caller : Advance(k) \/ Crash(k) \/ \E i \in Input : Start(k, i)
  \/ \E c \in Call : ExecutorTakes(c)
  \/ \E v \in Verdict \union {BadPlan} : EditPlan(v)

Spec == Init /\ [][Next]_vars

(* Each input is handed in again and again, and callers make progress.     *)
FairSpec ==
  /\ Spec
  /\ \A k \in Caller : WF_vars(Advance(k)) /\ \A i \in Input : SF_vars(Start(k, i))

------------------------------------------------------------------------------
(* Properties.                                                             *)

(* A call enters the executor queue at most once over all callers, retries *)
(* and crashes, even when two ledgers disagree (enqueue.py:173-188).       *)
QueuedOnce == \A c \in Call : pushed[c] <= 1

(* What the executor finds in the queue it can load: content with a plan,  *)
(* in queued mode, and ledger rows for its keys.  A failure or a direct    *)
(* (SSH) call never gets there (enqueue.py:172-188).                       *)
QueueIsExecutable ==
  \A c \in Call : pushed[c] > 0 =>
    /\ content[c].input \in Queued \intersect Ready
    /\ content[c].plan # NoPlan
    /\ \E l \in Ledger : c \in calls[l]

(* A row that says queued has nothing left to do: marker and content are   *)
(* those of its input, and a failure has its response in Redis and in that *)
(* ledger (enqueue.py:152-163, 192-194).                                   *)
QueuedMeansFinished ==
  \A l \in Ledger : row[l].queued =>
    LET i == row[l].input
        c == CallOf[i]
    IN  /\ i # NoInput /\ marker[c] = i /\ content[c].input = i
        /\ content[c].plan = NoPlan => c \in failed /\ c \in answered[l]

(* Every caller of an input is told the same, whatever happened to the     *)
(* plan in between: the content that was published (enqueue.py:154-191).   *)
VerdictsAgree ==
  \A i \in Input : \A v \in verdicts[i] :
    content[CallOf[i]] = [input |-> i, plan |-> v]

(* A binding is for good: the input of a record, the marker and the        *)
(* content of a call never change once set (enqueue.py:142-150, 173-188).  *)
BindingsStay ==
  [][ /\ \A l \in Ledger : row[l].input # NoInput => row'[l].input = row[l].input
      /\ \A c \in Call : marker[c] # NoInput =>
           marker'[c] = marker[c] /\ content'[c] = content[c] ]_vars

(* Another ledger has the call of this input: it was published from there  *)
(* with another input, or as a failure that this ledger cannot respond to. *)
TakenElsewhere(l, i) ==
  LET c == CallOf[i]
  IN  /\ \E m \in Ledger \ {l} : c \in calls[m]
      /\ \/ marker[c] \notin {NoInput, i}
         \/ content[c] = [input |-> i, plan |-> NoPlan] /\ c \notin calls[l]

(* A bound input gets through, however often callers stop half way, as     *)
(* long as it is handed in again and its plan does not stay invalid; only  *)
(* one whose call another ledger has taken may be refused for ever         *)
(* (enqueue.py:142-194, ledger.py:25-26).                                  *)
BoundGetsThrough ==
  <>[](control # BadPlan) =>
    \A l \in Ledger, i \in Input :
      row[l].input = i ~> row[l].queued \/ TakenElsewhere(l, i)
=============================================================================
