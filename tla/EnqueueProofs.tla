---------------------------- MODULE EnqueueProofs ----------------------------
(***************************************************************************)
(* Proofs about Enqueue, for any callers, ledgers, inputs and plans, and   *)
(* any bound on crashes: the types, that a binding is for good, and what   *)
(* follows from it for the queue, the ledger rows and the verdicts.        *)
(***************************************************************************)
EXTENDS Enqueue, TLAPS

------------------------------------------------------------------------------
(* The inductive invariant, in named parts.                                *)

(* What is published for a call is of one of its inputs; it is queued only *)
(* then, once, and only if it can be executed.                             *)
StoreInv ==
  /\ \A c \in Call : marker[c] = content[c].input
  /\ \A c \in Call : marker[c] = NoInput => pushed[c] = 0
  /\ \A c \in Call : pushed[c] <= 1
  /\ QueueIsExecutable

(* A caller past the claim works on the input its ledger is bound to, and  *)
(* what it has seen of the store still holds.                              *)
Registered(k) ==
  /\ marker[Key(k)] = In(k)
  /\ content[Key(k)] = [input |-> In(k), plan |-> caller[k].verdict]

CallerOK(k) ==
  /\ ~At(k, "idle") => In(k) \in Input
  /\ caller[k].pc \notin {"idle", "claim"} => Mine(k).input = In(k)
  /\ At(k, "load") => Mine(k).queued
  /\ caller[k].pc \in {"idle", "claim", "get", "plan"} => caller[k].verdict = NoPlan
  /\ caller[k].pc \in {"record", "eval"} /\ caller[k].verdict # NoPlan => In(k) \in Ready
  /\ At(k, "eval") => Key(k) \in calls[LedgerOf[k]]
  /\ At(k, "load_prior") => marker[Key(k)] = In(k)
  /\ caller[k].pc \in {"register", "respond", "done"} => Registered(k)
  /\ caller[k].pc \in {"register", "respond"} => caller[k].verdict = NoPlan
  /\ At(k, "respond") => Key(k) \in failed
  /\ At(k, "done") /\ caller[k].verdict = NoPlan =>
       Key(k) \in failed /\ Key(k) \in answered[LedgerOf[k]]
CallerInv == \A k \in Caller : CallerOK(k)

IInv == StoreInv /\ CallerInv /\ QueuedMeansFinished /\ VerdictsAgree

(* Nothing registered is taken back: what every step keeps.                *)
Keeps ==
  /\ \A l \in Ledger : row[l].input # NoInput => row'[l].input = row[l].input
  /\ \A l \in Ledger : row[l].queued => row'[l].queued
  /\ \A c \in Call : marker[c] # NoInput => marker'[c] = marker[c] /\ content'[c] = content[c]
  /\ \A l \in Ledger : calls[l] \subseteq calls'[l] /\ answered[l] \subseteq answered'[l]
  /\ failed \subseteq failed'

------------------------------------------------------------------------------
(* Types.                                                                  *)

LEMMA KeysTyped == \A i \in Input : CallOf[i] \in Call /\ i # NoInput
BY InputAssumption DEF Call

LEMMA IdleTyped == Idle \in Callers /\ NoContent \in Contents
BY DEF Idle, Callers, Labels, Verdict, NoContent, Contents

LEMMA InitTyped == Init => TypeOK
<1> SUFFICES ASSUME Init PROVE TypeOK
  OBVIOUS
<1>1. caller \in [Caller -> Callers] /\ content \in [Call -> Contents]
  BY IdleTyped DEF Init
<1>2. /\ row \in [Ledger -> [input: Input \union {NoInput}, queued: BOOLEAN]]
      /\ crashes \in 0..MaxCrashes
  BY CrashesAssumption DEF Init
<1> QED
  BY <1>1, <1>2 DEF Init, TypeOK

(* A caller goes on with a verdict. *)
Decides(k, l, v) == caller' = [caller EXCEPT ![k] = [@ EXCEPT !.pc = l, !.verdict = v]]

(* What the moves of a caller do to it, and that they leave the others.    *)
LEMMA CallerMoves ==
  ASSUME caller \in [Caller -> Callers], NEW k \in Caller
  PROVE  /\ \A l \in Labels : Goto(k, l) =>
              /\ caller' \in [Caller -> Callers]
              /\ caller'[k].pc = l /\ caller'[k].input = caller[k].input
              /\ caller'[k].verdict = caller[k].verdict
              /\ \A q \in Caller : q # k => caller'[q] = caller[q]
         /\ Raise(k) =>
              /\ caller' \in [Caller -> Callers]
              /\ caller'[k].pc = "idle" /\ caller'[k].verdict = NoPlan
              /\ \A q \in Caller : q # k => caller'[q] = caller[q]
         /\ \A v \in Verdict, l \in Labels : Decides(k, l, v) =>
              /\ caller' \in [Caller -> Callers]
              /\ caller'[k].pc = l /\ caller'[k].input = caller[k].input
              /\ caller'[k].verdict = v
              /\ \A q \in Caller : q # k => caller'[q] = caller[q]
         /\ \A i \in Input :
              caller' = [caller EXCEPT ![k] = [@ EXCEPT !.pc = "claim", !.input = i]] =>
              /\ caller' \in [Caller -> Callers]
              /\ caller'[k].pc = "claim" /\ caller'[k].input = i
              /\ caller'[k].verdict = caller[k].verdict
              /\ \A q \in Caller : q # k => caller'[q] = caller[q]
<1>1. ASSUME NEW l \in Labels, Goto(k, l)
      PROVE  /\ caller' \in [Caller -> Callers]
             /\ caller'[k].pc = l /\ caller'[k].input = caller[k].input
             /\ caller'[k].verdict = caller[k].verdict
             /\ \A q \in Caller : q # k => caller'[q] = caller[q]
  BY <1>1 DEF Goto, Callers
<1>2. ASSUME Raise(k)
      PROVE  /\ caller' \in [Caller -> Callers]
             /\ caller'[k].pc = "idle" /\ caller'[k].verdict = NoPlan
             /\ \A q \in Caller : q # k => caller'[q] = caller[q]
  <2>1. caller'[k] = Idle /\ Idle.pc = "idle" /\ Idle.verdict = NoPlan
    BY <1>2 DEF Raise, Idle
  <2> QED
    BY <1>2, <2>1, IdleTyped DEF Raise
<1>3. ASSUME NEW v \in Verdict, NEW l \in Labels, Decides(k, l, v)
      PROVE  /\ caller' \in [Caller -> Callers]
             /\ caller'[k].pc = l /\ caller'[k].input = caller[k].input
             /\ caller'[k].verdict = v
             /\ \A q \in Caller : q # k => caller'[q] = caller[q]
  <2> DEFINE r == [caller[k] EXCEPT !.pc = l, !.verdict = v]
  <2>1. r \in Callers /\ r.pc = l /\ r.input = caller[k].input /\ r.verdict = v
    BY DEF Callers
  <2>2. caller' = [caller EXCEPT ![k] = r]
    BY <1>3 DEF Decides
  <2> HIDE DEF r
  <2> QED
    BY <2>1, <2>2
<1>4. ASSUME NEW i \in Input,
             caller' = [caller EXCEPT ![k] = [@ EXCEPT !.pc = "claim", !.input = i]]
      PROVE  /\ caller' \in [Caller -> Callers]
             /\ caller'[k].pc = "claim" /\ caller'[k].input = i
             /\ caller'[k].verdict = caller[k].verdict
             /\ \A q \in Caller : q # k => caller'[q] = caller[q]
  <2> DEFINE r == [caller[k] EXCEPT !.pc = "claim", !.input = i]
  <2>1. r \in Callers /\ r.pc = "claim" /\ r.input = i /\ r.verdict = caller[k].verdict
    BY DEF Callers, Labels
  <2>2. caller' = [caller EXCEPT ![k] = r]
    BY <1>4
  <2> HIDE DEF r
  <2> QED
    BY <2>1, <2>2
<1> QED
  BY <1>1, <1>2, <1>3, <1>4

LEMMA SettleMoves ==
  ASSUME caller \in [Caller -> Callers], NEW k \in Caller, NEW v \in Verdict, Settle(k, v)
  PROVE  /\ caller' \in [Caller -> Callers]
         /\ v = NoPlan => caller'[k].pc = "register"
         /\ v # NoPlan => caller'[k].pc = "done"
         /\ caller'[k].input = caller[k].input /\ caller'[k].verdict = v
         /\ \A q \in Caller : q # k => caller'[q] = caller[q]
<1> DEFINE l == IF v = NoPlan THEN "register" ELSE "done"
<1>1. l \in Labels
  BY DEF Labels
<1>2. Decides(k, l, v)
  BY DEF Settle, Decides
<1>3. (v = NoPlan => l = "register") /\ (v # NoPlan => l = "done")
  OBVIOUS
<1> HIDE DEF l
<1> QED
  BY <1>1, <1>2, <1>3, CallerMoves

(* What a caller at work is about. *)
LEMMA AtWork ==
  ASSUME TypeOK, CallerInv, NEW k \in Caller, ~At(k, "idle")
  PROVE  /\ In(k) \in Input /\ In(k) # NoInput /\ Key(k) \in Call /\ LedgerOf[k] \in Ledger
         /\ content[Key(k)] \in Contents /\ content[Key(k)].plan \in Verdict
         /\ caller[k].verdict \in Verdict
         /\ caller \in [Caller -> Callers]
<1>1. In(k) \in Input /\ In(k) # NoInput /\ Key(k) \in Call /\ LedgerOf[k] \in Ledger
  BY KeysTyped, LedgerAssumption DEF CallerInv, CallerOK, Key
<1> QED
  BY <1>1 DEF TypeOK, Contents, Callers

LEMMA StepTyped == TypeOK /\ CallerInv /\ [Next]_vars => TypeOK'
<1> SUFFICES ASSUME TypeOK, CallerInv, [Next]_vars PROVE TypeOK'
  OBVIOUS
<1> USE DEF ledgerVars, redisVars
<1>a. caller \in [Caller -> Callers]
  BY DEF TypeOK
<1>b. ASSUME NEW k \in Caller, ~At(k, "idle"), NEW v \in Verdict, Return(k, v)
      PROVE  /\ verdicts' \in [Input -> SUBSET Verdict]
             /\ caller' \in [Caller -> Callers]
  BY <1>a, <1>b, AtWork, CallerMoves DEF Return, TypeOK
<1>1. ASSUME NEW k \in Caller, NEW i \in Input, Start(k, i) PROVE TypeOK'
  BY <1>1, <1>a, CallerMoves DEF Start, TypeOK
<1>2. ASSUME NEW k \in Caller, Claim(k) PROVE TypeOK'
  <2>1. caller' \in [Caller -> Callers]
    BY <1>2, <1>a, CallerMoves DEF Claim, Labels
  <2>2. row' \in [Ledger -> [input: Input \union {NoInput}, queued: BOOLEAN]]
    BY <1>2, AtWork DEF Claim, At, TypeOK
  <2> QED
    BY <1>2, <2>1, <2>2 DEF Claim, TypeOK
<1>3. ASSUME NEW k \in Caller, LoadDone(k) PROVE TypeOK'
  BY <1>3, <1>b, AtWork DEF LoadDone, At, TypeOK
<1>4. ASSUME NEW k \in Caller, GetMarker(k) PROVE TypeOK'
  <2>1. caller' \in [Caller -> Callers]
    BY <1>4, <1>a, CallerMoves DEF GetMarker, Labels
  <2> QED
    BY <1>4, <2>1 DEF GetMarker, TypeOK
<1>5. ASSUME NEW k \in Caller, LoadPrior(k) PROVE TypeOK'
  <2>1. caller' \in [Caller -> Callers]
    BY <1>5, <1>a, AtWork, SettleMoves DEF LoadPrior, At
  <2> QED
    BY <1>5, <2>1 DEF LoadPrior, TypeOK
<1>6. ASSUME NEW k \in Caller, ResolvePlan(k) PROVE TypeOK'
  <2>1. caller' \in [Caller -> Callers]
    <3>1. control # BadPlan => control \in Verdict
      BY DEF TypeOK
    <3>2. "record" \in Labels
      BY DEF Labels
    <3> QED
      BY <1>6, <1>a, <3>1, <3>2, CallerMoves DEF ResolvePlan, Decides
  <2> QED
    BY <1>6, <2>1 DEF ResolvePlan, TypeOK
<1>7. ASSUME NEW k \in Caller, RecordCall(k) PROVE TypeOK'
  <2>1. caller' \in [Caller -> Callers]
    BY <1>7, <1>a, CallerMoves DEF RecordCall, Labels
  <2>2. calls' \in [Ledger -> SUBSET Call]
    BY <1>7, AtWork DEF RecordCall, At, TypeOK
  <2> QED
    BY <1>7, <2>1, <2>2 DEF RecordCall, TypeOK
<1>8. ASSUME NEW k \in Caller, Eval(k) PROVE TypeOK'
  <2>1. /\ In(k) \in Input /\ Key(k) \in Call /\ caller[k].verdict \in Verdict
    BY <1>8, AtWork DEF Eval, At
  <2>2. caller' \in [Caller -> Callers]
    BY <1>8, <1>a, <2>1, CallerMoves, SettleMoves DEF Eval, Labels
  <2>3. [input |-> In(k), plan |-> caller[k].verdict] \in Contents
    BY <2>1 DEF Contents
  <2>4. /\ content' \in [Call -> Contents]
        /\ marker' \in [Call -> Input \union {NoInput}]
    <3>1. \/ content' = content
          \/ content' = [content EXCEPT ![Key(k)] = [input |-> In(k),
                                                     plan |-> caller[k].verdict]]
      BY <1>8 DEF Eval, PublishCall
    <3>2. marker' = marker \/ marker' = [marker EXCEPT ![Key(k)] = In(k)]
      BY <1>8 DEF Eval, PublishCall
    <3> QED
      BY <2>1, <2>3, <3>1, <3>2 DEF TypeOK
  <2>5. queue' \subseteq Call /\ pushed' \in [Call -> Nat]
    BY <1>8, <2>1 DEF Eval, Push, TypeOK
  <2> QED
    BY <1>8, <2>2, <2>4, <2>5 DEF Eval, TypeOK
<1>9. ASSUME NEW k \in Caller, Register(k) PROVE TypeOK'
  <2>1. caller' \in [Caller -> Callers]
    BY <1>9, <1>a, CallerMoves DEF Register, Labels
  <2> QED
    BY <1>9, <2>1, AtWork DEF Register, At, TypeOK
<1>10. ASSUME NEW k \in Caller, Respond(k) PROVE TypeOK'
  <2>1. caller' \in [Caller -> Callers]
    BY <1>10, <1>a, CallerMoves DEF Respond, Labels
  <2>2. answered' \in [Ledger -> SUBSET Call]
    BY <1>10, AtWork DEF Respond, At, TypeOK
  <2> QED
    BY <1>10, <2>1, <2>2 DEF Respond, TypeOK
<1>11. ASSUME NEW k \in Caller, Done(k) PROVE TypeOK'
  <2>1. /\ verdicts' \in [Input -> SUBSET Verdict]
        /\ caller' \in [Caller -> Callers]
    BY <1>11, <1>b, AtWork DEF Done, At
  <2>2. row' \in [Ledger -> [input: Input \union {NoInput}, queued: BOOLEAN]]
    BY <1>11 DEF Done, TypeOK
  <2> QED
    BY <1>11, <2>1, <2>2 DEF Done, TypeOK
<1>12. ASSUME NEW k \in Caller, Crash(k) PROVE TypeOK'
  <2>1. caller' \in [Caller -> Callers]
    BY <1>12, <1>a, CallerMoves DEF Crash
  <2>2. crashes' \in 0..MaxCrashes
    BY <1>12, CrashesAssumption DEF Crash, TypeOK
  <2> QED
    BY <1>12, <2>1, <2>2 DEF Crash, TypeOK
<1>13. ASSUME NEW c \in Call, ExecutorTakes(c) PROVE TypeOK'
  BY <1>13 DEF ExecutorTakes, TypeOK
<1>14. ASSUME NEW v \in Verdict \union {BadPlan}, EditPlan(v) PROVE TypeOK'
  BY <1>14 DEF EditPlan, TypeOK
<1>15. CASE UNCHANGED vars
  BY <1>15 DEF vars, TypeOK
<1> QED
  BY <1>1, <1>2, <1>3, <1>4, <1>5, <1>6, <1>7, <1>8, <1>9, <1>10, <1>11, <1>12, <1>13, <1>14,
     <1>15 DEF Next, Advance

------------------------------------------------------------------------------
(* Nothing registered is taken back.                                       *)

LEMMA StepKeeps == TypeOK /\ CallerInv /\ [Next]_vars => Keeps
<1> SUFFICES ASSUME TypeOK, CallerInv, [Next]_vars PROVE Keeps
  OBVIOUS
<1> USE DEF ledgerVars, redisVars
<1>1. ASSUME UNCHANGED ledgerVars, UNCHANGED <<marker, content, failed>> PROVE Keeps
  BY <1>1 DEF Keeps
<1>2. ASSUME NEW k \in Caller, Claim(k) PROVE Keeps
  <2>1. LedgerOf[k] \in Ledger
    BY LedgerAssumption
  <2>2. \/ row' = row
        \/ row[LedgerOf[k]].input = NoInput /\ row' = [row EXCEPT ![LedgerOf[k]].input = In(k)]
    BY <1>2 DEF Claim, Mine
  <2>3. /\ \A l \in Ledger : row[l].input # NoInput => row'[l].input = row[l].input
        /\ \A l \in Ledger : row[l].queued => row'[l].queued
    <3>1. \A l \in Ledger : l # LedgerOf[k] => row'[l] = row[l]
      BY <2>1, <2>2 DEF TypeOK
    <3>2. /\ row[LedgerOf[k]].input # NoInput => row'[LedgerOf[k]].input = row[LedgerOf[k]].input
          /\ row'[LedgerOf[k]].queued = row[LedgerOf[k]].queued
      BY <2>1, <2>2 DEF TypeOK
    <3> QED
      BY <3>1, <3>2
  <2> QED
    BY <1>2, <2>3 DEF Claim, Keeps
<1>3. ASSUME NEW k \in Caller, RecordCall(k) PROVE Keeps
  BY <1>3, AtWork DEF RecordCall, At, Keeps, TypeOK
<1>4. ASSUME NEW k \in Caller, Eval(k) PROVE Keeps
  BY <1>4, AtWork DEF Eval, At, PublishCall, Keeps, TypeOK
<1>5. ASSUME NEW k \in Caller, Register(k) \/ Respond(k) PROVE Keeps
  BY <1>5, AtWork DEF Register, Respond, At, Keeps, TypeOK
<1>6. ASSUME NEW k \in Caller, Done(k) PROVE Keeps
  BY <1>6, AtWork DEF Done, At, Keeps, TypeOK
<1> QED
  BY <1>1, <1>2, <1>3, <1>4, <1>5, <1>6
     DEF Next, Advance, Start, LoadDone, GetMarker, LoadPrior, ResolvePlan, Crash, ExecutorTakes,
         EditPlan, vars

------------------------------------------------------------------------------
(* The invariant.                                                          *)

(* What a caller relies on stays true while others move. *)
LEMMA OthersKeepCaller ==
  ASSUME TypeOK, Keeps, NEW k \in Caller, CallerOK(k), caller'[k] = caller[k]
  PROVE  CallerOK(k)'
<1>1. CASE caller[k].pc \in {"idle", "claim"}
  BY <1>1 DEF CallerOK, At, In
<1>2. CASE caller[k].pc \notin {"idle", "claim"}
  <2>1. /\ In(k) \in Input /\ In(k) # NoInput /\ Key(k) \in Call /\ LedgerOf[k] \in Ledger
        /\ In(k)' = In(k) /\ Key(k)' = Key(k)
        /\ Mine(k).input = In(k)
    BY <1>2, KeysTyped, LedgerAssumption DEF CallerOK, Key, In, At
  <2>2. Mine(k)'.input = In(k) /\ (Mine(k).queued => Mine(k)'.queued)
    BY <2>1 DEF Keeps, Mine
  <2>3. marker[Key(k)] = In(k) => marker'[Key(k)] = In(k) /\ content'[Key(k)] = content[Key(k)]
    BY <2>1 DEF Keeps
  <2>4. Registered(k) => Registered(k)'
    BY <2>1, <2>3 DEF Registered
  <2>5. /\ calls[LedgerOf[k]] \subseteq calls'[LedgerOf[k]]
        /\ answered[LedgerOf[k]] \subseteq answered'[LedgerOf[k]] /\ failed \subseteq failed'
    BY <2>1 DEF Keeps
  <2> QED
    BY <1>2, <2>1, <2>2, <2>3, <2>4, <2>5 DEF CallerOK, At
<1> QED
  BY <1>1, <1>2

(* A caller that moves without touching the store. *)
LEMMA StepCallers == TypeOK /\ IInv /\ [Next]_vars => CallerInv'
<1> SUFFICES ASSUME TypeOK, IInv, [Next]_vars PROVE CallerInv'
  OBVIOUS
<1> USE DEF ledgerVars, redisVars
<1>a. Keeps /\ CallerInv /\ caller \in [Caller -> Callers]
  BY StepKeeps DEF IInv, TypeOK
<1>b. \A k \in Caller : caller'[k] = caller[k] => CallerOK(k)'
  BY <1>a, OthersKeepCaller DEF CallerInv
<1>c. ASSUME NEW k \in Caller, CallerOK(k)', \A q \in Caller : q # k => caller'[q] = caller[q]
      PROVE  CallerInv'
  BY <1>b, <1>c DEF CallerInv
<1>d. ASSUME NEW k \in Caller, Raise(k) PROVE CallerInv'
  <2>1. CallerOK(k)'
    BY <1>a, <1>d, CallerMoves DEF CallerOK, At
  <2> QED
    BY <1>a, <1>c, <1>d, <2>1, CallerMoves
<1>e. \A k \in Caller : ~At(k, "idle") =>
        /\ In(k) \in Input /\ In(k) # NoInput /\ Key(k) \in Call /\ LedgerOf[k] \in Ledger
        /\ content[Key(k)] \in Contents /\ content[Key(k)].plan \in Verdict
        /\ caller[k].verdict \in Verdict
  BY <1>a, AtWork
<1>f. \A k \in Caller : CallerOK(k)
  BY <1>a DEF CallerInv
<1>1. ASSUME NEW k \in Caller, NEW i \in Input, Start(k, i) PROVE CallerInv'
  <2>1. /\ caller'[k].pc = "claim" /\ caller'[k].input = i /\ caller'[k].verdict = NoPlan
        /\ \A q \in Caller : q # k => caller'[q] = caller[q]
    <3>1. caller[k].verdict = NoPlan
      BY <1>1, <1>f DEF Start, CallerOK, At
    <3> QED
      BY <1>1, <1>a, <3>1, CallerMoves DEF Start
  <2>2. CallerOK(k)'
    BY <2>1 DEF CallerOK, At, In
  <2> QED
    BY <1>c, <2>1, <2>2
<1>2. ASSUME NEW k \in Caller, Claim(k) PROVE CallerInv'
  <2>1. CASE Raise(k)
    BY <1>d, <2>1
  <2>2. ASSUME NEW l \in {"get", "load"}, Goto(k, l), l = "load" => Mine(k)'.queued,
               Mine(k)'.input = In(k)
        PROVE  CallerInv'
    <3>1. /\ caller'[k].pc = l /\ caller'[k].input = caller[k].input
          /\ caller'[k].verdict = caller[k].verdict
          /\ \A q \in Caller : q # k => caller'[q] = caller[q]
      BY <1>a, <2>2, CallerMoves DEF Labels
    <3>2. CallerOK(k)'
      BY <1>2, <1>e, <1>f, <2>2, <3>1 DEF Claim, CallerOK, At, In
    <3> QED
      BY <1>c, <3>1, <3>2
  <2>3. CASE Mine(k).input = NoInput /\ row' = [row EXCEPT ![LedgerOf[k]].input = In(k)] /\ Goto(k, "get")
    BY <2>2, <2>3, LedgerAssumption DEF Mine, TypeOK
  <2>4. CASE Mine(k).input = In(k) /\ row' = row /\ Goto(k, IF Mine(k).queued THEN "load" ELSE "get")
    BY <2>2, <2>4 DEF Mine
  <2> QED
    BY <1>2, <2>1, <2>3, <2>4 DEF Claim
<1>3. ASSUME NEW k \in Caller, LoadDone(k) \/ Done(k) \/ Crash(k) PROVE CallerInv'
  BY <1>3, <1>d DEF LoadDone, Done, Crash, Return
<1>4. ASSUME NEW k \in Caller, GetMarker(k) PROVE CallerInv'
  <2>1. CASE Raise(k)
    BY <1>d, <2>1
  <2>2. ASSUME NEW l \in {"plan", "load_prior"}, Goto(k, l), l = "load_prior" => marker[Key(k)] = In(k)
        PROVE  CallerInv'
    <3>1. /\ caller'[k].pc = l /\ caller'[k].input = caller[k].input
          /\ caller'[k].verdict = caller[k].verdict
          /\ \A q \in Caller : q # k => caller'[q] = caller[q]
      BY <1>a, <2>2, CallerMoves DEF Labels
    <3>2. CallerOK(k)'
      BY <1>4, <1>e, <1>f, <2>2, <3>1 DEF GetMarker, CallerOK, At, In, Key, Mine
    <3> QED
      BY <1>c, <3>1, <3>2
  <2> QED
    BY <1>4, <2>1, <2>2 DEF GetMarker
(* A caller that settles knows what is registered. *)
<1>s. ASSUME NEW k \in Caller, caller[k].pc \in {"load_prior", "eval"}, NEW v \in Verdict, Settle(k, v),
             marker'[Key(k)] = In(k), content'[Key(k)] = [input |-> In(k), plan |-> v], row' = row
      PROVE  CallerInv'
  <2>1. /\ v = NoPlan => caller'[k].pc = "register"
        /\ v # NoPlan => caller'[k].pc = "done"
        /\ caller'[k].input = caller[k].input /\ caller'[k].verdict = v
        /\ \A q \in Caller : q # k => caller'[q] = caller[q]
    BY <1>a, <1>s, SettleMoves
  <2>2. Registered(k)'
    BY <1>s, <2>1 DEF Registered, In, Key
  <2>3. CallerOK(k)'
    BY <1>e, <1>f, <1>s, <2>1, <2>2 DEF CallerOK, At, In, Key, Mine
  <2> QED
    BY <1>c, <2>1, <2>3
<1>5. ASSUME NEW k \in Caller, LoadPrior(k) PROVE CallerInv'
  <2>1. content[Key(k)] = [input |-> In(k), plan |-> content[Key(k)].plan]
    BY <1>5, <1>e, <1>f DEF LoadPrior, CallerOK, At, IInv, StoreInv, Contents
  <2> QED
    BY <1>5, <1>e, <1>f, <1>s, <2>1 DEF LoadPrior, CallerOK, At
<1>6. ASSUME NEW k \in Caller, ResolvePlan(k) PROVE CallerInv'
  <2>1. CASE Raise(k)
    BY <1>d, <2>1
  <2>2. ASSUME caller'[k].pc = "record", caller'[k].input = caller[k].input,
               caller'[k].verdict # NoPlan => In(k) \in Ready,
               \A q \in Caller : q # k => caller'[q] = caller[q]
        PROVE  CallerInv'
    <3>1. CallerOK(k)'
      BY <1>6, <1>e, <1>f, <2>2 DEF ResolvePlan, CallerOK, At, In, Mine
    <3> QED
      BY <1>c, <2>2, <3>1
  <2>3. CASE In(k) \notin Ready /\ Goto(k, "record")
    <3>1. caller[k].verdict = NoPlan
      BY <1>6, <1>f DEF ResolvePlan, CallerOK, At
    <3>2. /\ caller'[k].pc = "record" /\ caller'[k].input = caller[k].input
          /\ caller'[k].verdict = caller[k].verdict
          /\ \A q \in Caller : q # k => caller'[q] = caller[q]
      BY <1>a, <2>3, CallerMoves DEF Labels
    <3> QED
      BY <2>2, <3>1, <3>2
  <2>4. CASE /\ In(k) \in Ready /\ control # BadPlan
             /\ caller' = [caller EXCEPT ![k] = [@ EXCEPT !.pc = "record", !.verdict = control]]
    <3>1. control \in Verdict /\ "record" \in Labels
      BY <2>4 DEF TypeOK, Labels
    <3>2. /\ caller'[k].pc = "record" /\ caller'[k].input = caller[k].input
          /\ \A q \in Caller : q # k => caller'[q] = caller[q]
      <4>1. Decides(k, "record", control)
        BY <2>4 DEF Decides
      <4> QED
        BY <1>a, <4>1, <3>1, CallerMoves
    <3> QED
      BY <2>2, <2>4, <3>2
  <2> QED
    BY <1>6, <2>1, <2>3, <2>4 DEF ResolvePlan
<1>7. ASSUME NEW k \in Caller, RecordCall(k) PROVE CallerInv'
  <2>1. /\ caller'[k].pc = "eval" /\ caller'[k].input = caller[k].input
        /\ caller'[k].verdict = caller[k].verdict
        /\ \A q \in Caller : q # k => caller'[q] = caller[q]
    BY <1>7, <1>a, CallerMoves DEF RecordCall, Labels
  <2>2. Key(k) \in calls'[LedgerOf[k]]
    BY <1>7, <1>e DEF RecordCall, At, TypeOK
  <2>3. CallerOK(k)'
    BY <1>7, <1>e, <1>f, <2>1, <2>2 DEF RecordCall, CallerOK, At, In, Key, Mine
  <2> QED
    BY <1>c, <2>1, <2>3
<1>8. ASSUME NEW k \in Caller, Eval(k) PROVE CallerInv'
  <2>1. CASE Raise(k)
    BY <1>d, <2>1
  <2>2. CASE marker[Key(k)] = NoInput /\ PublishCall(k) /\ Settle(k, caller[k].verdict)
    <3>1. /\ marker'[Key(k)] = In(k)
          /\ content'[Key(k)] = [input |-> In(k), plan |-> caller[k].verdict]
      BY <1>8, <1>e, <2>2 DEF Eval, At, PublishCall, TypeOK
    <3> QED
      BY <1>8, <1>e, <1>s, <2>2, <3>1 DEF Eval, At
  <2>3. CASE marker[Key(k)] = In(k) /\ Goto(k, "load_prior") /\ UNCHANGED marker
    <3>1. /\ caller'[k].pc = "load_prior" /\ caller'[k].input = caller[k].input
          /\ caller'[k].verdict = caller[k].verdict
          /\ \A q \in Caller : q # k => caller'[q] = caller[q]
      BY <1>a, <2>3, CallerMoves DEF Labels
    <3>2. CallerOK(k)'
      BY <1>8, <1>e, <1>f, <2>3, <3>1 DEF Eval, CallerOK, At, In, Key, Mine
    <3> QED
      BY <1>c, <3>1, <3>2
  <2> QED
    BY <1>8, <2>1, <2>2, <2>3 DEF Eval
<1>9. ASSUME NEW k \in Caller, Register(k) PROVE CallerInv'
  <2>1. /\ caller'[k].pc = "respond" /\ caller'[k].input = caller[k].input
        /\ caller'[k].verdict = caller[k].verdict
        /\ \A q \in Caller : q # k => caller'[q] = caller[q]
    BY <1>9, <1>a, CallerMoves DEF Register, Labels
  <2>2. Registered(k)'
    BY <1>9, <1>f, <2>1 DEF Register, CallerOK, At, Registered, In, Key
  <2>3. CallerOK(k)'
    BY <1>9, <1>e, <1>f, <2>1, <2>2 DEF Register, CallerOK, At, In, Key, Mine
  <2> QED
    BY <1>c, <2>1, <2>3
<1>10. ASSUME NEW k \in Caller, Respond(k) PROVE CallerInv'
  <2>1. CASE Raise(k)
    BY <1>d, <2>1
  <2>2. CASE /\ answered' = [answered EXCEPT ![LedgerOf[k]] = @ \union {Key(k)}]
             /\ Goto(k, "done")
    <3>1. /\ caller'[k].pc = "done" /\ caller'[k].input = caller[k].input
          /\ caller'[k].verdict = caller[k].verdict
          /\ \A q \in Caller : q # k => caller'[q] = caller[q]
      BY <1>a, <2>2, CallerMoves DEF Labels
    <3>2. Registered(k)' /\ Key(k) \in answered'[LedgerOf[k]] /\ Key(k) \in failed'
      BY <1>10, <1>e, <1>f, <2>2, <3>1 DEF Respond, CallerOK, At, Registered, In, Key, TypeOK
    <3>3. CallerOK(k)'
      BY <1>10, <1>e, <1>f, <3>1, <3>2 DEF Respond, CallerOK, At, In, Key, Mine
    <3> QED
      BY <1>c, <3>1, <3>3
  <2> QED
    BY <1>10, <2>1, <2>2 DEF Respond
<1>11. ASSUME UNCHANGED caller PROVE CallerInv'
  BY <1>b, <1>11 DEF CallerInv
<1> QED
  BY <1>1, <1>2, <1>3, <1>4, <1>5, <1>6, <1>7, <1>8, <1>9, <1>10, <1>11
     DEF Next, Advance, ExecutorTakes, EditPlan, vars

(* Only a call without a marker is published, and queued. *)
LEMMA StepStore == TypeOK /\ IInv /\ [Next]_vars => StoreInv'
<1> SUFFICES ASSUME TypeOK, IInv, [Next]_vars PROVE StoreInv'
  OBVIOUS
<1> USE DEF ledgerVars, redisVars
<1>a. Keeps /\ CallerInv /\ StoreInv
  BY StepKeeps DEF IInv
<1>1. ASSUME UNCHANGED <<marker, content, pushed>> PROVE StoreInv'
  BY <1>1, <1>a DEF StoreInv, QueueIsExecutable, Keeps
<1>2. ASSUME NEW k \in Caller, Eval(k), marker[Key(k)] = NoInput, PublishCall(k),
             IF In(k) \in Queued /\ caller[k].verdict # NoPlan
             THEN Push(k) ELSE UNCHANGED <<queue, pushed>>
      PROVE  StoreInv'
  <2>t. PICK c \in Call, i \in Input, v \in Verdict :
          c = Key(k) /\ i = In(k) /\ v = caller[k].verdict /\ i # NoInput
    BY <1>2, <1>a, AtWork DEF Eval, At
  <2>1. /\ pushed[c] = 0 /\ pushed'[c] \in {0, 1}
        /\ pushed'[c] = 1 => i \in Queued /\ v # NoPlan
        /\ \A e \in Call : e # c => pushed'[e] = pushed[e]
    BY <1>2, <1>a, <2>t DEF StoreInv, Push, TypeOK
  <2>2. /\ marker'[c] = i /\ content'[c] = [input |-> i, plan |-> v]
        /\ \A e \in Call : e # c => marker'[e] = marker[e] /\ content'[e] = content[e]
    BY <1>2, <2>t DEF PublishCall, TypeOK
  <2>3. /\ v # NoPlan => i \in Ready
        /\ \E l \in Ledger : c \in calls[l]
    BY <1>2, <1>a, <2>t, LedgerAssumption DEF CallerInv, CallerOK, Eval, At
  <2>4. calls' = calls
    BY <1>2 DEF Eval
  <2>5. QueueIsExecutable'
    BY <1>a, <2>1, <2>2, <2>3, <2>4 DEF StoreInv, QueueIsExecutable
  <2> QED
    BY <1>a, <2>t, <2>1, <2>2, <2>5 DEF StoreInv
<1>3. ASSUME NEW k \in Caller, Eval(k) PROVE StoreInv'
  BY <1>1, <1>2, <1>3 DEF Eval
<1> QED
  BY <1>1, <1>3 DEF Next, Advance, Start, Claim, LoadDone, GetMarker, LoadPrior, ResolvePlan,
        RecordCall, Register, Respond, Done, Crash, ExecutorTakes, EditPlan, vars

(* A row is marked only by a caller that has seen its input through. *)
LEMMA StepRows == TypeOK /\ IInv /\ [Next]_vars => QueuedMeansFinished'
<1> SUFFICES ASSUME TypeOK, IInv, [Next]_vars, NEW l \in Ledger, row'[l].queued
             PROVE  LET i == row'[l].input
                        c == CallOf[i]
                    IN  /\ i # NoInput /\ marker'[c] = i /\ content'[c].input = i
                        /\ content'[c].plan = NoPlan => c \in failed' /\ c \in answered'[l]
  BY DEF QueuedMeansFinished
<1> USE DEF ledgerVars, redisVars
<1>a. Keeps /\ CallerInv /\ QueuedMeansFinished
  BY StepKeeps DEF IInv
<1>1. CASE row[l].queued
  <2>t. PICK i : i = row[l].input /\ i \in Input /\ CallOf[i] \in Call /\ i # NoInput
    BY <1>1, <1>a, KeysTyped DEF QueuedMeansFinished, TypeOK
  <2>1. row'[l].input = i
    BY <1>a, <2>t DEF Keeps
  <2>2. marker[CallOf[i]] = i /\ content[CallOf[i]].input = i
        /\ (content[CallOf[i]].plan = NoPlan => CallOf[i] \in failed /\ CallOf[i] \in answered[l])
    BY <1>1, <1>a, <2>t DEF QueuedMeansFinished
  <2>3. marker'[CallOf[i]] = i /\ content'[CallOf[i]] = content[CallOf[i]]
        /\ failed \subseteq failed' /\ answered[l] \subseteq answered'[l]
    BY <1>a, <2>t, <2>2 DEF Keeps
  <2> QED
    BY <2>t, <2>1, <2>2, <2>3
<1>2. CASE ~row[l].queued
  <2>1. PICK k \in Caller : Done(k) /\ LedgerOf[k] = l
    <3>1. \/ row' = row
          \/ \E k \in Caller : Done(k)
          \/ \E k \in Caller : row' = [row EXCEPT ![LedgerOf[k]].input = In(k)]
      BY DEF Next, Advance, Start, Claim, LoadDone, GetMarker, LoadPrior, ResolvePlan,
             RecordCall, Eval, Register, Respond, Crash, ExecutorTakes, EditPlan, vars
    <3>2. row' # row
      BY <1>2
    <3>3. ASSUME NEW k \in Caller, row' = [row EXCEPT ![LedgerOf[k]].input = In(k)] PROVE FALSE
      BY <3>3, <1>2, LedgerAssumption DEF TypeOK
    <3>4. ASSUME NEW k \in Caller, Done(k), LedgerOf[k] # l PROVE FALSE
      BY <3>4, <1>2, LedgerAssumption DEF Done, TypeOK
    <3> QED
      BY <3>1, <3>2, <3>3, <3>4
  <2>2. /\ Mine(k).input = In(k) /\ In(k) # NoInput /\ Registered(k)
        /\ caller[k].verdict = NoPlan => Key(k) \in failed /\ Key(k) \in answered[l]
    BY <1>a, <2>1, AtWork DEF CallerInv, CallerOK, Done, At
  <2>3. row'[l].input = In(k)
    BY <2>1, <2>2 DEF Done, Mine, TypeOK
  <2>4. marker' = marker /\ content' = content /\ failed' = failed /\ answered' = answered
    BY <2>1 DEF Done
  <2> QED
    BY <2>2, <2>3, <2>4 DEF Registered, Key
<1> QED
  BY <1>1, <1>2

(* What is returned is what is published, and that stays. *)
LEMMA StepVerdicts == TypeOK /\ IInv /\ [Next]_vars => VerdictsAgree'
<1> SUFFICES ASSUME TypeOK, IInv, [Next]_vars PROVE VerdictsAgree'
  OBVIOUS
<1> USE DEF ledgerVars, redisVars
<1>a. Keeps /\ CallerInv /\ StoreInv /\ QueuedMeansFinished /\ VerdictsAgree
  BY StepKeeps DEF IInv
<1>1. ASSUME NEW i \in Input, NEW v \in verdicts[i] PROVE content'[CallOf[i]] = [input |-> i, plan |-> v]
  <2>1. CallOf[i] \in Call /\ i # NoInput /\ content[CallOf[i]] = [input |-> i, plan |-> v]
    BY <1>a, <1>1, KeysTyped DEF VerdictsAgree
  <2>2. marker[CallOf[i]] = i
    BY <1>a, <2>1 DEF StoreInv
  <2> QED
    BY <1>a, <2>1, <2>2 DEF Keeps
<1>2. ASSUME UNCHANGED verdicts PROVE VerdictsAgree'
  BY <1>1, <1>2 DEF VerdictsAgree
<1>3. ASSUME NEW k \in Caller, NEW v, ~At(k, "idle"), Return(k, v),
             content'[Key(k)] = [input |-> In(k), plan |-> v]
      PROVE  VerdictsAgree'
  <2>1. \A i \in Input : verdicts'[i] = IF i = In(k) THEN verdicts[i] \union {v} ELSE verdicts[i]
    BY <1>3 DEF Return, TypeOK
  <2> SUFFICES ASSUME NEW i \in Input, NEW u \in verdicts'[i]
               PROVE  content'[CallOf[i]] = [input |-> i, plan |-> u]
    BY DEF VerdictsAgree
  <2>2. CASE u \in verdicts[i]
    BY <1>1, <2>2
  <2>3. CASE u \notin verdicts[i]
    <3>1. i = In(k) /\ u = v
      BY <2>1, <2>3
    <3> QED
      BY <1>3, <3>1 DEF Key
  <2> QED
    BY <2>2, <2>3
<1>4. ASSUME NEW k \in Caller, LoadDone(k) PROVE VerdictsAgree'
  <2>1. /\ In(k) \in Input /\ Key(k) \in Call /\ LedgerOf[k] \in Ledger /\ content[Key(k)] \in Contents
        /\ Mine(k).input = In(k) /\ Mine(k).queued
    BY <1>a, <1>4, AtWork DEF LoadDone, At, CallerInv, CallerOK
  <2>2. content[Key(k)].input = In(k)
    BY <1>a, <2>1 DEF QueuedMeansFinished, Mine, Key
  <2>3. content[Key(k)] = [input |-> In(k), plan |-> content[Key(k)].plan]
    BY <2>1, <2>2 DEF Contents
  <2> QED
    BY <1>3, <1>4, <2>3 DEF LoadDone, At
<1>5. ASSUME NEW k \in Caller, Done(k) PROVE VerdictsAgree'
  <2>1. content[Key(k)] = [input |-> In(k), plan |-> caller[k].verdict]
    BY <1>a, <1>5 DEF Done, At, CallerInv, CallerOK, Registered
  <2> QED
    BY <1>3, <1>5, <2>1 DEF Done, At
<1> QED
  BY <1>2, <1>4, <1>5 DEF Next, Advance, Start, Claim, GetMarker, LoadPrior, ResolvePlan,
        RecordCall, Eval, Register, Respond, Crash, ExecutorTakes, EditPlan, vars

LEMMA InitIInv == Init => IInv
BY DEF Init, IInv, StoreInv, CallerInv, CallerOK, QueuedMeansFinished, VerdictsAgree,
       QueueIsExecutable, NoContent, Idle, At

LEMMA Invariance == Spec => [](TypeOK /\ IInv)
<1>1. TypeOK /\ IInv /\ [Next]_vars => (TypeOK /\ IInv)'
  BY StepTyped, StepCallers, StepStore, StepRows, StepVerdicts DEF IInv
<1> QED
  BY <1>1, InitTyped, InitIInv, PTL DEF Spec

------------------------------------------------------------------------------
(* The theorems.                                                           *)

(* Every variable keeps its type in every behaviour.                       *)
THEOREM TypeCorrect == Spec => []TypeOK
BY Invariance, PTL

(* A call enters the executor queue at most once: it is pushed only by the *)
(* caller that finds no marker, and the marker stays.                      *)
THEOREM CallsQueuedOnce == Spec => []QueuedOnce
<1>1. IInv => QueuedOnce
  BY DEF IInv, StoreInv, QueuedOnce
<1> QED
  BY <1>1, Invariance, PTL

(* What the executor finds in the queue it can load. *)
THEOREM QueueHoldsExecutable == Spec => []QueueIsExecutable
<1>1. IInv => QueueIsExecutable
  BY DEF IInv, StoreInv
<1> QED
  BY <1>1, Invariance, PTL

(* A row that says queued has nothing left to do. *)
THEOREM QueuedRowsFinished == Spec => []QueuedMeansFinished
<1>1. IInv => QueuedMeansFinished
  BY DEF IInv
<1> QED
  BY <1>1, Invariance, PTL

(* Every caller of an input is told the same. *)
THEOREM SameVerdict == Spec => []VerdictsAgree
<1>1. IInv => VerdictsAgree
  BY DEF IInv
<1> QED
  BY <1>1, Invariance, PTL

(* A binding is for good: row, marker and content are written only where   *)
(* they are still unset.                                                   *)
THEOREM BindingsAreForGood == Spec => BindingsStay
<1>1. TypeOK /\ IInv /\ [Next]_vars =>
        [/\ \A l \in Ledger : row[l].input # NoInput => row'[l].input = row[l].input
         /\ \A c \in Call : marker[c] # NoInput =>
              marker'[c] = marker[c] /\ content'[c] = content[c]]_vars
  BY StepKeeps DEF IInv, Keeps
<1> QED
  BY <1>1, Invariance, PTL DEF Spec, BindingsStay

==============================================================================
