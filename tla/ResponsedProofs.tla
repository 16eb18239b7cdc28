--------------------------- MODULE ResponsedProofs ---------------------------
(***************************************************************************)
(* Proofs about Responsed, for any calls, routes and processes, and any    *)
(* bound on notices, losses, errors and crashes: the types, that an export *)
(* fact is backed, that only successes are written, and that a pass writes *)
(* a destination in the order of the call ids.                             *)
(***************************************************************************)
EXTENDS Responsed, TLAPS

------------------------------------------------------------------------------
(* The inductive invariant, in named parts.                                *)

Working == {"read", "write", "receipt", "export"}

(* A process works on one listed call, which nothing has blocked and which *)
(* comes before what is left of the batch.                                 *)
InHand(p) ==
  /\ proc[p].pc \notin Working => proc[p].call = {}
  /\ proc[p].pc \in Working => \E c \in Call : Current(p, c)
  /\ \A c \in Call : Current(p, c) =>
       /\ c \in proc[p].listed /\ ~IsBlocked(p, c)
       /\ \A d \in proc[p].batch : c < d

(* Whatever it knows of that call is still so.                             *)
Knows(p) ==
  \A c \in Call : Current(p, c) =>
    /\ At(p, "write") /\ proc[p].good => c \in succeeded
    /\ At(p, "receipt") \/ At(p, "export") => c \in written
    /\ At(p, "export") => receipts[c] # "none"

(* What is listed has a route; when it is neither ahead nor in hand, it is *)
(* written or its destination is blocked.                                  *)
Behind(p) ==
  /\ \A b \in proc[p].listed : RouteOf[b] # NoRoute
  /\ \A b \in proc[p].listed :
       b \in proc[p].batch \/ Current(p, b) \/ b \in written \/ IsBlocked(p, b)

ProcOK(p) == InHand(p) /\ Knows(p) /\ Behind(p)
ProcInv == \A p \in Proc : ProcOK(p)

(* An SSH completer that goes on to the export fact has stored a receipt.  *)
Shipped == \A c \in Call : delivery[c] = "receipt" => receipts[c] # "none"

IInv == ProcInv /\ Shipped /\ ExportIsBacked /\ OnlySuccessWritten

(* What every step keeps: nothing applied or delivered is taken back, and  *)
(* a receipt that was stored has been stored.                              *)
Keeps ==
  /\ written \subseteq written' /\ succeeded \subseteq succeeded'
  /\ \A c \in Call : receipts[c] # "none" => receipts'[c] # "none"
  /\ \A c \in Call : delivery[c] # "none" => delivery'[c] # "none"

OthersKeep(p) == \A q \in Proc : q # p => proc'[q] = proc[q]

------------------------------------------------------------------------------
(* Types, and what the moves of a process do to it.                        *)

LEMMA RestingTyped == \A l \in Labels :
  /\ Resting(l) \in Processes
  /\ Resting(l).pc = l /\ Resting(l).call = {} /\ Resting(l).listed = {}
BY DEF Resting, Processes

LEMMA Fields ==
  ASSUME TypeOK, NEW p \in Proc
  PROVE  /\ proc[p] \in Processes
         /\ proc[p].pc \in Labels /\ proc[p].good \in BOOLEAN
         /\ proc[p].batch \subseteq Call /\ proc[p].listed \subseteq Call
         /\ proc[p].blocked \subseteq Call /\ proc[p].call \subseteq Call
BY DEF TypeOK, Processes

LEMMA Becomes ==
  ASSUME TypeOK, NEW p \in Proc, NEW r \in Processes, proc' = [proc EXCEPT ![p] = r]
  PROVE  proc' \in [Proc -> Processes] /\ proc'[p] = r /\ OthersKeep(p)
BY DEF TypeOK, OthersKeep

(* A pass that ends, starts or stops leaves a process at rest. *)
LEMMA Rests ==
  ASSUME TypeOK, NEW p \in Proc, NEW l \in Labels, proc' = [proc EXCEPT ![p] = Resting(l)]
  PROVE  /\ proc' \in [Proc -> Processes] /\ OthersKeep(p)
         /\ proc'[p].pc = l /\ proc'[p].call = {} /\ proc'[p].listed = {}
<1>1. Resting(l) \in Processes
  BY RestingTyped
<1>2. proc' \in [Proc -> Processes] /\ proc'[p] = Resting(l) /\ OthersKeep(p)
  BY <1>1, Becomes
<1> QED
  BY <1>2, RestingTyped

LEMMA EndPassRests ==
  ASSUME TypeOK, NEW p \in Proc, EndPass(p)
  PROVE  /\ proc' \in [Proc -> Processes] /\ OthersKeep(p)
         /\ proc'[p].pc \notin Working /\ proc'[p].call = {} /\ proc'[p].listed = {}
<1> DEFINE l == IF p = Daemon THEN "wait" ELSE "down"
<1>1. l \in Labels /\ l \notin Working
  BY DEF Labels, Working
<1>2. proc' = [proc EXCEPT ![p] = Resting(l)]
  BY DEF EndPass
<1> HIDE DEF l
<1> QED
  BY <1>1, <1>2, Rests

LEMMA GotoMoves ==
  ASSUME TypeOK, NEW p \in Proc, NEW l \in Labels, Goto(p, l)
  PROVE  /\ proc' \in [Proc -> Processes] /\ OthersKeep(p)
         /\ proc'[p].pc = l /\ proc'[p].good = proc[p].good
         /\ proc'[p].batch = proc[p].batch /\ proc'[p].listed = proc[p].listed
         /\ proc'[p].blocked = proc[p].blocked /\ proc'[p].call = proc[p].call
<1> DEFINE r == [proc[p] EXCEPT !.pc = l]
<1>1. /\ r \in Processes /\ r.pc = l /\ r.good = proc[p].good /\ r.batch = proc[p].batch
      /\ r.listed = proc[p].listed /\ r.blocked = proc[p].blocked /\ r.call = proc[p].call
  BY Fields DEF Processes
<1>2. proc' = [proc EXCEPT ![p] = r]
  BY DEF Goto
<1> HIDE DEF r
<1> QED
  BY <1>1, <1>2, Becomes

LEMMA DropMoves ==
  ASSUME TypeOK, NEW p \in Proc, NEW c \in Call, Drop(p, c)
  PROVE  /\ proc' \in [Proc -> Processes] /\ OthersKeep(p)
         /\ proc'[p].pc = proc[p].pc /\ proc'[p].batch = proc[p].batch \ {c}
         /\ proc'[p].listed = proc[p].listed /\ proc'[p].blocked = proc[p].blocked
         /\ proc'[p].call = proc[p].call
<1> DEFINE r == [proc[p] EXCEPT !.batch = proc[p].batch \ {c}]
<1>1. /\ r \in Processes /\ r.pc = proc[p].pc /\ r.batch = proc[p].batch \ {c}
      /\ r.listed = proc[p].listed /\ r.blocked = proc[p].blocked /\ r.call = proc[p].call
  BY Fields DEF Processes
<1>2. proc' = [proc EXCEPT ![p] = r]
  BY DEF Drop
<1> HIDE DEF r
<1> QED
  BY <1>1, <1>2, Becomes

LEMMA BlockMoves ==
  ASSUME TypeOK, NEW p \in Proc, NEW c \in Call, Block(p, c)
  PROVE  /\ proc' \in [Proc -> Processes] /\ OthersKeep(p)
         /\ proc'[p].pc = "loop" /\ proc'[p].batch = proc[p].batch
         /\ proc'[p].listed = proc[p].listed /\ proc'[p].call = {}
         /\ proc'[p].blocked = proc[p].blocked \union {c}
<1> DEFINE r == [proc[p] EXCEPT !.pc = "loop", !.blocked = proc[p].blocked \union {c},
                                !.call = {}, !.good = FALSE]
<1>1. /\ r \in Processes /\ r.pc = "loop" /\ r.batch = proc[p].batch
      /\ r.listed = proc[p].listed /\ r.call = {} /\ r.blocked = proc[p].blocked \union {c}
  BY Fields DEF Processes, Labels
<1>2. proc' = [proc EXCEPT ![p] = r]
  BY DEF Block, TypeOK, Processes
<1> HIDE DEF r
<1> QED
  BY <1>1, <1>2, Becomes

(* A pass takes up what is pending. *)
Takes(p) == proc' = [proc EXCEPT ![p] =
  [@ EXCEPT !.pc = "loop", !.batch = Pending, !.listed = {c \in Pending : Routable(c)}]]

LEMMA TakesMoves ==
  ASSUME TypeOK, NEW p \in Proc, Takes(p)
  PROVE  /\ proc' \in [Proc -> Processes] /\ OthersKeep(p)
         /\ proc'[p].pc = "loop" /\ proc'[p].batch = Pending
         /\ proc'[p].listed = {c \in Pending : Routable(c)} /\ proc'[p].call = proc[p].call
<1> DEFINE r == [proc[p] EXCEPT !.pc = "loop", !.batch = Pending,
                                !.listed = {c \in Pending : Routable(c)}]
<1>1. Pending \subseteq Call
  BY DEF TypeOK, Pending
<1>2. /\ r \in Processes /\ r.pc = "loop" /\ r.batch = Pending
      /\ r.listed = {c \in Pending : Routable(c)} /\ r.call = proc[p].call
  BY <1>1, Fields DEF Processes, Labels
<1>3. proc' = [proc EXCEPT ![p] = r]
  BY DEF Takes
<1> HIDE DEF r
<1> QED
  BY <1>2, <1>3, Becomes

LEMMA AttemptMoves ==
  ASSUME TypeOK, NEW p \in Proc, NEW c \in Call, Attempt(p, c)
  PROVE  /\ proc' \in [Proc -> Processes] /\ OthersKeep(p)
         /\ proc'[p].pc = "read" /\ proc'[p].batch = proc[p].batch \ {c}
         /\ proc'[p].listed = proc[p].listed /\ proc'[p].call = {c}
         /\ proc'[p].blocked = proc[p].blocked
<1> DEFINE r == [proc[p] EXCEPT !.pc = "read", !.batch = proc[p].batch \ {c}, !.call = {c}]
<1>1. /\ r \in Processes /\ r.pc = "read" /\ r.batch = proc[p].batch \ {c}
      /\ r.listed = proc[p].listed /\ r.call = {c} /\ r.blocked = proc[p].blocked
  BY Fields DEF Processes, Labels
<1>2. proc' = [proc EXCEPT ![p] = r]
  BY DEF Attempt, TypeOK, Processes
<1> HIDE DEF r
<1> QED
  BY <1>1, <1>2, Becomes

(* A response that could be read, and one whose export is recorded. *)
Judged(p, c) == proc' = [proc EXCEPT ![p] = [@ EXCEPT !.pc = "write", !.good = c \in succeeded]]
Exported(p) == proc' = [proc EXCEPT ![p] = [@ EXCEPT !.pc = "loop", !.call = {}, !.good = FALSE]]

LEMMA JudgedMoves ==
  ASSUME TypeOK, NEW p \in Proc, NEW c \in Call, Judged(p, c)
  PROVE  /\ proc' \in [Proc -> Processes] /\ OthersKeep(p)
         /\ proc'[p].pc = "write" /\ proc'[p].batch = proc[p].batch
         /\ proc'[p].listed = proc[p].listed /\ proc'[p].call = proc[p].call
         /\ proc'[p].blocked = proc[p].blocked /\ proc'[p].good = (c \in succeeded)
<1> DEFINE r == [proc[p] EXCEPT !.pc = "write", !.good = c \in succeeded]
<1>1. (c \in succeeded) \in BOOLEAN
  OBVIOUS
<1>2. /\ r \in Processes /\ r.pc = "write" /\ r.batch = proc[p].batch
      /\ r.listed = proc[p].listed /\ r.call = proc[p].call /\ r.blocked = proc[p].blocked
      /\ r.good = (c \in succeeded)
  BY <1>1, Fields DEF Processes, Labels
<1>3. proc' = [proc EXCEPT ![p] = r]
  BY DEF Judged
<1> HIDE DEF r
<1> QED
  BY <1>2, <1>3, Becomes

LEMMA ExportedMoves ==
  ASSUME TypeOK, NEW p \in Proc, Exported(p)
  PROVE  /\ proc' \in [Proc -> Processes] /\ OthersKeep(p)
         /\ proc'[p].pc = "loop" /\ proc'[p].batch = proc[p].batch
         /\ proc'[p].listed = proc[p].listed /\ proc'[p].call = {}
         /\ proc'[p].blocked = proc[p].blocked
<1> DEFINE r == [proc[p] EXCEPT !.pc = "loop", !.call = {}, !.good = FALSE]
<1>1. /\ r \in Processes /\ r.pc = "loop" /\ r.batch = proc[p].batch
      /\ r.listed = proc[p].listed /\ r.call = {} /\ r.blocked = proc[p].blocked
  BY Fields DEF Processes, Labels
<1>2. proc' = [proc EXCEPT ![p] = r]
  BY DEF Exported
<1> HIDE DEF r
<1> QED
  BY <1>1, <1>2, Becomes

------------------------------------------------------------------------------
(* Every step leaves the types right and keeps what was applied.           *)

LEMMA InitTyped == Init => TypeOK
<1> SUFFICES ASSUME Init PROVE TypeOK
  OBVIOUS
<1>1. Resting("down") \in Processes
  BY RestingTyped DEF Labels
<1>2. proc \in [Proc -> Processes]
  BY <1>1 DEF Init
<1> QED
  BY <1>2, BoundsAssumption DEF Init, TypeOK, Receipts, Deliveries

(* The moves of one process, all in one place. *)
LEMMA PassMoves ==
  ASSUME TypeOK, NEW p \in Proc, Pass(p) \/ RunOnce(p) \/ Crash(p)
  PROVE  proc' \in [Proc -> Processes] /\ OthersKeep(p)
<1>1. CASE List(p)
  BY <1>1, EndPassRests, TakesMoves DEF List, Takes
<1>2. CASE ListFails(p) \/ Finish(p)
  BY <1>2, EndPassRests DEF ListFails, Finish
<1>3. ASSUME NEW c \in Call, Skip(p, c) \/ Defer(p, c)
      PROVE  proc' \in [Proc -> Processes] /\ OthersKeep(p)
  BY <1>3, DropMoves DEF Skip, Defer
<1>4. ASSUME NEW c \in Call, Attempt(p, c)
      PROVE  proc' \in [Proc -> Processes] /\ OthersKeep(p)
  BY <1>4, AttemptMoves
<1>5. ASSUME NEW c \in Call, Read(p, c)
      PROVE  proc' \in [Proc -> Processes] /\ OthersKeep(p)
  BY <1>5, BlockMoves, JudgedMoves DEF Read, Judged
<1>6. ASSUME NEW c \in Call, Write(p, c) \/ MarkReceipt(p, c)
      PROVE  proc' \in [Proc -> Processes] /\ OthersKeep(p)
  BY <1>6, BlockMoves, GotoMoves DEF Write, MarkReceipt, Labels
<1>7. ASSUME NEW c \in Call, MarkExport(p, c)
      PROVE  proc' \in [Proc -> Processes] /\ OthersKeep(p)
  BY <1>7, ExportedMoves DEF MarkExport, Exported
<1>8. ASSUME NEW c \in Call, RecordFails(p, c)
      PROVE  proc' \in [Proc -> Processes] /\ OthersKeep(p)
  BY <1>8, BlockMoves DEF RecordFails
<1>9. CASE RunOnce(p) \/ Crash(p)
  BY <1>9, Rests DEF RunOnce, Crash, Load, Labels
<1> QED
  BY <1>1, <1>2, <1>3, <1>4, <1>5, <1>6, <1>7, <1>8, <1>9 DEF Pass

(* What storing a receipt does. *)
LEMMA ReceiptStored ==
  ASSUME TypeOK, NEW c \in Call, NEW k \in Receipts
  PROVE  PutReceipt(c, k) =>
           /\ receipts' \in [Call -> Receipts] /\ receipts'[c] = k
           /\ \A d \in Call : d # c => receipts'[d] = receipts[d]
           /\ k # "none" => \A d \in Call : receipts[d] # "none" => receipts'[d] # "none"
BY DEF PutReceipt, TypeOK

(* What a step of a process does to the stores. *)
LEMMA PassStores ==
  ASSUME TypeOK, NEW p \in Proc, Pass(p) \/ RunOnce(p) \/ Crash(p)
  PROVE  /\ written' \subseteq Call /\ exports' \subseteq Call /\ receipts' \in [Call -> Receipts]
         /\ notices' \in 0..MaxNotices /\ errors' \in 0..MaxErrors /\ crashes' \in 0..MaxCrashes
         /\ UNCHANGED <<responded, succeeded, expired, lost, delivery>>
         /\ Keeps
<1> DEFINE Goal == /\ written' \subseteq Call /\ exports' \subseteq Call /\ receipts' \in [Call -> Receipts]
                   /\ notices' \in 0..MaxNotices /\ errors' \in 0..MaxErrors
                   /\ crashes' \in 0..MaxCrashes
                   /\ UNCHANGED <<responded, succeeded, expired, lost, delivery>>
                   /\ Keeps
<1> USE BoundsAssumption DEF TypeOK, Keeps, ledgerVars, redisVars, applied, faults
<1>1. CASE List(p) \/ Finish(p)
  BY <1>1 DEF List, Finish
<1>2. CASE ListFails(p)
  BY <1>2 DEF ListFails, AnError
<1>3. ASSUME NEW c \in Call, Skip(p, c) \/ Defer(p, c) \/ Attempt(p, c) \/ Read(p, c)
      PROVE  Goal
  BY <1>3 DEF Skip, Defer, Attempt, Read
<1>4. ASSUME NEW c \in Call, Write(p, c) \/ MarkReceipt(p, c) \/ MarkExport(p, c)
      PROVE  Goal
  BY <1>4, ReceiptStored DEF Receipts, Write, MarkReceipt, MarkExport
<1>5. ASSUME NEW c \in Call, RecordFails(p, c)
      PROVE  Goal
  <2>1. receipts' = receipts \/ PutReceipt(c, "repo")
    BY <1>5 DEF RecordFails
  <2>2. /\ written \subseteq written' /\ written' \subseteq Call /\ exports' \subseteq Call
    BY <1>5 DEF RecordFails
  <2>3. /\ receipts' \in [Call -> Receipts]
        /\ \A d \in Call : receipts[d] # "none" => receipts'[d] # "none"
    BY <2>1, ReceiptStored DEF Receipts
  <2> QED
    BY <1>5, <2>2, <2>3 DEF RecordFails, AnError
<1>6. CASE RunOnce(p)
  BY <1>6 DEF RunOnce
<1>7. CASE Crash(p)
  BY <1>7 DEF Crash
<1> QED
  BY <1>1, <1>2, <1>3, <1>4, <1>5, <1>6, <1>7 DEF Pass

(* What the rest of the system does leaves the processes alone, or wakes   *)
(* the daemon.                                                             *)
Outside ==
  \E c \in Call :
    \/ \E ok \in BOOLEAN : Respond(c, ok)
    \/ DeliverBySsh(c) \/ ReceiptBySsh(c) \/ ExportBySsh(c)
    \/ Expire(c) \/ ExpireReceipt(c) \/ Lose(c)
Wakes == Startup \/ Recv

LEMMA OutsideStep ==
  ASSUME TypeOK, Outside
  PROVE  TypeOK' /\ Keeps /\ proc' = proc /\ written' = written
<1> DEFINE Goal == TypeOK' /\ Keeps /\ proc' = proc /\ written' = written
<1> USE DEF Keeps, ledgerVars, redisVars, applied, faults
<1>1. ASSUME NEW c \in Call, Expire(c) \/ Lose(c) PROVE Goal
  BY <1>1 DEF Expire, Lose, TypeOK
<1>2. ASSUME NEW c \in Call, ExportBySsh(c) PROVE Goal
  BY <1>2 DEF ExportBySsh, TypeOK
<1>3. ASSUME NEW c \in Call, NEW ok \in BOOLEAN, Respond(c, ok) PROVE Goal
  BY <1>3 DEF Respond, Answered, TypeOK
<1>4. ASSUME NEW c \in Call, NEW l \in Deliveries, l # "none",
             delivery' = [delivery EXCEPT ![c] = l]
      PROVE  /\ delivery' \in [Call -> Deliveries] /\ delivery'[c] = l
             /\ \A d \in Call : delivery[d] # "none" => delivery'[d] # "none"
  BY <1>4 DEF TypeOK
<1>5. ASSUME NEW c \in Call, DeliverBySsh(c) PROVE Goal
  BY <1>5, <1>4 DEF DeliverBySsh, TypeOK, Deliveries
<1>6. ASSUME NEW c \in Call, ReceiptBySsh(c) PROVE Goal
  <2>1. /\ delivery' \in [Call -> Deliveries]
        /\ \A d \in Call : delivery[d] # "none" => delivery'[d] # "none"
    BY <1>6, <1>4 DEF ReceiptBySsh, Deliveries
  <2>2. /\ receipts' \in [Call -> Receipts]
        /\ \A d \in Call : receipts[d] # "none" => receipts'[d] # "none"
    BY <1>6, ReceiptStored DEF Receipts, ReceiptBySsh
  <2> QED
    BY <1>6, <2>1, <2>2 DEF ReceiptBySsh, TypeOK
<1>7. ASSUME NEW c \in Call, ExpireReceipt(c) PROVE Goal
  <2>1. /\ receipts' \in [Call -> Receipts]
        /\ \A d \in Call : receipts[d] # "none" => receipts'[d] # "none"
    BY <1>7, ReceiptStored DEF Receipts, ExpireReceipt
  <2> QED
    BY <1>7, <2>1 DEF ExpireReceipt, TypeOK
<1> QED
  BY <1>1, <1>2, <1>3, <1>5, <1>6, <1>7 DEF Outside

LEMMA WakesStep ==
  ASSUME TypeOK, Wakes
  PROVE  /\ proc' \in [Proc -> Processes] /\ OthersKeep(Daemon)
         /\ proc'[Daemon].pc = "load" /\ proc'[Daemon].call = {} /\ proc'[Daemon].listed = {}
         /\ TypeOK' /\ UNCHANGED <<ledgerVars, redisVars, applied>>
<1>1. Load(Daemon) /\ UNCHANGED <<ledgerVars, redisVars, applied, faults>>
  BY DEF Wakes, Startup, Recv
<1>2. /\ proc' \in [Proc -> Processes] /\ OthersKeep(Daemon)
      /\ proc'[Daemon].pc = "load" /\ proc'[Daemon].call = {} /\ proc'[Daemon].listed = {}
  BY <1>1, Rests DEF Load, Proc, Labels
<1>3. notices' \in 0..MaxNotices
  BY BoundsAssumption DEF Wakes, Startup, Recv, TypeOK
<1>4. TypeOK'
  BY <1>1, <1>2, <1>3 DEF TypeOK, ledgerVars, redisVars, applied, faults
<1> QED
  BY <1>1, <1>2, <1>4

LEMMA StepTyped ==
  ASSUME TypeOK, [Next]_vars
  PROVE  TypeOK' /\ Keeps
<1>1. CASE Outside
  BY <1>1, OutsideStep
<1>2. CASE Wakes
  BY <1>2, WakesStep DEF Keeps, redisVars, applied
<1>3. CASE Notify
  BY <1>3, BoundsAssumption DEF Notify, TypeOK, Keeps, ledgerVars, redisVars, applied, faults
<1>4. ASSUME NEW p \in Proc, RunOnce(p) \/ Pass(p) \/ Crash(p)
      PROVE  TypeOK' /\ Keeps
  <2>1. proc' \in [Proc -> Processes]
    BY <1>4, PassMoves
  <2> QED
    BY <1>4, <2>1, PassStores DEF TypeOK
<1>5. CASE UNCHANGED vars
  BY <1>5 DEF vars, TypeOK, Keeps, ledgerVars, redisVars, applied, faults
<1> QED
  BY <1>1, <1>2, <1>3, <1>4, <1>5 DEF Next, Outside, Wakes

(* TypeOK holds of every reachable state. *)
THEOREM TypeCorrect == Spec => []TypeOK
<1>1. TypeOK /\ [Next]_vars => TypeOK'
  BY StepTyped
<1> QED
  BY InitTyped, <1>1, PTL DEF Spec

------------------------------------------------------------------------------
(* The steps of a pass keep what a process knows and what is behind it.    *)

LEMMA RestedOK ==
  ASSUME NEW p \in Proc, proc'[p].pc \notin Working, proc'[p].call = {}, proc'[p].listed = {}
  PROVE  ProcOK(p)'
<1>1. \A c \in Call : ~Current(p, c)'
  BY DEF Current
<1> QED
  BY <1>1 DEF ProcOK, InHand, Knows, Behind

(* A process that does not move. *)
LEMMA StillOK ==
  ASSUME NEW p \in Proc, ProcOK(p), proc'[p] = proc[p], Keeps
  PROVE  ProcOK(p)'
<1>1. InHand(p)'
  BY DEF ProcOK, InHand, Current, IsBlocked
<1>2. Knows(p)'
  BY DEF ProcOK, Knows, Current, At, Keeps
<1>3. Behind(p)'
  BY DEF ProcOK, Behind, Current, IsBlocked, Keeps
<1> QED
  BY <1>1, <1>2, <1>3 DEF ProcOK

(* A process in the loop with nothing in hand: what is listed is ahead,    *)
(* written or blocked.                                                     *)
LEMMA LoopOK ==
  ASSUME NEW p \in Proc, proc'[p].pc \notin Working, proc'[p].call = {},
         \A b \in proc'[p].listed : RouteOf[b] # NoRoute,
         \A b \in proc'[p].listed : b \in proc'[p].batch \/ b \in written' \/ IsBlocked(p, b)'
  PROVE  ProcOK(p)'
<1>1. \A c \in Call : ~Current(p, c)'
  BY DEF Current
<1> QED
  BY <1>1 DEF ProcOK, InHand, Knows, Behind

LEMMA NothingInHand ==
  ASSUME TypeOK, NEW p \in Proc, ProcOK(p), proc[p].pc \notin Working
  PROVE  proc[p].call = {} /\ \A c \in Call : ~Current(p, c)
BY DEF ProcOK, InHand, Current

LEMMA ListOK ==
  ASSUME TypeOK, NEW p \in Proc, ProcOK(p), List(p) \/ ListFails(p) \/ Finish(p)
  PROVE  ProcOK(p)'
<1>1. CASE EndPass(p)
  BY <1>1, EndPassRests, RestedOK
<1>2. CASE List(p) /\ Takes(p)
  <2>1. proc[p].call = {}
    BY <1>2, NothingInHand DEF List, At, Working
  <2>2. /\ proc'[p].pc = "loop" /\ proc'[p].batch = Pending
        /\ proc'[p].listed = {c \in Pending : Routable(c)} /\ proc'[p].call = {}
    BY <1>2, <2>1, TakesMoves
  <2> QED
    BY <2>2, LoopOK DEF Routable, Working
<1> QED
  BY <1>1, <1>2 DEF List, ListFails, Finish, Takes

LEMMA DropOK ==
  ASSUME TypeOK, NEW p \in Proc, NEW c \in Call, ProcOK(p), Skip(p, c) \/ Defer(p, c)
  PROVE  ProcOK(p)'
<1>1. At(p, "loop") /\ Drop(p, c) /\ written' = written
  BY DEF Skip, Defer, IsNext, applied
<1>2. proc[p].pc = "loop" /\ proc[p].call = {} /\ \A b \in Call : ~Current(p, b)
  BY <1>1, NothingInHand DEF At, Working
<1>3. /\ proc'[p].pc = "loop" /\ proc'[p].batch = proc[p].batch \ {c}
      /\ proc'[p].listed = proc[p].listed /\ proc'[p].blocked = proc[p].blocked
      /\ proc'[p].call = {}
  BY <1>1, <1>2, DropMoves
<1>4. c \notin proc[p].listed \/ IsBlocked(p, c)
  BY DEF Skip, Defer
<1>5. \A b \in proc[p].listed : b \in proc'[p].batch \/ b \in written' \/ IsBlocked(p, b)'
  BY <1>1, <1>2, <1>3, <1>4, Fields DEF ProcOK, Behind, IsBlocked
<1> QED
  BY <1>3, <1>5, LoopOK DEF ProcOK, Behind, Working

LEMMA AttemptOK ==
  ASSUME TypeOK, NEW p \in Proc, NEW c \in Call, ProcOK(p), Attempt(p, c)
  PROVE  ProcOK(p)'
<1>1. /\ proc[p].pc = "loop" /\ c \in proc[p].batch /\ c \in proc[p].listed
      /\ ~IsBlocked(p, c) /\ written' = written
      /\ \A d \in proc[p].batch : c <= d
  BY DEF Attempt, IsNext, At, applied
<1>2. \A b \in Call : ~Current(p, b)
  BY <1>1, NothingInHand DEF Working
<1>3. /\ proc'[p].pc = "read" /\ proc'[p].batch = proc[p].batch \ {c}
      /\ proc'[p].listed = proc[p].listed /\ proc'[p].call = {c}
      /\ proc'[p].blocked = proc[p].blocked
  BY AttemptMoves
<1>4. Current(p, c)' /\ \A b \in Call : Current(p, b)' => b = c
  BY <1>3 DEF Current
<1>5. \A d \in proc'[p].batch : c < d
  <2> SUFFICES ASSUME NEW d \in proc'[p].batch PROVE c < d
    OBVIOUS
  <2>1. d \in Nat /\ c \in Nat /\ c <= d /\ c # d
    BY <1>1, <1>3, Fields, CallAssumption
  <2> QED
    BY <2>1
<1>6. InHand(p)'
  BY <1>1, <1>3, <1>4, <1>5 DEF InHand, IsBlocked, Working
<1>7. Knows(p)'
  BY <1>3 DEF Knows, At
<1>8. Behind(p)'
  BY <1>1, <1>2, <1>3, <1>4, Fields DEF ProcOK, Behind, IsBlocked
<1> QED
  BY <1>6, <1>7, <1>8 DEF ProcOK

(* A process that goes on with the call in hand. *)
LEMMA GoesOnOK ==
  ASSUME TypeOK, NEW p \in Proc, NEW c \in Call, ProcOK(p), Current(p, c), Keeps,
         proc'[p].pc \in Working,
         proc'[p].batch = proc[p].batch, proc'[p].listed = proc[p].listed,
         proc'[p].blocked = proc[p].blocked, proc'[p].call = proc[p].call,
         proc'[p].pc = "write" /\ proc'[p].good => c \in succeeded',
         proc'[p].pc \in {"receipt", "export"} => c \in written',
         proc'[p].pc = "export" => receipts'[c] # "none"
  PROVE  ProcOK(p)'
<1>1. Current(p, c)' /\ \A b \in Call : Current(p, b)' => b = c
  BY DEF Current
<1>2. InHand(p)'
  BY <1>1 DEF ProcOK, InHand, Current, IsBlocked
<1>3. Knows(p)'
  BY <1>1 DEF Knows, At
<1>4. Behind(p)'
  BY <1>1 DEF ProcOK, Behind, Current, IsBlocked, Keeps
<1> QED
  BY <1>2, <1>3, <1>4 DEF ProcOK

LEMMA BlockOK ==
  ASSUME TypeOK, NEW p \in Proc, NEW c \in Call, ProcOK(p), Current(p, c), Block(p, c), Keeps
  PROVE  ProcOK(p)'
<1>1. /\ proc'[p].pc = "loop" /\ proc'[p].batch = proc[p].batch
      /\ proc'[p].listed = proc[p].listed /\ proc'[p].call = {}
      /\ proc'[p].blocked = proc[p].blocked \union {c}
  BY BlockMoves
<1>2. \A b \in Call : Current(p, b) => b = c
  BY DEF Current
<1>3. IsBlocked(p, c)' /\ \A b \in Call : IsBlocked(p, b) => IsBlocked(p, b)'
  BY <1>1 DEF IsBlocked, SameRoute
<1>4. \A b \in proc[p].listed : b \in proc'[p].batch \/ b \in written' \/ IsBlocked(p, b)'
  BY <1>1, <1>2, <1>3, Fields DEF ProcOK, Behind, Keeps
<1> QED
  BY <1>1, <1>4, LoopOK DEF ProcOK, Behind, Working

LEMMA ReadOK ==
  ASSUME TypeOK, NEW p \in Proc, NEW c \in Call, ProcOK(p), Read(p, c), Keeps
  PROVE  ProcOK(p)'
<1>1. Current(p, c) /\ succeeded' = succeeded
  BY DEF Read, redisVars
<1>2. CASE Block(p, c)
  BY <1>1, <1>2, BlockOK
<1>3. CASE Judged(p, c)
  <2>1. /\ proc'[p].pc = "write" /\ proc'[p].batch = proc[p].batch
        /\ proc'[p].listed = proc[p].listed /\ proc'[p].call = proc[p].call
        /\ proc'[p].blocked = proc[p].blocked /\ proc'[p].good = (c \in succeeded)
    BY <1>3, JudgedMoves
  <2> QED
    BY <1>1, <2>1, GoesOnOK DEF Working
<1> QED
  BY <1>2, <1>3 DEF Read, Judged

LEMMA WriteOK ==
  ASSUME TypeOK, NEW p \in Proc, NEW c \in Call, ProcOK(p), Write(p, c), Keeps
  PROVE  ProcOK(p)'
<1>1. Current(p, c)
  BY DEF Write
<1>2. CASE Block(p, c)
  BY <1>1, <1>2, BlockOK
<1>3. CASE written' = written \union {c} /\ Goto(p, "receipt")
  <2>1. /\ proc'[p].pc = "receipt" /\ proc'[p].batch = proc[p].batch
        /\ proc'[p].listed = proc[p].listed /\ proc'[p].call = proc[p].call
        /\ proc'[p].blocked = proc[p].blocked /\ proc'[p].good = proc[p].good
    BY <1>3, GotoMoves DEF Labels
  <2> QED
    BY <1>1, <1>3, <2>1, GoesOnOK DEF Working
<1> QED
  BY <1>2, <1>3 DEF Write

LEMMA MarkReceiptOK ==
  ASSUME TypeOK, NEW p \in Proc, NEW c \in Call, ProcOK(p), MarkReceipt(p, c), Keeps
  PROVE  ProcOK(p)'
<1>1. Current(p, c) /\ written' = written /\ c \in written
  BY DEF MarkReceipt, ProcOK, Knows, applied
<1>2. CASE Block(p, c)
  BY <1>1, <1>2, BlockOK
<1>3. CASE PutReceipt(c, "repo") /\ Goto(p, "export")
  <2>1. /\ proc'[p].pc = "export" /\ proc'[p].batch = proc[p].batch
        /\ proc'[p].listed = proc[p].listed /\ proc'[p].call = proc[p].call
        /\ proc'[p].blocked = proc[p].blocked /\ proc'[p].good = proc[p].good
    BY <1>3, GotoMoves DEF Labels
  <2> QED
    BY <1>1, <1>3, <2>1, GoesOnOK, ReceiptStored DEF Receipts, Working
<1> QED
  BY <1>2, <1>3 DEF MarkReceipt

LEMMA MarkExportOK ==
  ASSUME TypeOK, NEW p \in Proc, NEW c \in Call, ProcOK(p), MarkExport(p, c)
  PROVE  ProcOK(p)'
<1>1. Current(p, c) /\ written' = written /\ c \in written /\ Exported(p)
  BY DEF MarkExport, ProcOK, Knows, Exported, applied
<1>2. /\ proc'[p].pc = "loop" /\ proc'[p].batch = proc[p].batch
      /\ proc'[p].listed = proc[p].listed /\ proc'[p].call = {}
      /\ proc'[p].blocked = proc[p].blocked
  BY <1>1, ExportedMoves
<1>3. \A b \in Call : Current(p, b) => b = c
  BY <1>1 DEF Current
<1>4. \A b \in proc[p].listed : b \in proc'[p].batch \/ b \in written' \/ IsBlocked(p, b)'
  BY <1>1, <1>2, <1>3, Fields DEF ProcOK, Behind, IsBlocked
<1> QED
  BY <1>2, <1>4, LoopOK DEF ProcOK, Behind, Working

(* The step of one process keeps what is known of it. *)
LEMMA PassOK ==
  ASSUME TypeOK, NEW p \in Proc, ProcOK(p), Pass(p) \/ RunOnce(p) \/ Crash(p), Keeps
  PROVE  ProcOK(p)'
<1>1. CASE List(p) \/ ListFails(p) \/ Finish(p)
  BY <1>1, ListOK
<1>2. ASSUME NEW c \in Call, Skip(p, c) \/ Defer(p, c) PROVE ProcOK(p)'
  BY <1>2, DropOK
<1>3. ASSUME NEW c \in Call, Attempt(p, c) PROVE ProcOK(p)'
  BY <1>3, AttemptOK
<1>4. ASSUME NEW c \in Call, Read(p, c) PROVE ProcOK(p)'
  BY <1>4, ReadOK
<1>5. ASSUME NEW c \in Call, Write(p, c) PROVE ProcOK(p)'
  BY <1>5, WriteOK
<1>6. ASSUME NEW c \in Call, MarkReceipt(p, c) PROVE ProcOK(p)'
  BY <1>6, MarkReceiptOK
<1>7. ASSUME NEW c \in Call, MarkExport(p, c) PROVE ProcOK(p)'
  BY <1>7, MarkExportOK
<1>8. ASSUME NEW c \in Call, RecordFails(p, c) PROVE ProcOK(p)'
  BY <1>8, BlockOK DEF RecordFails
<1>9. CASE RunOnce(p) \/ Crash(p)
  <2>1. PICK l \in {"load", "down"} : proc' = [proc EXCEPT ![p] = Resting(l)]
    BY <1>9 DEF RunOnce, Crash, Load
  <2> QED
    BY <2>1, Rests, RestedOK DEF Labels, Working
<1> QED
  BY <1>1, <1>2, <1>3, <1>4, <1>5, <1>6, <1>7, <1>8, <1>9 DEF Pass

LEMMA ProcStep ==
  ASSUME TypeOK, ProcInv, [Next]_vars
  PROVE  ProcInv'
<1> SUFFICES ASSUME NEW q \in Proc PROVE ProcOK(q)'
  BY DEF ProcInv
<1>0. Keeps /\ ProcOK(q)
  BY StepTyped DEF ProcInv
<1>1. CASE Outside \/ Notify \/ UNCHANGED vars
  BY <1>0, <1>1, OutsideStep, StillOK DEF Notify, vars
<1>2. CASE Wakes
  BY <1>0, <1>2, WakesStep, RestedOK, StillOK DEF OthersKeep, Working
<1>3. ASSUME NEW p \in Proc, RunOnce(p) \/ Pass(p) \/ Crash(p)
      PROVE  ProcOK(q)'
  BY <1>0, <1>3, PassOK, PassMoves, StillOK DEF OthersKeep
<1> QED
  BY <1>1, <1>2, <1>3 DEF Next, Outside, Wakes

------------------------------------------------------------------------------
(* What is applied and recorded.                                           *)

LEMMA ShippedStep ==
  ASSUME TypeOK, Shipped, [Next]_vars
  PROVE  Shipped'
<1>0. Keeps
  BY StepTyped
<1> USE DEF Shipped
<1>1. CASE delivery' = delivery
  BY <1>0, <1>1 DEF Keeps
<1>2. ASSUME NEW c \in Call, DeliverBySsh(c) PROVE Shipped'
  BY <1>0, <1>2 DEF DeliverBySsh, Keeps, TypeOK
<1>3. ASSUME NEW c \in Call, ReceiptBySsh(c) PROVE Shipped'
  <2>1. receipts'[c] # "none" /\ \A d \in Call : d # c => delivery'[d] = delivery[d]
    BY <1>3, ReceiptStored DEF Receipts, ReceiptBySsh, TypeOK
  <2> QED
    BY <1>0, <2>1 DEF Keeps
<1>4. CASE Wakes \/ Notify \/ UNCHANGED vars
  BY <1>1, <1>4, WakesStep DEF Notify, vars, applied
<1>5. ASSUME NEW p \in Proc, RunOnce(p) \/ Pass(p) \/ Crash(p) PROVE Shipped'
  BY <1>1, <1>5, PassStores
<1>6. ASSUME NEW c \in Call, Expire(c) \/ ExpireReceipt(c) \/ Lose(c) \/ ExportBySsh(c)
      PROVE  Shipped'
  BY <1>1, <1>6 DEF Expire, ExpireReceipt, Lose, ExportBySsh, applied
<1>7. ASSUME NEW c \in Call, NEW ok \in BOOLEAN, Respond(c, ok) PROVE Shipped'
  BY <1>1, <1>7 DEF Respond, applied
<1> QED
  BY <1>2, <1>3, <1>4, <1>5, <1>6, <1>7 DEF Next, Wakes

(* Which steps record an export, and which store a receipt. *)
LEMMA RecordsExport ==
  ASSUME TypeOK, NEW p \in Proc, RunOnce(p) \/ Pass(p) \/ Crash(p), NEW c \in exports', c \notin exports
  PROVE  Current(p, c) /\ At(p, "export")
<1>1. PICK d \in Call : MarkExport(p, d) \/ (RecordFails(p, d) /\ At(p, "export"))
  <2>1. CASE List(p) \/ ListFails(p) \/ Finish(p) \/ RunOnce(p) \/ Crash(p)
    BY <2>1 DEF List, ListFails, Finish, RunOnce, Crash, ledgerVars
  <2>2. ASSUME NEW d \in Call,
               Skip(p, d) \/ Defer(p, d) \/ Attempt(p, d) \/ Read(p, d) \/ Write(p, d) \/
                 MarkReceipt(p, d)
        PROVE  FALSE
    BY <2>2 DEF Skip, Defer, Attempt, Read, Write, MarkReceipt, ledgerVars
  <2>3. ASSUME NEW d \in Call, RecordFails(p, d) PROVE At(p, "export")
    BY <2>3 DEF RecordFails
  <2> QED
    BY <2>1, <2>2, <2>3 DEF Pass
<1> QED
  BY <1>1 DEF MarkExport, RecordFails, At

LEMMA StoresReceipt ==
  ASSUME TypeOK, NEW p \in Proc, RunOnce(p) \/ Pass(p) \/ Crash(p), NEW c \in Call,
         receipts'[c] # receipts[c]
  PROVE  Current(p, c) /\ At(p, "receipt") /\ receipts'[c] = "repo"
<1>1. PICK d \in Call : Current(p, d) /\ At(p, "receipt") /\ PutReceipt(d, "repo")
  <2>1. CASE List(p) \/ ListFails(p) \/ Finish(p) \/ RunOnce(p) \/ Crash(p)
    BY <2>1 DEF List, ListFails, Finish, RunOnce, Crash, redisVars
  <2>2. ASSUME NEW d \in Call,
               Skip(p, d) \/ Defer(p, d) \/ Attempt(p, d) \/ Read(p, d) \/ Write(p, d) \/
                 MarkExport(p, d)
        PROVE  FALSE
    BY <2>2 DEF Skip, Defer, Attempt, Read, Write, MarkExport, redisVars
  <2>3. ASSUME NEW d \in Call, MarkReceipt(p, d) \/ RecordFails(p, d)
        PROVE  Current(p, d) /\ At(p, "receipt") /\ PutReceipt(d, "repo")
    BY <2>3 DEF MarkReceipt, RecordFails
  <2> QED
    BY <2>1, <2>2, <2>3 DEF Pass
<1> QED
  BY <1>1, ReceiptStored DEF Receipts

LEMMA BackedStep ==
  ASSUME TypeOK, ProcInv, Shipped, ExportIsBacked, [Next]_vars
  PROVE  ExportIsBacked'
<1>0. Keeps /\ TypeOK'
  BY StepTyped
<1>a. exports \subseteq Call /\ exports' \subseteq Call
  BY <1>0 DEF TypeOK
(* It is enough that a new fact is backed and that a receipt that changes  *)
(* names what was done.                                                    *)
<1>b. ASSUME \A c \in exports' \ exports :
               receipts'[c] # "none" /\ (c \in written' \/ delivery'[c] # "none"),
             \A c \in Call : receipts'[c] # receipts[c] =>
               /\ receipts'[c] = "repo" => c \in written'
               /\ receipts'[c] = "ssh" => delivery'[c] # "none"
      PROVE  ExportIsBacked'
  <2>1. \A c \in exports' : receipts'[c] # "none" /\ (c \in written' \/ delivery'[c] # "none")
    BY <1>0, <1>a, <1>b DEF ExportIsBacked, Keeps
  <2>2. \A c \in Call : receipts'[c] = "repo" => c \in written'
    BY <1>0, <1>b DEF ExportIsBacked, Keeps
  <2>3. \A c \in Call : receipts'[c] = "ssh" => delivery'[c] # "none"
    BY <1>0, <1>b DEF ExportIsBacked, Keeps
  <2> QED
    BY <2>1, <2>2, <2>3 DEF ExportIsBacked
<1>1. CASE UNCHANGED <<exports, receipts>>
  BY <1>1, <1>b
<1>2. ASSUME NEW c \in Call, ReceiptBySsh(c) PROVE ExportIsBacked'
  <2>1. /\ exports' = exports /\ receipts'[c] = "ssh"
        /\ \A d \in Call : d # c => receipts'[d] = receipts[d]
    BY <1>2, ReceiptStored DEF Receipts, ReceiptBySsh, ledgerVars
  <2>2. delivery'[c] # "none"
    BY <1>2 DEF ReceiptBySsh, TypeOK
  <2> QED
    BY <1>b, <2>1, <2>2
<1>3. ASSUME NEW c \in Call, ExportBySsh(c) PROVE ExportIsBacked'
  <2>1. /\ exports' = exports \union {c} /\ UNCHANGED <<receipts, written, delivery>>
        /\ delivery[c] = "receipt" /\ receipts[c] # "none"
    BY <1>3 DEF ExportBySsh, Shipped, redisVars, applied
  <2> QED
    BY <1>b, <2>1
<1>4. ASSUME NEW c \in Call, ExpireReceipt(c) PROVE ExportIsBacked'
  <2>1. /\ exports' = exports /\ receipts'[c] = "expired"
        /\ \A d \in Call : d # c => receipts'[d] = receipts[d]
    BY <1>4, ReceiptStored DEF Receipts, ExpireReceipt, ledgerVars
  <2> QED
    BY <1>b, <2>1
<1>5. ASSUME NEW c \in Call, NEW ok \in BOOLEAN,
             Respond(c, ok) \/ DeliverBySsh(c) \/ Expire(c) \/ Lose(c)
      PROVE  ExportIsBacked'
  BY <1>5, <1>1 DEF Respond, DeliverBySsh, Expire, Lose, ledgerVars, redisVars
<1>6. CASE Wakes \/ Notify \/ UNCHANGED vars
  BY <1>1, <1>6, WakesStep DEF Notify, vars, ledgerVars, redisVars
<1>7. ASSUME NEW p \in Proc, RunOnce(p) \/ Pass(p) \/ Crash(p) PROVE ExportIsBacked'
  <2>1. \A c \in exports' \ exports :
          receipts'[c] # "none" /\ (c \in written' \/ delivery'[c] # "none")
    BY <1>0, <1>7, <1>a, RecordsExport DEF ProcInv, ProcOK, Knows, Keeps
  <2>2. \A c \in Call : receipts'[c] # receipts[c] => receipts'[c] = "repo" /\ c \in written'
    BY <1>0, <1>7, StoresReceipt DEF ProcInv, ProcOK, Knows, Keeps
  <2> QED
    BY <1>b, <2>1, <2>2
<1> QED
  BY <1>2, <1>3, <1>4, <1>5, <1>6, <1>7 DEF Next, Wakes

LEMMA WrittenStep ==
  ASSUME TypeOK, ProcInv, OnlySuccessWritten, [Next]_vars
  PROVE  OnlySuccessWritten'
<1>0. Keeps
  BY StepTyped
<1>1. SUFFICES ASSUME NEW c \in written', c \notin written
               PROVE  c \in succeeded' /\ RouteOf[c] # NoRoute
  BY <1>0 DEF OnlySuccessWritten, Keeps
<1>2. CASE Outside \/ Wakes \/ Notify \/ UNCHANGED vars
  BY <1>1, <1>2, OutsideStep, WakesStep DEF Notify, vars, applied
<1>3. ASSUME NEW p \in Proc, RunOnce(p) \/ Pass(p) \/ Crash(p)
      PROVE  c \in succeeded' /\ RouteOf[c] # NoRoute
  <2>1. PICK d \in Call : Write(p, d) \/ RecordFails(p, d)
    <3>1. CASE List(p) \/ ListFails(p) \/ Finish(p) \/ RunOnce(p) \/ Crash(p)
      BY <1>1, <3>1 DEF List, ListFails, Finish, RunOnce, Crash, applied
    <3>2. ASSUME NEW d \in Call,
                 Skip(p, d) \/ Defer(p, d) \/ Attempt(p, d) \/ Read(p, d) \/ MarkReceipt(p, d)
                   \/ MarkExport(p, d)
          PROVE  FALSE
      BY <1>1, <3>2 DEF Skip, Defer, Attempt, Read, MarkReceipt, MarkExport, applied
    <3> QED
      BY <1>3, <3>1, <3>2 DEF Pass
  <2>2. c = d /\ Current(p, d) /\ At(p, "write") /\ proc[p].good
    BY <1>1, <2>1 DEF Write, RecordFails, At
  <2>3. c \in succeeded /\ c \in proc[p].listed /\ RouteOf[c] # NoRoute
    BY <2>2 DEF ProcInv, ProcOK, InHand, Knows, Behind
  <2> QED
    BY <1>0, <2>3 DEF Keeps
<1> QED
  BY <1>2, <1>3 DEF Next, Outside, Wakes

------------------------------------------------------------------------------
(* The theorems.                                                           *)

LEMMA InitInv == Init => IInv
<1> SUFFICES ASSUME Init PROVE IInv
  OBVIOUS
<1>1. ASSUME NEW p \in Proc PROVE ProcOK(p)
  <2>1. proc[p] = Resting("down") /\ proc[p].pc = "down"
    BY <1>1, RestingTyped DEF Init, Labels
  <2>2. proc[p].call = {} /\ proc[p].listed = {} /\ proc[p].pc \notin Working
    BY <2>1, RestingTyped DEF Labels, Working
  <2>3. \A c \in Call : ~Current(p, c)
    BY <2>2 DEF Current
  <2> QED
    BY <2>2, <2>3 DEF ProcOK, InHand, Knows, Behind
<1> QED
  BY <1>1 DEF Init, IInv, ProcInv, Shipped, ExportIsBacked, OnlySuccessWritten

LEMMA IInvCorrect == Spec => []IInv
<1>1. TypeOK /\ IInv /\ [Next]_vars => IInv'
  BY ProcStep, ShippedStep, BackedStep, WrittenStep DEF IInv
<1> QED
  BY InitInv, <1>1, TypeCorrect, PTL DEF Spec

(* An export fact always stands for an applied effect or a file delivered  *)
(* over SSH, with a receipt stored for it; a receipt names what was done.  *)
THEOREM ExportsAreBacked == Spec => []ExportIsBacked
<1>1. IInv => ExportIsBacked
  BY DEF IInv
<1> QED
  BY IInvCorrect, <1>1, PTL

(* Only a successful response that has a route is ever written.            *)
THEOREM SuccessesWritten == Spec => []OnlySuccessWritten
<1>1. IInv => OnlySuccessWritten
  BY DEF IInv
<1> QED
  BY IInvCorrect, <1>1, PTL

(* No step of a pass writes a call before a listed predecessor for the     *)
(* same destination: the predecessor is behind the pass, and if it were    *)
(* not written its destination would be blocked.                           *)
LEMMA WritesInOrder ==
  ASSUME TypeOK, IInv, NEW p \in Proc, NEW c \in Call, Write(p, c),
         NEW b \in proc[p].listed, b < c, SameRoute(b, c)
  PROVE  b \in written
<1>1. Current(p, c) /\ b \in Call /\ ProcOK(p)
  BY Fields DEF Write, IInv, ProcInv
<1>2. ~IsBlocked(p, c) /\ \A d \in proc[p].batch : c < d
  BY <1>1 DEF ProcOK, InHand
<1>3. b \in Nat /\ c \in Nat /\ b # c
  BY <1>1, CallAssumption
<1>4. b \notin proc[p].batch
  BY <1>2, <1>3
<1>5. ~Current(p, b)
  BY <1>1, <1>3 DEF Current
<1>6. ~IsBlocked(p, b)
  BY <1>2 DEF IsBlocked, SameRoute
<1> QED
  BY <1>1, <1>4, <1>5, <1>6 DEF ProcOK, Behind

THEOREM PassWritesInOrder == Spec => InOrderPerPass
<1> DEFINE InOrder == \A p \in Proc, c \in Call :
             Write(p, c) /\ proc[p].good =>
               \A b \in proc[p].listed : b < c /\ SameRoute(b, c) => b \in written
<1>1. TypeOK /\ IInv => InOrder
  BY WritesInOrder
<1>2. TypeOK /\ IInv => [InOrder]_vars
  BY <1>1
<1> QED
  BY TypeCorrect, IInvCorrect, <1>2, PTL DEF InOrderPerPass

==============================================================================
