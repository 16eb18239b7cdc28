------------------------------ MODULE Responsed ------------------------------
(***************************************************************************)
(* Repository output: daemon/responsed.py with autoscribe/effects.py.      *)
(* A pass lists the responses that have no export fact, sorts them by call *)
(* id and hands each to the external signed programs srv-output and        *)
(* srv-writeback; the receipt that comes back becomes the export fact.     *)
(* Passes are run by the daemon, when it starts and for every datagram of  *)
(* `asc effects notify`, and by `responsed.py --once` at any time.         *)
(***************************************************************************)
EXTENDS Naturals, FiniteSets

CONSTANTS
  Call,              \* call ids, numbers so that the sort by call id is <
  RouteOf, NoRoute,  \* destination (repo, path) in a call's baggage, or none
  SshCall,           \* calls that a job handed in over SSH is for
  Daemon, Once,      \* the process of the unit, and --once processes
  MaxNotices,        \* bound on datagrams waiting in the socket
  MaxLosses,         \* bound on Redis keys that disappear
  MaxErrors,         \* bound on commands that fail on their own account
  MaxCrashes         \* bound on processes that stop half way

Proc == {Daemon} \union Once

ASSUME CallAssumption   == Call \subseteq Nat
ASSUME SshAssumption    == SshCall \subseteq Call
ASSUME RouteAssumption  == RouteOf = [c \in Call |-> RouteOf[c]]
ASSUME ProcAssumption   == Daemon \notin Once
ASSUME BoundsAssumption == MaxNotices \in Nat /\ MaxLosses \in Nat /\ MaxErrors \in Nat /\ MaxCrashes \in Nat

VARIABLES
  responded,  \* ledger table responses
  succeeded,  \* calls whose response hash carries no failure
  expired,    \* successful responses whose hash has reached FORENSIC_TTL
  lost,       \* calls whose baggage cannot be read any more
  written,    \* effects srv-writeback has applied (its own database)
  delivery,   \* how far an SSH completer has got with a call (history)
  receipts,   \* export:<call>:receipt in Redis: whose it is, if any
  exports,    \* ledger table exports
  notices,    \* datagrams in the daemon's socket
  proc,       \* the processes
  errors, crashes   \* (history, bounded)

ledgerVars == <<responded, exports>>
redisVars  == <<succeeded, expired, lost, receipts>>
applied    == <<written, delivery>>
faults     == <<errors, crashes>>
vars == <<ledgerVars, redisVars, applied, notices, proc, faults>>

Receipts   == {"none", "repo", "ssh", "expired"}
Deliveries == {"none", "file", "receipt"}
Labels == {"down", "wait", "load", "loop", "read", "write", "receipt", "export"}

(* batch: calls still to look at; listed: calls of this pass whose route   *)
(* could be read; blocked: calls whose export failed in this pass.         *)
Processes == [pc: Labels, batch: SUBSET Call, listed: SUBSET Call,
              blocked: SUBSET Call, call: SUBSET Call, good: BOOLEAN]
Resting(l) == [pc |-> l, batch |-> {}, listed |-> {}, blocked |-> {}, call |-> {}, good |-> FALSE]

TypeOK ==
  /\ responded \subseteq Call
  /\ succeeded \subseteq Call /\ expired \subseteq succeeded /\ lost \subseteq Call
  /\ written \subseteq Call /\ exports \subseteq Call
  /\ receipts \in [Call -> Receipts] /\ delivery \in [Call -> Deliveries]
  /\ notices \in 0..MaxNotices
  /\ proc \in [Proc -> Processes]
  /\ errors \in 0..MaxErrors /\ crashes \in 0..MaxCrashes

Init ==
  /\ responded = {}
  /\ succeeded = {} /\ expired = {} /\ lost = {}
  /\ written = {} /\ exports = {}
  /\ receipts = [c \in Call |-> "none"] /\ delivery = [c \in Call |-> "none"]
  /\ notices = 0
  /\ proc = [p \in Proc |-> Resting("down")]
  /\ errors = 0 /\ crashes = 0

Pending   == responded \ exports        \* pending_exports
Routable(c) == RouteOf[c] # NoRoute /\ c \notin lost
SameRoute(b, c) == RouteOf[b] = RouteOf[c]

At(p, l)   == proc[p].pc = l
Goto(p, l) == proc' = [proc EXCEPT ![p].pc = l]
EndPass(p) == proc' = [proc EXCEPT ![p] = Resting(IF p = Daemon THEN "wait" ELSE "down")]
Load(p)    == proc' = [proc EXCEPT ![p] = Resting("load")]
Current(p, c)  == proc[p].call = {c}
IsNext(p, c)   == At(p, "loop") /\ c \in proc[p].batch /\ \A d \in proc[p].batch : c <= d
Drop(p, c)     == proc' = [proc EXCEPT ![p].batch = @ \ {c}]
FaultyIsBlocked(p, c) == proc[p].blocked # {}   \* a slip: any failure blocks
IsBlocked(p, c) == \E b \in proc[p].blocked : SameRoute(b, c)

PutReceipt(c, k) == receipts' = [receipts EXCEPT ![c] = k]

AnError == errors < MaxErrors /\ errors' = errors + 1 /\ UNCHANGED crashes

(* An exception in process_record: the destination is blocked for the rest *)
(* of the pass.  (Slips: nothing is blocked; the route is noted instead of *)
(* the call.)                                                              *)
FaultyBlock(p, c) == proc' = [proc EXCEPT
  ![p].pc = "loop", ![p].call = {}, ![p].good = FALSE]
FaultyBlockRoute(p, c) == proc' = [proc EXCEPT
  ![p].pc = "loop", ![p].blocked = @ \union {RouteOf[c]}, ![p].call = {}, ![p].good = FALSE]
Block(p, c) == proc' = [proc EXCEPT
  ![p].pc = "loop", ![p].blocked = @ \union {c}, ![p].call = {}, ![p].good = FALSE]

------------------------------------------------------------------------------
(* Faulty variants, each a plausible slip in the code; none is part of     *)
(* Next.                                                                   *)

FaultyList(p) ==                \* iter_pending_records: one bad record hides all
  /\ At(p, "load")
  /\ IF Pending = {} \/ Pending \intersect lost # {}
     THEN EndPass(p)
     ELSE proc' = [proc EXCEPT ![p] =
            [@ EXCEPT !.pc = "loop", !.batch = Pending, !.listed = {c \in Pending : Routable(c)}]]
  /\ UNCHANGED <<ledgerVars, redisVars, applied, notices, faults>>

FaultyWrite(p, c) ==            \* the exit status of srv-writeback is ignored
  /\ At(p, "write") /\ Current(p, c)
  /\ written' = written \union {c} \/ UNCHANGED written
  /\ Goto(p, "receipt")
  /\ UNCHANGED <<ledgerVars, redisVars, delivery, notices, faults>>

FaultyRead(p, c) ==             \* the failure fields are not passed on
  /\ At(p, "read") /\ Current(p, c)
  /\ IF c \in expired \union lost
     THEN Block(p, c)
     ELSE proc' = [proc EXCEPT ![p] = [@ EXCEPT !.pc = "write", !.good = TRUE]]
  /\ UNCHANGED <<ledgerVars, redisVars, applied, notices, faults>>

------------------------------------------------------------------------------
(* The rest of the system: a driver records a terminal response, whose     *)
(* call id is a digest and so comes in any order; the direct driver keeps  *)
(* a success in Redis only, for the completer to record ...                *)
Answered(c) == c \in responded \union succeeded

Respond(c, ok) ==
  /\ ~Answered(c)
  /\ succeeded' = IF ok THEN succeeded \union {c} ELSE succeeded
  /\ responded' = responded \union {c} \/ (ok /\ c \in SshCall /\ UNCHANGED responded)
  /\ UNCHANGED <<exports, expired, lost, receipts, applied, notices, proc, faults>>

(* ... completers of an SSH job publish its response, whatever route the   *)
(* baggage names: the file that is its answer, then the receipt, then the  *)
(* response and the export fact in one transaction; they may stop after    *)
(* each, or find another one's work and do it again, ...                   *)
DeliverBySsh(c) ==
  /\ c \in SshCall /\ delivery[c] = "none"
  /\ Answered(c) /\ c \notin expired \union lost
  /\ delivery' = [delivery EXCEPT ![c] = "file"]
  /\ UNCHANGED <<ledgerVars, redisVars, written, notices, proc, faults>>

ReceiptBySsh(c) ==
  /\ delivery[c] # "none"
  /\ PutReceipt(c, "ssh")
  /\ delivery' = [delivery EXCEPT ![c] = "receipt"]
  /\ UNCHANGED <<ledgerVars, succeeded, expired, lost, written, notices, proc, faults>>

ExportBySsh(c) ==
  /\ delivery[c] = "receipt"
  /\ responded' = responded \union {c}
  /\ exports' = exports \union {c}
  /\ UNCHANGED <<redisVars, applied, notices, proc, faults>>

Disappeared ==
  Cardinality(expired) + Cardinality(lost) + Cardinality({c \in Call : receipts[c] = "expired"})
MayDisappear == Disappeared < MaxLosses

(* ... a successful response and a receipt expire (a failure and the       *)
(* call's content and baggage have no TTL: enqueue.py:132, 180-182), ...   *)
Expire(c) ==
  /\ c \in succeeded \ expired /\ MayDisappear
  /\ expired' = expired \union {c}
  /\ UNCHANGED <<ledgerVars, succeeded, lost, receipts, applied, notices, proc, faults>>

ExpireReceipt(c) ==
  /\ receipts[c] \in {"repo", "ssh"} /\ MayDisappear
  /\ PutReceipt(c, "expired")
  /\ UNCHANGED <<ledgerVars, succeeded, expired, lost, applied, notices, proc, faults>>

(* ... a baggage key is evicted or corrupted ...                           *)
Lose(c) ==
  /\ c \notin lost /\ MayDisappear
  /\ lost' = lost \union {c}
  /\ UNCHANGED <<ledgerVars, succeeded, expired, receipts, applied, notices, proc, faults>>

(* ... and `asc effects notify` sends a datagram if anything is pending and*)
(* the daemon's socket is there.                                           *)
Notify ==
  /\ Pending # {} /\ ~At(Daemon, "down") /\ notices < MaxNotices
  /\ notices' = notices + 1
  /\ UNCHANGED <<ledgerVars, redisVars, applied, proc, faults>>

------------------------------------------------------------------------------
(* main: bind the socket and make a first pass; afterwards one pass per    *)
(* datagram.                                                               *)
Startup ==
  /\ At(Daemon, "down")
  /\ Load(Daemon) /\ notices' = 0
  /\ UNCHANGED <<ledgerVars, redisVars, applied, faults>>

Recv ==
  /\ At(Daemon, "wait") /\ notices > 0
  /\ Load(Daemon) /\ notices' = notices - 1
  /\ UNCHANGED <<ledgerVars, redisVars, applied, faults>>

RunOnce(p) ==
  /\ p \in Once /\ At(p, "down")
  /\ Load(p)
  /\ UNCHANGED <<ledgerVars, redisVars, applied, notices, faults>>

------------------------------------------------------------------------------
(* process_pending.                                                        *)

(* load_pending: a record whose baggage cannot be read is listed as an     *)
(* error and loses its route.                                              *)
List(p) ==
  /\ At(p, "load")
  /\ IF Pending = {}
     THEN EndPass(p)
     ELSE proc' = [proc EXCEPT ![p] =
            [@ EXCEPT !.pc = "loop", !.batch = Pending, !.listed = {c \in Pending : Routable(c)}]]
  /\ UNCHANGED <<ledgerVars, redisVars, applied, notices, faults>>

ListFails(p) ==
  /\ At(p, "load") /\ AnError
  /\ EndPass(p)
  /\ UNCHANGED <<ledgerVars, redisVars, applied, notices>>

Skip(p, c) ==
  /\ IsNext(p, c) /\ c \notin proc[p].listed
  /\ Drop(p, c)
  /\ UNCHANGED <<ledgerVars, redisVars, applied, notices, faults>>

Defer(p, c) ==
  /\ IsNext(p, c) /\ c \in proc[p].listed /\ IsBlocked(p, c)
  /\ Drop(p, c)
  /\ UNCHANGED <<ledgerVars, redisVars, applied, notices, faults>>

Attempt(p, c) ==
  /\ IsNext(p, c) /\ c \in proc[p].listed /\ ~IsBlocked(p, c)
  /\ proc' = [proc EXCEPT ![p].pc = "read", ![p].batch = @ \ {c}, ![p].call = {c}]
  /\ UNCHANGED <<ledgerVars, redisVars, applied, notices, faults>>

Finish(p) ==
  /\ At(p, "loop") /\ proc[p].batch = {}
  /\ EndPass(p)
  /\ UNCHANGED <<ledgerVars, redisVars, applied, notices, faults>>

------------------------------------------------------------------------------
(* process_record, for one call.                                           *)

(* `asc response`: the response with its baggage and submission id.        *)
Read(p, c) ==
  /\ At(p, "read") /\ Current(p, c)
  /\ IF c \in expired \union lost
     THEN Block(p, c)
     ELSE proc' = [proc EXCEPT ![p] = [@ EXCEPT !.pc = "write", !.good = c \in succeeded]]
  /\ UNCHANGED <<ledgerVars, redisVars, applied, notices, faults>>

(* srv-output turns a successful response into an effect and refuses any   *)
(* other; srv-writeback applies the effect, or finds it applied.           *)
Write(p, c) ==
  /\ At(p, "write") /\ Current(p, c)
  /\ IF proc[p].good
     THEN written' = written \union {c} /\ Goto(p, "receipt")
     ELSE UNCHANGED written /\ Block(p, c)
  /\ UNCHANGED <<ledgerVars, redisVars, delivery, notices, faults>>

(* mark_exported compares the receipt with the call, stores it in Redis    *)
(* and then records the export.                                            *)
MarkReceipt(p, c) ==
  /\ At(p, "receipt") /\ Current(p, c)
  /\ IF c \in lost
     THEN Block(p, c) /\ UNCHANGED receipts
     ELSE PutReceipt(c, "repo") /\ Goto(p, "export")
  /\ UNCHANGED <<ledgerVars, succeeded, expired, lost, applied, notices, faults>>

MarkExport(p, c) ==
  /\ At(p, "export") /\ Current(p, c)
  /\ exports' = exports \union {c}
  /\ proc' = [proc EXCEPT ![p] = [@ EXCEPT !.pc = "loop", !.call = {}, !.good = FALSE]]
  /\ UNCHANGED <<responded, redisVars, applied, notices, faults>>

(* Any of these commands may fail, having taken effect or not.             *)
RecordFails(p, c) ==
  /\ Current(p, c) /\ AnError
  /\ \/ At(p, "read") /\ UNCHANGED <<written, receipts, exports>>
     \/ /\ At(p, "write") /\ UNCHANGED <<receipts, exports>>
        /\ (proc[p].good /\ written' = written \union {c}) \/ UNCHANGED written
     \/ /\ At(p, "receipt") /\ UNCHANGED <<written, exports>>
        /\ (c \notin lost /\ PutReceipt(c, "repo")) \/ UNCHANGED receipts
     \/ /\ At(p, "export") /\ UNCHANGED <<written, receipts>>
        /\ exports' = exports \union {c} \/ UNCHANGED exports
  /\ Block(p, c)
  /\ UNCHANGED <<responded, succeeded, expired, lost, delivery, notices>>

------------------------------------------------------------------------------
(* The unit is stopped or killed; its socket goes with it.                 *)
Crash(p) ==
  /\ ~At(p, "down") /\ crashes < MaxCrashes
  /\ crashes' = crashes + 1
  /\ proc' = [proc EXCEPT ![p] = Resting("down")]
  /\ notices' = IF p = Daemon THEN 0 ELSE notices
  /\ UNCHANGED <<ledgerVars, redisVars, applied, errors>>

Pass(p) ==
  \/ List(p) \/ ListFails(p) \/ Finish(p)
  \/ \E c \in Call :
       \/ Skip(p, c) \/ Defer(p, c) \/ Attempt(p, c)
       \/ Read(p, c) \/ Write(p, c) \/ MarkReceipt(p, c) \/ MarkExport(p, c)
       \/ RecordFails(p, c)

Next ==
  \/ \E c \in Call :
       \/ \E ok \in BOOLEAN : Respond(c, ok)
       \/ DeliverBySsh(c) \/ ReceiptBySsh(c) \/ ExportBySsh(c)
       \/ Expire(c) \/ ExpireReceipt(c) \/ Lose(c)
  \/ Notify \/ Startup \/ Recv
  \/ \E p \in Proc : RunOnce(p) \/ Pass(p) \/ Crash(p)

Spec == Init /\ [][Next]_vars

(* systemd restarts the daemon, and someone keeps notifying it: nothing in *)
(* the repository does so by itself.                                       *)
FairSpec ==
  /\ Spec
  /\ WF_vars(Startup) /\ WF_vars(Recv) /\ WF_vars(Notify)
  /\ \A p \in Proc : WF_vars(Pass(p))

------------------------------------------------------------------------------
(* Properties.                                                             *)

(* An export fact stands for an effect that was applied or a file that was *)
(* delivered over SSH, and a receipt was stored for it; a receipt that has *)
(* not expired names the way the response went (responsed.py:214-231,      *)
(* effects.py:102-105, ssh_jobs.py:183-190).  This holds whatever failed   *)
(* on the way and whichever of the two ways came first; a call that may go *)
(* both ways is exported by either, and the other need never be taken.     *)
ExportIsBacked ==
  /\ \A c \in exports : receipts[c] # "none" /\ (c \in written \/ delivery[c] # "none")
  /\ \A c \in Call : receipts[c] = "repo" => c \in written
  /\ \A c \in Call : receipts[c] = "ssh" => delivery[c] # "none"

(* Failed responses never authorize writes (INGEST-REFACTOR.md:28), and    *)
(* neither does a call without a route (responsed.py:129-169).             *)
OnlySuccessWritten == written \subseteq {c \in succeeded : RouteOf[c] # NoRoute}

(* Within a pass a destination is written in the order of the call ids:    *)
(* nothing is applied over a listed predecessor that has not been          *)
(* (responsed.py:254-280), even while another pass runs.                   *)
InOrderPerPass ==
  [][\A p \in Proc, c \in Call :
       Write(p, c) /\ proc[p].good =>
         \A b \in proc[p].listed : b < c /\ SameRoute(b, c) => b \in written]_vars

(* Every good response with a route is exported, unless it expires first   *)
(* or a response for the same destination that sorts before it has failed  *)
(* or expired: that one is tried first, and fails, in every pass.  Nothing *)
(* else holds it up, neither other destinations nor unreadable records     *)
(* (effects.py:42-43, responsed.py:254-286).                               *)
HeldUp(c) ==
  \E b \in Pending \ lost :
    b < c /\ SameRoute(b, c) /\ (b \notin succeeded \/ b \in expired)
GoodIsExported ==
  \A c \in Call :
    c \in responded \intersect succeeded /\ RouteOf[c] # NoRoute
      ~> c \in exports \union expired \union lost \/ HeldUp(c)
=============================================================================
