------------------------- MODULE InstallReleaseProofs -------------------------
(***************************************************************************)
(* Proofs about InstallRelease, for any invocations of the installer and   *)
(* any submissions meanwhile: the types, that what is gone is in the       *)
(* backup, that what users reach is whole, and that nothing is repaired.   *)
(***************************************************************************)
EXTENDS InstallRelease, TLAPS

------------------------------------------------------------------------------
(* The inductive invariant, in named parts.                                *)

Begun(r) ==
  run[r].pc \in {"archive", "drop_wal", "last_check", "replace", "done"} \/ run[r].stage > 1

(* One run alone gets past the backup; it replaces nothing before the      *)
(* archive is complete, and the archive has every piece that has an old    *)
(* version.                                                                *)
RunInv ==
  /\ \A r \in Run : Begun(r) => r = backup.owner
  /\ \A r \in Run : run[r].pc \in {"drop_wal", "last_check", "replace"} \/ run[r].stage > 1
                      => backup.state = "complete"
  /\ \A r \in Run : run[r].pc \in {"idle", "backup", "archive"} => run[r].stage = 1
  /\ \A r \in Run : run[r].pc = "done" => run[r].stage = Len(Order)
  /\ \A r \in Run : At(r, "drop_wal") => ThisPiece(r) \in Database
  /\ \A r \in Run : At(r, "last_check") => ThisPiece(r) = "record"
  /\ backup.state = "absent" => backup.owner = NoRun
BackupInv == backup.state = "complete" => backup.holds = Piece \ Unkept

(* The owner of the backup is so far in the order of the pieces: those     *)
(* before are its own, the others old.                                     *)
Reached(k) ==
  /\ backup.owner \in Run
  /\ k < run[backup.owner].stage \/ run[backup.owner].pc = "done"
PlaceInv ==
  \A k \in DOMAIN Order :
    place[Order[k]] = IF Reached(k) THEN backup.owner ELSE NoRun

(* An old log beside a new database, or about to be, belongs to a          *)
(* submission that the old ledger took rows of.                            *)
OldRows == \E s \in Submission : InOld(s)
WalInv ==
  /\ \A d \in wal : ~IsOld(d) => d = "ledger" /\ OldRows
  /\ \A r \in Run : At(r, "replace") /\ ThisPiece(r) \in wal
                      => ThisPiece(r) = "ledger" /\ OldRows

(* While the ledger is old, so are the rows of whoever has begun.          *)
SubmitInv ==
  \A s \in Submission :
    IsOld("ledger") /\ submitted[s] # [input |-> "none", call |-> "none", keys |-> "none"]
      => InOld(s)

(* What came before the last look was seen by it. *)
CheckInv ==
  \A r \in Run : LastCheckPassed(r) => \A s \in Submission : submitted[s].keys # "before"

IInv == RunInv /\ BackupInv /\ PlaceInv /\ WalInv /\ SubmitInv /\ CheckInv

------------------------------------------------------------------------------
(* The order of the pieces.                                                *)

LEMMA OrderSize == Len(Order) = 15 /\ DOMAIN Order = 1..15
BY DEF Order

LEMMA OrderNames ==
  /\ Order[1] = "engine" /\ Order[2] = "extensions" /\ Order[3] = "templates"
  /\ Order[4] = "manifest" /\ Order[5] = "ledger" /\ Order[6] = "effects"
  /\ Order[7] = "control" /\ Order[8] = "policy" /\ Order[9] = "environment"
  /\ Order[10] = "srv-input" /\ Order[11] = "srv-export" /\ Order[12] = "services"
  /\ Order[13] = "app" /\ Order[14] = "asc" /\ Order[15] = "record"
BY DEF Order

LEMMA PieceNames ==
  Piece = {"engine", "extensions", "templates", "manifest", "ledger", "effects", "control",
    "policy", "environment", "srv-input", "srv-export", "services", "app", "asc", "record"}
<1>1. \A k \in 1..15 : k \in {1, 2, 3, 4, 5, 6, 7, 8, 9, 10, 11, 12, 13, 14, 15}
  OBVIOUS
<1> QED
  BY <1>1, OrderSize, OrderNames DEF Piece

(* No piece comes twice. *)
LEMMA OrderInjective == \A j, k \in 1..15 : Order[j] = Order[k] => j = k
<1>1. \A k \in 1..15 : k \in {1, 2, 3, 4, 5, 6, 7, 8, 9, 10, 11, 12, 13, 14, 15}
  OBVIOUS
<1> QED
  BY <1>1, OrderNames
LEMMA PieceAt == \A p \in Piece : \E k \in 1..15 : Order[k] = p
BY OrderSize DEF Piece

LEMMA AtPiece == \A k \in 1..15 : Order[k] \in Piece
BY OrderSize DEF Piece

------------------------------------------------------------------------------
(* Types, and what the moves of a run do to it.                            *)

Runs == [pc: Labels, stage: 1..15]
OthersKeep(r) == \A q \in Run : q # r => run'[q] = run[q]

LEMMA Fields ==
  ASSUME TypeOK, NEW r \in Run
  PROVE  /\ run \in [Run -> Runs] /\ run[r] \in Runs
         /\ run[r].pc \in Labels /\ run[r].stage \in 1..15 /\ ThisPiece(r) \in Piece
BY OrderSize, AtPiece DEF TypeOK, Runs, ThisPiece

LEMMA Becomes ==
  ASSUME TypeOK, NEW r \in Run, NEW x \in Runs, run' = [run EXCEPT ![r] = x]
  PROVE  run' \in [Run -> Runs] /\ run'[r] = x /\ OthersKeep(r)
BY Fields DEF OthersKeep

LEMMA GotoMoves ==
  ASSUME TypeOK, NEW r \in Run, NEW l \in Labels, Goto(r, l)
  PROVE  /\ run' \in [Run -> Runs] /\ OthersKeep(r)
         /\ run'[r].pc = l /\ run'[r].stage = run[r].stage
<1> DEFINE x == [run[r] EXCEPT !.pc = l]
<1>1. x \in Runs /\ x.pc = l /\ x.stage = run[r].stage
  BY Fields DEF Runs
<1>2. run' = [run EXCEPT ![r] = x]
  BY DEF Goto
<1> HIDE DEF x
<1> QED
  BY <1>1, <1>2, Becomes

LEMMA AdvanceMoves ==
  ASSUME TypeOK, NEW r \in Run, Advance(r)
  PROVE  /\ run' \in [Run -> Runs] /\ OthersKeep(r)
         /\ run[r].stage = 15 => run'[r].pc = "done" /\ run'[r].stage = 15
         /\ run[r].stage # 15 =>
              /\ run'[r].stage = run[r].stage + 1
              /\ run'[r].pc = Entry(Order[run[r].stage + 1])
<1>1. CASE run[r].stage = 15
  <2> DEFINE x == [run[r] EXCEPT !.pc = "done"]
  <2>1. x \in Runs /\ x.pc = "done" /\ x.stage = 15
    BY <1>1, Fields DEF Runs, Labels
  <2>2. run' = [run EXCEPT ![r] = x]
    BY <1>1, OrderSize DEF Advance
  <2> HIDE DEF x
  <2> QED
    BY <1>1, <2>1, <2>2, Becomes
<1>2. CASE run[r].stage # 15
  <2> DEFINE l == Entry(Order[run[r].stage + 1])
             x == [pc |-> l, stage |-> run[r].stage + 1]
  <2>1. l \in Labels
    BY DEF Labels, Entry
  <2>2. run[r].stage + 1 \in 1..15
    BY <1>2, Fields
  <2>3. run' = [run EXCEPT ![r] = x]
    BY <1>2, OrderSize DEF Advance
  <2>4. x \in Runs /\ x.pc = l /\ x.stage = run[r].stage + 1
    <3> HIDE DEF l
    <3> QED
      BY <2>1, <2>2 DEF Runs
  <2>5. run' \in [Run -> Runs] /\ run'[r] = x /\ OthersKeep(r)
    <3> HIDE DEF x
    <3> QED
      BY <2>3, <2>4, Becomes
  <2> QED
    BY <1>2, <2>4, <2>5
<1> QED
  BY <1>1, <1>2

LEMMA InitTyped == Init => TypeOK
<1> SUFFICES ASSUME Init PROVE TypeOK
  OBVIOUS
<1>1. [pc |-> "idle", stage |-> 1] \in [pc: Labels, stage: DOMAIN Order]
  BY OrderSize DEF Labels
<1>2. run \in [Run -> [pc: Labels, stage: DOMAIN Order]]
  BY <1>1 DEF Init
<1>3. backup \in Backups
  BY DEF Init, Backups
<1>4. wal \subseteq Database /\ place \in [Piece -> Run \union {NoRun}]
      /\ submitted \in [Submission -> Submitted]
  BY DEF Init, Submitted, Ledgers
<1> QED
  BY <1>2, <1>3, <1>4 DEF TypeOK

(* The moves of a run, all in one place. *)
LEMMA RunMoves ==
  ASSUME TypeOK, NEW r \in Run,
         \/ Verify(r) \/ OpenBackup(r) \/ Archive(r) \/ DropWal(r)
             \/ LastCheck(r) \/ Replace(r) \/ Stop(r)
  PROVE  run' \in [Run -> Runs] /\ OthersKeep(r)
<1>1. Advance(r) \/ \E l \in Labels : Goto(r, l)
  BY DEF Verify, OpenBackup, Archive, DropWal, LastCheck, Replace, Stop, Labels
<1> QED
  BY <1>1, GotoMoves, AdvanceMoves

(* The moves of a submission. *)
SameOthers(s) == \A q \in Submission : q # s => submitted'[q] = submitted[q]

LEMMA SubmitMoves ==
  ASSUME TypeOK, NEW s \in Submission, NEW x \in Submitted,
         submitted' = [submitted EXCEPT ![s] = x]
  PROVE  submitted' \in [Submission -> Submitted] /\ submitted'[s] = x /\ SameOthers(s)
BY DEF TypeOK, SameOthers

LEMMA BindMoves ==
  ASSUME TypeOK, NEW s \in Submission, BindInput(s)
  PROVE  /\ submitted' \in [Submission -> Submitted] /\ SameOthers(s)
         /\ submitted[s].input = "none" /\ submitted'[s].input = ThisLedger
         /\ submitted'[s].call = submitted[s].call /\ submitted'[s].keys = submitted[s].keys
<1> DEFINE x == [submitted[s] EXCEPT !.input = ThisLedger]
<1>1. /\ x \in Submitted /\ x.input = ThisLedger
      /\ x.call = submitted[s].call /\ x.keys = submitted[s].keys
  BY DEF TypeOK, Submitted, ThisLedger, Ledgers
<1>2. submitted' = [submitted EXCEPT ![s] = x] /\ submitted[s].input = "none"
  BY DEF BindInput
<1> HIDE DEF x
<1> QED
  BY <1>1, <1>2, SubmitMoves

LEMMA CallMoves ==
  ASSUME TypeOK, NEW s \in Submission, RecordCall(s)
  PROVE  /\ submitted' \in [Submission -> Submitted] /\ SameOthers(s)
         /\ submitted[s].call = "none" /\ submitted'[s].call = ThisLedger
         /\ submitted'[s].input = submitted[s].input /\ submitted'[s].keys = submitted[s].keys
<1> DEFINE x == [submitted[s] EXCEPT !.call = ThisLedger]
<1>1. /\ x \in Submitted /\ x.call = ThisLedger
      /\ x.input = submitted[s].input /\ x.keys = submitted[s].keys
  BY DEF TypeOK, Submitted, ThisLedger, Ledgers
<1>2. submitted' = [submitted EXCEPT ![s] = x] /\ submitted[s].call = "none"
  BY DEF RecordCall
<1> HIDE DEF x
<1> QED
  BY <1>1, <1>2, SubmitMoves

KeysNow == IF \E r \in Run : LastCheckPassed(r) THEN "after" ELSE "before"

LEMMA KeysMoves ==
  ASSUME TypeOK, NEW s \in Submission, WriteKeys(s)
  PROVE  /\ submitted' \in [Submission -> Submitted] /\ SameOthers(s)
         /\ submitted[s].call # "none" /\ submitted'[s].keys = KeysNow
         /\ submitted'[s].input = submitted[s].input /\ submitted'[s].call = submitted[s].call
<1> DEFINE x == [submitted[s] EXCEPT !.keys = KeysNow]
<1>1. /\ x \in Submitted /\ x.keys = KeysNow
      /\ x.input = submitted[s].input /\ x.call = submitted[s].call
  <2>1. KeysNow \in {"before", "after"}
    BY DEF KeysNow
  <2> HIDE DEF KeysNow
  <2> QED
    BY <2>1 DEF TypeOK, Submitted
<1>2. submitted' = [submitted EXCEPT ![s] = x] /\ submitted[s].call # "none"
  BY DEF WriteKeys, KeysNow
<1> HIDE DEF x
<1> QED
  BY <1>1, <1>2, SubmitMoves

LEMMA StepTyped ==
  ASSUME TypeOK, [Next]_vars
  PROVE  TypeOK'
<1>1. ASSUME NEW r \in Run,
             \/ Verify(r) \/ OpenBackup(r) \/ Archive(r) \/ DropWal(r)
             \/ LastCheck(r) \/ Replace(r) \/ Stop(r)
      PROVE  TypeOK'
  <2>1. run' \in [Run -> [pc: Labels, stage: DOMAIN Order]]
    BY <1>1, RunMoves, OrderSize DEF Runs
  <2>2. place' \in [Piece -> Run \union {NoRun}]
    BY <1>1, Fields DEF TypeOK, Verify, OpenBackup, Archive, DropWal, LastCheck, Replace, Stop
  <2>3. backup' \in Backups
    <3>1. CASE Archive(r)
      <4> DEFINE h == {p \in Piece \ Unkept : IsOld(p)}
      <4>1. backup' = [backup EXCEPT !.state = "complete", !.holds = h] /\ h \in SUBSET Piece
        BY <3>1 DEF Archive
      <4> HIDE DEF h
      <4> QED
        BY <4>1 DEF TypeOK, Backups
    <3>2. CASE OpenBackup(r)
      <4>1. [state |-> "open", owner |-> r, holds |-> {}] \in Backups
        BY DEF Backups
      <4> QED
        BY <3>2, <4>1 DEF TypeOK, OpenBackup
    <3> QED
      BY <1>1, <3>1, <3>2 DEF TypeOK, Verify, DropWal, LastCheck, Replace, Stop
  <2>4. wal' \subseteq Database /\ submitted' = submitted
    BY <1>1 DEF TypeOK, Verify, OpenBackup, Archive, DropWal, LastCheck, Replace, Stop
  <2> QED
    BY <2>1, <2>2, <2>3, <2>4 DEF TypeOK
<1>2. ASSUME NEW s \in Submission,
             BindInput(s) \/ RecordCall(s) \/ WriteKeys(s) \/ MarkQueued(s)
      PROVE  TypeOK'
  <2>1. submitted' \in [Submission -> Submitted]
    BY <1>2, BindMoves, CallMoves, KeysMoves DEF TypeOK, MarkQueued
  <2>2. wal' \subseteq Database /\ UNCHANGED <<place, backup, run>>
    BY <1>2 DEF TypeOK, BindInput, RecordCall, WriteKeys, MarkQueued, WriteLedger, Database
  <2> QED
    BY <2>1, <2>2 DEF TypeOK
<1>3. CASE UNCHANGED vars
  BY <1>3 DEF vars, TypeOK
<1> QED
  BY <1>1, <1>2, <1>3 DEF Next

(* TypeOK holds of every reachable state. *)
THEOREM TypeCorrect == Spec => []TypeOK
<1>1. TypeOK /\ [Next]_vars => TypeOK'
  BY StepTyped
<1> QED
  BY InitTyped, <1>1, PTL DEF Spec

------------------------------------------------------------------------------
(* The steps keep the order of the pieces.                                 *)

(* What is new is preceded by what is new. *)
LEMMA NewInOrder ==
  ASSUME TypeOK, PlaceInv, NEW j \in 1..15, NEW k \in 1..15, j <= k, ~IsOld(Order[k])
  PROVE  ~IsOld(Order[j])
<1>1. Reached(k)
  BY OrderSize DEF PlaceInv, IsOld
<1>2. run[backup.owner].stage \in 1..15 /\ backup.owner \in Run /\ backup.owner # NoRun
  BY <1>1, Fields, RunAssumption DEF Reached
<1>3. Reached(j)
  BY <1>1, <1>2 DEF Reached
<1> QED
  BY <1>2, <1>3, OrderSize DEF PlaceInv, IsOld

(* A run at work on a piece is the owner of the backup. *)
LEMMA OwnerAtWork ==
  ASSUME RunInv, NEW r \in Run, run[r].pc \in {"archive", "drop_wal", "last_check", "replace", "done"}
  PROVE  r = backup.owner /\ backup.owner \in Run
BY DEF RunInv, Begun

(* A run that moves within a piece. *)
LEMMA WithinPiece ==
  ASSUME TypeOK, PlaceInv, NEW r \in Run, NEW l \in Labels, Goto(r, l),
         run[r].pc # "done", l # "done", place' = place, backup'.owner = backup.owner
  PROVE  PlaceInv'
<1>1. /\ OthersKeep(r) /\ run'[r].pc = l /\ run'[r].stage = run[r].stage
  BY GotoMoves
<1>2. ASSUME NEW k \in 1..15 PROVE Reached(k)' <=> Reached(k)
  BY <1>1 DEF Reached, OthersKeep
<1> QED
  BY <1>2, OrderSize DEF PlaceInv

(* A step that changes neither rows nor pieces and looks for no keys. *)
LEMMA SubmittersAside ==
  ASSUME IInv, UNCHANGED <<place, submitted>>,
         \A q \in Run : LastCheckPassed(q)' => LastCheckPassed(q)
  PROVE  SubmitInv' /\ CheckInv'
BY DEF IInv, SubmitInv, CheckInv, IsOld, InOld

LEMMA VerifyOK ==
  ASSUME TypeOK, IInv, NEW r \in Run, Verify(r)
  PROVE  IInv'
<1>1. PICK l \in {"backup", "stopped"} : Goto(r, l)
  BY DEF Verify
<1>2. /\ run[r].pc = "idle" /\ run[r].stage = 1
      /\ UNCHANGED <<place, wal, backup, submitted>>
  BY DEF Verify, At, IInv, RunInv
<1>3. /\ OthersKeep(r) /\ run'[r].pc = l /\ run'[r].stage = 1
  BY <1>1, <1>2, GotoMoves DEF Labels
<1>4. RunInv'
  BY <1>2, <1>3 DEF IInv, RunInv, Begun, OthersKeep, At, ThisPiece
<1>5. PlaceInv'
  BY <1>1, <1>2, WithinPiece DEF IInv, Labels
<1>6. WalInv'
  BY <1>2, <1>3 DEF IInv, WalInv, At, ThisPiece, OthersKeep, IsOld, OldRows, InOld
<1>7. SubmitInv' /\ CheckInv'
  BY <1>2, <1>3, SubmittersAside DEF LastCheckPassed, ThisPiece, OthersKeep
<1> QED
  BY <1>2, <1>4, <1>5, <1>6, <1>7 DEF IInv, BackupInv

LEMMA StopOK ==
  ASSUME TypeOK, IInv, NEW r \in Run, Stop(r)
  PROVE  IInv'
<1>1. /\ run[r].pc \notin {"idle", "stopped", "done"} /\ Goto(r, "stopped")
      /\ UNCHANGED <<place, wal, backup, submitted>>
  BY DEF Stop
<1>2. /\ OthersKeep(r) /\ run'[r].pc = "stopped" /\ run'[r].stage = run[r].stage
  BY <1>1, GotoMoves DEF Labels
<1>3. RunInv'
  BY <1>1, <1>2 DEF IInv, RunInv, Begun, OthersKeep, At, ThisPiece
<1>4. PlaceInv'
  BY <1>1, WithinPiece DEF IInv, Labels
<1>5. WalInv'
  BY <1>1, <1>2 DEF IInv, WalInv, At, ThisPiece, OthersKeep, IsOld, OldRows, InOld
<1>6. SubmitInv' /\ CheckInv'
  BY <1>1, <1>2, SubmittersAside DEF LastCheckPassed, ThisPiece, OthersKeep
<1> QED
  BY <1>1, <1>3, <1>4, <1>5, <1>6 DEF IInv, BackupInv

(* The archive is opened by one run, while everything is old. *)
LEMMA OpenBackupOK ==
  ASSUME TypeOK, IInv, NEW r \in Run, OpenBackup(r)
  PROVE  IInv'
<1>1. run[r].pc = "backup" /\ run[r].stage = 1 /\ UNCHANGED <<place, wal, submitted>>
  BY DEF OpenBackup, At, IInv, RunInv
<1>2. CASE Goto(r, "stopped") /\ UNCHANGED backup
  <2>1. /\ OthersKeep(r) /\ run'[r].pc = "stopped" /\ run'[r].stage = 1
    BY <1>1, <1>2, GotoMoves DEF Labels
  <2>2. RunInv'
    BY <1>1, <1>2, <2>1 DEF IInv, RunInv, Begun, OthersKeep, At, ThisPiece
  <2>3. PlaceInv'
    BY <1>1, <1>2, WithinPiece DEF IInv, Labels
  <2>4. WalInv'
    BY <1>1, <2>1 DEF IInv, WalInv, At, ThisPiece, OthersKeep, IsOld, OldRows, InOld
  <2>5. SubmitInv' /\ CheckInv'
    BY <1>1, <2>1, SubmittersAside DEF LastCheckPassed, ThisPiece, OthersKeep
  <2> QED
    BY <1>1, <1>2, <2>2, <2>3, <2>4, <2>5 DEF IInv, BackupInv
<1>3. CASE /\ backup.state = "absent" /\ Goto(r, "archive")
           /\ backup' = [state |-> "open", owner |-> r, holds |-> {}]
  <2>1. /\ OthersKeep(r) /\ run'[r].pc = "archive" /\ run'[r].stage = 1
    BY <1>1, <1>3, GotoMoves DEF Labels
  <2>2. backup.owner = NoRun /\ \A q \in Run : ~Begun(q)
    BY <1>3, RunAssumption DEF IInv, RunInv
  <2>3. backup'.state = "open" /\ backup'.owner = r
    BY <1>3
  <2>4. RunInv'
    BY <1>1, <2>1, <2>2, <2>3 DEF IInv, RunInv, Begun, OthersKeep, At, ThisPiece
  <2>5. \A k \in 1..15 : place[Order[k]] = NoRun
    BY <2>2, OrderSize, RunAssumption DEF IInv, PlaceInv, Reached
  <2>6. \A k \in 1..15 : ~Reached(k)'
    BY <2>1, <2>3 DEF Reached
  <2>7. PlaceInv'
    BY <1>1, <2>5, <2>6, OrderSize DEF PlaceInv
  <2>8. WalInv'
    BY <1>1, <2>1 DEF IInv, WalInv, At, ThisPiece, OthersKeep, IsOld, OldRows, InOld
  <2>9. SubmitInv' /\ CheckInv'
    BY <1>1, <2>1, SubmittersAside DEF LastCheckPassed, ThisPiece, OthersKeep
  <2> QED
    BY <1>1, <2>3, <2>4, <2>7, <2>8, <2>9 DEF IInv, BackupInv
<1> QED
  BY <1>2, <1>3 DEF OpenBackup

LEMMA ArchiveOK ==
  ASSUME TypeOK, IInv, NEW r \in Run, Archive(r)
  PROVE  IInv'
<1>1. /\ run[r].pc = "archive" /\ run[r].stage = 1 /\ Goto(r, "replace")
      /\ UNCHANGED <<place, wal, submitted>>
  BY DEF Archive, At, IInv, RunInv
<1>2. r = backup.owner
  BY <1>1, OwnerAtWork DEF IInv
<1>3. /\ OthersKeep(r) /\ run'[r].pc = "replace" /\ run'[r].stage = 1
  BY <1>1, GotoMoves DEF Labels
<1>4. \A p \in Piece : IsOld(p)
  <2>1. \A k \in 1..15 : place[Order[k]] = NoRun
    BY <1>1, <1>2, OrderSize DEF IInv, PlaceInv, Reached
  <2> QED
    BY <2>1, PieceAt DEF IsOld
<1>5. backup'.state = "complete" /\ backup'.owner = r /\ backup'.holds = Piece \ Unkept
  <2> DEFINE h == {p \in Piece \ Unkept : IsOld(p)}
  <2>1. backup' = [backup EXCEPT !.state = "complete", !.holds = h]
    BY DEF Archive
  <2>2. h = Piece \ Unkept
    BY <1>4
  <2> HIDE DEF h
  <2> QED
    BY <1>2, <2>1, <2>2 DEF TypeOK, Backups
<1>6. RunInv'
  BY <1>1, <1>2, <1>3, <1>5 DEF IInv, RunInv, Begun, OthersKeep, At, ThisPiece
<1>7. PlaceInv'
  BY <1>1, <1>2, <1>5, WithinPiece DEF IInv, Labels
<1>8. WalInv'
  <2>1. ThisPiece(r)' = "engine" /\ "engine" \notin wal
    BY <1>3, OrderNames DEF ThisPiece, TypeOK, Database
  <2> QED
    BY <1>1, <1>3, <2>1 DEF IInv, WalInv, At, ThisPiece, OthersKeep, IsOld, OldRows, InOld
<1>9. SubmitInv' /\ CheckInv'
  BY <1>1, <1>3, OrderNames, SubmittersAside DEF LastCheckPassed, ThisPiece, OthersKeep
<1> QED
  BY <1>1, <1>5, <1>6, <1>7, <1>8, <1>9 DEF IInv, BackupInv

LEMMA DropWalOK ==
  ASSUME TypeOK, IInv, NEW r \in Run, DropWal(r)
  PROVE  IInv'
<1>1. /\ run[r].pc = "drop_wal" /\ Goto(r, "replace") /\ wal' = wal \ {ThisPiece(r)}
      /\ UNCHANGED <<place, backup, submitted>>
  BY DEF DropWal, At
<1>2. r = backup.owner
  BY <1>1, OwnerAtWork DEF IInv
<1>3. /\ OthersKeep(r) /\ run'[r].pc = "replace" /\ run'[r].stage = run[r].stage
  BY <1>1, GotoMoves DEF Labels
<1>4. RunInv'
  BY <1>1, <1>2, <1>3 DEF IInv, RunInv, Begun, OthersKeep, At, ThisPiece
<1>5. PlaceInv'
  BY <1>1, WithinPiece DEF IInv, Labels
<1>6. ThisPiece(r)' = ThisPiece(r)
  BY <1>3 DEF ThisPiece
<1>7. WalInv'
  BY <1>1, <1>3, <1>6 DEF IInv, WalInv, At, ThisPiece, OthersKeep, IsOld, OldRows, InOld
<1>8. SubmitInv' /\ CheckInv'
  <2>1. ThisPiece(r)' # "record"
    BY <1>1, <1>6 DEF IInv, RunInv, At, Database
  <2> QED
    BY <1>1, <1>3, <2>1, SubmittersAside DEF LastCheckPassed, ThisPiece, OthersKeep
<1> QED
  BY <1>1, <1>4, <1>5, <1>7, <1>8 DEF IInv, BackupInv

(* Redis is looked at once more: nothing has come before this look. *)
LEMMA LastCheckOK ==
  ASSUME TypeOK, IInv, NEW r \in Run, LastCheck(r)
  PROVE  IInv'
<1>1. /\ run[r].pc = "last_check" /\ Goto(r, "replace") /\ RedisEmpty
      /\ UNCHANGED <<place, wal, backup, submitted>>
  BY DEF LastCheck, At
<1>2. r = backup.owner /\ ThisPiece(r) = "record"
  BY <1>1, OwnerAtWork DEF IInv, RunInv, At
<1>3. /\ OthersKeep(r) /\ run'[r].pc = "replace" /\ run'[r].stage = run[r].stage
      /\ ThisPiece(r)' = "record"
  BY <1>1, <1>2, GotoMoves DEF Labels, ThisPiece
<1>4. RunInv'
  BY <1>1, <1>2, <1>3 DEF IInv, RunInv, Begun, OthersKeep, At, ThisPiece
<1>5. PlaceInv'
  BY <1>1, WithinPiece DEF IInv, Labels
<1>6. WalInv'
  <2>1. "record" \notin wal
    BY DEF TypeOK, Database
  <2> QED
    BY <1>1, <1>3, <2>1 DEF IInv, WalInv, At, ThisPiece, OthersKeep, IsOld, OldRows, InOld
<1>7. SubmitInv' /\ CheckInv'
  BY <1>1 DEF IInv, SubmitInv, CheckInv, IsOld, InOld, RedisEmpty
<1> QED
  BY <1>1, <1>4, <1>5, <1>6, <1>7 DEF IInv, BackupInv

(* The owner puts its next piece in place: the run goes one on, and so     *)
(* does what is reached.                                                   *)
LEMMA ReplaceReaches ==
  ASSUME TypeOK, IInv, NEW r \in Run, Replace(r)
  PROVE  /\ r = backup.owner /\ backup.state = "complete"
         /\ run[r].pc = "replace" /\ UNCHANGED <<wal, backup, submitted>>
         /\ run' \in [Run -> Runs] /\ OthersKeep(r)
         /\ run'[r].stage > 1
         /\ run'[r].pc = "done" => run'[r].stage = 15
         /\ run'[r].pc # "done" => run'[r].pc = Entry(ThisPiece(r)')
         /\ run'[r].pc \in {"drop_wal", "last_check", "replace", "done"}
         /\ run'[r].pc = "done" => run[r].stage = 15
         /\ PlaceInv'
<1>1. run[r].pc = "replace" /\ Advance(r) /\ UNCHANGED <<wal, backup, submitted>>
  BY DEF Replace, At
<1>2. r = backup.owner /\ backup.state = "complete"
  BY <1>1, OwnerAtWork DEF IInv, RunInv
<1>3. /\ run' \in [Run -> Runs] /\ OthersKeep(r)
      /\ run[r].stage = 15 => run'[r].pc = "done" /\ run'[r].stage = 15
      /\ run[r].stage # 15 =>
           /\ run'[r].stage = run[r].stage + 1
           /\ run'[r].pc = Entry(Order[run[r].stage + 1])
  BY <1>1, AdvanceMoves
<1>4. run[r].stage \in 1..15
  BY Fields
<1>5. run'[r].stage > 1 /\ run'[r].pc \in {"drop_wal", "last_check", "replace", "done"}
      /\ (run'[r].pc = "done" => run[r].stage = 15 /\ run'[r].stage = 15)
  BY <1>3, <1>4 DEF Entry
<1>6. run'[r].pc # "done" => run'[r].pc = Entry(ThisPiece(r)')
  BY <1>3, <1>4 DEF ThisPiece
<1>7. ASSUME NEW k \in 1..15
      PROVE  place'[Order[k]] = IF Reached(k)' THEN backup'.owner ELSE NoRun
  <2>1. Reached(k)' <=> k <= run[r].stage
    BY <1>1, <1>2, <1>3, <1>4, <1>5 DEF Reached
  <2>2. Reached(k) <=> k < run[r].stage
    BY <1>1, <1>2 DEF Reached
  <2>3. Order[k] \in Piece /\ Order[run[r].stage] \in Piece
    BY <1>4, AtPiece
  <2>4. place' = [place EXCEPT ![Order[run[r].stage]] = r] /\ place \in [Piece -> Run \union {NoRun}]
    BY DEF Replace, ThisPiece, TypeOK
  <2>5. CASE k = run[r].stage
    BY <1>1, <1>2, <2>1, <2>3, <2>4, <2>5
  <2>6. CASE k # run[r].stage
    <3>1. Order[k] # Order[run[r].stage]
      BY <1>4, <2>6, OrderInjective
    <3>2. place'[Order[k]] = place[Order[k]]
      BY <2>3, <2>4, <3>1
    <3>3. Reached(k)' <=> Reached(k)
      BY <1>4, <2>1, <2>2, <2>6
    <3> QED
      BY <1>1, <3>2, <3>3, OrderSize DEF IInv, PlaceInv
  <2> QED
    BY <2>5, <2>6
<1>8. PlaceInv'
  BY <1>7, OrderSize DEF PlaceInv
<1> QED
  BY <1>1, <1>2, <1>3, <1>5, <1>6, <1>8

(* A new database has no old log, unless a submission came meanwhile, and  *)
(* the record does not come before the last look.                          *)
LEMMA ReplaceOK ==
  ASSUME TypeOK, IInv, NEW r \in Run, Replace(r)
  PROVE  IInv'
<1>1. /\ r = backup.owner /\ backup.state = "complete"
      /\ run[r].pc = "replace" /\ UNCHANGED <<wal, backup, submitted>>
      /\ run' \in [Run -> Runs] /\ OthersKeep(r)
      /\ run'[r].stage > 1
      /\ run'[r].pc = "done" => run'[r].stage = 15
      /\ run'[r].pc # "done" => run'[r].pc = Entry(ThisPiece(r)')
      /\ run'[r].pc \in {"drop_wal", "last_check", "replace", "done"}
      /\ run'[r].pc = "done" => run[r].stage = 15
      /\ PlaceInv'
  BY ReplaceReaches
<1>2. /\ run'[r].pc = "drop_wal" => ThisPiece(r)' \in Database
      /\ run'[r].pc = "last_check" => ThisPiece(r)' = "record"
      /\ run'[r].pc = "replace" => ThisPiece(r)' \notin Database /\ ThisPiece(r)' # "record"
  BY <1>1 DEF Entry
<1>3. RunInv'
  BY <1>1, <1>2, OrderSize DEF IInv, RunInv, Begun, OthersKeep, At, ThisPiece
<1>4. ThisPiece(r) \in Piece
      /\ place' = [place EXCEPT ![ThisPiece(r)] = r] /\ place \in [Piece -> Run \union {NoRun}]
  BY Fields DEF Replace, TypeOK
<1>5. ASSUME NEW d \in Piece, d # ThisPiece(r) PROVE place'[d] = place[d]
  BY <1>4, <1>5
<1>6. WalInv'
  <2>1. ASSUME NEW d \in wal', ~IsOld(d)' PROVE d = "ledger" /\ OldRows
    <3>1. d \in wal /\ d \in Piece
      BY <1>1, <2>1, PieceNames DEF TypeOK, Database
    <3>2. CASE d = ThisPiece(r)
      BY <1>1, <3>1, <3>2 DEF IInv, WalInv, At
    <3>3. CASE d # ThisPiece(r)
      <4>1. ~IsOld(d)
        BY <1>5, <2>1, <3>1, <3>3 DEF IsOld
      <4> QED
        BY <1>1, <3>1, <4>1 DEF IInv, WalInv
    <3> QED
      BY <3>2, <3>3
  <2>2. ASSUME NEW q \in Run, At(q, "replace")', ThisPiece(q)' \in wal'
        PROVE  FALSE
    <3>1. CASE q = r
      BY <1>1, <1>2, <2>2, <3>1 DEF At, TypeOK
    <3>2. CASE q # r
      BY <1>1, <2>2, <3>2, OwnerAtWork DEF At, OthersKeep, IInv
    <3> QED
      BY <3>1, <3>2
  <2> QED
    BY <1>1, <2>1, <2>2 DEF WalInv, OldRows, InOld
<1>7. SubmitInv'
  <2>1. IsOld("ledger")' => IsOld("ledger")
    <3>1. "ledger" \in Piece
      BY PieceNames
    <3>2. r # NoRun
      BY RunAssumption
    <3> QED
      BY <1>4, <1>5, <3>1, <3>2 DEF IsOld
  <2> QED
    BY <1>1, <2>1 DEF IInv, SubmitInv, InOld
<1>8. CheckInv'
  <2>1. ASSUME NEW q \in Run, LastCheckPassed(q)' PROVE LastCheckPassed(q)
    <3>1. CASE q # r
      BY <1>1, <2>1, <3>1 DEF LastCheckPassed, ThisPiece, OthersKeep
    <3>2. CASE q = r
      <4>1. run'[r].pc = "done"
        BY <1>1, <1>2, <2>1, <3>2 DEF LastCheckPassed
      <4> QED
        BY <1>1, <3>2, <4>1, OrderNames DEF LastCheckPassed, ThisPiece
    <3> QED
      BY <3>1, <3>2
  <2> QED
    BY <1>1, <2>1 DEF IInv, CheckInv
<1> QED
  BY <1>1, <1>3, <1>6, <1>7, <1>8 DEF IInv, BackupInv

(* What a submission leaves alone, and what its writes do to the old log. *)
LEMMA WriteKeeps ==
  ASSUME TypeOK, IInv, UNCHANGED <<place, backup, run>>,
         wal' \in {wal, wal \union {d \in {"ledger"} : IsOld(d)}},
         OldRows => OldRows', IsOld("ledger") => OldRows' \/ wal' = wal
  PROVE  RunInv' /\ BackupInv' /\ PlaceInv' /\ WalInv'
<1>1. RunInv' /\ BackupInv' /\ PlaceInv'
  BY DEF IInv, RunInv, Begun, BackupInv, PlaceInv, Reached, At, ThisPiece
<1>2. \A d \in wal' : d \in wal \/ (d = "ledger" /\ IsOld("ledger") /\ OldRows')
  OBVIOUS
<1>3. WalInv'
  BY <1>2 DEF IInv, WalInv, IsOld, At, ThisPiece
<1> QED
  BY <1>1, <1>3

(* A submission writes rows into the ledger of the moment, and keys that   *)
(* come after the last look once there was one.                            *)
LEMMA SubmitOK ==
  ASSUME TypeOK, IInv, NEW s \in Submission,
         BindInput(s) \/ RecordCall(s) \/ WriteKeys(s) \/ MarkQueued(s)
  PROVE  IInv'
<1>1. UNCHANGED <<place, backup, run>> /\ wal' \in {wal, wal \union {d \in {"ledger"} : IsOld(d)}}
  BY DEF BindInput, RecordCall, WriteKeys, MarkQueued, WriteLedger
<1>2. ASSUME NEW q \in Run PROVE LastCheckPassed(q)' <=> LastCheckPassed(q)
  BY <1>1 DEF LastCheckPassed, ThisPiece
<1>3. IsOld("ledger")' <=> IsOld("ledger")
  BY <1>1 DEF IsOld
<1> SUFFICES /\ (OldRows => OldRows') /\ (IsOld("ledger") => OldRows' \/ wal' = wal)
             /\ SubmitInv' /\ CheckInv'
  BY <1>1, WriteKeeps DEF IInv
<1>4. CASE BindInput(s)
  <2>1. /\ SameOthers(s)
        /\ submitted[s].input = "none" /\ submitted'[s].input = ThisLedger
        /\ submitted'[s].call = submitted[s].call /\ submitted'[s].keys = submitted[s].keys
    BY <1>4, BindMoves
  <2>2. ASSUME NEW q \in Submission, InOld(q) PROVE InOld(q)'
    BY <2>1, <2>2 DEF InOld, SameOthers
  <2>3. IsOld("ledger") => InOld(s)'
    BY <2>1 DEF InOld, ThisLedger
  <2>4. SubmitInv'
    BY <1>3, <2>1, <2>2, <2>3 DEF IInv, SubmitInv, SameOthers
  <2>5. CheckInv'
    BY <1>2, <2>1 DEF IInv, CheckInv, SameOthers
  <2> QED
    BY <2>2, <2>3, <2>4, <2>5 DEF OldRows
<1>5. CASE RecordCall(s)
  <2>1. /\ SameOthers(s)
        /\ submitted[s].call = "none" /\ submitted'[s].call = ThisLedger
        /\ submitted'[s].input = submitted[s].input /\ submitted'[s].keys = submitted[s].keys
    BY <1>5, CallMoves
  <2>2. ASSUME NEW q \in Submission, InOld(q) PROVE InOld(q)'
    BY <2>1, <2>2 DEF InOld, SameOthers
  <2>3. IsOld("ledger") => InOld(s)'
    BY <2>1 DEF InOld, ThisLedger
  <2>4. SubmitInv'
    BY <1>3, <2>1, <2>2, <2>3 DEF IInv, SubmitInv, SameOthers
  <2>5. CheckInv'
    BY <1>2, <2>1 DEF IInv, CheckInv, SameOthers
  <2> QED
    BY <2>2, <2>3, <2>4, <2>5 DEF OldRows
<1>6. CASE WriteKeys(s)
  <2>1. /\ SameOthers(s)
        /\ submitted[s].call # "none" /\ submitted'[s].keys = KeysNow
        /\ submitted'[s].input = submitted[s].input /\ submitted'[s].call = submitted[s].call
    BY <1>6, KeysMoves
  <2>2. \A q \in Submission : InOld(q)' <=> InOld(q)
    BY <2>1 DEF InOld, SameOthers
  <2>3. SubmitInv'
    BY <1>3, <2>1, <2>2 DEF IInv, SubmitInv, SameOthers
  <2>4. CheckInv'
    BY <1>2, <2>1 DEF IInv, CheckInv, SameOthers, KeysNow
  <2> QED
    BY <1>6, <2>2, <2>3, <2>4 DEF OldRows, WriteKeys
<1>7. CASE MarkQueued(s)
  <2>1. UNCHANGED submitted /\ submitted[s].keys # "none"
    BY <1>7 DEF MarkQueued
  <2>2. \A q \in Submission : InOld(q)' <=> InOld(q)
    BY <2>1 DEF InOld
  <2>3. IsOld("ledger") => InOld(s)
    BY <2>1 DEF IInv, SubmitInv
  <2>4. SubmitInv' /\ CheckInv'
    BY <1>2, <1>3, <2>1, <2>2 DEF IInv, SubmitInv, CheckInv
  <2> QED
    BY <2>2, <2>3, <2>4 DEF OldRows
<1> QED
  BY <1>4, <1>5, <1>6, <1>7

------------------------------------------------------------------------------
(* The theorems.                                                           *)

LEMMA InitInv == Init => IInv
<1> SUFFICES ASSUME Init PROVE IInv
  OBVIOUS
<1>1. \A r \in Run : run[r].pc = "idle" /\ run[r].stage = 1
  BY DEF Init
<1>2. backup.state = "absent" /\ backup.owner = NoRun
  BY DEF Init
<1>3. \A p \in Piece : IsOld(p)
  BY DEF Init, IsOld
<1>4. RunInv
  BY <1>1, <1>2 DEF RunInv, Begun, At
<1>5. PlaceInv
  BY <1>2, <1>3, AtPiece, OrderSize, RunAssumption DEF PlaceInv, Reached, IsOld
<1>6. WalInv
  <2>1. wal \subseteq Piece
    BY PieceNames DEF Init, Database
  <2> QED
    BY <1>1, <1>3, <2>1 DEF WalInv, At
<1>7. SubmitInv /\ CheckInv
  BY DEF Init, SubmitInv, CheckInv
<1> QED
  BY <1>2, <1>4, <1>5, <1>6, <1>7 DEF IInv, BackupInv

LEMMA IInvCorrect == Spec => []IInv
<1>1. ASSUME TypeOK, IInv, [Next]_vars PROVE IInv'
  <2>1. CASE UNCHANGED vars
    <3>1. RunInv' /\ BackupInv'
      BY <1>1, <2>1 DEF vars, IInv, RunInv, Begun, BackupInv, At, ThisPiece
    <3>2. PlaceInv'
      BY <1>1, <2>1 DEF vars, IInv, PlaceInv, Reached
    <3>3. WalInv'
      BY <1>1, <2>1 DEF vars, IInv, WalInv, IsOld, OldRows, InOld, At, ThisPiece
    <3>4. SubmitInv' /\ CheckInv'
      BY <1>1, <2>1, SubmittersAside DEF vars, LastCheckPassed, ThisPiece
    <3> QED
      BY <3>1, <3>2, <3>3, <3>4 DEF IInv
  <2> QED
    BY <1>1, <2>1, VerifyOK, OpenBackupOK, ArchiveOK, DropWalOK, LastCheckOK, ReplaceOK, StopOK,
       SubmitOK
    DEF Next
<1>2. TypeOK /\ IInv /\ [Next]_vars => IInv'
  BY <1>1
<1> QED
  BY InitInv, <1>2, TypeCorrect, PTL DEF Spec

(* The old version of whatever is gone, or about to be, is in a complete   *)
(* backup.                                                                 *)
THEOREM OldIsRestorable == Spec => []RestorableFromBackup
<1>1. ASSUME TypeOK, IInv PROVE RestorableFromBackup
  <2> SUFFICES ASSUME NEW p \in Piece \ Unkept,
                      ~IsOld(p) \/ \E r \in Run : ThisPiece(r) = p /\ run[r].stage > 1
               PROVE  backup.state = "complete" /\ p \in backup.holds
    BY DEF RestorableFromBackup
  <2>1. CASE \E r \in Run : run[r].stage > 1
    BY <1>1, <2>1 DEF IInv, RunInv, BackupInv
  <2>2. CASE ~IsOld(p)
    <3>1. PICK k \in 1..15 : Order[k] = p
      BY PieceAt
    <3>2. k # 1
      BY <3>1, OrderNames DEF Unkept, Roots
    <3>3. Reached(k)
      BY <1>1, <2>2, <3>1, OrderSize DEF IInv, PlaceInv, IsOld
    <3>4. run[backup.owner].stage > 1
      BY <1>1, <3>2, <3>3, Fields, OrderSize DEF Reached, IInv, RunInv
    <3> QED
      BY <1>1, <3>3, <3>4 DEF IInv, RunInv, BackupInv, Reached
  <2> QED
    BY <2>1, <2>2
<1>2. TypeOK /\ IInv => RestorableFromBackup
  BY <1>1
<1> QED
  BY TypeCorrect, IInvCorrect, <1>2, PTL

(* What users reach through a new link is whole; a deployment is recorded  *)
(* only if Redis had no submission at the last look, and an old log left   *)
(* beside the new ledger is of a submission that wrote rows to the old one *)
(* and had not been accepted.                                              *)
THEOREM ReachedIsWhole == Spec => []WholeWhenReached
<1>1. ASSUME TypeOK, IInv PROVE WholeWhenReached
  <2>1. ASSUME NEW j \in 1..15, NEW k \in 1..15, j <= k, ~IsOld(Order[k]) PROVE ~IsOld(Order[j])
    BY <1>1, <2>1, NewInOrder DEF IInv
  <2>2. ASSUME NEW l \in Links, ~IsOld(l), NEW p \in Piece \ (Links \union {"record"})
        PROVE  ~IsOld(p)
    <3>1. PICK k \in 12..14 : Order[k] = l
      BY OrderNames DEF Links
    <3>2. PICK j \in 1..15 : Order[j] = p
      BY PieceAt
    <3>3. j < 12
      BY <3>2, OrderNames DEF Links
    <3> QED
      BY <2>1, <2>2, <3>1, <3>2, <3>3
  <2>3. ~IsOld("asc") => ~IsOld("services") /\ ~IsOld("app")
    <3>1. ASSUME ~IsOld(Order[14]) PROVE ~IsOld(Order[12]) /\ ~IsOld(Order[13])
      BY <2>1, <3>1
    <3> QED
      BY <3>1, OrderNames
  <2>4. ASSUME ~IsOld("record")
        PROVE  /\ ~IsOld("asc")
               /\ \A s \in Submission : submitted[s].keys # "before"
               /\ wal # {} => wal = {"ledger"} /\ \E s \in Submission : InOld(s)
    <3>1. ~IsOld(Order[15])
      BY <2>4, OrderNames
    <3>2. ~IsOld("asc") /\ ~IsOld("ledger") /\ ~IsOld("effects") /\ ~IsOld("control")
      <4>1. ~IsOld(Order[14]) /\ ~IsOld(Order[5]) /\ ~IsOld(Order[6]) /\ ~IsOld(Order[7])
        BY <2>1, <3>1
      <4> QED
        BY <4>1, OrderNames
    <3>3. \A d \in wal : d = "ledger" /\ OldRows
      BY <1>1, <3>2 DEF IInv, WalInv, TypeOK, Database
    <3>4. Reached(15)
      BY <1>1, <3>1, OrderSize DEF IInv, PlaceInv, IsOld
    <3>5. backup.owner \in Run /\ run[backup.owner].pc = "done" /\ run[backup.owner].stage = 15
      BY <1>1, <3>4, Fields, OrderSize DEF Reached, IInv, RunInv
    <3>6. LastCheckPassed(backup.owner)
      BY <3>5, OrderNames DEF LastCheckPassed, ThisPiece
    <3> QED
      BY <1>1, <3>2, <3>3, <3>5, <3>6 DEF IInv, CheckInv, OldRows
  <2> QED
    BY <2>2, <2>3, <2>4 DEF WholeWhenReached
<1>2. TypeOK /\ IInv => WholeWhenReached
  BY <1>1
<1> QED
  BY TypeCorrect, IInvCorrect, <1>2, PTL

(* Only the run that made the backup puts anything in place, and nothing   *)
(* changes once it has stopped.                                            *)
THEOREM NothingIsRepaired == Spec => NeverRepaired
<1> DEFINE OwnerAlone == \A p \in Piece : place'[p] # place[p] =>
                           place'[p] = backup.owner /\ ~At(backup.owner, "stopped")
<1>1. ASSUME TypeOK, IInv, Next PROVE OwnerAlone
  <2> SUFFICES ASSUME NEW p \in Piece, place'[p] # place[p]
               PROVE  place'[p] = backup.owner /\ ~At(backup.owner, "stopped")
    OBVIOUS
  <2>1. PICK r \in Run : Replace(r)
    BY <1>1 DEF Next, Verify, OpenBackup, Archive, DropWal, LastCheck, Stop, BindInput, RecordCall,
       WriteKeys, MarkQueued, WriteLedger
  <2>2. r = backup.owner /\ run[r].pc = "replace"
    BY <1>1, <2>1, ReplaceReaches
  <2>3. place'[p] = r
    BY <1>1, <2>1 DEF Replace, TypeOK
  <2> QED
    BY <2>2, <2>3 DEF At
<1>2. TypeOK /\ IInv /\ [Next]_vars => [OwnerAlone]_vars
  BY <1>1
<1> QED
  BY TypeCorrect, IInvCorrect, <1>2, PTL DEF Spec, NeverRepaired

==============================================================================
