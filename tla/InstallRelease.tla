---------------------------- MODULE InstallRelease ----------------------------
(***************************************************************************)
(* install-release.py: one release is installed by verifying that          *)
(* everything is as the preflight found it, writing a backup, and then     *)
(* replacing one piece after the other, the links that users go through    *)
(* last.  Each replacement is atomic; the whole is not, and any assertion  *)
(* or signal ends the program where it stands.  Operators may start it     *)
(* again or twice at once, and users may still submit jobs over SSH: the   *)
(* masked units stop only the daemons.  A submission binds its record in   *)
(* the ledger, records its call there and then puts its keys, which have   *)
(* no TTL, into Redis; each write opens the ledger file of that moment,    *)
(* and the installer may come, or the submitter end, between any two.      *)
(***************************************************************************)
EXTENDS Naturals, Sequences

CONSTANTS
  Run,         \* invocations of the installer
  NoRun,
  Submission   \* jobs that users submit meanwhile

ASSUME RunAssumption == NoRun \notin Run

(* The pieces in the order in which they are put in place, legacy ones by  *)
(* removing them.  (Slip: a link is retargeted with the immutable files.)  *)
FaultyOrder == <<"engine", "extensions", "templates", "manifest", "app",
  "ledger", "effects", "control", "policy", "environment", "srv-input", "srv-export",
  "services", "asc", "record">>
Order == <<"engine", "extensions", "templates", "manifest",
  "ledger", "effects", "control", "policy", "environment", "srv-input", "srv-export",
  "services", "app", "asc", "record">>

Piece    == {Order[k] : k \in DOMAIN Order}
Roots    == {"engine", "extensions", "templates"}
Database == {"ledger", "effects", "control"}
Unkept   == Roots \union {"manifest", "record"}       \* there is no old one
Verified == Piece \ {"manifest", "asc", "record"}

VARIABLES
  place,     \* the run that put the new piece there, NoRun while it is old
  wal,       \* databases with an old write-ahead log beside them
  backup,    \* /var/backups/autoscribe-pre-<release>.tar
  run,       \* the invocations
  submitted  \* the ledgers that have the rows of a submission, and its keys:
             \* there before a run had looked for any the last time, or after

vars == <<place, wal, backup, run, submitted>>

Backups == [state: {"absent", "open", "complete"}, owner: Run \union {NoRun}, holds: SUBSET Piece]
Labels  == {"idle", "backup", "archive", "drop_wal", "last_check", "replace", "stopped", "done"}
Ledgers == {"none", "old", "new"}
Submitted == [input: Ledgers, call: Ledgers, keys: {"none", "before", "after"}]

TypeOK ==
  /\ place \in [Piece -> Run \union {NoRun}]
  /\ wal \subseteq Database
  /\ backup \in Backups
  /\ run \in [Run -> [pc: Labels, stage: DOMAIN Order]]
  /\ submitted \in [Submission -> Submitted]

Init ==
  /\ place = [p \in Piece |-> NoRun]
  /\ wal \in SUBSET Database
  /\ backup = [state |-> "absent", owner |-> NoRun, holds |-> {}]
  /\ run = [r \in Run |-> [pc |-> "idle", stage |-> 1]]
  /\ submitted = [s \in Submission |-> [input |-> "none", call |-> "none", keys |-> "none"]]

At(r, l)    == run[r].pc = l
Goto(r, l)  == run' = [run EXCEPT ![r].pc = l]
ThisPiece(r) == Order[run[r].stage]
IsOld(p)    == place[p] = NoRun
RedisEmpty  == \A s \in Submission : submitted[s].keys = "none"
InOld(s)    == "old" \in {submitted[s].input, submitted[s].call}
LastCheckPassed(r) == ThisPiece(r) = "record" /\ run[r].pc \in {"replace", "done"}

(* What comes first: a database's log goes, Redis is looked at once more.  *)
Entry(p) == CASE p \in Database -> "drop_wal"
              [] p = "record" -> "last_check"
              [] OTHER -> "replace"

(* After a piece comes the next, or the end.  (Slip: the bound is missed.) *)
FaultyAdvance(r) == run' = [run EXCEPT ![r] = [pc |-> "replace", stage |-> @.stage + 1]]
Advance(r) == run' = [run EXCEPT ![r] =
  IF @.stage = Len(Order) THEN [@ EXCEPT !.pc = "done"]
  ELSE [pc |-> Entry(Order[@.stage + 1]), stage |-> @.stage + 1]]

------------------------------------------------------------------------------
(* Everything is as the preflight found it, the rows in the databases      *)
(* included, Redis is empty and nothing of the release is there; otherwise *)
(* the run refuses.                                                        *)
Verify(r) ==
  /\ At(r, "idle")
  /\ IF /\ \A p \in Verified : IsOld(p)
        /\ \A s \in Submission : ~InOld(s)
        /\ RedisEmpty /\ backup.state = "absent"
     THEN Goto(r, "backup") ELSE Goto(r, "stopped")
  /\ UNCHANGED <<place, wal, backup, submitted>>

(* The databases are copied, logs included, and the archive is created     *)
(* exclusively: of two runs that got this far one stops here.              *)
FaultyOpenBackup(r) ==              \* opened with 'w'
  /\ At(r, "backup")
  /\ backup' = [state |-> "open", owner |-> r, holds |-> {}]
  /\ Goto(r, "archive")
  /\ UNCHANGED <<place, wal, submitted>>
OpenBackup(r) ==
  /\ At(r, "backup")
  /\ IF backup.state = "absent"
     THEN /\ backup' = [state |-> "open", owner |-> r, holds |-> {}]
          /\ Goto(r, "archive")
     ELSE Goto(r, "stopped") /\ UNCHANGED backup
  /\ UNCHANGED <<place, wal, submitted>>

Archive(r) ==
  /\ At(r, "archive")
  /\ backup' = [backup EXCEPT !.state = "complete", !.holds = {p \in Piece \ Unkept : IsOld(p)}]
  /\ Goto(r, "replace")
  /\ UNCHANGED <<place, wal, submitted>>

(* db_replace removes -wal and -shm before it replaces the database.       *)
DropWal(r) ==
  /\ At(r, "drop_wal")
  /\ wal' = wal \ {ThisPiece(r)}
  /\ Goto(r, "replace")
  /\ UNCHANGED <<place, backup, submitted>>

(* The deployment is recorded if Redis is still empty; the record itself   *)
(* is written a dozen commands later.  (Slip: it is not looked at again.)  *)
FaultyLastCheck(r) ==
  /\ At(r, "last_check")
  /\ Goto(r, "replace")
  /\ UNCHANGED <<place, wal, backup, submitted>>
LastCheck(r) ==
  /\ At(r, "last_check") /\ RedisEmpty
  /\ Goto(r, "replace")
  /\ UNCHANGED <<place, wal, backup, submitted>>

(* A root is extracted beside its place, checked there and renamed, and    *)
(* must not exist.                                                         *)
Replace(r) ==
  /\ At(r, "replace") /\ (ThisPiece(r) \in Roots => IsOld(ThisPiece(r)))
  /\ place' = [place EXCEPT ![ThisPiece(r)] = r]
  /\ Advance(r)
  /\ UNCHANGED <<wal, backup, submitted>>

(* An assertion fails, a command fails, or the program is killed.          *)
Stop(r) ==
  /\ run[r].pc \notin {"idle", "stopped", "done"}
  /\ Goto(r, "stopped")
  /\ UNCHANGED <<place, wal, backup, submitted>>

------------------------------------------------------------------------------
(* A user submits a job through whatever asc is in place.  Each of its     *)
(* transactions is on the ledger file that is there, which is in WAL mode: *)
(* the log of an old one may stay, with a reader or a submitter that ends. *)
ThisLedger == IF IsOld("ledger") THEN "old" ELSE "new"
WriteLedger ==
  /\ wal' \in {wal, wal \union {d \in {"ledger"} : IsOld(d)}}
  /\ UNCHANGED <<place, backup, run>>

BindInput(s) ==
  /\ submitted[s].input = "none"
  /\ submitted' = [submitted EXCEPT ![s].input = ThisLedger]
  /\ WriteLedger

RecordCall(s) ==
  /\ submitted[s].input # "none" /\ submitted[s].call = "none"
  /\ submitted' = [submitted EXCEPT ![s].call = ThisLedger]
  /\ WriteLedger

(* The script writes the call's keys and its marker in one. *)
WriteKeys(s) ==
  /\ submitted[s].call # "none" /\ submitted[s].keys = "none"
  /\ submitted' = [submitted EXCEPT ![s].keys =
       IF \E r \in Run : LastCheckPassed(r) THEN "after" ELSE "before"]
  /\ UNCHANGED <<place, wal, backup, run>>

(* And the input is marked queued: a last write, to whatever ledger.       *)
MarkQueued(s) == submitted[s].keys # "none" /\ WriteLedger /\ UNCHANGED submitted

Next ==
  \/ \E r \in Run : \/ Verify(r) \/ OpenBackup(r) \/ Archive(r) \/ DropWal(r)
                     \/ LastCheck(r) \/ Replace(r) \/ Stop(r)
  \/ \E s \in Submission : BindInput(s) \/ RecordCall(s) \/ WriteKeys(s) \/ MarkQueued(s)

Spec == Init /\ [][Next]_vars

------------------------------------------------------------------------------
(* Properties.                                                             *)

(* Wherever a run stops, and whoever starts another: the old version of    *)
(* every piece that is no longer there, and of the one a run was about to  *)
(* replace (a database whose log is gone), is in a complete backup         *)
(* (install-release.py:92-106).                                            *)
RestorableFromBackup ==
  \A p \in Piece \ Unkept :
    ~IsOld(p) \/ (\E r \in Run : ThisPiece(r) = p /\ run[r].stage > 1)
      => backup.state = "complete" /\ p \in backup.holds

(* An installation is the work of one run and never repaired in place:     *)
(* whatever is new was put there by the run that made the backup, and when *)
(* that run has stopped nothing changes any more (install-release.py:4-5,  *)
(* 87-90, 97).                                                             *)
NeverRepaired ==
  [][ \A p \in Piece : place'[p] # place[p] =>
        place'[p] = backup.owner /\ ~At(backup.owner, "stopped") ]_vars

Links == {"services", "app", "asc"}

(* What users reach through a new link is whole: the links change after    *)
(* everything they lead to, the command last.  Where a deployment is       *)
(* recorded as having had no jobs submitted, none was in Redis when the    *)
(* installer looked last: the submissions whose rows went with the old     *)
(* ledger had not been accepted then, and only they can have left an old   *)
(* log beside the new one (install-release.py:50-52, 70, 108-148;          *)
(* enqueue.py:142-173).                                                    *)
WholeWhenReached ==
  /\ (\E l \in Links : ~IsOld(l)) =>
       \A p \in Piece \ (Links \union {"record"}) : ~IsOld(p)
  /\ ~IsOld("asc") => ~IsOld("services") /\ ~IsOld("app")
  /\ ~IsOld("record") =>
       /\ ~IsOld("asc")
       /\ \A s \in Submission : submitted[s].keys # "before"
       /\ wal # {} => wal = {"ledger"} /\ \E s \in Submission : InOld(s)
=============================================================================
