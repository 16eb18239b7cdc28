-------------------------------- MODULE Ingest --------------------------------
(***************************************************************************)
(* Document ingest: preprocess.prepare turns an envelope into a prepared   *)
(* record, and validate_input_record (enqueue.py) decides, on its own and  *)
(* without knowing documents, whether to take it.  `asc prepare` and `asc  *)
(* ingest` do this for every line of their input, `asc job submit` for the *)
(* one request of a package.  prepare fills one record in place and may    *)
(* leave it at any point by failure(), so what the record holds then       *)
(* depends on how far it came.  Pandoc, its filters and the Dropbox        *)
(* handler are external: they do as they please within the contract that   *)
(* prepare checks, which asks less of them than enqueue does.              *)
(***************************************************************************)
EXTENDS Naturals, FiniteSets, Sequences

CONSTANTS
  NumLines,    \* lines of input
  MaxDefects   \* bound on the defects of all envelopes together

ASSUME BoundsAssumption == NumLines \in Nat \ {0} /\ MaxDefects \in Nat

Line  == 1..NumLines
Modes == {"prepare", "ingest", "submit"}

(* What prepare requires of an envelope, in the order in which it looks.   *)
Checks == <<"envelope", "identity", "fields", "objects", "reserved", "client",
            "coordination", "format", "representation", "document", "length",
            "claims", "sidecar">>
Defect == {Checks[k] : k \in DOMAIN Checks} \union {"dispatch"}

(* defects: the requirements an envelope fails ("dispatch": its submission *)
(* id is not the job's); slug: baggage.client names a slug; empty: so is   *)
(* the document; large: with what is added to it, and the blanks of JSON,  *)
(* the record passes a limit that the envelope has kept.                   *)
Shapes == {"blank", "unreadable", "envelope"}
Input  == [shape: Shapes, defects: SUBSET Defect, slug: BOOLEAN, empty: BOOLEAN, large: BOOLEAN]

VARIABLES
  mode,      \* the command
  input,     \* its lines
  line, pc,  \* where it is
  record,    \* the prepared record of this line
  told,      \* what the interpretation of this line said (history)
  out,       \* what was printed
  failed     \* exit status

vars == <<mode, input, line, pc, record, told, out, failed>>

Labels == {"read", "interpret", "assets", "hand", "validate", "bind", "done"}
Kinds    == {"none", "resources", "pandoc", "contract", "refused", "ready"}
Slugs    == {"none", "client", "document"}
Statuses == {"ready", "failed"}

(* own: it names the call that is derived from the submission; strict, of  *)
(* the record too: it can be written as UTF-8 JSON (no NaN, no lone        *)
(* surrogate).                                                             *)
Interpretation == [kind: Kinds, slug: Slugs, own: BOOLEAN, strict: BOOLEAN]
Untold(o)      == [kind |-> o, slug |-> "none", own |-> TRUE, strict |-> TRUE]

Record == [schema: {"prepared", "error"}, submission: BOOLEAN,
           call: {"none", "call", "foreign", "failed"}, status: Statuses, failure: BOOLEAN,
           content: {"none", "empty", "text"}, client: {"absent", "object", "slug", "other"},
           slug: Slugs, plan: BOOLEAN, assets: {"none", "wanted", "staged"},
           strict: BOOLEAN]
NoRecord == [schema |-> "prepared", submission |-> FALSE, call |-> "none",
             status |-> "failed", failure |-> FALSE, content |-> "none", client |-> "absent",
             slug |-> "none", plan |-> FALSE, assets |-> "none", strict |-> TRUE]
Printed  == [line: Line, kind: {"diagnostic", "record", "receipt"},
             named: BOOLEAN, status: Statuses]

TypeOK ==
  /\ mode \in Modes
  /\ input \in [Line -> Input]
  /\ line \in 1..(NumLines + 1)
  /\ pc \in Labels
  /\ record \in Record
  /\ told \in Interpretation
  /\ out \in Seq(Printed)
  /\ failed \in BOOLEAN

NoEnvelope(s) == [shape |-> s, defects |-> {}, slug |-> FALSE, empty |-> FALSE, large |-> FALSE]
Inputs == {NoEnvelope("blank"), NoEnvelope("unreadable")} \union
  {[shape |-> "envelope", defects |-> D, slug |-> s, empty |-> e, large |-> b] :
     D \in {X \in SUBSET Defect : Cardinality(X) <= MaxDefects}, s, e, b \in BOOLEAN}

Init ==
  /\ mode \in Modes
  /\ input \in [Line -> Inputs]
  /\ Cardinality({x \in Line \X Defect : x[2] \in input[x[1]].defects}) <= MaxDefects
  /\ mode = "submit" => \A l \in Line :   \* one request, which is JSON
       input[l].shape = IF l = 1 THEN "envelope" ELSE "blank"
  /\ line = 1 /\ pc = "read"
  /\ record = NoRecord /\ told = Untold("none")
  /\ out = <<>> /\ failed = FALSE

This == input[line]

------------------------------------------------------------------------------
(* preprocess.prepare.                                                     *)

Passed(e, c) == \E k \in DOMAIN Checks :
  Checks[k] = c /\ \A j \in 1..k : Checks[j] \notin e.defects

(* The record when the last check that passes has been made.               *)
Examined(e) == [NoRecord EXCEPT
  !.client = CASE ~Passed(e, "envelope") -> "absent"
               [] Passed(e, "envelope") /\ "client" \in e.defects -> "other"
               [] OTHER -> IF "objects" \in e.defects THEN "absent"
                           ELSE IF e.slug THEN "slug" ELSE "object",
  !.submission = Passed(e, "identity"),
  !.content = IF ~Passed(e, "length") THEN "none" ELSE IF e.empty THEN "empty" ELSE "text"]

(* failure(): the record keeps what it has, and gets an identity of its    *)
(* own if it has none.  (Slips: the call is renamed; the schema of an      *)
(* error is put in its status.)                                            *)
FaultyFailureRenames(r) == [r EXCEPT !.failure = TRUE, !.status = "failed",
  !.call = IF r.submission THEN "failed" ELSE @,
  !.schema = IF r.submission THEN "prepared" ELSE "error"]
FaultyFailureStatus(r) == [r EXCEPT !.failure = TRUE,
  !.call = IF r.submission /\ @ = "none" THEN "failed" ELSE @,
  !.status = IF r.submission THEN "failed" ELSE "error"]
Failure(r) == [r EXCEPT !.failure = TRUE, !.status = "failed",
  !.call = IF r.submission /\ @ = "none" THEN "failed" ELSE @,
  !.schema = IF r.submission THEN "prepared" ELSE "error"]

Examine ==
  /\ pc = "read" /\ line \in Line /\ This.shape = "envelope"
  /\ IF This.defects \subseteq {"dispatch"}
     THEN pc' = "interpret" /\ record' = Examined(This)
     ELSE pc' = "hand" /\ record' = Failure(Examined(This))
  /\ UNCHANGED <<mode, input, line, told, out, failed>>

(* The catalogue and the defaults may be missing, Pandoc may not run, time *)
(* out or fail, and what it prints may break the contract.                 *)
InterpretFails(o) ==
  /\ pc = "interpret" /\ o \in {"resources", "pandoc", "contract"}
  /\ told' = Untold(o)
  /\ record' = Failure(record)
  /\ pc' = "hand"
  /\ UNCHANGED <<mode, input, line, out, failed>>

(* Otherwise it names a call, a slug and a plan or a failure: whose call,  *)
(* which slug, whether the document is empty and whether all of it can be  *)
(* written again, prepare does not ask.                                    *)
FaultyInterpreted(r, t, a) == [r EXCEPT !.slug = "none",        \* slug not merged
  !.call = IF t.own THEN "call" ELSE "foreign", !.strict = t.strict, !.plan = t.kind = "ready",
  !.status = IF t.kind = "ready" THEN "ready" ELSE "failed", !.failure = t.kind # "ready",
  !.assets = a]
Interpreted(r, t, a) == [r EXCEPT !.slug = t.slug,
  !.call = IF t.own THEN "call" ELSE "foreign", !.strict = t.strict, !.plan = t.kind = "ready",
  !.status = IF t.kind = "ready" THEN "ready" ELSE "failed", !.failure = t.kind # "ready",
  !.assets = a]

Interpret(t, a) ==
  /\ pc = "interpret" /\ t.kind \in {"refused", "ready"}
  /\ t.slug = "client" => record.client = "slug"
  /\ told' = t
  /\ record' = Interpreted(record, t, a)
  /\ pc' = IF t.kind = "ready" /\ a = "wanted" THEN "assets" ELSE "hand"
  /\ UNCHANGED <<mode, input, line, out, failed>>

(* stage_assets wants the directory of an SSH job; it may fail there too,  *)
(* and what the handler says of an asset is taken as it is.                *)
StageAssets ==
  /\ pc = "assets"
  /\ \/ /\ mode = "submit"
        /\ \E j \in {record.strict, FALSE} :
             record' = [record EXCEPT !.assets = "staged", !.strict = j]
     \/ record' = Failure(record)
  /\ pc' = "hand"
  /\ UNCHANGED <<mode, input, line, told, out, failed>>

------------------------------------------------------------------------------
(* enqueue.validate_input_record; e is asked for its size only.            *)
Acceptable(r, e) ==
  /\ r.schema = "prepared" /\ r.strict /\ ~e.large
  /\ r.submission /\ r.call \in {"call", "failed"}
  /\ r.client # "other"
  /\ IF r.status = "failed"
     THEN r.failure
     ELSE /\ r.client = "slug" => r.slug = "client"
          /\ r.call = "call" /\ ~r.failure /\ r.plan /\ r.content = "text"

------------------------------------------------------------------------------
(* The commands.                                                           *)

(* A line is done: what it prints, and whether the command has failed (a   *)
(* job that is registered as failed is no failure of `asc job submit`).    *)
FaultyEndLine(kind, named, status) ==       \* the record of the line stays
  /\ out' = Append(out, [line |-> line, kind |-> kind, named |-> named, status |-> status])
  /\ failed' = (failed \/ (status = "failed" /\ mode # "submit"))
  /\ line' = line + 1 /\ pc' = "read" /\ told' = Untold("none")
  /\ UNCHANGED <<mode, input, record>>
EndLine(kind, named, status) ==
  /\ out' = Append(out, [line |-> line, kind |-> kind, named |-> named, status |-> status])
  /\ failed' = (failed \/ (status = "failed" /\ mode # "submit"))
  /\ line' = line + 1 /\ pc' = "read" /\ record' = NoRecord /\ told' = Untold("none")
  /\ UNCHANGED <<mode, input>>

(* An exception: `asc ingest` prints it and goes on, with the submission id*)
(* if the record has come to hold one; `asc job submit` ends.              *)
Raise ==
  IF mode = "submit"
  THEN pc' = "done" /\ failed' = TRUE /\ UNCHANGED <<mode, input, line, record, told, out>>
  ELSE EndLine("diagnostic", record.submission, "failed")

SkipBlank ==
  /\ pc = "read" /\ line \in Line /\ This.shape = "blank"
  /\ line' = line + 1
  /\ UNCHANGED <<mode, input, pc, record, told, out, failed>>

Unreadable == pc = "read" /\ line \in Line /\ This.shape = "unreadable" /\ Raise

(* A record that cannot be encoded is not printed either (NaN can be).     *)
Hand ==
  /\ pc = "hand"
  /\ CASE mode = "submit" /\ (~record.submission \/ "dispatch" \in This.defects) -> Raise
       [] mode # "submit" /\ record.call = "none" -> EndLine("diagnostic", FALSE, "failed")
       [] mode = "prepare" /\ record.call # "none" ->
            EndLine("record", TRUE, record.status) \/ (~record.strict /\ Raise)
       [] OTHER -> /\ pc' = "validate"
                   /\ UNCHANGED <<mode, input, line, record, told, out, failed>>

Validate ==
  /\ pc = "validate"
  /\ IF Acceptable(record, This)
     THEN pc' = "bind" /\ UNCHANGED <<mode, input, line, record, told, out, failed>>
     ELSE Raise

(* enqueue_record: a receipt, which says failed for a ready record of an   *)
(* unknown plan as well, or an exception (see Enqueue).                    *)
Bind ==
  /\ pc = "bind"
  /\ Raise \/ \E s \in {record.status, "failed"} : EndLine("receipt", TRUE, s)

(* No record at all is an error.                                           *)
End ==
  /\ pc = "read" /\ line = NumLines + 1
  /\ pc' = "done"
  /\ failed' = (failed \/ out = <<>>)
  /\ UNCHANGED <<mode, input, line, record, told, out>>

Next ==
  \/ SkipBlank \/ Unreadable \/ Examine
  \/ \E o \in Kinds : InterpretFails(o)
  \/ \E t \in Interpretation, a \in {"none", "wanted"} : Interpret(t, a)
  \/ StageAssets \/ Hand \/ Validate \/ Bind \/ End

Spec == Init /\ [][Next]_vars

------------------------------------------------------------------------------
(* Properties.                                                             *)

(* Whatever prepare returns with an identity, enqueue takes, wherever      *)
(* prepare gave up, with six exceptions: a failed record whose             *)
(* baggage.client is no object (preprocess.py:75, 88, enqueue.py:68); one  *)
(* that has grown past the limit (preprocess.py:73, enqueue.py:41); one to *)
(* which the interpretation or the asset handler added a NaN or a lone     *)
(* surrogate (preprocess.py:172, 192, enqueue.py:38-40); and, as prepare   *)
(* does not ask (preprocess.py:151-185), an interpretation that names the  *)
(* call of another submission (enqueue.py:56-59), or is ready with a slug  *)
(* that is not the one the client claims (75) or an empty document (91).   *)
PreparedIsAccepted ==
  pc = "validate" =>
    \/ Acceptable(record, This)
    \/ record.client = "other" \/ This.large
    \/ ~record.strict \/ ~told.own
    \/ record.status = "ready" /\ (This.empty \/ (This.slug /\ told.slug # "client"))

(* What is bound as ready has passed every check, was interpreted, holds   *)
(* the document and has its assets; what is bound as failed says why; and  *)
(* the call id tells whether the interpretation exists, also when a later  *)
(* stage failed (preprocess.py:56-68, 174-194).                            *)
OnlyWholeIsReady ==
  pc = "bind" =>
    /\ record.status = "ready" =>
         /\ This.defects \subseteq {"dispatch"} /\ told.kind = "ready"
         /\ ~This.empty /\ record.assets # "wanted" /\ ~record.failure
    /\ record.status = "failed" => record.failure
    /\ record.call = (IF told.kind \in {"refused", "ready"} THEN "call" ELSE "failed")

(* Every line that is not blank is answered once and in order, under its   *)
(* own identity only and whatever the lines before it did, and the exit    *)
(* status is 0 just when there was input and all of it went through        *)
(* (bin/asc:37-79).                                                        *)
HasIdentity(e) == e.shape = "envelope" /\ Passed(e, "identity")
LinesAnswered ==
  mode # "submit" =>
    /\ {out[i].line : i \in DOMAIN out} = {l \in 1..(line - 1) : input[l].shape # "blank"}
    /\ \A i, j \in DOMAIN out : i < j => out[i].line < out[j].line
    /\ \A i \in DOMAIN out : out[i].named = HasIdentity(input[out[i].line])
    /\ pc = "done" => failed = (out = <<>> \/ \E i \in DOMAIN out : out[i].status = "failed")
=============================================================================
