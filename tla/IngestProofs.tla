----------------------------- MODULE IngestProofs -----------------------------
(***************************************************************************)
(* Proofs about Ingest, for any number of lines and of defects: prepare    *)
(* and enqueue agree on what a record must be, a record that is bound is   *)
(* whole or says why it is not, and every line is answered.                *)
(*                                                                         *)
(* The three properties speak of one moment each (the hand-over, the       *)
(* binding, the output).  What makes them inductive is what the record     *)
(* holds at every stage between, which PartsInv says.                      *)
(***************************************************************************)
EXTENDS Ingest, TLAPS

(* The 13 checks, one by one; none of them is about the dispatch. *)
LEMMA CheckNames ==
  /\ DOMAIN Checks = 1..13
  /\ Checks[1] = "envelope" /\ Checks[2] = "identity" /\ Checks[11] = "length"
  /\ \A k \in DOMAIN Checks : Checks[k] # "dispatch"
BY DEF Checks

(* An envelope without defects passes every check. *)
LEMMA AllPassed ==
  ASSUME NEW e, e.defects \subseteq {"dispatch"}
  PROVE  /\ Passed(e, "envelope") /\ Passed(e, "identity") /\ Passed(e, "length")
         /\ "objects" \notin e.defects /\ "client" \notin e.defects
<1>1. \A j \in 1..13 : Checks[j] \notin e.defects
  BY CheckNames
<1>2. 1 \in DOMAIN Checks /\ 2 \in DOMAIN Checks /\ 11 \in DOMAIN Checks
  BY CheckNames
<1>3. 1..1 \subseteq 1..13 /\ 1..2 \subseteq 1..13 /\ 1..11 \subseteq 1..13
  OBVIOUS
<1> QED
  BY <1>1, <1>2, <1>3, CheckNames DEF Passed

------------------------------------------------------------------------------
(* Types.                                                                  *)

LEMMA NoRecordTyped == NoRecord \in Record
BY DEF NoRecord, Record, Statuses, Slugs

LEMMA ExaminedTyped ==
  ASSUME NEW e \in Input
  PROVE  /\ Examined(e) \in Record
         /\ Examined(e).schema = "prepared" /\ Examined(e).call = "none"
         /\ Examined(e).status = "failed" /\ Examined(e).assets = "none"
         /\ Examined(e).content = IF ~Passed(e, "length") THEN "none"
                                  ELSE IF e.empty THEN "empty" ELSE "text"
         /\ Examined(e).submission = Passed(e, "identity")
<1> DEFINE client == CASE ~Passed(e, "envelope") -> "absent"
                       [] Passed(e, "envelope") /\ "client" \in e.defects -> "other"
                       [] OTHER -> IF "objects" \in e.defects THEN "absent"
                                   ELSE IF e.slug THEN "slug" ELSE "object"
           content == IF ~Passed(e, "length") THEN "none" ELSE IF e.empty THEN "empty" ELSE "text"
<1>1. client \in {"absent", "object", "slug", "other"}
  OBVIOUS
<1>2. content \in {"none", "empty", "text"} /\ Passed(e, "identity") \in BOOLEAN
  BY DEF Passed
<1>3. Examined(e) = [schema |-> "prepared", submission |-> Passed(e, "identity"),
                     call |-> "none", status |-> "failed", failure |-> FALSE,
                     content |-> content, client |-> client,
                     slug |-> "none", plan |-> FALSE, assets |-> "none", strict |-> TRUE]
  <2>1. Examined(e) = [NoRecord EXCEPT !.client = client, !.submission = Passed(e, "identity"),
                                       !.content = content]
    BY Zenon DEF Examined
  <2> HIDE DEF client, content
  <2> QED
    BY <2>1 DEF NoRecord
<1> HIDE DEF client, content
<1> QED
  BY <1>1, <1>2, <1>3 DEF Record, Statuses, Slugs, content

(* failure() keeps a record one, and what it says of itself. *)
LEMMA FailureIs ==
  ASSUME NEW r \in Record
  PROVE  /\ Failure(r) \in Record
         /\ Failure(r).failure /\ Failure(r).status = "failed"
         /\ Failure(r).submission = r.submission
         /\ Failure(r).client = r.client
         /\ Failure(r).call = IF r.submission /\ r.call = "none" THEN "failed" ELSE r.call
         /\ Failure(r).schema = IF r.submission THEN "prepared" ELSE "error"
BY DEF Failure, Record, Statuses

LEMMA InterpretedIs ==
  ASSUME NEW r \in Record, NEW t \in Interpretation, NEW a \in {"none", "wanted"}
  PROVE  LET n == Interpreted(r, t, a) IN
         /\ n \in Record
         /\ n.call = (IF t.own THEN "call" ELSE "foreign") /\ n.strict = t.strict
         /\ n.slug = t.slug /\ n.plan = (t.kind = "ready") /\ n.assets = a
         /\ n.status = (IF t.kind = "ready" THEN "ready" ELSE "failed")
         /\ n.failure = (t.kind # "ready")
         /\ n.schema = r.schema /\ n.submission = r.submission
         /\ n.content = r.content /\ n.client = r.client
<1> DEFINE n == Interpreted(r, t, a)
           call == IF t.own THEN "call" ELSE "foreign"
           status == IF t.kind = "ready" THEN "ready" ELSE "failed"
           ready == t.kind = "ready"
           unready == t.kind # "ready"
           slug == t.slug
           strict == t.strict
<1>1. n = [r EXCEPT !.slug = slug, !.call = call, !.strict = strict, !.plan = ready,
                    !.status = status, !.failure = unready, !.assets = a]
  BY DEF Interpreted
<1>2. /\ status \in Statuses /\ ready \in BOOLEAN /\ unready \in BOOLEAN
      /\ call \in {"none", "call", "foreign", "failed"} /\ slug \in Slugs /\ strict \in BOOLEAN
  BY DEF Statuses, Interpretation
<1> HIDE DEF n, call, status, ready, unready, slug, strict
<1>3. n = [schema |-> r.schema, submission |-> r.submission, call |-> call,
           status |-> status, failure |-> unready, content |-> r.content,
           client |-> r.client, slug |-> slug, plan |-> ready, assets |-> a, strict |-> strict]
  BY <1>1 DEF Record
<1>4. /\ r.schema \in {"prepared", "error"} /\ r.submission \in BOOLEAN
      /\ r.content \in {"none", "empty", "text"}
      /\ r.client \in {"absent", "object", "slug", "other"}
      /\ a \in {"none", "wanted", "staged"}
  BY DEF Record
<1>5. n \in Record
  BY <1>2, <1>3, <1>4 DEF Record
<1>6. /\ n.call = call /\ n.slug = slug /\ n.plan = ready /\ n.assets = a
      /\ n.status = status /\ n.failure = unready /\ n.strict = strict
      /\ n.schema = r.schema /\ n.submission = r.submission
      /\ n.content = r.content /\ n.client = r.client
  BY <1>3
<1> QED
  BY <1>5, <1>6 DEF n, call, status, ready, unready, slug, strict

LEMMA InputsTyped == Inputs \subseteq Input
<1> SUFFICES ASSUME NEW x \in Inputs PROVE x \in Input
  OBVIOUS
<1>1. CASE x \in {NoEnvelope("blank"), NoEnvelope("unreadable")}
  <2>1. PICK s \in Shapes : x = [shape |-> s, defects |-> {}, slug |-> FALSE,
                                 empty |-> FALSE, large |-> FALSE]
    BY <1>1 DEF NoEnvelope, Shapes
  <2>2. {} \in SUBSET Defect
    OBVIOUS
  <2> QED
    BY <2>1, <2>2 DEF Input
<1>2. ASSUME NEW D \in SUBSET Defect, NEW s \in BOOLEAN, NEW e \in BOOLEAN, NEW b \in BOOLEAN,
             x = [shape |-> "envelope", defects |-> D, slug |-> s, empty |-> e, large |-> b]
      PROVE  x \in Input
  BY <1>2 DEF Input, Shapes
<1> QED
  BY <1>1, <1>2 DEF Inputs

LEMMA UntoldTyped == \A o \in Kinds : Untold(o) \in Interpretation /\ Untold(o).kind = o
BY DEF Untold, Interpretation, Slugs

LEMMA InitTyped == Init => TypeOK
<1> SUFFICES ASSUME Init PROVE TypeOK
  OBVIOUS
<1>1. input \in [Line -> Input]
  BY InputsTyped DEF Init
<1>2. line \in 1..(NumLines + 1)
  BY BoundsAssumption DEF Init
<1>3. out \in Seq(Printed)
  BY DEF Init
<1> QED
  BY <1>1, <1>2, <1>3, NoRecordTyped, UntoldTyped DEF Init, TypeOK, Labels, Kinds

(* What a line prints, and how the command goes on. *)
LEMMA EndLineTyped ==
  ASSUME TypeOK, line \in Line, NEW kind \in {"diagnostic", "record", "receipt"},
         NEW named \in BOOLEAN, NEW status \in Statuses, EndLine(kind, named, status)
  PROVE  TypeOK'
<1>1. [line |-> line, kind |-> kind, named |-> named, status |-> status] \in Printed
  BY DEF Printed
<1>2. out' \in Seq(Printed) /\ failed' \in BOOLEAN
  BY <1>1 DEF TypeOK, EndLine
<1>3. line' \in 1..(NumLines + 1)
  BY BoundsAssumption DEF EndLine, Line
<1> QED
  BY <1>2, <1>3, NoRecordTyped, UntoldTyped DEF TypeOK, EndLine, Labels, Kinds

LEMMA RaiseTyped == TypeOK /\ line \in Line /\ Raise => TypeOK'
<1> SUFFICES ASSUME TypeOK, line \in Line, Raise PROVE TypeOK'
  OBVIOUS
<1>1. CASE mode = "submit"
  BY <1>1 DEF Raise, TypeOK, Labels
<1>2. CASE mode # "submit"
  <2>1. record.submission \in BOOLEAN
    BY DEF TypeOK, Record
  <2> QED
    BY <1>2, <2>1, EndLineTyped DEF Raise, Statuses
<1> QED
  BY <1>1, <1>2

(* A line is at hand whenever a record is. *)
AtLine == pc \notin {"read", "done"} => line \in Line

LEMMA StepTyped == TypeOK /\ AtLine /\ [Next]_vars => TypeOK' /\ AtLine'
<1> SUFFICES ASSUME TypeOK, AtLine, [Next]_vars PROVE TypeOK' /\ AtLine'
  OBVIOUS
<1>a. ASSUME line \in Line PROVE This \in Input
  BY <1>a DEF This, TypeOK
<1>b. ASSUME NEW kind \in {"diagnostic", "record", "receipt"}, line \in Line,
             NEW named \in BOOLEAN, NEW status \in Statuses, EndLine(kind, named, status)
      PROVE  TypeOK' /\ AtLine'
  BY <1>b, EndLineTyped DEF EndLine, AtLine
<1>c. ASSUME line \in Line, Raise PROVE TypeOK' /\ AtLine'
  BY <1>c, RaiseTyped DEF Raise, EndLine, AtLine
<1>1. CASE SkipBlank
  <2>1. line' \in 1..(NumLines + 1)
    BY <1>1, BoundsAssumption DEF SkipBlank, Line
  <2> QED
    BY <1>1, <2>1 DEF SkipBlank, TypeOK, AtLine
<1>2. CASE Unreadable
  BY <1>2, <1>c DEF Unreadable
<1>3. CASE Examine
  <2>1. record' \in Record /\ pc' \in {"interpret", "hand"} /\ line \in Line
    BY <1>3, <1>a, ExaminedTyped, FailureIs DEF Examine
  <2> QED
    BY <1>3, <2>1 DEF Examine, TypeOK, AtLine, Labels
<1>4. ASSUME NEW o \in Kinds, InterpretFails(o) PROVE TypeOK' /\ AtLine'
  <2>1. record' \in Record
    BY <1>4, FailureIs DEF InterpretFails, TypeOK
  <2> QED
    BY <1>4, <2>1, UntoldTyped DEF InterpretFails, TypeOK, AtLine, Labels
<1>5. ASSUME NEW t \in Interpretation, NEW a \in {"none", "wanted"}, Interpret(t, a)
      PROVE  TypeOK' /\ AtLine'
  <2>1. record' \in Record
    BY <1>5, InterpretedIs DEF Interpret, TypeOK
  <2> QED
    BY <1>5, <2>1 DEF Interpret, TypeOK, AtLine, Labels
<1>6. CASE StageAssets
  <2>1. record' \in Record
    <3>1. \A j \in {record.strict, FALSE} :
             [record EXCEPT !.assets = "staged", !.strict = j] \in Record
      BY DEF TypeOK, Record
    <3> QED
      BY <1>6, <3>1, FailureIs DEF StageAssets, TypeOK
  <2> QED
    BY <1>6, <2>1 DEF StageAssets, TypeOK, AtLine, Labels
<1>7. CASE Hand
  <2>1. line \in Line /\ record.status \in Statuses
    BY <1>7 DEF Hand, AtLine, TypeOK, Record
  <2>2. CASE pc' = "validate" /\ UNCHANGED <<mode, input, line, record, told, out, failed>>
    BY <2>1, <2>2 DEF TypeOK, AtLine, Labels
  <2>3. \/ Raise \/ EndLine("diagnostic", FALSE, "failed") \/ EndLine("record", TRUE, record.status)
        \/ pc' = "validate" /\ UNCHANGED <<mode, input, line, record, told, out, failed>>
    BY <1>7 DEF Hand
  <2> QED
    BY <2>1, <2>2, <2>3, <1>b, <1>c DEF Statuses
<1>8. CASE Validate
  <2>1. line \in Line
    BY <1>8 DEF Validate, AtLine
  <2>2. CASE Raise
    BY <2>1, <2>2, <1>c
  <2>3. CASE pc' = "bind" /\ UNCHANGED <<mode, input, line, record, told, out, failed>>
    BY <2>1, <2>3 DEF TypeOK, AtLine, Labels
  <2> QED
    BY <1>8, <2>2, <2>3 DEF Validate
<1>9. CASE Bind
  <2>1. line \in Line /\ record.status \in Statuses
    BY <1>9 DEF Bind, AtLine, TypeOK, Record
  <2>2. CASE Raise
    BY <2>1, <2>2, <1>c
  <2>3. ASSUME NEW st \in {record.status, "failed"}, EndLine("receipt", TRUE, st)
        PROVE  TypeOK' /\ AtLine'
    BY <2>1, <2>3, <1>b DEF Statuses
  <2> QED
    BY <1>9, <2>2, <2>3 DEF Bind
<1>10. CASE End
  BY <1>10 DEF End, TypeOK, AtLine, Labels
<1>11. CASE UNCHANGED vars
  BY <1>11 DEF vars, TypeOK, AtLine
<1> QED
  BY <1>1, <1>2, <1>3, <1>4, <1>5, <1>6, <1>7, <1>8, <1>9, <1>10, <1>11 DEF Next

(* Every variable keeps its type in every behaviour. *)
THEOREM TypeCorrect == Spec => []TypeOK
<1>1. Init => TypeOK /\ AtLine
  BY InitTyped DEF Init, AtLine
<1> QED
  BY <1>1, StepTyped, PTL DEF Spec

------------------------------------------------------------------------------
(* What the record holds, stage by stage.                                  *)

(* From the interpretation on, and after it failed. *)
PartsInv ==
  pc \in {"assets", "hand", "validate", "bind"} =>
    /\ record.status = "ready" =>
         /\ This.defects \subseteq {"dispatch"} /\ told.kind = "ready"
         /\ record.plan /\ ~record.failure /\ record.client # "other"
         /\ record.content = IF This.empty THEN "empty" ELSE "text"
         /\ record.client = "slug" => This.slug
         /\ record.slug = told.slug
         /\ record.assets = "wanted" => pc = "assets"
    /\ record.status = "failed" => record.failure
    /\ record.schema = IF record.submission THEN "prepared" ELSE "error"
    /\ record.call = IF told.kind \in {"refused", "ready"}
                     THEN IF told.own THEN "call" ELSE "foreign"
                     ELSE IF record.submission THEN "failed" ELSE "none"
    /\ told.kind # "none" => record.submission

StageInv ==
  /\ pc = "read" => record = NoRecord /\ told = Untold("none")
  /\ pc \notin {"read", "done"} => This.shape = "envelope" /\ record.submission = HasIdentity(This)
  /\ pc = "interpret" => /\ told = Untold("none") /\ record = Examined(This)
                         /\ This.defects \subseteq {"dispatch"}
  /\ pc = "assets" => record.status = "ready"
  /\ pc \in {"validate", "bind"} => record.submission
  /\ pc = "bind" => Acceptable(record, This)
  /\ PartsInv

(* The output so far, and the exit status it will lead to. *)
OutInv ==
  /\ LinesAnswered
  /\ pc # "done" /\ mode # "submit" => failed = \E i \in DOMAIN out : out[i].status = "failed"

(* A line that ends, in whatever way, leaves no record behind. *)
LEMMA EndLineStage ==
  ASSUME NEW kind, NEW named, NEW status, EndLine(kind, named, status)
  PROVE  StageInv'
BY DEF EndLine, StageInv, PartsInv

LEMMA RaiseStage == Raise => StageInv'
BY EndLineStage DEF Raise, StageInv, PartsInv

LEMMA InitStage == Init => StageInv
BY DEF Init, StageInv, PartsInv

LEMMA StepStage == TypeOK /\ AtLine /\ StageInv /\ [Next]_vars => StageInv'
<1> SUFFICES ASSUME TypeOK, AtLine, StageInv, [Next]_vars PROVE StageInv'
  OBVIOUS
<1>a. record \in Record /\ (line \in Line => This \in Input)
  BY DEF TypeOK, This
<1>1. CASE SkipBlank
  BY <1>1 DEF SkipBlank, StageInv, PartsInv
<1>2. CASE Unreadable
  BY <1>2, RaiseStage DEF Unreadable
<1>3. CASE Examine
  <2>1. /\ This \in Input /\ This.shape = "envelope" /\ This' = This
        /\ told = Untold("none") /\ told' = told /\ told.kind = "none"
    BY <1>3, <1>a, UntoldTyped DEF Examine, This, StageInv, Kinds
  <2>2. /\ Examined(This) \in Record /\ Examined(This).schema = "prepared"
        /\ Examined(This).call = "none" /\ Examined(This).submission = HasIdentity(This)
    <3>1. HasIdentity(This) = Passed(This, "identity")
      BY <2>1 DEF HasIdentity, Passed
    <3> QED
      BY <2>1, <3>1, ExaminedTyped
  <2>3. CASE This.defects \subseteq {"dispatch"}
    <3>1. pc' = "interpret" /\ record' = Examined(This)
      BY <1>3, <2>3 DEF Examine
    <3> QED
      BY <2>1, <2>2, <2>3, <3>1 DEF StageInv, PartsInv
  <2>4. CASE ~(This.defects \subseteq {"dispatch"})
    <3>1. pc' = "hand" /\ record' = Failure(Examined(This))
      BY <1>3, <2>4 DEF Examine
    <3>2. /\ record'.failure /\ record'.status = "failed"
          /\ record'.submission = HasIdentity(This)
          /\ record'.call = IF HasIdentity(This) THEN "failed" ELSE "none"
          /\ record'.schema = IF HasIdentity(This) THEN "prepared" ELSE "error"
      BY <2>2, <3>1, FailureIs
    <3>3. PartsInv'
      BY <2>1, <3>1, <3>2 DEF PartsInv
    <3> QED
      BY <2>1, <3>1, <3>2, <3>3 DEF StageInv
  <2> QED
    BY <2>3, <2>4
<1>b. pc = "interpret" =>
        /\ line \in Line /\ This \in Input /\ This.shape = "envelope"
        /\ This.defects \subseteq {"dispatch"}
        /\ record.submission /\ record.schema = "prepared" /\ record.call = "none"
        /\ record.submission = HasIdentity(This)
        /\ record.content = IF This.empty THEN "empty" ELSE "text"
        /\ record.client \in {"slug", "object"} /\ (record.client = "slug" => This.slug)
  <2> SUFFICES ASSUME pc = "interpret"
               PROVE  /\ line \in Line /\ This \in Input /\ This.shape = "envelope"
                      /\ This.defects \subseteq {"dispatch"}
                      /\ record.submission /\ record.schema = "prepared" /\ record.call = "none"
                      /\ record.submission = HasIdentity(This)
                      /\ record.content = IF This.empty THEN "empty" ELSE "text"
                      /\ record.client \in {"slug", "object"} /\ (record.client = "slug" => This.slug)
    OBVIOUS
  <2>1. /\ line \in Line /\ This \in Input /\ This.shape = "envelope"
        /\ This.defects \subseteq {"dispatch"} /\ record = Examined(This)
        /\ record.submission = HasIdentity(This)
    BY <1>a DEF AtLine, StageInv
  <2>2. /\ Passed(This, "envelope") /\ Passed(This, "identity") /\ Passed(This, "length")
        /\ "objects" \notin This.defects /\ "client" \notin This.defects
    BY <2>1, AllPassed
  <2>3. Examined(This).client = IF This.slug THEN "slug" ELSE "object"
    BY <2>2 DEF Examined, NoRecord
  <2> QED
    BY <2>1, <2>2, <2>3, ExaminedTyped
<1>4. ASSUME NEW o \in Kinds, InterpretFails(o) PROVE StageInv'
  <2>1. /\ pc = "interpret" /\ pc' = "hand" /\ This' = This /\ record' = Failure(record)
        /\ told'.kind = o /\ o \in {"resources", "pandoc", "contract"}
    BY <1>4, UntoldTyped DEF InterpretFails, This
  <2>2. /\ record'.failure /\ record'.status = "failed" /\ record'.submission
        /\ record'.call = "failed" /\ record'.schema = "prepared"
    BY <1>a, <1>b, <2>1, FailureIs
  <2> QED
    BY <1>b, <2>1, <2>2 DEF StageInv, PartsInv
<1>5. ASSUME NEW t \in Interpretation, NEW a \in {"none", "wanted"}, Interpret(t, a)
      PROVE  StageInv'
  <2>1. /\ pc = "interpret" /\ pc' = (IF t.kind = "ready" /\ a = "wanted" THEN "assets" ELSE "hand")
        /\ This' = This /\ record' = Interpreted(record, t, a)
        /\ told' = t /\ t.kind \in {"refused", "ready"}
    BY <1>5 DEF Interpret, This
  <2>2. /\ record'.call = (IF t.own THEN "call" ELSE "foreign")
        /\ record'.slug = t.slug /\ record'.plan = (t.kind = "ready")
        /\ record'.assets = a
        /\ record'.status = (IF t.kind = "ready" THEN "ready" ELSE "failed")
        /\ record'.failure = (t.kind # "ready")
        /\ record'.schema = "prepared" /\ record'.submission
        /\ record'.submission = HasIdentity(This)
        /\ record'.content = record.content /\ record'.client = record.client
    BY <1>a, <1>b, <2>1, InterpretedIs
  <2>3. PartsInv'
    BY <1>b, <2>1, <2>2 DEF PartsInv
  <2> QED
    BY <1>b, <2>1, <2>2, <2>3 DEF StageInv
<1>6. CASE StageAssets
  <2>1. /\ pc = "assets" /\ pc' = "hand" /\ This' = This /\ told' = told
        /\ record.status = "ready" /\ This.shape = "envelope"
        /\ record.submission = HasIdentity(This)
    BY <1>6 DEF StageAssets, This, StageInv
  <2>2. /\ record.schema = (IF record.submission THEN "prepared" ELSE "error")
        /\ told.kind = "ready" /\ record.call = (IF told.own THEN "call" ELSE "foreign")
        /\ record.submission
    BY <2>1 DEF StageInv, PartsInv
  <2>3. ASSUME NEW j, record' = [record EXCEPT !.assets = "staged", !.strict = j] PROVE StageInv'
    <3>1. /\ record'.assets = "staged" /\ record'.status = record.status
          /\ record'.content = record.content /\ record'.plan = record.plan
          /\ record'.failure = record.failure /\ record'.client = record.client
          /\ record'.slug = record.slug /\ record'.schema = record.schema
          /\ record'.submission = record.submission /\ record'.call = record.call
      BY <1>a, <2>3 DEF Record
    <3>2. PartsInv'
      BY <2>1, <2>2, <3>1 DEF StageInv, PartsInv
    <3> QED
      BY <2>1, <3>1, <3>2 DEF StageInv
  <2>4. CASE record' = Failure(record)
    <3>1. /\ record'.failure /\ record'.status = "failed" /\ record'.submission = record.submission
          /\ record'.call = record.call /\ record'.schema = "prepared"
      BY <1>a, <2>2, <2>4, FailureIs
    <3>2. PartsInv'
      BY <2>1, <2>2, <3>1 DEF PartsInv
    <3> QED
      BY <2>1, <3>1, <3>2 DEF StageInv
  <2> QED
    BY <1>6, <2>3, <2>4 DEF StageAssets
<1>c. ASSUME pc \in {"hand", "validate"}, pc' \in {"validate", "bind"}, record.submission,
             pc' = "bind" => Acceptable(record, This),
             UNCHANGED <<input, line, record, told>>
      PROVE  StageInv'
  BY <1>c DEF StageInv, PartsInv, This
<1>7. CASE Hand
  <2>1. CASE Raise
    BY <2>1, RaiseStage
  <2>2. ASSUME NEW k, NEW n, NEW st, EndLine(k, n, st) PROVE StageInv'
    BY <2>2, EndLineStage
  <2>3. CASE /\ pc' = "validate" /\ UNCHANGED <<mode, input, line, record, told, out, failed>>
             /\ record.submission
    BY <1>7, <1>c, <2>3 DEF Hand
  <2>4. pc = "hand" /\ (record.call # "none" => record.submission)
    BY <1>7 DEF Hand, StageInv, PartsInv
  <2> QED
    BY <1>7, <2>1, <2>2, <2>3, <2>4 DEF Hand
<1>8. CASE Validate
  BY <1>8, <1>c, RaiseStage DEF Validate, StageInv
<1>9. CASE Bind
  BY <1>9, EndLineStage, RaiseStage DEF Bind
<1>10. CASE End
  BY <1>10 DEF End, StageInv, PartsInv
<1>11. CASE UNCHANGED vars
  BY <1>11 DEF vars, StageInv, PartsInv, This
<1> QED
  BY <1>1, <1>2, <1>3, <1>4, <1>5, <1>6, <1>7, <1>8, <1>9, <1>10, <1>11 DEF Next

LEMMA StageInvariant == Spec => [](TypeOK /\ AtLine /\ StageInv)
<1>1. Init => TypeOK /\ AtLine /\ StageInv
  BY InitTyped, InitStage DEF Init, AtLine
<1>2. TypeOK /\ AtLine /\ StageInv /\ [Next]_vars => TypeOK' /\ AtLine' /\ StageInv'
  BY StepTyped, StepStage
<1> QED
  BY <1>1, <1>2, PTL DEF Spec

(* What prepare hands over with an identity, enqueue takes, but for the    *)
(* six exceptions the property names.                                      *)
THEOREM PrepareMeetsEnqueue == Spec => []PreparedIsAccepted
<1>1. TypeOK /\ AtLine /\ StageInv => PreparedIsAccepted
  <2> SUFFICES ASSUME TypeOK, StageInv, pc = "validate", record.client # "other", ~This.large,
                      record.strict, told.own,
                      record.status = "ready" => ~This.empty /\ (This.slug => told.slug = "client")
               PROVE  Acceptable(record, This)
    BY DEF PreparedIsAccepted
  <2>1. record.status \in {"ready", "failed"}
    BY DEF TypeOK, Record, Statuses
  <2>2. record.submission /\ PartsInv
    BY DEF StageInv
  <2>3. record.schema = "prepared" /\ record.call \in {"call", "failed"}
    BY <2>2 DEF PartsInv
  <2> QED
    BY <2>1, <2>2, <2>3 DEF PartsInv, Acceptable
<1> QED
  BY <1>1, StageInvariant, PTL

(* What is bound as ready is whole; what is bound as failed says why. *)
THEOREM BoundIsWhole == Spec => []OnlyWholeIsReady
<1>1. TypeOK /\ AtLine /\ StageInv => OnlyWholeIsReady
  <2> SUFFICES ASSUME StageInv, pc = "bind" PROVE OnlyWholeIsReady
    BY DEF OnlyWholeIsReady
  <2>1. record.submission /\ PartsInv
    BY DEF StageInv
  <2>2. Acceptable(record, This)
    BY DEF StageInv
  <2> QED
    BY <2>1, <2>2 DEF PartsInv, Acceptable, OnlyWholeIsReady
<1> QED
  BY <1>1, StageInvariant, PTL

------------------------------------------------------------------------------
(* The output.                                                             *)

LEMMA InitOut == Init => OutInv
<1> SUFFICES ASSUME Init PROVE OutInv
  OBVIOUS
<1>1. out = <<>> /\ DOMAIN out = {} /\ line = 1 /\ pc = "read" /\ failed = FALSE
  BY DEF Init
<1>2. 1..(line - 1) = {}
  BY <1>1
<1>3. {out[i].line : i \in DOMAIN out} = {} /\ {l \in 1..(line - 1) : input[l].shape # "blank"} = {}
  BY <1>1, <1>2
<1>4. LinesAnswered
  BY <1>1, <1>3 DEF LinesAnswered
<1> QED
  BY <1>1, <1>4 DEF OutInv

(* A step that prints nothing and stays at its line. *)
LEMMA SameOut ==
  ASSUME OutInv, UNCHANGED <<mode, input, line, out, failed>>, pc # "done", pc' # "done"
  PROVE  OutInv'
BY DEF OutInv, LinesAnswered, HasIdentity

(* A command that takes a single request is no matter of these lines. *)
LEMMA SubmitOut == mode' = "submit" => OutInv'
BY DEF OutInv, LinesAnswered

(* A line that ends with its own identity. *)
LEMMA EndLineOut ==
  ASSUME TypeOK, OutInv, line \in Line, This.shape # "blank", pc # "done", mode # "submit",
         NEW kind, NEW named, NEW status, EndLine(kind, named, status),
         named = HasIdentity(This)
  PROVE  OutInv'
<1> DEFINE x == [line |-> line, kind |-> kind, named |-> named, status |-> status]
           n == Len(out)
<1>1. /\ out' = Append(out, x) /\ out \in Seq(Printed) /\ n \in Nat
      /\ failed' = (failed \/ status = "failed")
      /\ line' = line + 1 /\ pc' = "read" /\ mode' = mode /\ input' = input
      /\ line \in Nat /\ line >= 1
  BY DEF EndLine, TypeOK, Line
<1>2. /\ DOMAIN out = 1..n /\ DOMAIN out' = 1..(n + 1) /\ out'[n + 1] = x
      /\ \A i \in 1..n : out'[i] = out[i]
  BY <1>1
<1>3. x.line = line /\ x.named = named /\ x.status = status
  OBVIOUS
<1> HIDE DEF x, n
<1>4. /\ {out[i].line : i \in 1..n} = {l \in 1..(line - 1) : input[l].shape # "blank"}
      /\ \A i, j \in 1..n : i < j => out[i].line < out[j].line
      /\ \A i \in 1..n : out[i].named = HasIdentity(input[out[i].line])
      /\ failed = \E i \in 1..n : out[i].status = "failed"
  <2>1. LinesAnswered /\ (failed = \E i \in DOMAIN out : out[i].status = "failed")
    BY DEF OutInv
  <2>2. DOMAIN out = 1..n
    BY <1>2
  <2> QED
    BY <2>1, <2>2, Zenon DEF LinesAnswered
<1>5. {out'[i].line : i \in 1..(n + 1)} = {out[i].line : i \in 1..n} \union {line}
  <2>1. \A i \in 1..(n + 1) : i \in 1..n \/ i = n + 1
    BY <1>1
  <2>2. \A i \in 1..n : i \in 1..(n + 1)
    BY <1>1
  <2>3. n + 1 \in 1..(n + 1)
    BY <1>1
  <2> QED
    BY <1>2, <1>3, <2>1, <2>2, <2>3
<1>6. {out'[i].line : i \in DOMAIN out'} = {l \in 1..(line' - 1) : input'[l].shape # "blank"}
  <2>1. 1..(line' - 1) = 1..(line - 1) \union {line}
    BY <1>1
  <2>2. input[line].shape # "blank"
    BY DEF This
  <2> QED
    BY <1>1, <1>2, <1>4, <1>5, <2>1, <2>2
<1>7. \A i \in 1..n : out[i].line \in 1..(line - 1)
  BY <1>4
<1>8. \A i, j \in DOMAIN out' : i < j => out'[i].line < out'[j].line
  <2> SUFFICES ASSUME NEW i \in 1..(n + 1), NEW j \in 1..(n + 1), i < j
               PROVE  out'[i].line < out'[j].line
    BY <1>2
  <2>1. i \in 1..n /\ (j \in 1..n \/ j = n + 1)
    BY <1>1
  <2>2. CASE j \in 1..n
    BY <1>2, <1>4, <2>1, <2>2
  <2>3. CASE j = n + 1
    <3>1. out[i].line < line
      BY <1>1, <1>7, <2>1
    <3> QED
      BY <1>2, <1>3, <2>1, <2>3, <3>1
  <2> QED
    BY <2>1, <2>2, <2>3
<1>9. \A i \in DOMAIN out' : out'[i].named = HasIdentity(input'[out'[i].line])
  <2> SUFFICES ASSUME NEW i \in 1..(n + 1)
               PROVE  out'[i].named = HasIdentity(input[out'[i].line])
    BY <1>1, <1>2
  <2>1. i \in 1..n \/ i = n + 1
    BY <1>1
  <2> QED
    BY <1>2, <1>3, <1>4, <2>1 DEF This
<1>10. failed' = \E i \in DOMAIN out' : out'[i].status = "failed"
  <2>1. \A i \in 1..(n + 1) : i \in 1..n \/ i = n + 1
    BY <1>1
  <2>2. \A i \in 1..n : i \in 1..(n + 1)
    BY <1>1
  <2>3. n + 1 \in 1..(n + 1)
    BY <1>1
  <2>4. (\E i \in 1..(n + 1) : out'[i].status = "failed")
          <=> (\E i \in 1..n : out[i].status = "failed") \/ status = "failed"
    BY <1>2, <1>3, <2>1, <2>2, <2>3
  <2> QED
    BY <1>1, <1>2, <1>4, <2>4
<1>11. LinesAnswered'
  BY <1>1, <1>6, <1>8, <1>9 DEF LinesAnswered
<1> QED
  BY <1>1, <1>10, <1>11 DEF OutInv

LEMMA RaiseOut ==
  ASSUME TypeOK, OutInv, line \in Line, This.shape # "blank", pc # "done", Raise,
         record.submission = HasIdentity(This)
  PROVE  OutInv'
<1>1. CASE mode = "submit"
  BY <1>1, SubmitOut DEF Raise
<1>2. CASE mode # "submit"
  BY <1>2, EndLineOut DEF Raise
<1> QED
  BY <1>1, <1>2

LEMMA StepOut == TypeOK /\ AtLine /\ StageInv /\ OutInv /\ [Next]_vars => OutInv'
<1> SUFFICES ASSUME TypeOK, AtLine, StageInv, OutInv, [Next]_vars PROVE OutInv'
  OBVIOUS
<1>a. ASSUME pc \in {"hand", "validate", "bind"}
      PROVE  /\ line \in Line /\ This.shape # "blank" /\ record.submission = HasIdentity(This)
             /\ pc # "done"
  BY <1>a DEF AtLine, StageInv
<1>1. CASE SkipBlank
  <2>1. /\ line \in Nat /\ line >= 1 /\ line' = line + 1 /\ input[line].shape = "blank"
        /\ UNCHANGED <<mode, input, pc, out, failed>>
    BY <1>1 DEF SkipBlank, Line, This
  <2>2. 1..(line' - 1) = 1..(line - 1) \union {line}
    BY <2>1
  <2>3. {l \in 1..(line' - 1) : input[l].shape # "blank"}
          = {l \in 1..(line - 1) : input[l].shape # "blank"}
    BY <2>1, <2>2
  <2> QED
    BY <2>1, <2>3 DEF OutInv, LinesAnswered, HasIdentity
<1>2. CASE Unreadable
  <2>1. record.submission = FALSE /\ HasIdentity(This) = FALSE
    BY <1>2 DEF Unreadable, StageInv, NoRecord, HasIdentity
  <2> QED
    BY <1>2, <2>1, RaiseOut DEF Unreadable
<1>3. CASE Examine
  BY <1>3, SameOut DEF Examine
<1>4. ASSUME NEW o \in Kinds, InterpretFails(o) PROVE OutInv'
  BY <1>4, SameOut DEF InterpretFails
<1>5. ASSUME NEW t, NEW a, Interpret(t, a) PROVE OutInv'
  BY <1>5, SameOut DEF Interpret
<1>6. CASE StageAssets
  BY <1>6, SameOut DEF StageAssets
<1>7. CASE Hand
  <2>1. pc = "hand" /\ record.submission \in BOOLEAN
    BY <1>7 DEF Hand, TypeOK, Record
  <2>2. CASE Raise
    BY <2>1, <2>2, <1>a, RaiseOut
  <2>3. CASE pc' = "validate" /\ UNCHANGED <<mode, input, line, record, told, out, failed>>
    BY <2>1, <2>3, SameOut
  <2>4. CASE mode # "submit" /\ record.call = "none" /\ EndLine("diagnostic", FALSE, "failed")
    <3>1. HasIdentity(This) = FALSE
      BY <2>1, <2>4, <1>a DEF StageInv, PartsInv
    <3> QED
      BY <2>1, <2>4, <3>1, <1>a, EndLineOut
  <2>5. CASE mode = "prepare" /\ record.call # "none" /\ EndLine("record", TRUE, record.status)
    <3>1. HasIdentity(This) = TRUE
      BY <2>1, <2>5, <1>a DEF StageInv, PartsInv
    <3> QED
      BY <2>1, <2>5, <3>1, <1>a, EndLineOut
  <2> QED
    BY <1>7, <2>2, <2>3, <2>4, <2>5 DEF Hand
<1>8. CASE Validate
  <2>1. pc = "validate"
    BY <1>8 DEF Validate
  <2> QED
    BY <1>8, <2>1, <1>a, RaiseOut, SameOut DEF Validate
<1>9. CASE Bind
  <2>1. pc = "bind" /\ record.submission
    BY <1>9 DEF Bind, StageInv
  <2>2. CASE Raise
    BY <2>1, <2>2, <1>a, RaiseOut
  <2>3. ASSUME NEW st \in {record.status, "failed"}, EndLine("receipt", TRUE, st)
        PROVE  OutInv'
    <3>1. CASE mode = "submit"
      BY <2>3, <3>1, SubmitOut DEF EndLine
    <3>2. CASE mode # "submit"
      <4>1. HasIdentity(This) = TRUE
        BY <2>1, <1>a DEF TypeOK, Record
      <4> QED
        BY <2>1, <2>3, <3>2, <4>1, <1>a, EndLineOut
    <3> QED
      BY <3>1, <3>2
  <2> QED
    BY <1>9, <2>2, <2>3 DEF Bind
<1>10. CASE End
  <2>1. /\ pc = "read" /\ pc' = "done" /\ failed' = (failed \/ out = <<>>)
        /\ UNCHANGED <<mode, input, line, out>>
    BY <1>10 DEF End
  <2> QED
    BY <2>1 DEF OutInv, LinesAnswered, HasIdentity
<1>11. CASE UNCHANGED vars
  BY <1>11 DEF vars, OutInv, LinesAnswered, HasIdentity
<1> QED
  BY <1>1, <1>2, <1>3, <1>4, <1>5, <1>6, <1>7, <1>8, <1>9, <1>10, <1>11 DEF Next

(* Every line that is not blank is answered once, in order and under its   *)
(* own identity, and the exit status sums them up.                         *)
THEOREM EveryLineAnswered == Spec => []LinesAnswered
<1>1. OutInv => LinesAnswered
  BY DEF OutInv
<1>2. Init => OutInv
  BY InitOut
<1>3. TypeOK /\ AtLine /\ StageInv /\ OutInv /\ [Next]_vars => OutInv'
  BY StepOut
<1>4. Spec => [](TypeOK /\ AtLine /\ StageInv)
  BY StageInvariant
<1> QED
  BY <1>1, <1>2, <1>3, <1>4, PTL DEF Spec

==============================================================================
