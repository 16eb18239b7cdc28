----------------------------- MODULE PlansProofs ------------------------------
(***************************************************************************)
(* Proofs about Plans, for any steps, positions and size of a plan: that   *)
(* either driver runs a chain of rising positions, each step on the result *)
(* of the one before, and that the two drivers agree although one walks a  *)
(* sorted list and the other looks for the least later position.           *)
(*                                                                         *)
(* What a driver has done is determined by where it is: the rows below the *)
(* position at hand, in order.  The drivers stop at the same position, the *)
(* first that cannot be prepared or run, and two rising sequences of the   *)
(* same rows are the same sequence.                                        *)
(***************************************************************************)
EXTENDS Plans, FiniteSetTheorems, WellFoundedInduction, TLAPS

Done(d) == effects[d]
Rows(d) == {effects[d][i] : i \in DOMAIN effects[d]}
Below(p) == {r \in plan : r.position < p}
Upto(p)  == {r \in plan : r.position <= p}
Positions == {r.position : r \in plan}
Good(p)  == CanPrepare(p) /\ kind[StepAt(p).id] = "runs"

Rising(s) == \A i, j \in DOMAIN s : i < j => s[i].position < s[j].position

(* The rows whose step has taken effect when the chain stops at p.         *)
StopsAt(p) == Below(p) \union IF CanPrepare(p) /\ kind[StepAt(p).id] = "raises"
                              THEN Matches(p) ELSE {}

HistoryInv(d) ==
  /\ Rising(Done(d)) /\ Rows(d) \subseteq plan
  /\ \A p \in Position : results[d][p].found =>
       \E i \in DOMAIN Done(d) : /\ Done(d)[i].position = p
                                 /\ results[d][p].content = SubSeq(Done(d), 1, i)

(* Between two steps, the last of which was at o, if there was one.        *)
BetweenInv(d) ==
  \/ driver[d].ordinal = NoStep /\ Done(d) = <<>>
  \/ \E o \in Position :
       /\ driver[d].ordinal = o /\ Done(d) # <<>> /\ results[d][o].content = Done(d)
       /\ Rows(d) = Upto(o) /\ \A q \in Positions : q <= o => Good(q)

(* With the step at o prepared. *)
RunInv(d) ==
  \E o \in Positions :
    /\ driver[d].ordinal = o /\ CanPrepare(o) /\ TaskInput(d) = Done(d)
    /\ Rows(d) = Below(o) /\ \A q \in Positions : q < o => Good(q)
    /\ d = "direct" => driver[d].todo = plan \ Upto(o)

CompletedInv(d) ==
  /\ driver[d].response = Done(d) /\ Rows(d) = plan
  /\ \A q \in Positions : Good(q)

StoppedInv(d) ==
  /\ driver[d].response = <<>>
  /\ \E p \in Positions : /\ ~Good(p) /\ (\A q \in Positions : q < p => Good(q))
                          /\ Rows(d) = StopsAt(p)

(* executord finds a first step that it can prepare. *)
FirstReady == CanPrepare(First(plan).position)

DriverInv(d) ==
  LET pc == driver[d].pc IN
  /\ HistoryInv(d)
  /\ pc = "start" => Done(d) = <<>> /\ driver[d].ordinal = NoStep
  /\ pc # "start" => plan # {}
  /\ pc = "loop" => d = "direct" /\ BetweenInv(d) /\ driver[d].todo = plan \ Rows(d)
  /\ pc = "next" => d = "queued" /\ BetweenInv(d) /\ driver[d].ordinal # NoStep
  /\ pc = "run"  => RunInv(d)
  /\ pc = "done" => \/ driver[d].outcome = "completed" /\ CompletedInv(d)
                    \/ driver[d].outcome = "failed" /\ StoppedInv(d)
                    \/ d = "queued" /\ driver[d].outcome = "silent" /\ StoppedInv(d)
  /\ pc # "done" => driver[d].outcome = "none"
  /\ d = "queued" /\ pc # "start" => (FirstReady <=> driver[d].outcome # "silent")

IInv == IsFiniteSet(table) /\ \A d \in Driver : DriverInv(d)

------------------------------------------------------------------------------
(* About data.                                                             *)

(* A nonempty set of natural numbers has a least element. *)
LEMMA LeastNat ==
  ASSUME NEW T, T \subseteq Nat, T # {}
  PROVE  \E k \in T : \A m \in T : k <= m
<1>1. PICK k \in T : \A m \in T : <<m, k>> \notin OpToRel(<, Nat)
  BY NatLessThanWellFounded, WFMin
<1>2. \A m \in T : ~(m < k)
  BY <1>1 DEF OpToRel
<1> QED
  BY <1>2

(* A nonempty finite set that R orders strictly has a first element.       *)
LEMMA FirstExists ==
  ASSUME NEW S, IsFiniteSet(S), S # {}, NEW R,
         \A x, y \in S : x = y \/ <<x, y>> \in R \/ <<y, x>> \in R,
         \A x, y, z \in S : <<x, y>> \in R /\ <<y, z>> \in R => <<x, z>> \in R
  PROVE  \E x \in S : \A y \in S : y = x \/ <<x, y>> \in R
<1>a. PICK n \in Nat : ExistsSurjection(1..n, S)
  BY FS_NatSurjection
<1>1. PICK f \in [1..n -> S] : \A x \in S : \E i \in 1..n : f[i] = x
  BY <1>a DEF ExistsSurjection, Surjection
<1> DEFINE Least(m) == \E i \in 1..m : \A j \in 1..m : f[j] = f[i] \/ <<f[i], f[j]>> \in R
           T == {m \in 1..n : ~Least(m)}
<1> HIDE DEF Least
<1>2. T = {}
  <2> SUFFICES ASSUME T # {} PROVE FALSE
    OBVIOUS
  <2>0. T \subseteq Nat
    OBVIOUS
  <2>1. PICK k \in T : \A m \in T : k <= m
    BY <2>0, LeastNat
  <2>2. CASE k = 1
    <3>1. Least(1)
      BY DEF Least
    <3> QED
      BY <2>1, <2>2, <3>1
  <2>3. CASE k # 1
    <3>1. k - 1 \in 1..n /\ k - 1 \notin T /\ k \in 1..n
      <4>1. k \in 1..n
        OBVIOUS
      <4>2. k - 1 \in 1..n /\ ~(k <= k - 1)
        BY <2>3, <4>1
      <4> QED
        BY <2>1, <4>1, <4>2
    <3>2. PICK i \in 1..(k - 1) : \A j \in 1..(k - 1) : f[j] = f[i] \/ <<f[i], f[j]>> \in R
      BY <3>1 DEF Least
    <3>3. i \in 1..k /\ k \in 1..k /\ f[i] \in S /\ f[k] \in S
          /\ \A j \in 1..k : j = k \/ j \in 1..(k - 1)
      BY <3>1
    <3>4. CASE f[k] = f[i] \/ <<f[i], f[k]>> \in R
      <4>1. \A j \in 1..k : f[j] = f[i] \/ <<f[i], f[j]>> \in R
        BY <3>2, <3>3, <3>4
      <4> QED
        BY <2>1, <3>3, <4>1 DEF Least
    <3>5. CASE <<f[k], f[i]>> \in R
      <4>1. \A j \in 1..k : f[j] = f[k] \/ <<f[k], f[j]>> \in R
        <5> SUFFICES ASSUME NEW j \in 1..k PROVE f[j] = f[k] \/ <<f[k], f[j]>> \in R
          OBVIOUS
        <5>1. CASE j = k
          BY <5>1
        <5>2. CASE j \in 1..(k - 1)
          <6>1. f[j] \in S
            BY <3>1
          <6> QED
            BY <3>2, <3>3, <3>5, <5>2, <6>1
        <5> QED
          BY <3>3, <5>1, <5>2
      <4> QED
        BY <2>1, <3>3, <4>1 DEF Least
    <3> QED
      BY <3>3, <3>4, <3>5
  <2> QED
    BY <2>2, <2>3
<1>3. n \in 1..n
  BY <1>1
<1>4. PICK i \in 1..n : \A j \in 1..n : f[j] = f[i] \/ <<f[i], f[j]>> \in R
  BY <1>2, <1>3 DEF Least
<1>5. f[i] \in S /\ \A y \in S : y = f[i] \/ <<f[i], y>> \in R
  BY <1>1, <1>4
<1> QED
  BY <1>5

LEMMA RowTyped == \A r \in Row : r.id \in Int /\ r.position \in Int /\ r.position \in Position
<1>1. \A r \in Row : r.id \in StepId /\ r.position \in Position
  BY DEF Row
<1>2. StepId \subseteq Int /\ Position \subseteq Int
  BY StepIdAssumption, PositionAssumption
<1> QED
  BY <1>1, <1>2

LEMMA PositionsTyped == TypeOK => \A p \in Positions : p \in Position /\ p \in Int /\ p # NoStep
<1> SUFFICES ASSUME TypeOK, NEW r \in plan
             PROVE  r.position \in Position /\ r.position \in Int /\ r.position # NoStep
  BY DEF Positions
<1>1. r \in Row
  BY DEF TypeOK
<1> QED
  BY <1>1, RowTyped, PositionAssumption

LEMMA SeqTyped ==
  ASSUME NEW s \in Seq(Row)
  PROVE  /\ Len(s) \in Nat /\ DOMAIN s = 1..Len(s)
         /\ \A i \in DOMAIN s : i \in Nat /\ s[i] \in Row /\ s[i].position \in Int
<1>1. \A i \in DOMAIN s : s[i] \in Row
  OBVIOUS
<1> QED
  BY <1>1, RowTyped

(* ordered_steps begins with the least position. *)
LEMMA FirstIs ==
  ASSUME NEW S, S \subseteq Row, IsFiniteSet(S), S # {}
  PROVE  First(S) \in S /\ \A s \in S : First(S).position <= s.position
<1> DEFINE R == {x \in Row \X Row : Before(x[1], x[2])}
<1>a. \A r \in Row : r.id \in Int /\ r.position \in Int
  BY RowTyped
<1>b. \A x, y \in S : <<x, y>> \in R <=> Before(x, y)
  OBVIOUS
<1> HIDE DEF R
<1>1. \A x, y \in S : x = y \/ <<x, y>> \in R \/ <<y, x>> \in R
  <2> SUFFICES ASSUME NEW x \in S, NEW y \in S, ~Before(x, y), ~Before(y, x) PROVE x = y
    BY <1>b
  <2>1. x.id = y.id /\ x.position = y.position
    BY <1>a DEF Before
  <2> QED
    BY <2>1 DEF Row
<1>2. \A x, y, z \in S : <<x, y>> \in R /\ <<y, z>> \in R => <<x, z>> \in R
  <2> SUFFICES ASSUME NEW x \in S, NEW y \in S, NEW z \in S, Before(x, y), Before(y, z)
               PROVE  Before(x, z)
    BY <1>b
  <2> QED
    BY <1>a DEF Before
<1>3. PICK x \in S : \A y \in S : y = x \/ <<x, y>> \in R
  BY <1>1, <1>2, FirstExists
<1>4. \A y \in S : y = x \/ Before(x, y)
  BY <1>b, <1>3
<1>5. First(S) \in S /\ \A s \in S : s = First(S) \/ Before(First(S), s)
  BY <1>4 DEF First
<1> QED
  BY <1>a, <1>5 DEF Before

(* next_step_ordinal finds the least later position, if there is one.      *)
LEMMA NextIs ==
  ASSUME plan \subseteq Row, IsFiniteSet(plan), NEW o \in Position
  PROVE  /\ NextOrdinal(o) = NoStep => \A q \in Positions : q <= o
         /\ NextOrdinal(o) # NoStep => /\ NextOrdinal(o) \in Positions /\ NextOrdinal(o) > o
                                       /\ \A q \in Positions : q > o => NextOrdinal(o) <= q
<1>a. Positions \subseteq Position /\ Position \subseteq Int
  BY PositionAssumption DEF Positions, Row
<1>b. Later(o) = {q \in Positions : q > o}
  BY DEF Later, Positions
<1>1. CASE Later(o) = {}
  <2>1. NextOrdinal(o) = NoStep
    BY <1>1 DEF NextOrdinal
  <2> QED
    BY <1>1, <1>a, <1>b, <2>1
<1>2. CASE Later(o) # {}
  <2> DEFINE S == {r \in plan : r.position > o}
  <2>1. S \subseteq Row /\ S # {} /\ IsFiniteSet(S)
    BY <1>2, FS_Subset DEF Later
  <2>2. First(S) \in S /\ \A s \in S : First(S).position <= s.position
    BY <2>1, FirstIs
  <2>3. \E p \in Later(o) : \A q \in Later(o) : p <= q
    BY <2>2 DEF Later
  <2>4. NextOrdinal(o) \in Later(o) /\ \A q \in Later(o) : NextOrdinal(o) <= q
    BY <1>2, <2>3 DEF NextOrdinal
  <2> QED
    BY <1>a, <1>b, <2>4, PositionAssumption
<1> QED
  BY <1>1, <1>2

(* What can be prepared is one row. *)
LEMMA PreparedIs ==
  ASSUME IsFiniteSet(plan), NEW o, CanPrepare(o)
  PROVE  /\ Matches(o) = {StepAt(o)}
         /\ StepAt(o) \in plan /\ StepAt(o).position = o /\ o \in Positions
<1>1. IsFiniteSet(Matches(o))
  BY FS_Subset DEF Matches
<1>2. PICK x : Matches(o) = {x}
  BY <1>1, FS_Singleton DEF CanPrepare
<1>3. StepAt(o) = x
  BY <1>2 DEF StepAt
<1> QED
  BY <1>2, <1>3 DEF Matches, Positions

(* The rows at, below and up to a position. *)
LEMMA UptoIs == ASSUME NEW o, plan \subseteq Row, o \in Int
                PROVE  Upto(o) = Below(o) \union Matches(o)
<1>1. \A r \in plan : r.position \in Int
  BY PositionAssumption DEF Row
<1> QED
  BY <1>1 DEF Upto, Below, Matches

(* A rising sequence is determined by its rows. *)
LEMMA RisingInjective ==
  ASSUME NEW s \in Seq(Row), Rising(s), NEW i \in DOMAIN s, NEW j \in DOMAIN s
  PROVE  s[i].position < s[j].position => i < j
<1>1. i \in Nat /\ j \in Nat /\ s[i].position \in Int /\ s[j].position \in Int
  BY SeqTyped
<1> QED
  BY <1>1 DEF Rising

LEMMA RisingUnique ==
  ASSUME NEW s \in Seq(Row), NEW t \in Seq(Row), Rising(s), Rising(t),
         {s[i] : i \in DOMAIN s} = {t[i] : i \in DOMAIN t}
  PROVE  s = t
<1>a. /\ DOMAIN s = 1..Len(s) /\ DOMAIN t = 1..Len(t) /\ Len(s) \in Nat /\ Len(t) \in Nat
      /\ \A i \in DOMAIN s : s[i] \in Row /\ s[i].position \in Int
      /\ \A i \in DOMAIN t : t[i] \in Row /\ t[i].position \in Int
  BY SeqTyped
<1>1. ASSUME NEW k \in DOMAIN s, k \in DOMAIN t, \A i \in 1..(k - 1) : s[i] = t[i]
      PROVE  s[k] = t[k]
  <2>1. PICK j \in DOMAIN t : t[j] = s[k]
    BY <1>1
  <2>2. PICK i \in DOMAIN s : s[i] = t[k]
    BY <1>1
  <2>3. ~(j < k)
    <3> SUFFICES ASSUME j < k PROVE FALSE
      OBVIOUS
    <3>0. j \in 1..(k - 1) /\ j \in 1..Len(s)
      BY <1>a, <1>1
    <3>1. j \in DOMAIN s /\ s[j] = t[j]
      BY <1>a, <1>1, <3>0
    <3>2. s[j].position < s[k].position
      BY <1>1, <3>1 DEF Rising
    <3> QED
      BY <1>a, <2>1, <3>1, <3>2
  <2>4. ~(i < k)
    <3> SUFFICES ASSUME i < k PROVE FALSE
      OBVIOUS
    <3>0. i \in 1..(k - 1) /\ i \in 1..Len(t)
      BY <1>a, <1>1
    <3>1. i \in DOMAIN t /\ s[i] = t[i]
      BY <1>a, <1>1, <3>0
    <3>2. t[i].position < t[k].position
      BY <1>1, <3>1 DEF Rising
    <3> QED
      BY <1>a, <1>1, <2>2, <3>1, <3>2
  <2>5. j # k => t[k].position < s[k].position
    BY <1>a, <1>1, <2>1, <2>3 DEF Rising
  <2>6. i # k => s[k].position < t[k].position
    BY <1>a, <1>1, <2>2, <2>4 DEF Rising
  <2>7. s[k].position \in Int /\ t[k].position \in Int
    BY <1>a, <1>1
  <2> QED
    BY <2>1, <2>2, <2>5, <2>6, <2>7
<1>2. \A k \in DOMAIN s \intersect DOMAIN t : s[k] = t[k]
  <2> DEFINE T == {k \in DOMAIN s \intersect DOMAIN t : s[k] # t[k]}
  <2> SUFFICES ASSUME T # {} PROVE FALSE
    OBVIOUS
  <2>1. T \subseteq Nat
    BY <1>a
  <2>2. PICK k \in T : \A m \in T : k <= m
    BY <2>1, LeastNat
  <2>3. \A i \in 1..(k - 1) : s[i] = t[i]
    <3> SUFFICES ASSUME NEW i \in 1..(k - 1), s[i] # t[i] PROVE FALSE
      OBVIOUS
    <3>1. i \in T /\ ~(k <= i)
      BY <1>a, <2>1
    <3> QED
      BY <2>2, <3>1
  <2> QED
    BY <1>1, <2>2, <2>3
<1>3. ~(Len(s) < Len(t))
  <2> SUFFICES ASSUME Len(s) < Len(t) PROVE FALSE
    OBVIOUS
  <2>1. Len(s) + 1 \in DOMAIN t
    BY <1>a
  <2>2. PICK j \in DOMAIN s : s[j] = t[Len(s) + 1]
    BY <2>1
  <2>3. j \in DOMAIN t /\ s[j] = t[j] /\ j < Len(s) + 1
    BY <1>a, <1>2
  <2>4. t[j].position < t[Len(s) + 1].position
    BY <2>1, <2>3 DEF Rising
  <2> QED
    BY <1>a, <2>1, <2>2, <2>3, <2>4
<1>4. ~(Len(t) < Len(s))
  <2> SUFFICES ASSUME Len(t) < Len(s) PROVE FALSE
    OBVIOUS
  <2>1. Len(t) + 1 \in DOMAIN s
    BY <1>a
  <2>2. PICK j \in DOMAIN t : t[j] = s[Len(t) + 1]
    BY <2>1
  <2>3. j \in DOMAIN s /\ s[j] = t[j] /\ j < Len(t) + 1
    BY <1>a, <1>2
  <2>4. s[j].position < s[Len(t) + 1].position
    BY <2>1, <2>3 DEF Rising
  <2> QED
    BY <1>a, <2>1, <2>2, <2>3, <2>4
<1>5. Len(s) = Len(t)
  <2>1. Len(s) \in Nat /\ Len(t) \in Nat
    BY <1>a
  <2> HIDE <1>a
  <2> QED
    BY <2>1, <1>3, <1>4
<1> QED
  BY <1>a, <1>2, <1>5

------------------------------------------------------------------------------
(* The moves that actions are made of, with their types.                   *)

LEMMA InitTyped == Init => TypeOK
<1> SUFFICES ASSUME Init PROVE TypeOK
  OBVIOUS
<1>1. Fresh \in Drivers
  BY DEF Fresh, Drivers, Texts, Outcomes
<1>2. NoResult \in Results
  BY DEF NoResult, Results, Texts
<1>3. <<>> \in Texts
  BY DEF Texts
<1> QED
  BY <1>1, <1>2, <1>3 DEF Init, TypeOK

LEMMA TextTyped ==
  ASSUME TypeOK, NEW d \in Driver
  PROVE  /\ effects[d] \in Seq(Row) /\ TaskInput(d) \in Seq(Row)
         /\ driver[d] \in Drivers
         /\ \A p \in Position : results[d][p] \in Results /\ results[d][p].content \in Seq(Row)
<1>1. \A p \in Position : results[d][p] \in Results /\ results[d][p].content \in Seq(Row)
  BY DEF TypeOK, Results, Texts
<1>2. driver[d] \in Drivers /\ driver[d].input \in Position \union {NoStep}
  BY DEF TypeOK, Drivers
<1> QED
  BY <1>1, <1>2 DEF TypeOK, Texts, TaskInput

(* Only d moves; the plan is what it was. *)
Alone(d) == /\ UNCHANGED <<table, kind, plan>>
            /\ \A e \in Driver : e # d => /\ driver'[e] = driver[e] /\ effects'[e] = effects[e]
                                          /\ results'[e] = results[e]

LEMMA PrepareMoves ==
  ASSUME TypeOK, NEW d \in Driver, NEW o \in Position, NEW i \in Position \union {NoStep},
         PrepareTask(d, o, i), UNCHANGED <<table, kind, plan, results, effects>>
  PROVE  /\ TypeOK' /\ Alone(d)
         /\ driver'[d].pc = "run" /\ driver'[d].todo = driver[d].todo \ Matches(o)
         /\ driver'[d].ordinal = o /\ driver'[d].input = i
         /\ driver'[d].outcome = driver[d].outcome
<1> DEFINE t == driver[d].todo \ Matches(o)
           n == [driver[d] EXCEPT !.pc = "run", !.todo = t, !.ordinal = o, !.input = i]
<1>1. driver[d] \in Drivers /\ t \in SUBSET Row
  BY DEF TypeOK, Drivers
<1> HIDE DEF t
<1>2. driver' = [driver EXCEPT ![d] = n]
  <2>1. driver' = [driver EXCEPT ![d].pc = "run", ![d].todo = t, ![d].ordinal = o, ![d].input = i]
    BY DEF PrepareTask, t
  <2> QED
    BY <2>1 DEF TypeOK
<1>3. /\ n \in Drivers /\ n.pc = "run" /\ n.todo = t /\ n.ordinal = o /\ n.input = i
      /\ n.outcome = driver[d].outcome
  BY <1>1 DEF Drivers
<1> HIDE DEF n
<1>4. driver'[d] = n
  BY <1>2 DEF TypeOK
<1> QED
  BY <1>2, <1>3, <1>4 DEF TypeOK, Alone, t

LEMMA EndMoves ==
  ASSUME TypeOK, NEW d \in Driver, NEW o \in Outcomes, NEW x \in Seq(Row), End(d, o, x),
         UNCHANGED <<table, kind, plan, results>>, effects' \in [Driver -> Texts],
         \A e \in Driver : e # d => effects'[e] = effects[e]
  PROVE  /\ TypeOK' /\ Alone(d)
         /\ driver'[d].pc = "done" /\ driver'[d].outcome = o /\ driver'[d].response = x
<1> DEFINE n == [driver[d] EXCEPT !.pc = "done", !.todo = {}, !.ordinal = NoStep,
                                  !.input = NoStep, !.outcome = o, !.response = x]
<1>1. driver[d] \in Drivers
  BY DEF TypeOK
<1>2. driver' = [driver EXCEPT ![d] = n]
  BY DEF End
<1>3. n \in Drivers /\ n.pc = "done" /\ n.outcome = o /\ n.response = x
  BY <1>1 DEF Drivers, Texts
<1> HIDE DEF n
<1>4. driver'[d] = n
  BY <1>2 DEF TypeOK
<1> QED
  BY <1>2, <1>3, <1>4 DEF TypeOK, Alone

(* A step that succeeds: one row more, and its result. *)
LEMMA ExecuteMoves ==
  ASSUME TypeOK, NEW d \in Driver, NEW l \in {"loop", "next"}, NEW o \in Position,
         driver[d].ordinal = o, StepAt(o) \in Row,
         Execute(d, l), UNCHANGED <<table, kind, plan>>
  PROVE  /\ TypeOK' /\ Alone(d)
         /\ driver'[d].pc = l /\ driver'[d].ordinal = o /\ driver'[d].todo = driver[d].todo
         /\ driver'[d].outcome = driver[d].outcome
         /\ effects'[d] = Append(effects[d], StepAt(o))
         /\ results'[d][o].content = Append(TaskInput(d), StepAt(o))
         /\ \A p \in Position : p # o => results'[d][p] = results[d][p]
<1> DEFINE n == [driver[d] EXCEPT !.pc = l]
           c == Append(TaskInput(d), StepAt(o))
           x == [found |-> TRUE, content |-> c]
<1>1. driver[d] \in Drivers /\ effects[d] \in Seq(Row) /\ c \in Seq(Row)
  BY TextTyped
<1>2. /\ n \in Drivers /\ n.pc = l /\ n.ordinal = o /\ n.todo = driver[d].todo
      /\ n.outcome = driver[d].outcome
  BY <1>1 DEF Drivers
<1>3. x \in Results
  BY <1>1 DEF Results, Texts
<1>4. effects' = [effects EXCEPT ![d] = Append(effects[d], StepAt(o))]
  BY DEF Execute
<1>5. results' = [results EXCEPT ![d][o] = x]
  BY DEF Execute
<1>6. driver' = [driver EXCEPT ![d] = n]
  BY DEF Execute
<1> HIDE DEF c, n
<1>7. effects' \in [Driver -> Texts] /\ effects'[d] = Append(effects[d], StepAt(o))
  BY <1>1, <1>4 DEF TypeOK, Texts
<1>8. /\ results' \in [Driver -> [Position -> Results]]
      /\ results'[d][o] = x /\ \A p \in Position : p # o => results'[d][p] = results[d][p]
      /\ \A e \in Driver : e # d => results'[e] = results[e]
  BY <1>3, <1>5 DEF TypeOK
<1>9. driver' \in [Driver -> Drivers] /\ driver'[d] = n
  BY <1>2, <1>6 DEF TypeOK
<1> QED
  BY <1>2, <1>4, <1>6, <1>7, <1>8, <1>9 DEF TypeOK, Alone, c

(* A step that raises, before or after its effect. *)
LEMMA RaiseMoves ==
  ASSUME TypeOK, NEW d \in Driver, NEW o \in Position, driver[d].ordinal = o, StepAt(o) \in Row,
         ExecuteRaises(d), UNCHANGED <<table, kind, plan>>
  PROVE  /\ TypeOK' /\ Alone(d) /\ kind[StepAt(o).id] # "runs"
         /\ driver'[d].pc = "done" /\ driver'[d].outcome = "failed" /\ driver'[d].response = <<>>
         /\ results'[d] = results[d]
         /\ effects'[d] = IF kind[StepAt(o).id] = "raises" THEN Append(effects[d], StepAt(o))
                          ELSE effects[d]
<1>1. effects[d] \in Seq(Row) /\ Append(effects[d], StepAt(o)) \in Seq(Row)
  BY TextTyped
<1>2. /\ kind[StepAt(o).id] # "runs" /\ End(d, "failed", <<>>) /\ results' = results
      /\ effects' = IF kind[StepAt(o).id] = "raises"
                    THEN [effects EXCEPT ![d] = Append(effects[d], StepAt(o))] ELSE effects
  BY DEF ExecuteRaises
<1>3. /\ effects' \in [Driver -> Texts] /\ (\A e \in Driver : e # d => effects'[e] = effects[e])
      /\ effects'[d] = IF kind[StepAt(o).id] = "raises" THEN Append(effects[d], StepAt(o))
                       ELSE effects[d]
  BY <1>1, <1>2 DEF TypeOK, Texts
<1>4. <<>> \in Seq(Row) /\ "failed" \in Outcomes
  BY DEF Outcomes
<1> QED
  BY <1>2, <1>3, <1>4, EndMoves

------------------------------------------------------------------------------
(* What stays as it is when the plan does.                                 *)

LEMMA SamePlan ==
  ASSUME UNCHANGED <<table, kind, plan>>
  PROVE  /\ Positions' = Positions /\ (FirstReady' <=> FirstReady)
         /\ \A p : /\ CanPrepare(p)' <=> CanPrepare(p)
                   /\ Good(p)' <=> Good(p)
                   /\ Below(p)' = Below(p) /\ Upto(p)' = Upto(p) /\ StopsAt(p)' = StopsAt(p)
<1>1. plan' = plan /\ kind' = kind
  OBVIOUS
<1>2. \A p : Matches(p)' = Matches(p)
  BY <1>1 DEF Matches
<1>3. \A p : StepAt(p)' = StepAt(p)
  BY <1>2 DEF StepAt
<1>4. \A p : CanPrepare(p)' <=> CanPrepare(p)
  BY <1>1, <1>2, <1>3 DEF CanPrepare
<1>5. \A p : Good(p)' <=> Good(p)
  BY <1>1, <1>3, <1>4 DEF Good
<1>6. \A p : Below(p)' = Below(p) /\ Upto(p)' = Upto(p)
  BY <1>1 DEF Below, Upto
<1>7. \A p : StopsAt(p)' = StopsAt(p)
  <2> SUFFICES ASSUME NEW p PROVE StopsAt(p)' = StopsAt(p)
    OBVIOUS
  <2>1. /\ Below(p)' = Below(p) /\ Matches(p)' = Matches(p) /\ (CanPrepare(p)' <=> CanPrepare(p))
        /\ kind'[StepAt(p)'.id] = kind[StepAt(p).id]
    BY <1>1, <1>2, <1>3, <1>4, <1>6
  <2> QED
    BY <2>1 DEF StopsAt
<1>8. FirstReady' <=> FirstReady
  <2>1. First(plan)' = First(plan)
    BY <1>1
  <2>2. First(plan)'.position = First(plan).position
    BY <2>1
  <2> QED
    BY <1>1, <1>2, <1>3 DEF FirstReady, CanPrepare, Matches, StepAt
<1>9. Positions' = Positions
  BY <1>1 DEF Positions
<1> QED
  BY <1>4, <1>5, <1>6, <1>7, <1>8, <1>9

(* What a driver has found out is not disturbed by the other.              *)
LEMMA OtherKeeps ==
  ASSUME NEW d \in Driver, NEW e \in Driver, e # d, Alone(d), DriverInv(e)
  PROVE  DriverInv(e)'
<1>1. /\ driver'[e] = driver[e] /\ effects'[e] = effects[e] /\ results'[e] = results[e]
      /\ UNCHANGED <<table, kind, plan>> /\ plan' = plan
  BY DEF Alone
<1>2. Done(e)' = Done(e) /\ Rows(e)' = Rows(e) /\ TaskInput(e)' = TaskInput(e)
  BY <1>1 DEF Done, Rows, TaskInput
<1>3. HistoryInv(e)' <=> HistoryInv(e)
  BY <1>1, <1>2 DEF HistoryInv, Rising
<1>4. BetweenInv(e)' <=> BetweenInv(e)
  BY <1>1, <1>2, SamePlan DEF BetweenInv
<1>5. RunInv(e)' <=> RunInv(e)
  BY <1>1, <1>2, SamePlan DEF RunInv
<1>6. CompletedInv(e)' <=> CompletedInv(e)
  BY <1>1, <1>2, SamePlan DEF CompletedInv
<1>7. StoppedInv(e)' <=> StoppedInv(e)
  BY <1>1, <1>2, SamePlan DEF StoppedInv
<1>8. FirstReady' <=> FirstReady
  BY <1>1, SamePlan
<1> QED
  BY <1>1, <1>2, <1>3, <1>4, <1>5, <1>6, <1>7, <1>8 DEF DriverInv

(* The row that follows a sequence of earlier ones.                        *)
LEMMA AppendIs ==
  ASSUME NEW s \in Seq(Row), NEW r \in Row
  PROVE  /\ Append(s, r) \in Seq(Row) /\ Append(s, r) # <<>>
         /\ DOMAIN Append(s, r) = DOMAIN s \union {Len(s) + 1} /\ Len(s) + 1 \notin DOMAIN s
         /\ \A i \in DOMAIN s : /\ Append(s, r)[i] = s[i] /\ i < Len(s) + 1
                                /\ SubSeq(Append(s, r), 1, i) = SubSeq(s, 1, i)
         /\ Append(s, r)[Len(s) + 1] = r
         /\ SubSeq(Append(s, r), 1, Len(s) + 1) = Append(s, r)
<1>1. /\ Append(s, r) \in Seq(Row) /\ Len(Append(s, r)) = Len(s) + 1 /\ Len(s) \in Nat
      /\ DOMAIN s = 1..Len(s) /\ DOMAIN Append(s, r) = 1..(Len(s) + 1)
      /\ Append(s, r)[Len(s) + 1] = r /\ \A i \in 1..Len(s) : Append(s, r)[i] = s[i]
  OBVIOUS
<1>2. Append(s, r) # <<>>
  BY <1>1
<1>3. \A i \in DOMAIN s : SubSeq(Append(s, r), 1, i) = SubSeq(s, 1, i)
  BY <1>1
<1>4. SubSeq(Append(s, r), 1, Len(s) + 1) = Append(s, r)
  BY <1>1
<1> QED
  BY <1>1, <1>2, <1>3, <1>4

------------------------------------------------------------------------------
(* What each move does to a driver that is where it should be.             *)

LEMMA AppendRises ==
  ASSUME NEW s \in Seq(Row), NEW r \in Row, Rising(s),
         \A i \in DOMAIN s : s[i].position < r.position
  PROVE  Rising(Append(s, r))
<1> DEFINE t == Append(s, r)
<1>1. /\ DOMAIN t = DOMAIN s \union {Len(s) + 1} /\ t[Len(s) + 1] = r /\ Len(s) + 1 \notin DOMAIN s
      /\ \A i \in DOMAIN s : t[i] = s[i] /\ i < Len(s) + 1
  BY AppendIs
<1>2. Len(s) \in Nat /\ \A i \in DOMAIN s : i \in Nat
  BY SeqTyped
<1> SUFFICES ASSUME NEW i \in DOMAIN t, NEW j \in DOMAIN t, i < j
             PROVE  t[i].position < t[j].position
  BY DEF Rising
<1> HIDE DEF t
<1>3. i \in DOMAIN s
  BY <1>1, <1>2
<1> QED
  BY <1>1, <1>3 DEF Rising

(* The rows of a prepared step that succeeds, or raises after its effect.  *)
LEMMA StepAdds ==
  ASSUME TypeOK, IsFiniteSet(plan), NEW d \in Driver, HistoryInv(d),
         NEW o \in Position, CanPrepare(o), Rows(d) = Below(o)
  PROVE  LET t == Append(Done(d), StepAt(o)) IN
         /\ StepAt(o) \in Row /\ StepAt(o) \in plan /\ t \in Seq(Row) /\ t # <<>> /\ Rising(t)
         /\ {t[i] : i \in DOMAIN t} = Upto(o) /\ Upto(o) \subseteq plan
         /\ \A p \in Position : results[d][p].found => p # o
         /\ \A p \in Position : results[d][p].found =>
              \E i \in DOMAIN t : t[i].position = p /\ results[d][p].content = SubSeq(t, 1, i)
         /\ \E i \in DOMAIN t : t[i].position = o /\ t = SubSeq(t, 1, i)
<1> DEFINE s == Done(d)
           r == StepAt(o)
           t == Append(s, r)
<1>1. Matches(o) = {r} /\ r \in plan /\ r.position = o
  BY PreparedIs
<1>2. plan \subseteq Row /\ r \in Row /\ s \in Seq(Row) /\ o \in Int
  BY <1>1, TextTyped, PositionAssumption DEF TypeOK, Done
<1> HIDE DEF r
<1>3. \A i \in DOMAIN s : s[i] \in plan /\ s[i].position < o /\ s[i].position # o
  <2>1. \A i \in DOMAIN s : s[i] \in Below(o)
    BY DEF Rows, Done
  <2>2. \A x \in plan : x.position \in Int
    BY <1>2, RowTyped
  <2> QED
    BY <1>2, <2>1, <2>2 DEF Below
<1>4. /\ t \in Seq(Row) /\ t # <<>>
      /\ DOMAIN t = DOMAIN s \union {Len(s) + 1} /\ t[Len(s) + 1] = r
      /\ \A i \in DOMAIN s : t[i] = s[i] /\ SubSeq(t, 1, i) = SubSeq(s, 1, i)
      /\ SubSeq(t, 1, Len(s) + 1) = t
  BY <1>2, AppendIs
<1>5. Rising(t)
  BY <1>1, <1>2, <1>3, AppendRises DEF HistoryInv
<1>6. Rows(d) = {s[i] : i \in DOMAIN s}
  BY DEF Rows, Done
<1> HIDE DEF s, t
<1>7. {t[i] : i \in DOMAIN t} = Upto(o) /\ Upto(o) \subseteq plan
  <2>1. {t[i] : i \in DOMAIN t} = {s[i] : i \in DOMAIN s} \union {r}
    BY <1>4
  <2>2. Upto(o) = Below(o) \union {r}
    BY <1>1, <1>2, UptoIs
  <2> QED
    BY <1>6, <2>1, <2>2 DEF Upto
<1>8. \A p \in Position : results[d][p].found =>
        \E i \in DOMAIN s : s[i].position = p /\ results[d][p].content = SubSeq(s, 1, i)
  BY DEF HistoryInv, s
<1>9. \A p \in Position : results[d][p].found => p # o
  BY <1>3, <1>8
<1>10. \A p \in Position : results[d][p].found =>
         \E i \in DOMAIN t : t[i].position = p /\ results[d][p].content = SubSeq(t, 1, i)
  <2> SUFFICES ASSUME NEW p \in Position, results[d][p].found
               PROVE  \E i \in DOMAIN t : /\ t[i].position = p
                                          /\ results[d][p].content = SubSeq(t, 1, i)
    OBVIOUS
  <2>1. PICK i \in DOMAIN s : s[i].position = p /\ results[d][p].content = SubSeq(s, 1, i)
    BY <1>8
  <2>2. i \in DOMAIN t /\ t[i] = s[i] /\ SubSeq(t, 1, i) = SubSeq(s, 1, i)
    BY <1>4
  <2> QED
    BY <2>1, <2>2
<1>11. \E i \in DOMAIN t : t[i].position = o /\ t = SubSeq(t, 1, i)
  BY <1>1, <1>4
<1> QED
  BY <1>1, <1>2, <1>4, <1>5, <1>7, <1>9, <1>10, <1>11 DEF s, r, t

(* The position that comes after o, or first. *)
LEMMA AfterIs ==
  ASSUME plan \subseteq Row, NEW o \in Position, NEW p \in Positions, p > o,
         \A q \in Positions : q > o => p <= q
  PROVE  Below(p) = Upto(o) /\ \A q \in Positions : q < p => q <= o
<1>1. \A r \in plan : r.position \in Int /\ r.position \in Positions
  BY RowTyped DEF Positions
<1>2. o \in Int /\ p \in Int /\ \A q \in Positions : q \in Int
  BY <1>1, PositionAssumption DEF Positions
<1>3. \A q \in Positions : q < p <=> q <= o
  BY <1>2
<1> QED
  BY <1>1, <1>3 DEF Below, Upto

LEMMA LeastIs ==
  ASSUME plan \subseteq Row, NEW p \in Positions, \A q \in Positions : p <= q
  PROVE  Below(p) = {} /\ \A q \in Positions : ~(q < p)
<1>1. \A r \in plan : r.position \in Int /\ r.position \in Positions
  BY RowTyped DEF Positions
<1>2. \A q \in Positions : q \in Int /\ ~(q < p)
  BY <1>1 DEF Positions
<1> QED
  BY <1>1, <1>2 DEF Below

(* A step is prepared after the ones before it. *)
LEMMA PrepareKeeps ==
  ASSUME TypeOK, NEW d \in Driver, NEW o \in Positions, NEW i \in Position \union {NoStep},
         PrepareTask(d, o, i), UNCHANGED <<table, kind, plan, results, effects>>,
         HistoryInv(d), CanPrepare(o), Rows(d) = Below(o), \A q \in Positions : q < o => Good(q),
         IF i = NoStep THEN Done(d) = <<>> ELSE results[d][i].content = Done(d),
         driver[d].outcome = "none", d = "direct" => driver[d].todo = plan \ Below(o),
         d = "queued" => FirstReady
  PROVE  TypeOK' /\ Alone(d) /\ DriverInv(d)'
<1>0. plan \subseteq Row /\ o \in Position /\ o \in Int /\ plan # {}
  <2>1. plan \subseteq Row /\ plan # {}
    BY DEF TypeOK, Positions
  <2> QED
    BY <2>1, PositionsTyped
<1>1. /\ TypeOK' /\ Alone(d)
      /\ driver'[d].pc = "run" /\ driver'[d].todo = driver[d].todo \ Matches(o)
      /\ driver'[d].ordinal = o /\ driver'[d].input = i /\ driver'[d].outcome = "none"
  <2>1. o \in Position
    BY <1>0
  <2>2. TypeOK' /\ Alone(d)
    BY ONLY TypeOK, <2>1, PrepareTask(d, o, i), PrepareMoves,
            UNCHANGED <<table, kind, plan, results, effects>>
  <2>3. driver'[d].outcome = driver[d].outcome
    BY <2>1, PrepareMoves
  <2> QED
    BY <2>1, <2>2, <2>3, PrepareMoves
<1>2. Done(d)' = Done(d) /\ Rows(d)' = Rows(d) /\ (HistoryInv(d)' <=> HistoryInv(d))
  BY DEF Done, Rows, HistoryInv, Rising
<1>3. TaskInput(d)' = Done(d)'
  BY <1>1, <1>2 DEF TaskInput
<1>4. d = "direct" => driver'[d].todo = plan \ Upto(o)
  BY <1>0, <1>1, UptoIs
<1>5. RunInv(d)'
  <2>1. driver'[d].ordinal = o /\ plan' = plan /\ o \in Positions'
    BY <1>1, SamePlan
  <2>2. CanPrepare(o)' /\ Rows(d)' = Below(o)' /\ \A q \in Positions' : q < o => Good(q)'
    BY <1>2, SamePlan
  <2>3. d = "direct" => driver'[d].todo = plan' \ Upto(o)'
    BY <1>4, SamePlan
  <2> QED
    BY <1>3, <2>1, <2>2, <2>3 DEF RunInv
<1>6. FirstReady' <=> FirstReady
  BY SamePlan
<1> QED
  BY <1>0, <1>1, <1>2, <1>5, <1>6 DEF DriverInv

(* The call ends at a step that cannot be prepared.                        *)
LEMMA RefusalKeeps ==
  ASSUME TypeOK, NEW d \in Driver, NEW p \in Positions, NEW o \in {"failed", "silent"},
         End(d, o, <<>>), UNCHANGED <<table, kind, plan, results, effects>>,
         HistoryInv(d), ~CanPrepare(p), Rows(d) = Below(p), \A q \in Positions : q < p => Good(q),
         o = "silent" => d = "queued", d = "queued" => (FirstReady <=> o # "silent")
  PROVE  TypeOK' /\ Alone(d) /\ DriverInv(d)'
<1>0. /\ plan # {} /\ o \in Outcomes /\ <<>> \in Seq(Row) /\ effects' = effects
      /\ effects' \in [Driver -> Texts]
  BY DEF TypeOK, Positions, Outcomes
<1>1. /\ TypeOK' /\ Alone(d)
      /\ driver'[d].pc = "done" /\ driver'[d].outcome = o /\ driver'[d].response = <<>>
  BY <1>0, EndMoves
<1>2. Done(d)' = Done(d) /\ Rows(d)' = Rows(d) /\ (HistoryInv(d)' <=> HistoryInv(d))
  BY DEF Done, Rows, HistoryInv, Rising
<1>3. ~Good(p) /\ Rows(d) = StopsAt(p)
  BY DEF Good, StopsAt
<1>4. StoppedInv(d)'
  <2>1. p \in Positions' /\ ~Good(p)' /\ \A q \in Positions' : q < p => Good(q)'
    BY <1>3, SamePlan
  <2>2. Rows(d)' = StopsAt(p)'
    BY <1>2, <1>3, SamePlan
  <2> QED
    BY <1>1, <2>1, <2>2 DEF StoppedInv
<1>5. FirstReady' <=> FirstReady
  BY SamePlan
<1> QED
  BY <1>0, <1>1, <1>2, <1>4, <1>5 DEF DriverInv

(* The call completes after its last step.                                 *)
LEMMA CompletionKeeps ==
  ASSUME TypeOK, NEW d \in Driver, NEW o \in Position, End(d, "completed", results[d][o].content),
         UNCHANGED <<table, kind, plan, results, effects>>,
         HistoryInv(d), plan # {}, results[d][o].content = Done(d), Rows(d) = plan,
         \A q \in Positions : Good(q), d = "queued" => FirstReady
  PROVE  TypeOK' /\ Alone(d) /\ DriverInv(d)'
<1>0. /\ "completed" \in Outcomes /\ results[d][o].content \in Seq(Row)
      /\ effects' = effects /\ effects' \in [Driver -> Texts]
  BY TextTyped DEF TypeOK, Outcomes
<1>1. /\ TypeOK' /\ Alone(d) /\ driver'[d].pc = "done" /\ driver'[d].outcome = "completed"
      /\ driver'[d].response = Done(d)
  BY <1>0, EndMoves
<1>2. Done(d)' = Done(d) /\ Rows(d)' = Rows(d) /\ (HistoryInv(d)' <=> HistoryInv(d))
  BY DEF Done, Rows, HistoryInv, Rising
<1>3. CompletedInv(d)'
  BY <1>1, <1>2, SamePlan DEF CompletedInv
<1>4. FirstReady' <=> FirstReady
  BY SamePlan
<1> QED
  BY <1>1, <1>2, <1>3, <1>4 DEF DriverInv

(* The step at hand succeeds. *)
LEMMA ExecuteKeeps ==
  ASSUME TypeOK, IsFiniteSet(plan), NEW d \in Driver, NEW l \in {"loop", "next"},
         Execute(d, l), UNCHANGED <<table, kind, plan>>,
         HistoryInv(d), RunInv(d), plan # {}, driver[d].outcome = "none",
         IF d = "direct" THEN l = "loop" ELSE l = "next", d = "queued" => FirstReady
  PROVE  TypeOK' /\ Alone(d) /\ DriverInv(d)'
<1>1. PICK o \in Positions :
        /\ driver[d].ordinal = o /\ CanPrepare(o) /\ TaskInput(d) = Done(d)
        /\ Rows(d) = Below(o) /\ \A q \in Positions : q < o => Good(q)
        /\ d = "direct" => driver[d].todo = plan \ Upto(o)
  BY DEF RunInv
<1> DEFINE t == Append(Done(d), StepAt(o))
<1>2. o \in Position /\ o \in Int /\ o # NoStep
  BY PositionsTyped
<1>3. /\ StepAt(o) \in Row /\ t # <<>> /\ Rising(t)
      /\ {t[i] : i \in DOMAIN t} = Upto(o) /\ Upto(o) \subseteq plan
      /\ \A p \in Position : results[d][p].found =>
           \E i \in DOMAIN t : t[i].position = p /\ results[d][p].content = SubSeq(t, 1, i)
      /\ \E i \in DOMAIN t : t[i].position = o /\ t = SubSeq(t, 1, i)
  BY <1>1, <1>2, StepAdds
<1>4. /\ TypeOK' /\ Alone(d)
      /\ driver'[d].pc = l /\ driver'[d].ordinal = o /\ driver'[d].todo = driver[d].todo
      /\ driver'[d].outcome = "none"
      /\ effects'[d] = t /\ results'[d][o].content = t
      /\ \A p \in Position : p # o => results'[d][p] = results[d][p]
  BY <1>1, <1>2, <1>3, ExecuteMoves DEF Done
<1> HIDE DEF t
<1>5. Done(d)' = t /\ Rows(d)' = Upto(o)
  BY <1>3, <1>4 DEF Done, Rows
<1>6. HistoryInv(d)'
  <2>1. \A p \in Position : results'[d][p].found =>
          \E i \in DOMAIN t : t[i].position = p /\ results'[d][p].content = SubSeq(t, 1, i)
    <3> SUFFICES ASSUME NEW p \in Position, results'[d][p].found
                 PROVE  \E i \in DOMAIN t : /\ t[i].position = p
                                            /\ results'[d][p].content = SubSeq(t, 1, i)
      OBVIOUS
    <3>1. CASE p = o
      BY <1>3, <1>4, <3>1
    <3>2. CASE p # o
      <4>1. results'[d][p] = results[d][p]
        BY <1>4, <3>2
      <4> QED
        BY <1>3, <4>1
    <3> QED
      BY <3>1, <3>2
  <2> QED
    BY <1>3, <1>5, <2>1 DEF HistoryInv
<1>7. \A q \in Positions : q <= o => Good(q)
  <2>1. kind[StepAt(o).id] = "runs"
    BY <1>1 DEF Execute
  <2>2. Good(o)
    BY <1>1, <2>1 DEF Good
  <2>3. \A q \in Positions : q \in Int
    BY PositionsTyped
  <2>4. \A q \in Positions : q <= o => q < o \/ q = o
    BY <1>2, <2>3
  <2> QED
    BY <1>1, <2>2, <2>4
<1>8. BetweenInv(d)'
  <2>1. Rows(d)' = Upto(o)' /\ \A q \in Positions' : q <= o => Good(q)'
    BY <1>5, <1>7, SamePlan
  <2> QED
    BY <1>2, <1>3, <1>4, <1>5, <2>1 DEF BetweenInv
<1>9. d = "direct" => driver'[d].todo = plan \ Rows(d)'
  BY <1>1, <1>4, <1>5
<1>10. FirstReady' <=> FirstReady
  BY SamePlan
<1>11. d \in {"direct", "queued"}
  BY DEF Driver
<1>12. CASE d = "direct"
  BY <1>4, <1>6, <1>8, <1>9, <1>12 DEF DriverInv
<1>13. CASE d = "queued"
  BY <1>2, <1>4, <1>6, <1>8, <1>10, <1>13 DEF DriverInv
<1> QED
  BY <1>4, <1>11, <1>12, <1>13

(* The step at hand raises. *)
LEMMA RaiseKeeps ==
  ASSUME TypeOK, IsFiniteSet(plan), NEW d \in Driver,
         ExecuteRaises(d), UNCHANGED <<table, kind, plan>>,
         HistoryInv(d), RunInv(d), plan # {}, d = "queued" => FirstReady
  PROVE  TypeOK' /\ Alone(d) /\ DriverInv(d)'
<1>1. PICK o \in Positions :
        /\ driver[d].ordinal = o /\ CanPrepare(o)
        /\ Rows(d) = Below(o) /\ \A q \in Positions : q < o => Good(q)
  BY DEF RunInv
<1> DEFINE t == Append(Done(d), StepAt(o))
<1>2. o \in Position /\ o \in Int
  BY PositionsTyped
<1>3. /\ StepAt(o) \in Row /\ Rising(t)
      /\ {t[i] : i \in DOMAIN t} = Upto(o) /\ Upto(o) \subseteq plan
      /\ \A p \in Position : results[d][p].found =>
           \E i \in DOMAIN t : t[i].position = p /\ results[d][p].content = SubSeq(t, 1, i)
  <2>1. HistoryInv(d) /\ CanPrepare(o) /\ Rows(d) = Below(o)
    BY <1>1
  <2> QED
    BY ONLY d \in Driver, TypeOK, IsFiniteSet(plan), <1>2, <2>1, StepAdds
<1>4. /\ TypeOK' /\ Alone(d) /\ kind[StepAt(o).id] # "runs"
      /\ driver'[d].pc = "done" /\ driver'[d].outcome = "failed" /\ driver'[d].response = <<>>
      /\ results'[d] = results[d]
      /\ effects'[d] = IF kind[StepAt(o).id] = "raises" THEN t ELSE effects[d]
  BY <1>1, <1>2, <1>3, RaiseMoves DEF Done
<1> HIDE DEF t
<1>5. ~Good(o)
  BY <1>4 DEF Good
<1>6. HistoryInv(d)' /\ Rows(d)' = StopsAt(o)
  <2>1. CASE kind[StepAt(o).id] = "raises"
    <3>1. StopsAt(o) = Upto(o)
      BY <1>1, <1>2, <2>1, UptoIs DEF StopsAt, TypeOK, Positions
    <3>2. Done(d)' = t /\ Rows(d)' = Upto(o)
      BY <1>3, <1>4, <2>1 DEF Done, Rows
    <3> QED
      BY <1>3, <1>4, <3>1, <3>2 DEF HistoryInv
  <2>2. CASE kind[StepAt(o).id] # "raises"
    <3>1. StopsAt(o) = Below(o)
      BY <2>2 DEF StopsAt
    <3>2. Done(d)' = Done(d) /\ Rows(d)' = Rows(d)
      BY <1>4, <2>2 DEF Done, Rows
    <3> QED
      BY <1>1, <1>4, <3>1, <3>2 DEF HistoryInv, Rising
  <2> QED
    BY <2>1, <2>2
<1>7. StoppedInv(d)'
  <2>1. o \in Positions' /\ ~Good(o)' /\ \A q \in Positions' : q < o => Good(q)'
    BY <1>1, <1>5, SamePlan
  <2>2. Rows(d)' = StopsAt(o)'
    BY <1>6, SamePlan
  <2> QED
    BY <1>4, <2>1, <2>2 DEF StoppedInv
<1>8. FirstReady' <=> FirstReady
  BY SamePlan
<1> QED
  BY <1>4, <1>6, <1>7, <1>8 DEF DriverInv

------------------------------------------------------------------------------
(* The actions.                                                            *)

LEMMA MaterializeKeeps == ASSUME TypeOK, IInv, Materialize PROVE TypeOK' /\ IInv'
<1>1. TypeOK' /\ IsFiniteSet(table)'
  BY DEF TypeOK, IInv, Materialize
<1>2. ASSUME NEW d \in Driver PROVE DriverInv(d)'
  <2>1. DriverInv(d) /\ plan = {} /\ driver[d] \in Drivers
    BY DEF IInv, Materialize, TypeOK
  <2>2. driver[d].pc = "start"
    BY <2>1 DEF DriverInv, Drivers
  <2>3. HistoryInv(d) /\ Done(d) = <<>> /\ driver[d].outcome = "none" /\ driver[d].ordinal = NoStep
    BY <2>1, <2>2 DEF DriverInv
  <2>4. driver' = driver /\ effects' = effects /\ results' = results
    BY DEF Materialize
  <2>5. HistoryInv(d)' /\ Done(d)' = <<>>
    BY <2>3, <2>4 DEF HistoryInv, Done, Rows, Rising
  <2> QED
    BY <2>2, <2>3, <2>4, <2>5 DEF DriverInv
<1> QED
  BY <1>1, <1>2 DEF IInv

LEMMA DirectStartKeeps ==
  ASSUME TypeOK, IInv, DirectStart
  PROVE  TypeOK' /\ Alone("direct") /\ DriverInv("direct")'
<1> DEFINE d == "direct"
           n == [driver[d] EXCEPT !.pc = "loop", !.todo = plan]
<1>1. /\ d \in Driver /\ driver[d] \in Drivers /\ DriverInv(d) /\ driver[d].pc = "start"
      /\ plan # {} /\ plan \in SUBSET Row
  BY DEF Driver, TypeOK, IInv, DirectStart, At
<1>2. /\ HistoryInv(d) /\ Done(d) = <<>> /\ driver[d].ordinal = NoStep
      /\ driver[d].outcome = "none"
  BY <1>1 DEF DriverInv
<1>3. driver' = [driver EXCEPT ![d] = n] /\ UNCHANGED <<table, kind, plan, results, effects>>
  BY DEF DirectStart
<1>4. /\ n \in Drivers /\ n.pc = "loop" /\ n.todo = plan /\ n.ordinal = NoStep
      /\ n.outcome = "none"
  BY <1>1, <1>2 DEF Drivers
<1> HIDE DEF n
<1>5. driver'[d] = n
  BY <1>1, <1>3 DEF TypeOK
<1>6. TypeOK' /\ Alone(d)
  BY <1>3, <1>4, <1>5 DEF TypeOK, Alone
<1>7. HistoryInv(d)' /\ Done(d)' = <<>> /\ Rows(d)' = {}
  BY <1>2, <1>3 DEF HistoryInv, Done, Rows, Rising
<1>8. BetweenInv(d)' /\ driver'[d].todo = plan' \ Rows(d)'
  BY <1>3, <1>4, <1>5, <1>7 DEF BetweenInv
<1> QED
  BY <1>1, <1>3, <1>4, <1>5, <1>6, <1>7, <1>8 DEF DriverInv

(* The next of the sorted rows is the next position. *)
LEMMA NextOfTodo ==
  ASSUME TypeOK, IsFiniteSet(plan), NEW d \in Driver, BetweenInv(d),
         driver[d].todo = plan \ Rows(d), driver[d].todo # {}
  PROVE  LET p == First(driver[d].todo).position IN
         /\ p \in Positions /\ Rows(d) = Below(p) /\ driver[d].todo = plan \ Below(p)
         /\ \A q \in Positions : q < p => Good(q)
         /\ driver[d].ordinal \in Position \union {NoStep}
         /\ IF driver[d].ordinal = NoStep THEN Done(d) = <<>>
            ELSE results[d][driver[d].ordinal].content = Done(d)
<1> DEFINE T == driver[d].todo
           p == First(T).position
<1>1. T \subseteq plan /\ T \subseteq Row /\ plan \subseteq Row /\ IsFiniteSet(T) /\ T # {}
  BY FS_Subset DEF TypeOK
<1>2. First(T) \in T /\ \A s \in T : p <= s.position
  BY <1>1, FirstIs
<1>3. p \in Positions
  BY <1>1, <1>2 DEF Positions
<1> HIDE DEF p
<1>4. CASE driver[d].ordinal = NoStep /\ Done(d) = <<>>
  <2>1. Rows(d) = {}
    BY <1>4 DEF Rows, Done
  <2>2. \A q \in Positions : p <= q
    BY <1>2, <2>1 DEF Positions
  <2>3. Below(p) = {} /\ \A q \in Positions : ~(q < p)
    BY <1>1, <1>3, <2>2, LeastIs
  <2> QED
    BY <1>3, <1>4, <2>1, <2>3 DEF p
<1>5. ASSUME NEW o \in Position,
             driver[d].ordinal = o /\ Done(d) # <<>> /\ results[d][o].content = Done(d)
             /\ Rows(d) = Upto(o) /\ \A q \in Positions : q <= o => Good(q)
      PROVE  /\ Rows(d) = Below(p) /\ driver[d].todo = plan \ Below(p)
             /\ \A q \in Positions : q < p => Good(q)
             /\ driver[d].ordinal \in Position /\ results[d][driver[d].ordinal].content = Done(d)
  <2>1. o \in Int /\ \A q \in Positions : q \in Int
    BY PositionsTyped, PositionAssumption
  <2>2. p > o
    BY <1>1, <1>2, <1>3, <1>5, <2>1 DEF Upto, p
  <2>3. \A q \in Positions : q > o => p <= q
    <3> SUFFICES ASSUME NEW r \in plan, r.position > o PROVE p <= r.position
      BY DEF Positions
    <3>1. r.position \in Int
      BY <2>1 DEF Positions
    <3>2. r \notin Upto(o)
      BY <2>1, <3>1 DEF Upto
    <3>3. r \in T
      BY <1>5, <3>2
    <3> QED
      BY <1>2, <3>3
  <2>4. Below(p) = Upto(o) /\ \A q \in Positions : q < p => q <= o
    BY <1>1, <1>3, <2>2, <2>3, AfterIs
  <2> QED
    BY <1>5, <2>4
<1>6. CASE \E o \in Position :
             /\ driver[d].ordinal = o /\ Done(d) # <<>> /\ results[d][o].content = Done(d)
             /\ Rows(d) = Upto(o) /\ \A q \in Positions : q <= o => Good(q)
  BY <1>3, <1>5, <1>6, PositionAssumption DEF p
<1> QED
  BY <1>4, <1>6 DEF BetweenInv

LEMMA DirectPrepareKeeps ==
  ASSUME TypeOK, IsFiniteSet(plan), IInv, DirectPrepare
  PROVE  TypeOK' /\ Alone("direct") /\ DriverInv("direct")'
<1> DEFINE d == "direct"
           p == First(driver[d].todo).position
<1>1. /\ d \in Driver /\ DriverInv(d) /\ driver[d].pc = "loop" /\ driver[d].todo # {}
      /\ UNCHANGED <<table, kind, plan, results, effects>> /\ d # "queued"
      /\ IF CanPrepare(p) THEN PrepareTask(d, p, driver[d].ordinal) ELSE End(d, "failed", <<>>)
  BY DEF Driver, IInv, DirectPrepare, At
<1>2. /\ HistoryInv(d) /\ BetweenInv(d) /\ driver[d].todo = plan \ Rows(d)
      /\ driver[d].outcome = "none"
  BY <1>1 DEF DriverInv
<1>3. /\ p \in Positions /\ Rows(d) = Below(p) /\ driver[d].todo = plan \ Below(p)
      /\ \A q \in Positions : q < p => Good(q)
      /\ driver[d].ordinal \in Position \union {NoStep}
      /\ IF driver[d].ordinal = NoStep THEN Done(d) = <<>>
         ELSE results[d][driver[d].ordinal].content = Done(d)
  BY <1>1, <1>2, NextOfTodo
<1> HIDE DEF p
<1>4. CASE CanPrepare(p)
  BY <1>1, <1>2, <1>3, <1>4, PrepareKeeps
<1>5. CASE ~CanPrepare(p)
  BY <1>1, <1>2, <1>3, <1>5, RefusalKeeps
<1> QED
  BY <1>4, <1>5

LEMMA DirectRunKeeps ==
  ASSUME TypeOK, IsFiniteSet(plan), IInv, DirectRun
  PROVE  TypeOK' /\ Alone("direct") /\ DriverInv("direct")'
<1> DEFINE d == "direct"
<1>1. /\ d \in Driver /\ DriverInv(d) /\ driver[d].pc = "run" /\ d # "queued"
      /\ UNCHANGED <<table, kind, plan>> /\ (Execute(d, "loop") \/ ExecuteRaises(d))
  BY DEF Driver, IInv, DirectRun, At
<1>2. HistoryInv(d) /\ RunInv(d) /\ plan # {} /\ driver[d].outcome = "none"
  BY <1>1 DEF DriverInv
<1>3. CASE Execute(d, "loop")
  BY <1>1, <1>2, <1>3, ExecuteKeeps
<1>4. CASE ExecuteRaises(d)
  BY <1>1, <1>2, <1>4, RaiseKeeps
<1> QED
  BY <1>1, <1>3, <1>4

LEMMA DirectEndKeeps ==
  ASSUME TypeOK, IInv, DirectEnd
  PROVE  TypeOK' /\ Alone("direct") /\ DriverInv("direct")'
<1> DEFINE d == "direct"
<1>1. /\ d \in Driver /\ DriverInv(d) /\ driver[d].pc = "loop" /\ driver[d].todo = {}
      /\ UNCHANGED <<table, kind, plan, results, effects>> /\ d # "queued"
      /\ End(d, "completed", results[d][driver[d].ordinal].content)
  BY DEF Driver, IInv, DirectEnd, At
<1>2. HistoryInv(d) /\ BetweenInv(d) /\ driver[d].todo = plan \ Rows(d) /\ plan # {}
  BY <1>1 DEF DriverInv
<1>3. Done(d) # <<>> /\ Rows(d) = plan
  BY <1>1, <1>2 DEF HistoryInv, Rows, Done
<1>4. PICK o \in Position :
        /\ driver[d].ordinal = o /\ results[d][o].content = Done(d)
        /\ Rows(d) = Upto(o) /\ \A q \in Positions : q <= o => Good(q)
  BY <1>2, <1>3 DEF BetweenInv
<1>5. \A q \in Positions : Good(q)
  BY <1>3, <1>4 DEF Upto, Positions
<1> QED
  BY <1>1, <1>2, <1>3, <1>4, <1>5, CompletionKeeps

LEMMA QueuedFirstKeeps ==
  ASSUME TypeOK, IsFiniteSet(plan), IInv, QueuedFirst
  PROVE  TypeOK' /\ Alone("queued") /\ DriverInv("queued")'
<1> DEFINE d == "queued"
           p == First(plan).position
<1>1. /\ d \in Driver /\ DriverInv(d) /\ driver[d].pc = "start" /\ plan # {} /\ d # "direct"
      /\ UNCHANGED <<table, kind, plan, results, effects>> /\ plan \subseteq Row
      /\ IF CanPrepare(p) THEN PrepareTask(d, p, NoStep) ELSE End(d, "silent", <<>>)
  BY DEF Driver, IInv, QueuedFirst, At, TypeOK
<1>2. HistoryInv(d) /\ Done(d) = <<>> /\ driver[d].outcome = "none"
  BY <1>1 DEF DriverInv
<1>3. p \in Positions /\ \A q \in Positions : p <= q
  BY <1>1, FirstIs DEF Positions
<1>4. Rows(d) = {}
  BY <1>2 DEF Rows, Done
<1>5. CanPrepare(p) <=> FirstReady
  BY DEF FirstReady
<1> HIDE DEF p
<1>6. Below(p) = {} /\ \A q \in Positions : ~(q < p)
  BY <1>1, <1>3, LeastIs
<1>7. CASE CanPrepare(p)
  BY <1>1, <1>2, <1>3, <1>4, <1>5, <1>6, <1>7, PrepareKeeps
<1>8. CASE ~CanPrepare(p)
  BY <1>1, <1>2, <1>3, <1>4, <1>5, <1>6, <1>8, RefusalKeeps
<1> QED
  BY <1>7, <1>8

LEMMA QueuedRunKeeps ==
  ASSUME TypeOK, IsFiniteSet(plan), IInv, QueuedRun
  PROVE  TypeOK' /\ Alone("queued") /\ DriverInv("queued")'
<1> DEFINE d == "queued"
<1>1. /\ d \in Driver /\ DriverInv(d) /\ driver[d].pc = "run" /\ d # "direct"
      /\ UNCHANGED <<table, kind, plan>> /\ (Execute(d, "next") \/ ExecuteRaises(d))
  BY DEF Driver, IInv, QueuedRun, At
<1>2. HistoryInv(d) /\ RunInv(d) /\ plan # {} /\ driver[d].outcome = "none" /\ FirstReady
  BY <1>1 DEF DriverInv
<1>3. CASE Execute(d, "next")
  BY <1>1, <1>2, <1>3, ExecuteKeeps
<1>4. CASE ExecuteRaises(d)
  BY <1>1, <1>2, <1>4, RaiseKeeps
<1> QED
  BY <1>1, <1>3, <1>4

LEMMA QueuedNextKeeps ==
  ASSUME TypeOK, IsFiniteSet(plan), IInv, QueuedNext
  PROVE  TypeOK' /\ Alone("queued") /\ DriverInv("queued")'
<1> DEFINE d == "queued"
<1>1. /\ d \in Driver /\ DriverInv(d) /\ driver[d].pc = "next" /\ d # "direct"
      /\ UNCHANGED <<table, kind, plan, results, effects>> /\ plan \subseteq Row
  BY DEF Driver, IInv, QueuedNext, At, TypeOK
<1>2. /\ HistoryInv(d) /\ BetweenInv(d) /\ driver[d].ordinal # NoStep /\ plan # {}
      /\ driver[d].outcome = "none" /\ FirstReady
  BY <1>1 DEF DriverInv
<1>3. PICK o \in Position :
        /\ driver[d].ordinal = o /\ results[d][o].content = Done(d)
        /\ Rows(d) = Upto(o) /\ \A q \in Positions : q <= o => Good(q)
  BY <1>2 DEF BetweenInv
<1> DEFINE p == NextOrdinal(o)
<1>4. IF p = NoStep THEN End(d, "completed", results[d][o].content)
      ELSE IF CanPrepare(p) THEN PrepareTask(d, p, o) ELSE End(d, "failed", <<>>)
  BY <1>3 DEF QueuedNext
<1>5. /\ p = NoStep => \A q \in Positions : q <= o
      /\ p # NoStep => p \in Positions /\ p > o /\ \A q \in Positions : q > o => p <= q
  BY <1>1, NextIs
<1> HIDE DEF p
<1>6. CASE p = NoStep
  <2>1. (\A q \in Positions : Good(q)) /\ Rows(d) = plan
    BY <1>3, <1>5, <1>6 DEF Upto, Positions
  <2> QED
    BY <1>1, <1>2, <1>3, <1>4, <1>6, <2>1, CompletionKeeps
<1>7. CASE p # NoStep
  <2>1. Rows(d) = Below(p) /\ p \in Positions /\ \A q \in Positions : q < p => Good(q)
    BY <1>1, <1>3, <1>5, <1>7, AfterIs
  <2>2. o # NoStep
    BY <1>2, <1>3
  <2>3. CASE CanPrepare(p)
    BY <1>1, <1>2, <1>3, <1>4, <1>7, <2>1, <2>2, <2>3, PrepareKeeps
  <2>4. CASE ~CanPrepare(p)
    BY <1>1, <1>2, <1>3, <1>4, <1>7, <2>1, <2>4, RefusalKeeps
  <2> QED
    BY <2>3, <2>4
<1> QED
  BY <1>6, <1>7

------------------------------------------------------------------------------
(* The invariant.                                                          *)

LEMMA InitInv == Init => IInv
<1> SUFFICES ASSUME Init PROVE IInv
  OBVIOUS
<1>1. ASSUME NEW d \in Driver PROVE DriverInv(d)
  <2>1. /\ driver[d] = Fresh /\ effects[d] = <<>>
        /\ \A p \in Position : results[d][p].found = FALSE
    BY DEF Init, NoResult
  <2>2. driver[d].pc = "start" /\ driver[d].ordinal = NoStep /\ driver[d].outcome = "none"
    BY <2>1 DEF Fresh
  <2>3. Done(d) = <<>> /\ Rows(d) = {} /\ HistoryInv(d)
    BY <2>1 DEF HistoryInv, Done, Rows, Rising
  <2> QED
    BY <2>2, <2>3 DEF DriverInv
<1> QED
  BY <1>1 DEF IInv, Init

LEMMA NextKeeps == TypeOK /\ IInv /\ [Next]_vars => TypeOK' /\ IInv'
<1> SUFFICES ASSUME TypeOK, IInv, [Next]_vars PROVE TypeOK' /\ IInv'
  OBVIOUS
<1>1. IsFiniteSet(plan)
  BY FS_Subset DEF TypeOK, IInv
<1>2. ASSUME NEW d \in Driver, TypeOK', Alone(d), DriverInv(d)' PROVE TypeOK' /\ IInv'
  <2>1. \A e \in Driver : DriverInv(e)'
    BY <1>2, OtherKeeps DEF IInv
  <2> QED
    BY <1>2, <2>1 DEF IInv, Alone
<1>3. "direct" \in Driver /\ "queued" \in Driver
  BY DEF Driver
<1>4. CASE Materialize
  BY <1>4, MaterializeKeeps
<1>5. CASE DirectStart
  BY <1>2, <1>3, <1>5, DirectStartKeeps
<1>6. CASE DirectPrepare
  BY <1>1, <1>2, <1>3, <1>6, DirectPrepareKeeps
<1>7. CASE DirectRun
  BY <1>1, <1>2, <1>3, <1>7, DirectRunKeeps
<1>8. CASE DirectEnd
  BY <1>2, <1>3, <1>8, DirectEndKeeps
<1>9. CASE QueuedFirst
  BY <1>1, <1>2, <1>3, <1>9, QueuedFirstKeeps
<1>10. CASE QueuedRun
  BY <1>1, <1>2, <1>3, <1>10, QueuedRunKeeps
<1>11. CASE QueuedNext
  BY <1>1, <1>2, <1>3, <1>11, QueuedNextKeeps
<1>12. CASE UNCHANGED vars
  <2>1. /\ Alone("direct") /\ Alone("queued") /\ "direct" # "queued" /\ TypeOK'
        /\ DriverInv("direct") /\ DriverInv("queued") /\ table' = table
    BY <1>3, <1>12 DEF vars, Alone, TypeOK, IInv
  <2>2. DriverInv("direct")' /\ DriverInv("queued")'
    BY <1>3, <2>1, OtherKeeps
  <2> QED
    BY <2>1, <2>2 DEF IInv, Driver
<1> QED
  BY <1>4, <1>5, <1>6, <1>7, <1>8, <1>9, <1>10, <1>11, <1>12 DEF Next

LEMMA InvMeansChain == TypeOK /\ IInv => ChainInOrder
<1> SUFFICES ASSUME TypeOK, IInv, NEW d \in Driver
             PROVE  LET done == effects[d] IN
                    /\ \A i, j \in DOMAIN done : i < j => done[i].position < done[j].position
                    /\ \A i \in DOMAIN done : LET r == results[d][done[i].position] IN
                         r.found => r.content = SubSeq(done, 1, i)
                    /\ driver[d].outcome = "completed" =>
                         driver[d].response = done /\ {done[i] : i \in DOMAIN done} = plan
  BY DEF ChainInOrder
<1> DEFINE done == effects[d]
<1>1. DriverInv(d) /\ HistoryInv(d) /\ done \in Seq(Row) /\ Rising(done)
  BY TextTyped DEF IInv, DriverInv, HistoryInv, Done
<1>2. \A i, j \in DOMAIN done : i < j => done[i].position < done[j].position
  BY <1>1 DEF Rising
<1>3. ASSUME NEW i \in DOMAIN done, results[d][done[i].position].found
      PROVE  results[d][done[i].position].content = SubSeq(done, 1, i)
  <2>1. done[i].position \in Position
    BY <1>1, RowTyped
  <2>2. PICK j \in DOMAIN done : /\ done[j].position = done[i].position
                                 /\ results[d][done[i].position].content = SubSeq(done, 1, j)
    BY <1>1, <1>3, <2>1 DEF HistoryInv, Done
  <2>3. i \in Nat /\ j \in Nat /\ done[i].position \in Int
    BY <1>1, SeqTyped
  <2>4. ~(i < j) /\ ~(j < i)
    BY <1>2, <2>2, <2>3
  <2> QED
    BY <2>2, <2>3, <2>4
<1>4. driver[d].outcome = "completed" =>
        driver[d].response = done /\ {done[i] : i \in DOMAIN done} = plan
  BY <1>1 DEF DriverInv, CompletedInv, Done, Rows
<1> QED
  BY <1>2, <1>3, <1>4

(* The two drivers stop at the same position, if at all.                   *)
LEMMA InvMeansAgreement == TypeOK /\ IInv => DriversAgree
<1> SUFFICES ASSUME TypeOK, IInv, At("direct", "done"), At("queued", "done")
             PROVE  /\ effects["direct"] = effects["queued"]
                    /\ driver["direct"].response = driver["queued"].response
                    /\ driver["queued"].outcome =
                         IF FirstReady THEN driver["direct"].outcome ELSE "silent"
  BY DEF DriversAgree, FirstReady
<1> DEFINE d == "direct"
           e == "queued"
<1>1. /\ d \in Driver /\ e \in Driver /\ d # "queued"
      /\ DriverInv(d) /\ DriverInv(e) /\ driver[d].pc = "done" /\ driver[e].pc = "done"
  BY DEF IInv, Driver, At
<1>2. /\ \/ driver[d].outcome = "completed" /\ CompletedInv(d)
         \/ driver[d].outcome = "failed" /\ StoppedInv(d)
      /\ \/ driver[e].outcome = "completed" /\ CompletedInv(e)
         \/ driver[e].outcome \in {"failed", "silent"} /\ StoppedInv(e)
      /\ FirstReady <=> driver[e].outcome # "silent"
      /\ HistoryInv(d) /\ HistoryInv(e)
  BY <1>1 DEF DriverInv
<1>3. Rows(d) = Rows(e) => effects[d] = effects[e]
  <2>1. effects[d] \in Seq(Row) /\ effects[e] \in Seq(Row) /\ Rising(effects[d]) /\ Rising(effects[e])
    BY <1>1, <1>2, TextTyped DEF HistoryInv, Done
  <2> QED
    BY <2>1, RisingUnique DEF Rows
<1>4. CASE \A q \in Positions : Good(q)
  <2>1. ~StoppedInv(d) /\ ~StoppedInv(e)
    BY <1>4 DEF StoppedInv
  <2>2. Rows(d) = Rows(e) /\ driver[d].response = effects[d] /\ driver[e].response = effects[e]
    BY <1>2, <2>1 DEF CompletedInv, Done
  <2> QED
    BY <1>2, <1>3, <2>1, <2>2
<1>5. CASE ~ \A q \in Positions : Good(q)
  <2>1. ~CompletedInv(d) /\ ~CompletedInv(e) /\ StoppedInv(d) /\ StoppedInv(e)
    BY <1>2, <1>5 DEF CompletedInv
  <2>2. PICK p \in Positions : /\ ~Good(p) /\ (\A q \in Positions : q < p => Good(q))
                               /\ Rows(d) = StopsAt(p)
    BY <2>1 DEF StoppedInv
  <2>3. PICK s \in Positions : /\ ~Good(s) /\ (\A q \in Positions : q < s => Good(q))
                               /\ Rows(e) = StopsAt(s)
    BY <2>1 DEF StoppedInv
  <2>4. p \in Int /\ s \in Int /\ ~(p < s) /\ ~(s < p)
    BY <2>2, <2>3, PositionsTyped
  <2>5. p = s
    BY <2>4
  <2>6. Rows(d) = Rows(e) /\ driver[d].response = <<>> /\ driver[e].response = <<>>
    BY <2>1, <2>2, <2>3, <2>5 DEF StoppedInv
  <2> QED
    BY <1>2, <1>3, <2>1, <2>6
<1> QED
  BY <1>4, <1>5

LEMMA Invariance == Spec => [](TypeOK /\ IInv)
<1>1. Init => TypeOK /\ IInv
  BY InitTyped, InitInv
<1>2. TypeOK /\ IInv /\ [Next]_vars => (TypeOK /\ IInv)'
  BY NextKeeps
<1> QED
  BY <1>1, <1>2, PTL DEF Spec

(* The rows, tasks and results of both drivers have the shapes that        *)
(* control.py and worker.py give them (control.py:84-150,                  *)
(* ssh_jobs.py:180-225).                                                   *)
THEOREM TypeCorrect == Spec => []TypeOK
<1> QED
  BY Invariance, PTL

(* However a plan is numbered, under either driver its steps take effect   *)
(* in strictly rising position, each on the result of the one before, and  *)
(* a completed call has been through every row (executor.py:23-31, 94-97;  *)
(* workerd.py:58-67, ssh_jobs.py:214-220).                                 *)
THEOREM ChainsInOrder == Spec => []ChainInOrder
<1> QED
  BY Invariance, InvMeansChain, PTL

(* `asc job execute`, which loops over the sorted rows, and the queue,     *)
(* whose workers look for the next ordinal, give the same effects and the  *)
(* same answer, but for the first step that cannot be prepared             *)
(* (executord.py:51-55, ssh_jobs.py:221-225).                              *)
THEOREM DriversDoTheSame == Spec => []DriversAgree
<1> QED
  BY Invariance, InvMeansAgreement, PTL

==============================================================================
