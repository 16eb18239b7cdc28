----------------------------- MODULE MCResponsed -----------------------------
(* Instances of Responsed for TLC. *)
EXTENDS Responsed

CONSTANTS r1, r2

LastIsElsewhere == [c \in Call |-> IF c = 3 THEN r2 ELSE r1]
SecondHasNone   == [c \in Call |-> IF c = 2 THEN NoRoute ELSE r1]

OneFault == errors + crashes + Disappeared <= 1

(* What becomes of a call without a route is a success, and stays. *)
RoutelessStays == 2 \notin expired \union lost /\ (2 \in responded => 2 \in succeeded)
==============================================================================
