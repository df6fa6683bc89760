---------------------------- MODULE MCDetectors ----------------------------
(* Two designs: an eager one that crosses early and on the boundary, with  *)
(* a bar no arm reaches late, and one whose increments overshoot.          *)
EXTENDS Detectors

CONSTANTS x, y

MCArms == {x, y}

Inc(w, l) == [win |-> w, loss |-> l]
Flat(k) == [n \in 1 .. MaxVerdicts |-> (n \div 2) + k]

(* Topics in turn, or a shift from one to the other.                      *)
InTurn == [i \in 1 .. MaxVerdicts |-> IF i % 2 = 1 THEN "x" ELSE "y"]
OneThenOther == [i \in 1 .. MaxVerdicts |-> IF i <= 2 \/ i = MaxVerdicts THEN "x" ELSE "y"]

MCDesigns ==
  {[inc |-> [k \in 0 .. Rebaseline |-> Inc(k - Rebaseline - 1, k + 1)], h |-> 5,
    win |-> 1, loss |-> -1, upper |-> 2, lower |-> -2, bar |-> Flat(1),
     topic |-> InTurn],
   [inc |-> [k \in 0 .. Rebaseline |-> Inc(-1, k + 1)], h |-> 4,
    win |-> 2, loss |-> -1, upper |-> 3, lower |-> -2, bar |-> Flat(2),
     topic |-> OneThenOther]}
=============================================================================
