------------------------------ MODULE MCFleet ------------------------------
(***************************************************************************)
(* Small fleets: two judge workers; a handful of requests.                 *)
(***************************************************************************)
EXTENDS Fleet

CONSTANTS w1, w2

TwoWorkers == {w1, w2}

(* Scenarios: who wins each pair, and which requests are sampled.          *)
LossTieWin == <<"a", "tie", "b">>
LossLossTieWin == <<"a", "a", "tie", "b">>
AllThree == {1, 2, 3}
FirstTwo == {1, 2}

(* The decision service emits two events at most, so its sink never fills. *)
BatchesOf(router, judge) ==
  [s \in Sinks |-> CASE s = "router" -> router [] s = "judge" -> judge [] OTHER -> 8]
FlushTwoOne == BatchesOf(2, 1)
FlushPairs == BatchesOf(3, 2)

(* With a remote judge a worker suspends at the judge's answer too, and    *)
(* not in flushes and polls alone.                                         *)
AtJudge == {"judge"}

OneWin == {<<1, 0>>, <<1, 1>>}
=============================================================================
