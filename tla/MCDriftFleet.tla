--------------------------- MODULE MCDriftFleet ---------------------------
(***************************************************************************)
(* One judge; the last two of six requests share a topic.                  *)
(***************************************************************************)
EXTENDS DriftFleet

CONSTANTS w1

MCWorkers == {w1}
MCWinner == <<"a", "b", "tie", "a", "b", "a">>
MCTopic == <<"x", "y", "x", "y", "x", "x">>
MCSampled == 1 .. 6

(* The drift and decision services emit a few events at most: their sinks  *)
(* never fill.                                                             *)
MCBatch == [s \in Sinks |-> CASE s = "router" -> 2 [] s = "judge" -> 3 [] OTHER -> 8]

(* A topic more frequent than in the reference raises the alarm.           *)
MCDrifted(r, w) == \E t \in Topics : w[t] > r[t]

MCSuspends == {"judge"}
MCPromoteAt == {<<1, 0>>, <<1, 1>>, <<1, 2>>}
=============================================================================
