--------------------------- MODULE MCCanaryFleet ---------------------------
(***************************************************************************)
(* A gate opens as soon as there are no fewer wins than losses, and at     *)
(* least one; the second loss rolls back, with a win to come.              *)
(***************************************************************************)
EXTENDS CanaryFleet

CONSTANT w1

SoleWorker == {w1}
AllSampled == 1 .. N
WinsAndLosses == <<"b", "a", "tie", "a", "b">>
FirstDraw == [i \in 1 .. N |-> 1]

(* Requests flushed four by four, verdicts one by one.                     *)
MCBatch == [s \in Sinks |-> CASE s = "router" -> 4 [] s = "judge" -> 1 [] OTHER -> 8]

(* Over the in-memory bus, whose calls never suspend, a remote judge's     *)
(* answer does; over a bus whose calls do (src/coalmine/fleet/bus.py:36-44 *)
(* asks for no more than their order), a task also gives the loop up       *)
(* between two messages, so that traffic, routing, judging and control     *)
(* interleave.                                                             *)
AtJudge == {"judge"}
AtCalls == {"judge", "next"}
NoFewerWins == {p \in (1 .. N) \X (0 .. N) : p[1] >= p[2]}
=============================================================================
