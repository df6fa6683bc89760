----------------------------- MODULE Lifecycle -----------------------------
(***************************************************************************)
(* The canary lifecycle of src/coalmine/canary/lifecycle.py as a function  *)
(* on records: stages with a share of the traffic each, a gate per stage,  *)
(* and a CUSUM over all stages that rolls the challenger back.             *)
(*                                                                         *)
(* Shares are numbered by stage: 0 to 3 are the shares of STAGES, 4 is     *)
(* FULL_SHARE.  The gate is a function of the wins and losses it saw.      *)
(***************************************************************************)
EXTENDS Naturals, Sequences

CONSTANTS
  Up, Down, H,    \* CUSUM: step of a loss, step of a win, alarm threshold
  GateAt          \* the <<wins, losses>> at which a stage's gate rejects

Stages == 4
Full == Stages

Transition(kind, share, i, n) == [kind |-> kind, share |-> share, index |-> i, inStage |-> n]

NewGate == [wins |-> 0, losses |-> 0]

NewLifecycle ==
  [stage |-> 0, state |-> "running", gate |-> NewGate, stat |-> 0,
   inStage |-> 0, seen |-> 0, transitions |-> <<>>]

Share(l) ==
  CASE l.state = "promoted"    -> Full
    [] l.state = "rolled_back" -> 0
    [] OTHER                   -> l.stage

(* Operators whose name starts with Bug are faulty variants of the one     *)
(* they precede; no specification uses them.  Here: the next stage goes on *)
(* with the gate that just passed.                                         *)
BugAdvance(l, i) ==
  LET to == l.stage + 1 IN
    [l EXCEPT !.stage = to, !.inStage = 0,
              !.state = IF to = Stages THEN "promoted" ELSE @,
              !.transitions = Append(@, Transition(IF to = Stages THEN "promoted" ELSE "advanced",
                                                   to, i, 0))]

(* A gate passed: the next stage with a gate of its own, or promotion.     *)
Advance(l, i) ==
  LET to == l.stage + 1 IN
    [l EXCEPT !.stage = to, !.inStage = 0,
              !.state = IF to = Stages THEN "promoted" ELSE @,
              !.gate = IF to = Stages THEN @ ELSE NewGate,
              !.transitions = Append(@, Transition(IF to = Stages THEN "promoted" ELSE "advanced",
                                                   to, i, 0))]

RollBack(l, i) ==
  [l EXCEPT !.state = "rolled_back",
            !.transitions = Append(@, Transition("rolled_back", 0, i, l.inStage))]

Weigh(gate, win) ==
  IF win THEN [gate EXCEPT !.wins = @ + 1] ELSE [gate EXCEPT !.losses = @ + 1]

Passed(gate) == <<gate.wins, gate.losses>> \in GateAt

(* update: one decisive verdict.  The alarm goes first, and the verdict    *)
(* that raises it never reaches the gate.                                  *)
Update(l, win, i) ==
  IF l.state # "running" THEN l
  ELSE LET stat == IF win THEN (IF l.stat >= Down THEN l.stat - Down ELSE 0) ELSE l.stat + Up
           counted == [l EXCEPT !.seen = @ + 1, !.inStage = @ + 1, !.stat = stat]
           weighed == [counted EXCEPT !.gate = Weigh(@, win)]
       IN CASE stat >= H -> RollBack(counted, i)
            [] stat < H /\ Passed(weighed.gate) -> Advance(weighed, i)
            [] OTHER -> weighed
=============================================================================
