---------------------------- MODULE MCSimulation ----------------------------
(***************************************************************************)
(* Two shadowed requests; the topics shift to a regressed one at the second.*)
(***************************************************************************)
EXTENDS Simulation

MCTypes == {"run_started", "request_received", "champion_response", "shadow_response", "run_finished"}
MCBefore == [i \in 0 .. N - 1 |-> "history"]
MCAfter == [i \in 0 .. N - 1 |-> "science"]
MCCoin == [i \in 0 .. N - 1 |-> i]
=============================================================================
