------------------------------- MODULE MCSink -------------------------------
(***************************************************************************)
(* Two judge workers that share a sink, and a router with one of its own.  *)
(***************************************************************************)
EXTENDS SinkSystem

CONSTANTS w1, w2, r

MCTasks == {w1, w2, r}
MCSinks == {"judge", "router"}
MCSinkOf == [t \in MCTasks |-> IF t = r THEN "router" ELSE "judge"]
MCBatch == [s \in MCSinks |-> IF s = "judge" THEN 2 ELSE 1]
=============================================================================
