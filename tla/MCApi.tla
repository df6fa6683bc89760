------------------------------- MODULE MCApi -------------------------------
(***************************************************************************)
(* Three requests, two judges; the challenger's first decisive win opens   *)
(* the first gate and its first decisive loss rolls it back.               *)
(***************************************************************************)
EXTENDS Api

MCHandlers == <<"h1", "h2", "h3">>
MCTasks == {"h1", "h2", "h3", "judge1", "judge2", "controller", "flusher", "stop"}
MCJudges == {"judge1", "judge2"}
MCSinks == {"api", "judge", "canary"}
MCBatch == [s \in MCSinks |-> 2]
WinThenLoss == <<"b", "a", "tie">>
FirstWin == {<<1, 0>>}
=============================================================================
