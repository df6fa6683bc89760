------------------------------- MODULE MCBus -------------------------------
(***************************************************************************)
(* Two members of one group, subscribed to two streams.                    *)
(***************************************************************************)
EXTENDS Bus

CONSTANTS j1, j2

MCStreams == {"pairs", "verdicts"}
MCConsumers == {j1, j2}
MCGroupOf == [c \in MCConsumers |-> "judges"]
MCSubs == [c \in MCConsumers |-> <<"pairs", "verdicts">>]
=============================================================================
