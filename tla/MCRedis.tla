------------------------------ MODULE MCRedis -------------------------------
(***************************************************************************)
(* Two members of one group over Redis streams: one reads two streams, the *)
(* other the first of them.                                                *)
(***************************************************************************)
EXTENDS RedisBus

CONSTANTS c1, c2

MCConsumers == {c1, c2}
MCGroupOf == [c \in MCConsumers |-> "router"]
MCSubs == [c \in MCConsumers |-> IF c = c1 THEN <<"control", "requests">> ELSE <<"requests">>]
=============================================================================
