------------------------------ MODULE Delivery ------------------------------
(***************************************************************************)
(* What the fleet's message bus promises a consumer group, with nothing    *)
(* said of how (src/coalmine/fleet/bus.py, lines 3-12): every message of a *)
(* stream is handed to some consumer of every group that reads the stream, *)
(* perhaps more than once, until one of them finishes it; a finished       *)
(* message is never handed out again.  No order is promised, and a         *)
(* consumer may drop what it was handed at any time.                       *)
(***************************************************************************)
EXTENDS Naturals

CONSTANTS
  Streams,      \* names of the streams
  Consumers,    \* consumers, each a member of one group
  Readers,      \* Readers[c]: the channels <<stream, group>> c reads
  Nothing       \* what a consumer holds when it holds no message

VARIABLES
  posted,       \* posted[s]: how many messages stream s has
  done,         \* done[ch]: the positions channel ch has finished
  working       \* working[c]: the <<channel, position>> c was handed

deliveryVars == <<posted, done, working>>

Channels == UNION {Readers[c] : c \in Consumers}

Init ==
  /\ posted = [s \in Streams |-> 0]
  /\ done = [ch \in Channels |-> {}]
  /\ working = [c \in Consumers |-> Nothing]

(* A producer adds a message at the end of a stream.                       *)
Post(s) ==
  /\ posted' = [posted EXCEPT ![s] = @ + 1]
  /\ UNCHANGED <<done, working>>

(* An idle consumer is handed an unfinished message of a channel it reads. *)
Hand(c, ch, k) ==
  /\ working[c] = Nothing
  /\ ch \in Readers[c]
  /\ k \in (1 .. posted[ch[1]]) \ done[ch]
  /\ working' = [working EXCEPT ![c] = <<ch, k>>]
  /\ UNCHANGED <<posted, done>>

(* A consumer finishes the message it was handed.                          *)
Finish(c) ==
  /\ working[c] # Nothing
  /\ done' = [done EXCEPT ![working[c][1]] = @ \union {working[c][2]}]
  /\ working' = [working EXCEPT ![c] = Nothing]
  /\ UNCHANGED posted

(* A consumer loses the message it was handed without finishing it.        *)
Abandon(c) ==
  /\ working[c] # Nothing
  /\ working' = [working EXCEPT ![c] = Nothing]
  /\ UNCHANGED <<posted, done>>

Next ==
  \/ \E s \in Streams : Post(s)
  \/ \E c \in Consumers :
       \/ \E ch \in Readers[c] : \E k \in 1 .. posted[ch[1]] : Hand(c, ch, k)
       \/ Finish(c)
       \/ Abandon(c)

Spec == Init /\ [][Next]_deliveryVars
=============================================================================
