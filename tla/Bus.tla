-------------------------------- MODULE Bus --------------------------------
(***************************************************************************)
(* InMemoryBus of src/coalmine/fleet/bus.py: streams that only grow, a     *)
(* cursor and a table of pending messages per consumer group, and the      *)
(* reclaiming of messages whose owner has been silent for too long.        *)
(*                                                                         *)
(* A message is a position of its stream's log.  The operations Publish,   *)
(* Take and Ack are the bodies of publish, _next and ack: each runs under  *)
(* the bus's lock and suspends nowhere in between, so each is one step.    *)
(* Crash and Restart are the consumers' task being cancelled and started   *)
(* again, Tick the clock that `idle' is read from.                         *)
(***************************************************************************)
EXTENDS Naturals, Sequences, FiniteSets, Functions

CONSTANTS
  Streams,       \* names of the streams
  Payloads,      \* what a message may carry
  Consumers,     \* consumer tasks
  GroupOf,       \* GroupOf[c]: the consumer group c joins
  Subs,          \* Subs[c]: the list of streams c consumes, in the order given
  ReclaimIdle,   \* reclaim_idle_ms, in ticks of the clock
  Punctual,      \* TRUE: a consumer finishes a message before others may reclaim it
  Nothing,       \* what a consumer holds when it holds no message
  MaxPublish,    \* bound: messages published to each stream
  MaxCrashes     \* bound: consumer crashes

(* A channel is a stream as one consumer group sees it.                    *)
Readers == [c \in Consumers |-> {<<s, GroupOf[c]>> : s \in Range(Subs[c])}]
Channels == UNION {Readers[c] : c \in Consumers}

ASSUME ReclaimIdleAssumption == ReclaimIdle \in Nat \ {0}
ASSUME SubsAssumption == \A c \in Consumers : Subs[c] \in Seq(Streams)
ASSUME PunctualAssumption == Punctual \in BOOLEAN
ASSUME NothingAssumption == Nothing \notin Channels \X Nat
ASSUME BoundsAssumption == MaxPublish \in Nat /\ MaxCrashes \in Nat

VARIABLES
  log,       \* log[s]: the payloads published to stream s
  cursor,    \* cursor[ch]: how many messages of the stream the group was handed
  pending,   \* pending[ch]: handed out and not acked, by position, as a table
             \*   of the owner and the ticks since it was handed to that owner
  acked,     \* acked[ch]: the positions acked so far
  held,      \* held[c]: the <<channel, position>> c is working on
  live,      \* the consumers that are running
  crashes    \* crashes so far

busVars == <<log, cursor, pending, acked, held>>
vars == <<log, cursor, pending, acked, held, live, crashes>>

Entry == [owner : Consumers, idle : 0 .. ReclaimIdle]

BusInit ==
  /\ log = [s \in Streams |-> <<>>]
  /\ cursor = [ch \in Channels |-> 0]
  /\ pending = [ch \in Channels |-> <<>>]
  /\ acked = [ch \in Channels |-> {}]
  /\ held = [c \in Consumers |-> Nothing]

Init ==
  /\ BusInit
  /\ live = Consumers
  /\ crashes = 0
-----------------------------------------------------------------------------
(* Operators whose name starts with Bug are faulty variants of the one     *)
(* they precede; no specification uses them.                               *)
BugExpiredEarly(ch) == {k \in DOMAIN pending[ch] : pending[ch][k].idle + 1 >= ReclaimIdle}

Expired(ch) == {k \in DOMAIN pending[ch] : pending[ch][k].idle >= ReclaimIdle}

(* Is there anything on channel ch for a consumer that asks now?           *)
Available(ch) == Expired(ch) # {} \/ cursor[ch] < Len(log[ch[1]])

Publish(s, p) ==
  /\ log' = [log EXCEPT ![s] = Append(@, p)]
  /\ UNCHANGED <<cursor, pending, acked, held>>

(* The first expired entry, in the order the table was filled: reassigning *)
(* a key keeps its place, so that is the order of the positions.           *)
Reclaim(c, ch) ==
  \E k \in Expired(ch) :
    /\ \A j \in Expired(ch) : k <= j
    /\ pending' = [pending EXCEPT ![ch][k] = [owner |-> c, idle |-> 0]]
    /\ held' = [held EXCEPT ![c] = <<ch, k>>]
    /\ UNCHANGED <<log, cursor, acked>>

(* The pending table is written before the end of the log is looked for.   *)
BugDeliverPastEnd(c, ch) ==
  LET k == cursor[ch] + 1 IN
    /\ Expired(ch) = {}
    /\ cursor[ch] <= Len(log[ch[1]])
    /\ cursor' = [cursor EXCEPT ![ch] = k]
    /\ pending' = [pending EXCEPT ![ch] =
                     [j \in DOMAIN @ \union {k} |->
                        IF j = k THEN [owner |-> c, idle |-> 0] ELSE @[j]]]
    /\ held' = [held EXCEPT ![c] = <<ch, k>>]
    /\ UNCHANGED <<log, acked>>

(* The next entry nobody in the group has been handed yet.                 *)
Deliver(c, ch) ==
  LET k == cursor[ch] + 1 IN
    /\ Expired(ch) = {}
    /\ k <= Len(log[ch[1]])
    /\ cursor' = [cursor EXCEPT ![ch] = k]
    /\ pending' = [pending EXCEPT ![ch] =
                     [j \in DOMAIN @ \union {k} |->
                        IF j = k THEN [owner |-> c, idle |-> 0] ELSE @[j]]]
    /\ held' = [held EXCEPT ![c] = <<ch, k>>]
    /\ UNCHANGED <<log, acked>>

(* The search gives up when the first stream has nothing.                  *)
BugTakeFirstStream(c) ==
  /\ held[c] = Nothing
  /\ LET ch == <<Subs[c][1], GroupOf[c]>> IN Reclaim(c, ch) \/ Deliver(c, ch)

(* _next: streams are tried in the order the consumer lists them, a later  *)
(* one only when the earlier ones have nothing.                            *)
Take(c) ==
  /\ held[c] = Nothing
  /\ \E i \in DOMAIN Subs[c] :
       LET ch == <<Subs[c][i], GroupOf[c]>> IN
         /\ \A j \in 1 .. i - 1 : ~Available(<<Subs[c][j], GroupOf[c]>>)
         /\ Reclaim(c, ch) \/ Deliver(c, ch)

(* Only the owner's ack counts.                                            *)
BugAckOwn(c) ==
  /\ held[c] # Nothing
  /\ LET ch == held[c][1]
         k  == held[c][2]
     IN /\ pending' = [pending EXCEPT ![ch] =
                         [j \in DOMAIN @ \ {i \in DOMAIN @ : i = k /\ @[i].owner = c} |-> @[j]]]
        /\ acked' = [acked EXCEPT ![ch] = @ \union {k}]
  /\ held' = [held EXCEPT ![c] = Nothing]
  /\ UNCHANGED <<log, cursor>>

(* The entry goes whoever owns it by now.                                  *)
Ack(c) ==
  /\ held[c] # Nothing
  /\ LET ch == held[c][1]
         k  == held[c][2]
     IN /\ pending' = [pending EXCEPT ![ch] = [j \in DOMAIN @ \ {k} |-> @[j]]]
        /\ acked' = [acked EXCEPT ![ch] = @ \union {k}]
  /\ held' = [held EXCEPT ![c] = Nothing]
  /\ UNCHANGED <<log, cursor>>

(* A cancelled consumer takes its message off the pending table.           *)
BugDropForgets(c) ==
  /\ held' = [held EXCEPT ![c] = Nothing]
  /\ pending' = [ch \in Channels |->
                   [j \in {i \in DOMAIN pending[ch] : held[c] # <<ch, i>>} |-> pending[ch][j]]]
  /\ UNCHANGED <<log, cursor, acked>>

(* Cancelling the task forgets its message; the bus is not told.           *)
Drop(c) ==
  /\ held' = [held EXCEPT ![c] = Nothing]
  /\ UNCHANGED <<log, cursor, pending, acked>>

(* One tick for every pending entry.  Punctual consumers act before the    *)
(* entry they hold reaches the reclaim threshold.                          *)
Older(e) == [e EXCEPT !.idle = IF @ < ReclaimIdle THEN @ + 1 ELSE @]

Tick ==
  /\ \E ch \in Channels : DOMAIN pending[ch] # {}
  /\ Punctual => \A c \in Consumers :
       held[c] # Nothing /\ held[c][2] \in DOMAIN pending[held[c][1]]
         => pending[held[c][1]][held[c][2]].idle + 1 < ReclaimIdle
  /\ pending' = [ch \in Channels |-> [k \in DOMAIN pending[ch] |-> Older(pending[ch][k])]]
  /\ UNCHANGED <<log, cursor, acked, held>>
-----------------------------------------------------------------------------
(* The bus with producers and consumers that do nothing else.              *)
Produce(s, p) ==
  /\ Len(log[s]) < MaxPublish
  /\ Publish(s, p)
  /\ UNCHANGED <<live, crashes>>

Consume(c) ==
  /\ c \in live
  /\ Take(c)
  /\ UNCHANGED <<live, crashes>>

Complete(c) ==
  /\ c \in live
  /\ Ack(c)
  /\ UNCHANGED <<live, crashes>>

Crash(c) ==
  /\ c \in live
  /\ crashes < MaxCrashes
  /\ crashes' = crashes + 1
  /\ live' = live \ {c}
  /\ Drop(c)

Restart(c) ==
  /\ c \notin live
  /\ live' = live \union {c}
  /\ UNCHANGED <<busVars, crashes>>

Pass == Tick /\ UNCHANGED <<live, crashes>>

Next ==
  \/ \E s \in Streams, p \in Payloads : Produce(s, p)
  \/ \E c \in Consumers : Consume(c) \/ Complete(c) \/ Crash(c) \/ Restart(c)
  \/ Pass

Spec == Init /\ [][Next]_vars

(* The event loop runs every ready task and the clock moves: a running     *)
(* consumer polls and finishes what it holds.  Nobody owes a restart.      *)
Fairness ==
  /\ \A c \in Consumers : WF_vars(Consume(c)) /\ WF_vars(Complete(c))
  /\ WF_vars(Pass)

FairSpec == Spec /\ Fairness
-----------------------------------------------------------------------------
(* Types, and the tables' bounds.                                          *)
BusTypeOK ==
  /\ log \in [Streams -> Seq(Payloads)]
  /\ cursor \in [Channels -> Nat]
  /\ DOMAIN pending = Channels
  /\ \A ch \in Channels :
       /\ cursor[ch] <= Len(log[ch[1]])
       /\ DOMAIN pending[ch] \subseteq 1 .. cursor[ch]
       /\ \A k \in DOMAIN pending[ch] : pending[ch][k] \in Entry
  /\ acked \in [Channels -> SUBSET Nat]
  /\ held \in [Consumers -> {Nothing} \union (Channels \X Nat)]

TypeOK ==
  /\ BusTypeOK
  /\ live \subseteq Consumers
  /\ crashes \in 0 .. MaxCrashes

(* At least once: whatever a group was handed is pending or acked, and     *)
(* never both, over every crash, reclaim and late ack ("consumed-but-      *)
(* unacked messages go pending", src/coalmine/fleet/runner.py:151-153).    *)
NothingLost ==
  \A ch \in Channels :
    /\ acked[ch] \union DOMAIN pending[ch] = 1 .. cursor[ch]
    /\ acked[ch] \cap DOMAIN pending[ch] = {}

(* A pending entry is worked on by its owner or by somebody it was taken   *)
(* from: with punctual consumers a message has one worker at a time, which *)
(* is what lets a service publish its result before the ack.               *)
OneWorker ==
  \A c, d \in Consumers :
    c # d /\ held[c] # Nothing => held[c] # held[d]

(* "an acked message must never be redelivered"                            *)
(* (src/tests/test_bus.py:66): no consumer is handed a finished position,  *)
(* however many late acks and reclaims came before.                        *)
NeverRedelivered ==
  [][\A c \in Consumers :
       held'[c] # held[c] /\ held'[c] # Nothing
         => held'[c][2] \notin acked[held'[c][1]]]_vars

(* The in-memory bus keeps the promise of module Delivery.                 *)
Promise == INSTANCE Delivery WITH
             posted  <- [s \in Streams |-> Len(log[s])],
             done    <- acked,
             working <- held

KeepsPromise == Promise!Spec

(* Every published message is acked by every group that reads its stream,  *)
(* provided some consumer of the group is running from some point on: a    *)
(* killed worker's messages are reclaimed by the survivors                 *)
(* (src/coalmine/fleet/services.py:3-5).                                   *)
AllHandled ==
  \A ch \in Channels, n \in 1 .. MaxPublish :
    <>[](\E c \in live : ch \in Readers[c])
      => (Len(log[ch[1]]) >= n ~> n \in acked[ch])
=============================================================================
