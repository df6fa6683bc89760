------------------------------ MODULE RedisBus ------------------------------
(***************************************************************************)
(* RedisStreamBus of src/coalmine/fleet/bus.py: the other implementation   *)
(* of the bus.  The streams and the groups' tables are those of module Bus *)
(* (XADD, XACK and the server's clock do what publish, ack and Tick do),   *)
(* but a consumer takes messages in bulk, into a backlog of its own that   *)
(* the server knows nothing of: everything in it is pending from the       *)
(* moment it was read, and peers may claim it from there.                  *)
(***************************************************************************)
EXTENDS Bus

CONSTANTS
  Prefetch,     \* entries of a stream one XREADGROUP returns (64 in the code)
  ClaimMost     \* entries of a stream one XAUTOCLAIM returns (16 in the code)

ASSUME PrefetchAssumption == ClaimMost \in Nat \ {0} /\ Prefetch \in Nat /\ Prefetch >= ClaimMost

(* The streams of a read are the keys of a dictionary.                     *)
ASSUME StreamsAssumption ==
  \A c \in Consumers : \A i, j \in DOMAIN Subs[c] : Subs[c][i] = Subs[c][j] => i = j
ASSUME ConsumersAssumption == IsFiniteSet(Consumers) /\ Consumers # {}

VARIABLES
  backlog,      \* backlog[c]: the messages c has fetched and not yielded yet
  scan,         \* scan[c]: 0, or the place in Subs[c] of the stream to claim
                \*   from next; one past the last: c must read
  overtaken     \* history: a message was claimed from a consumer that had it

redisVars == <<vars, backlog, scan, overtaken>>

RedisInit ==
  /\ Init
  /\ backlog = [c \in Consumers |-> <<>>]
  /\ scan = [c \in Consumers |-> 0]
  /\ overtaken = FALSE

Fetched(c) == Range(backlog[c]) \union ({held[c]} \ {Nothing})
-----------------------------------------------------------------------------
MaxOf(S) == CHOOSE n \in S : \A m \in S : m <= n

Channel(c, i) == <<Subs[c][i], GroupOf[c]>>

(* The entries of S on channel ch, in the order of their positions.        *)
InOrder(ch, S) ==
  LET f == CHOOSE f \in [1 .. Cardinality(S) -> S] : \A i, j \in DOMAIN f : i < j => f[i] < f[j]
  IN [n \in DOMAIN f |-> <<ch, f[n]>>]

(* Operators whose name starts with Bug are faulty variants of the one     *)
(* they precede; no specification uses them.  Here: each reply replaces    *)
(* what the one before it brought.                                         *)
BugEnqueue(queue, messages) == messages

Enqueue(queue, messages) == queue \o messages

(* Entries handed to c by the server: theirs is a new owner and no age.    *)
Assign(table, S, c) ==
  [k \in DOMAIN table \union S |-> IF k \in S THEN [owner |-> c, idle |-> 0] ELSE table[k]]

(* A scan that begins where the last one ended.                            *)
BugClaimable(ch) == {k \in Expired(ch) : \A j \in DOMAIN pending[ch] : j >= k /\ j # k}

(* The oldest entries that have been idle too long, whoever owns them and  *)
(* whatever he does with them.                                             *)
Claimable(ch) == {k \in Expired(ch) : Cardinality({j \in Expired(ch) : j < k}) < ClaimMost}

(* XAUTOCLAIM on the stream whose turn it is.  The scan starts when the    *)
(* timer allows and the backlog is empty; after the last stream c reads,   *)
(* unless it has claimed something.                                        *)
Claim(c) ==
  LET i  == IF scan[c] = 0 THEN 1 ELSE scan[c]
      ch == Channel(c, i)
  IN
    /\ i <= Len(Subs[c])
    /\ held[c] = Nothing
    /\ scan[c] = 0 => backlog[c] = <<>>
    /\ pending' = [pending EXCEPT ![ch] = Assign(@, Claimable(ch), c)]
    /\ backlog' = [backlog EXCEPT ![c] = Enqueue(@, InOrder(ch, Claimable(ch)))]
    /\ scan' = [scan EXCEPT ![c] =
                  IF i = Len(Subs[c]) /\ backlog'[c] # <<>> THEN 0 ELSE i + 1]
    /\ overtaken' = (overtaken \/ \E d \in Consumers :
                        Fetched(d) \cap ({ch} \X Claimable(ch)) # {})
    /\ UNCHANGED <<log, cursor, acked, held>>

(* From the id of the last entry handed out, that entry included.          *)
BugUnread(ch) == (IF cursor[ch] = 0 THEN 1 ELSE cursor[ch]) ..
  (IF cursor[ch] + Prefetch < Len(log[ch[1]]) THEN cursor[ch] + Prefetch ELSE Len(log[ch[1]]))

(* XREADGROUP: of every stream, the next entries nobody was handed yet.    *)
Unread(ch) == cursor[ch] + 1 ..
  (IF cursor[ch] + Prefetch < Len(log[ch[1]]) THEN cursor[ch] + Prefetch ELSE Len(log[ch[1]]))

Reply(c) ==
  LET reply[i \in 0 .. Len(Subs[c])] ==
        IF i = 0 THEN <<>>
        ELSE Enqueue(reply[i - 1], InOrder(Channel(c, i), Unread(Channel(c, i))))
  IN reply[Len(Subs[c])]

Read(c) ==
  /\ held[c] = Nothing /\ backlog[c] = <<>>
  /\ scan[c] \in {0, Len(Subs[c]) + 1}
  /\ cursor' = [ch \in Channels |->
                  IF ch \in Readers[c] THEN MaxOf({cursor[ch]} \union Unread(ch)) ELSE cursor[ch]]
  /\ pending' = [ch \in Channels |->
                   IF ch \in Readers[c] THEN Assign(pending[ch], Unread(ch), c) ELSE pending[ch]]
  /\ backlog' = [backlog EXCEPT ![c] = Reply(c)]
  /\ scan' = [scan EXCEPT ![c] = 0]
  /\ UNCHANGED <<log, acked, held, overtaken>>

(* The backlog is worked off before the server is asked again, and nothing *)
(* is asked about an entry before it is yielded.                           *)
Yield(c) ==
  /\ held[c] = Nothing /\ scan[c] = 0 /\ backlog[c] # <<>>
  /\ held' = [held EXCEPT ![c] = Head(backlog[c])]
  /\ backlog' = [backlog EXCEPT ![c] = Tail(@)]
  /\ UNCHANGED <<log, cursor, pending, acked, scan, overtaken>>
-----------------------------------------------------------------------------
Client(c) == c \in live /\ UNCHANGED <<live, crashes>>

(* A consumer that is cancelled forgets its backlog with its message.      *)
RedisCrash(c) ==
  /\ Crash(c)
  /\ backlog' = [backlog EXCEPT ![c] = <<>>]
  /\ scan' = [scan EXCEPT ![c] = 0]
  /\ UNCHANGED overtaken

Others == UNCHANGED <<backlog, scan, overtaken>>

RedisNext ==
  \/ \E s \in Streams, p \in Payloads : Produce(s, p) /\ Others
  \/ \E c \in Consumers :
       \/ Client(c) /\ (Claim(c) \/ Read(c) \/ Yield(c))
       \/ Complete(c) /\ Others
       \/ RedisCrash(c)
       \/ Restart(c) /\ Others
  \/ Pass /\ Others

RedisSpec == RedisInit /\ [][RedisNext]_redisVars

(* The reclaim timer of a running consumer comes up again and again, and   *)
(* between two scans it reads: a scan is a choice the timer makes          *)
(* infinitely often, so claiming is strongly fair.                         *)
RedisFairness ==
  /\ \A c \in Consumers :
       /\ SF_redisVars(Client(c) /\ Claim(c))
       /\ SF_redisVars(Client(c) /\ Read(c))
       /\ WF_redisVars(Client(c) /\ Yield(c))
       /\ WF_redisVars(Complete(c) /\ Others)
  /\ WF_redisVars(Pass /\ Others)

FairRedisSpec == RedisSpec /\ RedisFairness
-----------------------------------------------------------------------------
(* The entries nobody is going to handle before the idle timeout.          *)
Stranded ==
  {m \in UNION {{ch} \X DOMAIN pending[ch] : ch \in Channels} :
     m \notin Fetched(pending[m[1]][m[2]].owner)}

(* A crash costs what its consumer had fetched and no more                 *)
(* (src/tests/test_bus.py:77-79, "the Redis consumer may have prefetched   *)
(* more into its pending list").                                           *)
PrefetchStranded ==
  Cardinality(Stranded) <= crashes * Prefetch * MaxOf({Len(Subs[c]) : c \in Consumers})

(* "an acked message must never be redelivered"                            *)
(* (src/tests/test_bus.py:71), as far as it holds here: only a message     *)
(* that was claimed from a consumer still at it comes back.                *)
RedeliveredIfOvertaken ==
  [][\A c \in Consumers :
       held'[c] # held[c] /\ held'[c] # Nothing /\ held'[c][2] \in acked[held'[c][1]]
         => overtaken]_redisVars
=============================================================================
