----------------------------- MODULE BusProofs -----------------------------
(***************************************************************************)
(* Proofs about module Bus, for any streams, consumers, groups and         *)
(* timeout.  The inductive invariant adds to the properties two facts: a   *)
(* consumer holds only what its group was handed, and a punctual consumer  *)
(* still owns what it holds, with time to spare.                           *)
(***************************************************************************)
EXTENDS Bus, FiniteSetTheorems, FunctionTheorems, TLAPS

HeldWasHanded ==
  \A c \in Consumers :
    held[c] # Nothing =>
      /\ held[c][1] \in Readers[c]
      /\ held[c][2] \in 1 .. cursor[held[c][1]]

PunctualOwnsHeld ==
  Punctual =>
    \A c \in Consumers :
      held[c] # Nothing =>
        /\ held[c][2] \in DOMAIN pending[held[c][1]]
        /\ pending[held[c][1]][held[c][2]].owner = c
        /\ pending[held[c][1]][held[c][2]].idle < ReclaimIdle

BusInv == BusTypeOK /\ NothingLost /\ HeldWasHanded /\ PunctualOwnsHeld

IInv == TypeOK /\ BusInv
-----------------------------------------------------------------------------
(* A channel's first component is a stream, and what a consumer subscribes *)
(* to is a channel of its.                                                 *)
LEMMA ChannelFacts ==
  /\ \A ch \in Channels : ch[1] \in Streams
  /\ \A c \in Consumers : Readers[c] \subseteq Channels
  /\ \A c \in Consumers, i \in Nat :
       i \in DOMAIN Subs[c] => <<Subs[c][i], GroupOf[c]>> \in Readers[c]
<1>1. \A c \in Consumers : Readers[c] = {<<s, GroupOf[c]>> : s \in Range(Subs[c])}
  BY DEF Readers
<1>2. \A c \in Consumers : Readers[c] \subseteq Channels
  BY DEF Channels
<1>3. \A c \in Consumers : Range(Subs[c]) \subseteq Streams
  BY SubsAssumption DEF Range
<1>4. \A ch \in Channels : ch[1] \in Streams
  <2>1. SUFFICES ASSUME NEW ch \in Channels PROVE ch[1] \in Streams
    OBVIOUS
  <2>2. PICK c \in Consumers : ch \in Readers[c]
    BY DEF Channels
  <2>3. PICK s \in Range(Subs[c]) : ch = <<s, GroupOf[c]>>
    BY <1>1, <2>2
  <2>4. QED BY <1>3, <2>3
<1>5. \A c \in Consumers, i \in Nat :
        i \in DOMAIN Subs[c] => <<Subs[c][i], GroupOf[c]>> \in Readers[c]
  BY <1>1 DEF Range
<1>6. QED BY <1>2, <1>4, <1>5
-----------------------------------------------------------------------------
(* Initially nothing was handed out.                                       *)
LEMMA InitBusInv == BusInit => BusInv
<1> SUFFICES ASSUME BusInit PROVE BusInv
  OBVIOUS
<1> USE DEF BusInit
<1>1. BusTypeOK
  <2>1. \A ch \in Channels : ch[1] \in Streams
    BY ChannelFacts
  <2>2. \A ch \in Channels :
          /\ cursor[ch] <= Len(log[ch[1]])
          /\ DOMAIN pending[ch] \subseteq 1 .. cursor[ch]
          /\ \A k \in DOMAIN pending[ch] : pending[ch][k] \in Entry
    BY <2>1
  <2>3. QED BY <2>2 DEF BusTypeOK
<1>2. NothingLost
  BY DEF NothingLost
<1>3. HeldWasHanded /\ PunctualOwnsHeld
  BY DEF HeldWasHanded, PunctualOwnsHeld
<1>4. QED BY <1>1, <1>2, <1>3 DEF BusInv

(* A longer log disturbs nothing.                                          *)
LEMMA PublishKeeps ==
  ASSUME BusInv, NEW s \in Streams, NEW p \in Payloads, Publish(s, p)
  PROVE  BusInv'
<1> USE DEF BusInv, Publish
<1>1. log' \in [Streams -> Seq(Payloads)]
  BY DEF BusTypeOK
<1>2. ASSUME NEW t \in Streams PROVE Len(log[t]) <= Len(log'[t])
  BY DEF BusTypeOK
<1>3. BusTypeOK'
  <2>1. ASSUME NEW ch \in Channels PROVE cursor[ch] <= Len(log'[ch[1]])
    <3>1. ch[1] \in Streams
      BY ChannelFacts
    <3>2. Len(log[ch[1]]) \in Nat /\ Len(log'[ch[1]]) \in Nat
      BY <1>1, <3>1 DEF BusTypeOK
    <3>3. QED BY <1>2, <3>1, <3>2 DEF BusTypeOK
  <2>2. QED BY <1>1, <2>1 DEF BusTypeOK
<1>4. NothingLost' /\ HeldWasHanded' /\ PunctualOwnsHeld'
  BY DEF NothingLost, HeldWasHanded, PunctualOwnsHeld
<1>5. QED BY <1>3, <1>4

(* Forgetting a message leaves the tables alone.                           *)
LEMMA DropKeeps ==
  ASSUME BusInv, NEW c \in Consumers, Drop(c)
  PROVE  BusInv'
<1> USE DEF BusInv, Drop
<1>1. BusTypeOK'
  BY DEF BusTypeOK
<1>2. NothingLost'
  BY DEF NothingLost
<1>3. held' = [held EXCEPT ![c] = Nothing] /\ held \in [Consumers -> {Nothing} \union (Channels \X Nat)]
  BY DEF BusTypeOK
<1>4. ASSUME NEW d \in Consumers, held'[d] # Nothing PROVE held'[d] = held[d]
  BY <1>3, <1>4
<1>5. HeldWasHanded'
  BY <1>4 DEF HeldWasHanded
<1>6. PunctualOwnsHeld'
  BY <1>4 DEF PunctualOwnsHeld
<1>7. QED BY <1>1, <1>2, <1>5, <1>6

(* A reclaimed entry stays in the table under its new owner; with punctual *)
(* consumers nobody else can be holding it.                                *)
LEMMA ReclaimKeeps ==
  ASSUME BusInv, NEW c \in Consumers, NEW ch \in Readers[c],
         held[c] = Nothing, Reclaim(c, ch)
  PROVE  BusInv'
<1> USE DEF BusInv
<1>1. ch \in Channels
  BY ChannelFacts
<1>2. PICK k \in Expired(ch) :
        /\ pending' = [pending EXCEPT ![ch][k] = [owner |-> c, idle |-> 0]]
        /\ held' = [held EXCEPT ![c] = <<ch, k>>]
        /\ UNCHANGED <<log, cursor, acked>>
  BY DEF Reclaim
<1>3. k \in DOMAIN pending[ch] /\ pending[ch][k].idle >= ReclaimIdle /\ k \in 1 .. cursor[ch]
  BY <1>1, <1>2 DEF Expired, BusTypeOK
<1>4. [owner |-> c, idle |-> 0] \in Entry
  BY ReclaimIdleAssumption DEF Entry
<1>5. /\ DOMAIN pending' = Channels
      /\ \A x \in Channels : DOMAIN pending'[x] = DOMAIN pending[x]
      /\ \A x \in Channels : \A j \in DOMAIN pending[x] :
           pending'[x][j] = IF x = ch /\ j = k THEN [owner |-> c, idle |-> 0] ELSE pending[x][j]
  BY <1>1, <1>2, <1>3 DEF BusTypeOK
<1>6. /\ held' \in [Consumers -> {Nothing} \union (Channels \X Nat)]
      /\ \A d \in Consumers : held'[d] = IF d = c THEN <<ch, k>> ELSE held[d]
  <2>1. <<ch, k>> \in Channels \X Nat
    BY <1>1, <1>3 DEF BusTypeOK
  <2>2. QED BY <1>2, <2>1 DEF BusTypeOK
<1>7. BusTypeOK'
  <2>1. \A x \in Channels : \A j \in DOMAIN pending'[x] : pending'[x][j] \in Entry
    BY <1>4, <1>5 DEF BusTypeOK
  <2>2. QED BY <1>2, <1>5, <1>6, <2>1 DEF BusTypeOK
<1>8. NothingLost'
  BY <1>2, <1>5 DEF NothingLost
<1>9. HeldWasHanded'
  BY <1>2, <1>3, <1>6 DEF HeldWasHanded
<1>10. PunctualOwnsHeld'
  <2>1. SUFFICES ASSUME Punctual, NEW d \in Consumers, held'[d] # Nothing
                 PROVE  /\ held'[d][2] \in DOMAIN pending'[held'[d][1]]
                        /\ pending'[held'[d][1]][held'[d][2]].owner = d
                        /\ pending'[held'[d][1]][held'[d][2]].idle < ReclaimIdle
    BY DEF PunctualOwnsHeld
  <2>2. CASE d = c
    BY <1>1, <1>3, <1>5, <1>6, <2>2, ReclaimIdleAssumption
  <2>3. CASE d # c
    <3>1. held'[d] = held[d] /\ held[d] \in Channels \X Nat
      BY <1>6, <2>1, <2>3 DEF BusTypeOK
    <3>2. /\ held[d][2] \in DOMAIN pending[held[d][1]]
          /\ pending[held[d][1]][held[d][2]].owner = d
          /\ pending[held[d][1]][held[d][2]].idle < ReclaimIdle
      BY <2>1, <3>1 DEF PunctualOwnsHeld
    <3>3. pending[ch][k] \in Entry
      BY <1>1, <1>3 DEF BusTypeOK
    <3>4. ~(held[d][1] = ch /\ held[d][2] = k)
      BY <1>3, <3>2, <3>3, ReclaimIdleAssumption DEF Entry
    <3>5. pending'[held[d][1]][held[d][2]] = pending[held[d][1]][held[d][2]]
      BY <1>5, <3>1, <3>2, <3>4
    <3>6. QED BY <1>5, <3>1, <3>2, <3>5
  <2>4. QED BY <2>2, <2>3
<1>11. QED BY <1>7, <1>8, <1>9, <1>10

(* A first delivery extends the handed prefix by one, pending.             *)
LEMMA DeliverKeeps ==
  ASSUME BusInv, NEW c \in Consumers, NEW ch \in Readers[c],
         held[c] = Nothing, Deliver(c, ch)
  PROVE  BusInv'
<1> USE DEF BusInv
<1> DEFINE n == cursor[ch] + 1
           fresh == [owner |-> c, idle |-> 0]
<1>1. ch \in Channels /\ ch[1] \in Streams
  BY ChannelFacts
<1>2. /\ n <= Len(log[ch[1]])
      /\ cursor' = [cursor EXCEPT ![ch] = n]
      /\ pending' = [pending EXCEPT ![ch] =
                       [j \in DOMAIN pending[ch] \union {n} |-> IF j = n THEN fresh ELSE pending[ch][j]]]
      /\ held' = [held EXCEPT ![c] = <<ch, n>>]
      /\ UNCHANGED <<log, acked>>
  BY <1>1 DEF Deliver, BusTypeOK
<1>3. cursor[ch] \in Nat /\ n \in Nat /\ n \notin 1 .. cursor[ch] /\ n \notin DOMAIN pending[ch]
  BY <1>1 DEF BusTypeOK
<1>4. fresh \in Entry
  BY ReclaimIdleAssumption DEF Entry
<1>5. /\ cursor' \in [Channels -> Nat]
      /\ \A x \in Channels : cursor'[x] = IF x = ch THEN n ELSE cursor[x]
  BY <1>1, <1>2, <1>3 DEF BusTypeOK
<1>6. /\ DOMAIN pending' = Channels
      /\ \A x \in Channels : x # ch => pending'[x] = pending[x]
      /\ DOMAIN pending'[ch] = DOMAIN pending[ch] \union {n}
      /\ \A j \in DOMAIN pending'[ch] : pending'[ch][j] = IF j = n THEN fresh ELSE pending[ch][j]
  BY <1>1, <1>2 DEF BusTypeOK
<1>7. /\ held' \in [Consumers -> {Nothing} \union (Channels \X Nat)]
      /\ \A d \in Consumers : held'[d] = IF d = c THEN <<ch, n>> ELSE held[d]
  BY <1>1, <1>2, <1>3 DEF BusTypeOK
<1>8. 1 .. n = (1 .. cursor[ch]) \union {n}
  BY <1>3
<1>9. BusTypeOK'
  <2>1. ASSUME NEW x \in Channels
        PROVE  /\ cursor'[x] <= Len(log'[x[1]])
               /\ DOMAIN pending'[x] \subseteq 1 .. cursor'[x]
               /\ \A k \in DOMAIN pending'[x] : pending'[x][k] \in Entry
    <3>1. CASE x = ch
      <4>1. cursor'[x] <= Len(log'[x[1]])
        BY <1>2, <1>5, <3>1
      <4>2. DOMAIN pending'[x] \subseteq 1 .. cursor'[x]
        BY <1>1, <1>5, <1>6, <1>8, <3>1 DEF BusTypeOK
      <4>3. \A k \in DOMAIN pending'[x] : pending'[x][k] \in Entry
        BY <1>1, <1>4, <1>6, <3>1 DEF BusTypeOK
      <4>4. QED BY <4>1, <4>2, <4>3
    <3>2. CASE x # ch
      BY <1>2, <1>5, <1>6, <3>2 DEF BusTypeOK
    <3>3. QED BY <3>1, <3>2
  <2>2. QED BY <1>2, <1>5, <1>6, <1>7, <2>1 DEF BusTypeOK
<1>10. NothingLost'
  <2>1. ASSUME NEW x \in Channels
        PROVE  /\ acked'[x] \union DOMAIN pending'[x] = 1 .. cursor'[x]
               /\ acked'[x] \cap DOMAIN pending'[x] = {}
    <3>1. /\ acked[x] \union DOMAIN pending[x] = 1 .. cursor[x]
          /\ acked[x] \cap DOMAIN pending[x] = {}
      BY DEF NothingLost
    <3>2. CASE x = ch
      BY <1>2, <1>3, <1>5, <1>6, <1>8, <3>1, <3>2
    <3>3. CASE x # ch
      BY <1>2, <1>5, <1>6, <3>1, <3>3
    <3>4. QED BY <3>2, <3>3
  <2>2. QED BY <2>1 DEF NothingLost
<1>11. HeldWasHanded'
  <2>1. SUFFICES ASSUME NEW d \in Consumers, held'[d] # Nothing
                 PROVE  /\ held'[d][1] \in Readers[d]
                        /\ held'[d][2] \in 1 .. cursor'[held'[d][1]]
    BY DEF HeldWasHanded
  <2>2. CASE d = c
    BY <1>1, <1>3, <1>5, <1>7, <1>8, <2>2
  <2>3. CASE d # c
    <3>1. /\ held'[d] = held[d] /\ held[d][1] \in Readers[d] /\ held[d][1] \in Channels
          /\ held[d][2] \in 1 .. cursor[held[d][1]]
      BY <1>7, <2>1, <2>3, ChannelFacts DEF HeldWasHanded
    <3>2. QED BY <1>5, <1>8, <3>1
  <2>4. QED BY <2>2, <2>3
<1>12. PunctualOwnsHeld'
  <2>1. SUFFICES ASSUME Punctual, NEW d \in Consumers, held'[d] # Nothing
                 PROVE  /\ held'[d][2] \in DOMAIN pending'[held'[d][1]]
                        /\ pending'[held'[d][1]][held'[d][2]].owner = d
                        /\ pending'[held'[d][1]][held'[d][2]].idle < ReclaimIdle
    BY DEF PunctualOwnsHeld
  <2>2. CASE d = c
    <3>1. held'[d][1] = ch /\ held'[d][2] = n
      BY <1>7, <2>2
    <3>2. n \in DOMAIN pending'[ch] /\ pending'[ch][n] = fresh
      BY <1>6
    <3>3. QED BY <2>2, <3>1, <3>2, ReclaimIdleAssumption
  <2>3. CASE d # c
    <3>1. held'[d] = held[d] /\ held[d] \in Channels \X Nat
      BY <1>7, <2>1, <2>3 DEF BusTypeOK
    <3>2. /\ held[d][2] \in DOMAIN pending[held[d][1]]
          /\ pending[held[d][1]][held[d][2]].owner = d
          /\ pending[held[d][1]][held[d][2]].idle < ReclaimIdle
      BY <2>1, <3>1 DEF PunctualOwnsHeld
    <3>3. /\ held[d][2] \in DOMAIN pending'[held[d][1]]
          /\ pending'[held[d][1]][held[d][2]] = pending[held[d][1]][held[d][2]]
      BY <1>3, <1>6, <3>1, <3>2
    <3>4. QED BY <3>1, <3>2, <3>3
  <2>4. QED BY <2>2, <2>3
<1>13. QED BY <1>9, <1>10, <1>11, <1>12

(* _next hands out one message of one of the consumer's channels.          *)
LEMMA TakeKeeps ==
  ASSUME BusInv, NEW c \in Consumers, Take(c)
  PROVE  BusInv'
<1>1. PICK i \in DOMAIN Subs[c] :
        \/ Reclaim(c, <<Subs[c][i], GroupOf[c]>>)
        \/ Deliver(c, <<Subs[c][i], GroupOf[c]>>)
  BY DEF Take
<1>2. <<Subs[c][i], GroupOf[c]>> \in Readers[c]
  <2>1. i \in Nat
    BY SubsAssumption
  <2>2. QED BY <2>1, ChannelFacts
<1>3. held[c] = Nothing
  BY DEF Take
<1>4. QED BY <1>1, <1>2, <1>3, ReclaimKeeps, DeliverKeeps

(* An ack moves one position from the table to the finished ones.          *)
LEMMA AckKeeps ==
  ASSUME BusInv, NEW c \in Consumers, Ack(c)
  PROVE  BusInv'
<1> USE DEF BusInv
<1> DEFINE ch == held[c][1]
           k  == held[c][2]
<1>1. /\ held[c] # Nothing
      /\ pending' = [pending EXCEPT ![ch] = [j \in DOMAIN pending[ch] \ {k} |-> pending[ch][j]]]
      /\ acked' = [acked EXCEPT ![ch] = acked[ch] \union {k}]
      /\ held' = [held EXCEPT ![c] = Nothing]
      /\ UNCHANGED <<log, cursor>>
  <2>1. held[c] # Nothing
    BY DEF Ack
  <2>2. ch \in Channels
    BY <2>1, ChannelFacts DEF HeldWasHanded
  <2>3. QED BY <2>1, <2>2 DEF Ack, BusTypeOK
<1>2. ch \in Channels /\ k \in 1 .. cursor[ch] /\ cursor[ch] \in Nat
  BY <1>1, ChannelFacts DEF HeldWasHanded, BusTypeOK
<1>3. /\ DOMAIN pending' = Channels
      /\ \A x \in Channels : x # ch => pending'[x] = pending[x]
      /\ DOMAIN pending'[ch] = DOMAIN pending[ch] \ {k}
      /\ \A j \in DOMAIN pending'[ch] : pending'[ch][j] = pending[ch][j]
  BY <1>1, <1>2 DEF BusTypeOK
<1>4. /\ acked' \in [Channels -> SUBSET Nat]
      /\ \A x \in Channels : acked'[x] = IF x = ch THEN acked[ch] \union {k} ELSE acked[x]
  BY <1>1, <1>2 DEF BusTypeOK
<1>5. /\ held' \in [Consumers -> {Nothing} \union (Channels \X Nat)]
      /\ \A d \in Consumers : held'[d] = IF d = c THEN Nothing ELSE held[d]
  BY <1>1 DEF BusTypeOK
<1>6. BusTypeOK'
  <2>1. ASSUME NEW x \in Channels
        PROVE  /\ DOMAIN pending'[x] \subseteq 1 .. cursor[x]
               /\ \A j \in DOMAIN pending'[x] : pending'[x][j] \in Entry
    BY <1>3 DEF BusTypeOK
  <2>2. QED BY <1>1, <1>3, <1>4, <1>5, <2>1 DEF BusTypeOK
<1>7. NothingLost'
  <2>1. ASSUME NEW x \in Channels
        PROVE  /\ acked'[x] \union DOMAIN pending'[x] = 1 .. cursor[x]
               /\ acked'[x] \cap DOMAIN pending'[x] = {}
    <3>1. /\ acked[x] \union DOMAIN pending[x] = 1 .. cursor[x]
          /\ acked[x] \cap DOMAIN pending[x] = {}
      BY DEF NothingLost
    <3>2. QED BY <1>2, <1>3, <1>4, <3>1
  <2>2. QED BY <1>1, <2>1 DEF NothingLost
<1>8. HeldWasHanded'
  BY <1>1, <1>5 DEF HeldWasHanded
<1>9. PunctualOwnsHeld'
  <2>1. SUFFICES ASSUME Punctual, NEW d \in Consumers, held'[d] # Nothing
                 PROVE  /\ held'[d][2] \in DOMAIN pending'[held'[d][1]]
                        /\ pending'[held'[d][1]][held'[d][2]].owner = d
                        /\ pending'[held'[d][1]][held'[d][2]].idle < ReclaimIdle
    BY DEF PunctualOwnsHeld
  <2>2. d # c /\ held'[d] = held[d] /\ held[d] \in Channels \X Nat
    BY <1>5, <2>1 DEF BusTypeOK
  <2>3. /\ held[d][2] \in DOMAIN pending[held[d][1]]
        /\ pending[held[d][1]][held[d][2]].owner = d
        /\ pending[held[d][1]][held[d][2]].idle < ReclaimIdle
    BY <2>1, <2>2 DEF PunctualOwnsHeld
  <2>4. pending[ch][k].owner = c
    BY <1>1, <2>1 DEF PunctualOwnsHeld
  <2>5. ~(held[d][1] = ch /\ held[d][2] = k)
    BY <2>2, <2>3, <2>4
  <2>6. /\ held[d][2] \in DOMAIN pending'[held[d][1]]
        /\ pending'[held[d][1]][held[d][2]] = pending[held[d][1]][held[d][2]]
    BY <1>3, <2>2, <2>3, <2>5
  <2>7. QED BY <2>2, <2>3, <2>6
<1>10. QED BY <1>6, <1>7, <1>8, <1>9

(* Time only raises the ages, and for punctual consumers stops short of    *)
(* the timeout of what they hold.                                          *)
LEMMA TickKeeps ==
  ASSUME BusInv, Tick
  PROVE  BusInv'
<1> USE DEF BusInv
<1>1. /\ pending' = [ch \in Channels |-> [k \in DOMAIN pending[ch] |-> Older(pending[ch][k])]]
      /\ UNCHANGED <<log, cursor, acked, held>>
  BY DEF Tick
<1>2. \A e \in Entry : Older(e) \in Entry /\ Older(e).owner = e.owner
                       /\ (e.idle + 1 < ReclaimIdle => Older(e).idle < ReclaimIdle)
  <2>1. SUFFICES ASSUME NEW e \in Entry
                 PROVE  /\ Older(e) \in Entry /\ Older(e).owner = e.owner
                        /\ (e.idle + 1 < ReclaimIdle => Older(e).idle < ReclaimIdle)
    OBVIOUS
  <2>2. e.idle \in 0 .. ReclaimIdle /\ e.owner \in Consumers
    BY DEF Entry
  <2>3. Older(e) = [owner |-> e.owner, idle |-> IF e.idle < ReclaimIdle THEN e.idle + 1 ELSE e.idle]
    BY DEF Older, Entry
  <2>4. (IF e.idle < ReclaimIdle THEN e.idle + 1 ELSE e.idle) \in 0 .. ReclaimIdle
    BY <2>2, ReclaimIdleAssumption
  <2>5. QED BY <2>2, <2>3, <2>4, ReclaimIdleAssumption DEF Entry
<1>3. \A x \in Channels : /\ DOMAIN pending'[x] = DOMAIN pending[x]
                          /\ \A k \in DOMAIN pending[x] : pending'[x][k] = Older(pending[x][k])
  BY <1>1
<1>4. BusTypeOK'
  BY <1>1, <1>2, <1>3 DEF BusTypeOK
<1>5. NothingLost'
  BY <1>1, <1>3 DEF NothingLost
<1>6. HeldWasHanded'
  BY <1>1 DEF HeldWasHanded
<1>7. PunctualOwnsHeld'
  <2>1. SUFFICES ASSUME Punctual, NEW d \in Consumers, held[d] # Nothing
                 PROVE  /\ held[d][2] \in DOMAIN pending'[held[d][1]]
                        /\ pending'[held[d][1]][held[d][2]].owner = d
                        /\ pending'[held[d][1]][held[d][2]].idle < ReclaimIdle
    BY <1>1 DEF PunctualOwnsHeld
  <2>2. held[d][1] \in Channels
    BY <2>1, ChannelFacts DEF HeldWasHanded
  <2>3. /\ held[d][2] \in DOMAIN pending[held[d][1]]
        /\ pending[held[d][1]][held[d][2]].owner = d
    BY <2>1 DEF PunctualOwnsHeld
  <2>4. pending[held[d][1]][held[d][2]].idle + 1 < ReclaimIdle
    BY <2>1, <2>3 DEF Tick
  <2>5. pending[held[d][1]][held[d][2]] \in Entry
    BY <2>2, <2>3 DEF BusTypeOK
  <2>6. QED BY <1>2, <1>3, <2>2, <2>3, <2>4, <2>5
<1>8. QED BY <1>4, <1>5, <1>6, <1>7
-----------------------------------------------------------------------------
(* Before anything is published or handed out.                            *)
LEMMA InitIInv == Init => IInv
  BY InitBusInv, BoundsAssumption DEF Init, IInv, BusInv, TypeOK

(* One case per action of the bus and its environment.                     *)
LEMMA NextIInv == IInv /\ [Next]_vars => IInv'
<1> SUFFICES ASSUME IInv, [Next]_vars PROVE IInv'
  OBVIOUS
<1> USE DEF IInv
<1>1. ASSUME NEW s \in Streams, NEW p \in Payloads, Produce(s, p) PROVE IInv'
  BY <1>1, PublishKeeps DEF Produce, TypeOK, BusInv
<1>2. ASSUME NEW c \in Consumers, Consume(c) PROVE IInv'
  BY <1>2, TakeKeeps DEF Consume, TypeOK, BusInv
<1>3. ASSUME NEW c \in Consumers, Complete(c) PROVE IInv'
  BY <1>3, AckKeeps DEF Complete, TypeOK, BusInv
<1>4. ASSUME NEW c \in Consumers, Crash(c) PROVE IInv'
  <2>1. BusInv' /\ live' \subseteq Consumers
    BY <1>4, DropKeeps DEF Crash, TypeOK
  <2>2. crashes' \in 0 .. MaxCrashes
    BY <1>4, BoundsAssumption DEF Crash, TypeOK
  <2>3. QED BY <2>1, <2>2 DEF TypeOK, BusInv
<1>5. ASSUME Pass PROVE IInv'
  BY <1>5, TickKeeps DEF Pass, TypeOK, BusInv
<1>6. ASSUME UNCHANGED busVars, UNCHANGED crashes, live' \subseteq Consumers PROVE IInv'
  <2>1. BusTypeOK' /\ NothingLost'
    BY <1>6 DEF busVars, BusInv, BusTypeOK, NothingLost
  <2>2. HeldWasHanded' /\ PunctualOwnsHeld'
    BY <1>6 DEF busVars, BusInv, HeldWasHanded, PunctualOwnsHeld
  <2>3. QED BY <1>6, <2>1, <2>2 DEF TypeOK, BusInv
<1>7. ASSUME NEW c \in Consumers, Restart(c) PROVE IInv'
  BY <1>6, <1>7 DEF Restart, TypeOK
<1>8. CASE UNCHANGED vars
  BY <1>6, <1>8 DEF vars, busVars, TypeOK
<1>9. QED BY <1>1, <1>2, <1>3, <1>4, <1>5, <1>7, <1>8 DEF Next

(* The invariant holds in every reachable state.                           *)
THEOREM Invariant == Spec => []IInv
  BY InitIInv, NextIInv, PTL DEF Spec

(* Type correctness of the bus.                                            *)
THEOREM TypeCorrect == Spec => []TypeOK
<1>1. IInv => TypeOK
  BY DEF IInv
<1>2. QED BY <1>1, Invariant, PTL

(* At least once, for any number of crashes, reclaims and late acks:       *)
(* what a group was handed is pending or acked (InMemoryBus._next, ack).   *)
THEOREM AtLeastOnce == Spec => []NothingLost
<1>1. IInv => NothingLost
  BY DEF IInv, BusInv
<1>2. QED BY <1>1, Invariant, PTL

(* If consumers are punctual, no message has two workers.                  *)
THEOREM Exclusive == Spec => [](Punctual => OneWorker)
<1>1. IInv => (Punctual => OneWorker)
  <2>1. SUFFICES ASSUME IInv, Punctual, NEW c \in Consumers, NEW d \in Consumers,
                        c # d, held[c] # Nothing, held[c] = held[d]
                 PROVE  FALSE
    BY DEF OneWorker
  <2>2. /\ pending[held[c][1]][held[c][2]].owner = c
        /\ pending[held[d][1]][held[d][2]].owner = d
    BY <2>1 DEF IInv, BusInv, PunctualOwnsHeld
  <2>3. QED BY <2>1, <2>2
<1>2. QED BY <1>1, Invariant, PTL
-----------------------------------------------------------------------------
(* A message that is handed out is unfinished: reclaimed ones are pending, *)
(* and fresh ones lie beyond the handed prefix.                            *)
LEMMA TakesUnfinished ==
  ASSUME IInv, NEW c \in Consumers, Take(c)
  PROVE  \E ch \in Readers[c], k \in Nat :
           /\ held[c] = Nothing
           /\ k \in (1 .. Len(log[ch[1]])) \ acked[ch]
           /\ held' = [held EXCEPT ![c] = <<ch, k>>]
           /\ UNCHANGED <<log, acked>>
<1> USE DEF IInv, BusInv
<1>1. PICK i \in DOMAIN Subs[c] :
        \/ Reclaim(c, <<Subs[c][i], GroupOf[c]>>)
        \/ Deliver(c, <<Subs[c][i], GroupOf[c]>>)
  BY DEF Take
<1> DEFINE ch == <<Subs[c][i], GroupOf[c]>>
<1>2. ch \in Readers[c] /\ ch \in Channels /\ ch[1] \in Streams
  BY SubsAssumption, ChannelFacts
<1>3. /\ acked[ch] \union DOMAIN pending[ch] = 1 .. cursor[ch]
      /\ acked[ch] \cap DOMAIN pending[ch] = {}
      /\ cursor[ch] \in Nat /\ Len(log[ch[1]]) \in Nat /\ cursor[ch] <= Len(log[ch[1]])
  <2>1. ASSUME NEW x \in Channels
        PROVE  /\ acked[x] \union DOMAIN pending[x] = 1 .. cursor[x]
               /\ acked[x] \cap DOMAIN pending[x] = {}
    BY DEF NothingLost
  <2>2. ASSUME NEW x \in Channels, x[1] \in Streams
        PROVE  cursor[x] \in Nat /\ Len(log[x[1]]) \in Nat /\ cursor[x] <= Len(log[x[1]])
    BY <2>2 DEF BusTypeOK
  <2>3. QED BY <1>2, <2>1, <2>2
<1>4. held[c] = Nothing
  BY DEF Take
<1>5. CASE Reclaim(c, ch)
  <2>1. PICK k \in Expired(ch) :
          held' = [held EXCEPT ![c] = <<ch, k>>] /\ UNCHANGED <<log, acked>>
    BY <1>5 DEF Reclaim
  <2>2. k \in DOMAIN pending[ch]
    BY DEF Expired
  <2>3. k \in Nat /\ k \in (1 .. Len(log[ch[1]])) \ acked[ch]
    BY <1>3, <2>2
  <2>4. QED BY <1>2, <1>4, <2>1, <2>3
<1>6. CASE Deliver(c, ch)
  <2> DEFINE k == cursor[ch] + 1
  <2>1. /\ k <= Len(log[ch[1]])
        /\ held' = [held EXCEPT ![c] = <<ch, k>>] /\ UNCHANGED <<log, acked>>
    BY <1>6 DEF Deliver
  <2>2. k \in Nat /\ k \in (1 .. Len(log[ch[1]])) \ acked[ch]
    BY <1>3, <2>1
  <2>3. QED BY <1>2, <1>4, <2>1, <2>2
<1>7. QED BY <1>1, <1>5, <1>6

(* Only a take gives a consumer a message.                                 *)
LEMMA NoRedelivery ==
  IInv /\ [Next]_vars =>
    [\A c \in Consumers :
       held'[c] # held[c] /\ held'[c] # Nothing
         => held'[c][2] \notin acked[held'[c][1]]]_vars
<1> SUFFICES ASSUME IInv, Next, NEW d \in Consumers, held'[d] # held[d], held'[d] # Nothing
             PROVE  held'[d][2] \notin acked[held'[d][1]]
  OBVIOUS
<1>1. held \in [Consumers -> {Nothing} \union (Channels \X Nat)]
  BY DEF IInv, TypeOK, BusTypeOK
<1>2. ASSUME NEW c \in Consumers, Consume(c) PROVE held'[d][2] \notin acked[held'[d][1]]
  <2>1. PICK ch \in Readers[c], k \in Nat :
          /\ k \in (1 .. Len(log[ch[1]])) \ acked[ch]
          /\ held' = [held EXCEPT ![c] = <<ch, k>>]
    BY <1>2, TakesUnfinished DEF Consume
  <2>2. d = c /\ held'[d] = <<ch, k>>
    BY <1>1, <2>1
  <2>3. QED BY <2>1, <2>2
<1>3. ASSUME NEW c \in Consumers, held' = [held EXCEPT ![c] = Nothing] PROVE FALSE
  BY <1>1, <1>3
<1>4. ASSUME held' = held PROVE FALSE
  BY <1>4
<1>5. QED
  BY <1>2, <1>3, <1>4 DEF Next, Produce, Publish, Complete, Ack, Crash, Drop, Restart,
                          Pass, Tick, busVars

(* "an acked message must never be redelivered" (test_bus.py:66).          *)
THEOREM AckedForGood == Spec => NeverRedelivered
  BY Invariant, NoRedelivery, PTL DEF Spec, NeverRedelivered
-----------------------------------------------------------------------------
(* An empty bus has posted and finished nothing.                           *)
LEMMA InitPromise == Init => Promise!Init
  BY DEF Init, BusInit, Promise!Init, Promise!Channels, Channels

(* A publish posts, a take hands, an ack by the holder finishes, a crash   *)
(* abandons; a late ack by the holder finishes what it still works on, and *)
(* the passage of time is invisible.                                       *)
LEMMA StepPromise == IInv /\ [Next]_vars => [Promise!Next]_(Promise!deliveryVars)
<1> SUFFICES ASSUME IInv, [Next]_vars PROVE [Promise!Next]_(Promise!deliveryVars)
  OBVIOUS
<1> DEFINE posted == [s \in Streams |-> Len(log[s])]
<1>1. /\ log \in [Streams -> Seq(Payloads)]
      /\ held \in [Consumers -> {Nothing} \union (Channels \X Nat)]
  BY DEF IInv, TypeOK, BusTypeOK
<1>2. ASSUME NEW s \in Streams, NEW p \in Payloads, Produce(s, p) PROVE Promise!Next
  <2>1. [t \in Streams |-> Len(log'[t])] = [posted EXCEPT ![s] = posted[s] + 1]
    <3>1. log' = [log EXCEPT ![s] = Append(log[s], p)]
      BY <1>2 DEF Produce, Publish
    <3>2. Len(Append(log[s], p)) = Len(log[s]) + 1
      BY <1>1
    <3>3. \A t \in Streams : Len(log'[t]) = IF t = s THEN Len(log[s]) + 1 ELSE Len(log[t])
      BY <1>1, <3>1, <3>2
    <3>4. QED BY <3>3
  <2>2. Promise!Post(s)
    BY <1>2, <2>1 DEF Promise!Post, Produce, Publish
  <2>3. QED BY <2>2 DEF Promise!Next
<1>3. ASSUME NEW c \in Consumers, Consume(c) PROVE Promise!Next
  <2>1. PICK ch \in Readers[c], k \in Nat :
          /\ held[c] = Nothing
          /\ k \in (1 .. Len(log[ch[1]])) \ acked[ch]
          /\ held' = [held EXCEPT ![c] = <<ch, k>>]
          /\ UNCHANGED <<log, acked>>
    BY <1>3, TakesUnfinished DEF Consume
  <2>2. posted[ch[1]] = Len(log[ch[1]])
    BY ChannelFacts
  <2>3. Promise!Hand(c, ch, k) /\ k \in 1 .. posted[ch[1]]
    BY <2>1, <2>2 DEF Promise!Hand
  <2>4. QED BY <2>3 DEF Promise!Next
<1>4. ASSUME NEW c \in Consumers, Complete(c) PROVE Promise!Next
  <2>1. Promise!Finish(c)
    BY <1>4 DEF Complete, Ack, Promise!Finish
  <2>2. QED BY <2>1 DEF Promise!Next
<1>5. ASSUME NEW c \in Consumers, Crash(c) PROVE [Promise!Next]_(Promise!deliveryVars)
  <2>1. CASE held[c] = Nothing
    <3>1. held' = held
      BY <1>1, <1>5, <2>1 DEF Crash, Drop
    <3>2. QED BY <1>5, <3>1 DEF Crash, Drop, Promise!deliveryVars
  <2>2. CASE held[c] # Nothing
    <3>1. Promise!Abandon(c)
      BY <1>5, <2>2 DEF Crash, Drop, Promise!Abandon
    <3>2. QED BY <3>1 DEF Promise!Next
  <2>3. QED BY <2>1, <2>2
<1>6. ASSUME UNCHANGED <<log, acked, held>> PROVE UNCHANGED Promise!deliveryVars
  BY <1>6 DEF Promise!deliveryVars
<1>7. QED
  BY <1>2, <1>3, <1>4, <1>5, <1>6 DEF Next, Restart, Pass, Tick, busVars, vars

(* Every behaviour of the bus is one the contract allows.                  *)
THEOREM Implements == Spec => KeepsPromise
  BY InitPromise, StepPromise, Invariant, PTL DEF Spec, KeepsPromise, Promise!Spec
-----------------------------------------------------------------------------
(* Facts about numbers, for the modules built on the bus.                  *)

(* Among finite sets there is one that has none of the others inside it.   *)
LEMMA LeastSet ==
  ASSUME NEW S, NEW T, T \subseteq FiniteSubsetsOf(S), T # {}
  PROVE  \E X \in T : \A Y \in T : Y \subseteq X => Y = X
<1>1. PICK X \in T : \A Y \in T : ~(<<Y, X>> \in StrictSubsetOrdering(S))
  BY FS_StrictSubsetOrderingWellFounded, WFMin
<1>2. ASSUME NEW Y \in T, Y \subseteq X PROVE Y = X
  BY <1>1, <1>2 DEF StrictSubsetOrdering, FiniteSubsetsOf
<1>3. QED BY <1>2

(* Induction on the natural numbers, by a set.                             *)
LEMMA Counting ==
  ASSUME NEW G, 0 \in G, \A k \in Nat : k \in G => k + 1 \in G
  PROVE  Nat \subseteq G
<1> DEFINE T == {0 .. k : k \in Nat \ G}
<1>1. SUFFICES ASSUME Nat \ G # {} PROVE FALSE
  OBVIOUS
<1>2. T # {}
  BY <1>1
<1>3. T \subseteq FiniteSubsetsOf(Nat)
  <2>1. \A k \in Nat : 0 .. k \subseteq Nat /\ IsFiniteSet(0 .. k)
    BY FS_Interval
  <2>2. QED BY <2>1 DEF FiniteSubsetsOf
<1>4. PICK X \in T : \A Y \in T : Y \subseteq X => Y = X
  <2> HIDE DEF T
  <2>1. QED BY <1>2, <1>3, LeastSet
<1>5. PICK k \in Nat \ G : X = 0 .. k
  BY <1>4
<1>6. k # 0 /\ k - 1 \in Nat
  OBVIOUS
<1>7. k - 1 \notin G
  <2>1. (k - 1) + 1 = k
    OBVIOUS
  <2>2. QED BY <1>6, <2>1
<1>8. 0 .. k - 1 \in T
  BY <1>6, <1>7
<1>9. 0 .. k - 1 \subseteq X /\ k \in X /\ k \notin 0 .. k - 1
  BY <1>5
<1>10. QED BY <1>4, <1>8, <1>9

(* There is a function with a given value before i and one step applied    *)
(* after another from there on, at all numbers of S.                       *)
Downward(S) == S \subseteq Nat /\ \A k \in S : k > 0 => k - 1 \in S

Recurs(f, S, i, z, F) == \A k \in S : f[k] = IF k < i THEN z ELSE F[k][f[k - 1]]

LEMMA Recursion ==
  ASSUME NEW D, NEW z \in D, NEW F \in [Nat -> [D -> D]], NEW i \in Nat \ {0},
         NEW S, Downward(S)
  PROVE  \E f \in [S -> D] : Recurs(f, S, i, z, F)
<1> USE DEF Downward
<1> DEFINE Step(g, k) == g[k] = IF k < i THEN z ELSE F[k][g[k - 1]]
           P(n) == {g \in [0 .. n -> D] : \A k \in 0 .. n : Step(g, k)}
           Some == {n \in Nat : P(n) # {}}
           One == {k \in Nat : \A m, n \in Nat : k <= m /\ k <= n =>
                                 \A g \in P(m), h \in P(n) : g[k] = h[k]}
<1>1. Nat \subseteq Some
  <2>1. 0 \in Some
    <3>1. [k \in 0 .. 0 |-> z] \in P(0)
      OBVIOUS
    <3>2. QED BY <3>1
  <2>2. ASSUME NEW n \in Nat, n \in Some PROVE n + 1 \in Some
    <3>1. PICK g \in P(n) : TRUE
      BY <2>2
    <3>2. g[n] \in D /\ n \in 0 .. n
      BY <3>1
    <3> DEFINE v == IF n + 1 < i THEN z ELSE F[n + 1][g[n]]
               h == [k \in 0 .. n + 1 |-> IF k <= n THEN g[k] ELSE v]
    <3>3. v \in D
      BY <3>2
    <3>4. h \in [0 .. n + 1 -> D]
      BY <3>1, <3>3
    <3>5. ASSUME NEW k \in 0 .. n + 1 PROVE Step(h, k)
      <4>1. CASE k <= n
        <5>1. k \in 0 .. n /\ h[k] = g[k] /\ (k >= i => k - 1 \in 0 .. n /\ h[k - 1] = g[k - 1])
          BY <4>1
        <5>2. Step(g, k)
          BY <3>1, <5>1
        <5>3. QED BY <5>1, <5>2
      <4>2. CASE k = n + 1
        <5>1. h[k] = v /\ k - 1 = n /\ h[n] = g[n]
          BY <4>2
        <5>2. QED BY <4>2, <5>1
      <4>3. QED BY <4>1, <4>2
    <3>6. h \in P(n + 1)
      BY <3>4, <3>5
    <3>7. QED
      <4> HIDE DEF P
      <4>1. QED BY <3>6
  <2>3. QED
    <3> HIDE DEF Some
    <3>1. QED BY <2>1, <2>2, Counting
<1>2. Nat \subseteq One
  <2>1. 0 \in One
    OBVIOUS
  <2>2. ASSUME NEW k \in Nat, k \in One PROVE k + 1 \in One
    <3> HIDE DEF P
    <3>1. SUFFICES ASSUME NEW m \in Nat, NEW n \in Nat, k + 1 <= m, k + 1 <= n,
                          NEW g \in P(m), NEW h \in P(n)
                   PROVE  g[k + 1] = h[k + 1]
      OBVIOUS
    <3>2. Step(g, k + 1) /\ Step(h, k + 1) /\ k + 1 - 1 = k /\ k <= m /\ k <= n
      <4>1. k + 1 \in 0 .. m /\ k + 1 \in 0 .. n /\ k + 1 - 1 = k /\ k <= m /\ k <= n
        BY ONLY <3>1, k \in Nat, m \in Nat, n \in Nat
      <4>2. /\ \A x \in P(m), y \in 0 .. m : Step(x, y)
            /\ \A x \in P(n), y \in 0 .. n : Step(x, y)
        <5> HIDE DEF Step
        <5>1. QED BY DEF P
      <4> HIDE DEF Step
      <4>3. QED BY <4>1, <4>2
    <3>3. g[k] = h[k]
      BY <2>2, <3>1, <3>2
    <3>4. QED BY <3>2, <3>3
  <2>3. QED
    <3> HIDE DEF One
    <3>1. QED BY <2>1, <2>2, Counting
<1> DEFINE f == [k \in S |-> (CHOOSE g \in P(k) : TRUE)[k]]
<1>3. ASSUME NEW k \in S PROVE f[k] \in D /\ \E g \in P(k) : f[k] = g[k]
  <2>1. P(k) # {} /\ k \in Nat
    BY <1>1
  <2> DEFINE g == CHOOSE x \in P(k) : TRUE
  <2>2. g \in P(k)
    <3> HIDE DEF P
    <3>1. QED BY <2>1
  <2>3. f[k] = g[k]
    OBVIOUS
  <2>4. g[k] \in D
    <3>1. k \in 0 .. k
      BY <2>1
    <3>2. g \in [0 .. k -> D]
      <4> HIDE DEF g
      <4>1. QED BY <2>2
    <3>3. QED BY <3>1, <3>2
  <2>5. QED BY <2>2, <2>3, <2>4
<1>4. f \in [S -> D]
  <2> HIDE DEF P
  <2>1. QED BY <1>3
<1>5. ASSUME NEW k \in S PROVE Step(f, k)
  <2>1. PICK g \in P(k) : f[k] = g[k]
    BY <1>3
  <2>2. Step(g, k) /\ k \in Nat
    BY <2>1
  <2>3. CASE k < i
    BY <2>1, <2>2, <2>3
  <2>4. CASE k >= i
    <3>1. k > 0 /\ k - 1 \in S /\ k - 1 \in Nat /\ k - 1 <= k - 1 /\ k - 1 <= k
      BY <2>4
    <3>2. PICK h \in P(k - 1) : f[k - 1] = h[k - 1]
      BY <1>3, <3>1
    <3>3. k - 1 \in One
      BY <1>2, <3>1
    <3>4. h[k - 1] = g[k - 1]
      <4>1. \A m, n \in Nat : k - 1 <= m /\ k - 1 <= n =>
              \A x \in P(m), y \in P(n) : x[k - 1] = y[k - 1]
        BY <3>3
      <4>2. k \in Nat
        BY <2>2
      <4> HIDE DEF P
      <4>3. QED BY <4>1, <4>2, <3>1, <2>1, <3>2
    <3>5. QED
      <4> HIDE DEF f
      <4>1. QED BY <2>1, <2>2, <2>4, <3>2, <3>4
  <2>5. k < i \/ k >= i
    BY ONLY <2>2, i \in Nat \ {0}
  <2> HIDE DEF Step
  <2>6. QED BY <2>3, <2>4, <2>5
<1>6. QED
  <2> HIDE DEF f, P
  <2>1. QED BY <1>4, <1>5 DEF Recurs

(* A finite set of numbers has a greatest one.                             *)
LEMMA Greatest ==
  ASSUME NEW S, S \subseteq Nat, IsFiniteSet(S), S # {}
  PROVE  \E n \in S : \A m \in S : m <= n
<1> DEFINE Max(X) == \E n \in X : \A m \in X : m <= n
           T == {X \in SUBSET S : X # {} /\ ~Max(X)}
<1>1. SUFFICES ASSUME S \in T PROVE FALSE
  OBVIOUS
<1>2. T \subseteq FiniteSubsetsOf(S)
  BY FS_Subset DEF FiniteSubsetsOf
<1>3. PICK X \in T : \A Y \in T : Y \subseteq X => Y = X
  <2> HIDE DEF T
  <2>1. T # {}
    BY <1>1
  <2>2. QED BY <1>2, <2>1, LeastSet
<1>4. PICK x \in X : TRUE
  BY <1>3
<1>5. CASE X = {x}
  <2>1. Max(X)
    BY <1>3, <1>5
  <2>2. QED BY <1>3, <2>1
<1>6. CASE X # {x}
  <2>1. X \ {x} \in SUBSET S /\ X \ {x} # {} /\ X \ {x} # X
    BY <1>3, <1>4, <1>6
  <2>2. Max(X \ {x})
    BY <1>3, <2>1
  <2>3. PICK n \in X \ {x} : \A m \in X \ {x} : m <= n
    BY <2>2
  <2>4. Max(X)
    <3>1. x \in Nat /\ n \in Nat /\ X \subseteq Nat
      BY <1>3, <1>4
    <3>2. CASE x <= n
      BY <2>3, <3>2
    <3>3. CASE n <= x
      <4>1. \A m \in X : m <= x
        BY <2>3, <3>1, <3>3
      <4>2. QED BY <1>4, <4>1
    <3>4. QED BY <3>1, <3>2, <3>3
  <2>5. QED BY <1>3, <2>4
<1>7. QED BY <1>5, <1>6

Rising(f) == \A i, j \in DOMAIN f : i < j => f[i] < f[j]

(* The numbers of a finite set can be put in order, and all of them are.   *)
LEMMA Listing ==
  ASSUME NEW S, S \subseteq Nat, IsFiniteSet(S)
  PROVE  \E f \in [1 .. Cardinality(S) -> S] : Rising(f)
<1> DEFINE Listed(X) == \E f \in [1 .. Cardinality(X) -> X] : Rising(f)
           T == {X \in SUBSET S : ~Listed(X)}
<1>1. SUFFICES ASSUME S \in T PROVE FALSE
  OBVIOUS
<1>2. T \subseteq FiniteSubsetsOf(S)
  BY FS_Subset DEF FiniteSubsetsOf
<1>3. PICK X \in T : \A Y \in T : Y \subseteq X => Y = X
  <2> HIDE DEF T
  <2>1. T # {}
    BY <1>1
  <2>2. QED BY <1>2, <2>1, LeastSet
<1>4. IsFiniteSet(X) /\ X \subseteq Nat
  BY <1>2 DEF FiniteSubsetsOf
<1>5. X # {}
  <2>1. SUFFICES ASSUME X = {} PROVE Listed(X)
    BY <1>3
  <2>2. Cardinality(X) = 0
    BY <2>1, FS_EmptySet
  <2>3. DOMAIN <<>> = {} /\ 1 .. 0 = {}
    OBVIOUS
  <2>4. [i \in {} |-> 0] \in [1 .. Cardinality(X) -> X]
    BY <2>2, <2>3
  <2>5. Rising([i \in {} |-> 0])
    BY DEF Rising
  <2>6. QED BY <2>4, <2>5
<1>6. PICK n \in X : \A m \in X : m <= n
  BY <1>4, <1>5, Greatest
<1> DEFINE Y == X \ {n}
           k == Cardinality(Y)
<1>7. IsFiniteSet(Y) /\ k \in Nat /\ Cardinality(X) = k + 1
  <2>1. IsFiniteSet(Y) /\ Cardinality(Y) = Cardinality(X) - 1
    BY <1>4, FS_RemoveElement
  <2>2. Cardinality(Y) \in Nat /\ Cardinality(X) \in Nat
    BY <1>4, <2>1, FS_CardinalityType
  <2>3. QED BY <2>1, <2>2
<1>8. Listed(Y)
  <2>1. Y \in SUBSET S /\ Y \subseteq X /\ Y # X
    BY <1>3
  <2>2. Y \notin T
    BY <1>3, <2>1
  <2>3. QED BY <2>1, <2>2
<1>9. PICK f \in [1 .. k -> Y] : Rising(f)
  BY <1>8
<1> HIDE DEF k
<1> DEFINE g == [i \in 1 .. k + 1 |-> IF i <= k THEN f[i] ELSE n]
<1>10. g \in [1 .. Cardinality(X) -> X]
  <2>1. ASSUME NEW i \in 1 .. k + 1 PROVE g[i] \in X
    <3>1. CASE i <= k
      <4>1. i \in 1 .. k
        BY <1>7, <3>1
      <4>2. QED BY <1>9, <3>1, <4>1
    <3>2. CASE ~(i <= k)
      BY <3>2
    <3>3. QED BY <3>1, <3>2
  <2>2. QED BY <1>7, <2>1
<1>11. Rising(g)
  <2>1. SUFFICES ASSUME NEW i \in 1 .. k + 1, NEW j \in 1 .. k + 1, i < j PROVE g[i] < g[j]
    BY DEF Rising
  <2>2. i \in 1 .. k /\ g[i] = f[i] /\ f[i] \in Y
    BY <1>7, <1>9, <2>1
  <2>3. CASE j <= k
    <3>1. j \in 1 .. k /\ g[j] = f[j]
      BY <1>7, <2>3
    <3>2. QED BY <1>9, <2>1, <2>2, <3>1 DEF Rising
  <2>4. CASE ~(j <= k)
    <3>1. g[j] = n
      BY <2>4
    <3>2. f[i] <= n /\ f[i] # n /\ f[i] \in Nat /\ n \in Nat
      BY <1>4, <1>6, <2>2
    <3>3. QED BY <2>2, <3>1, <3>2
  <2>5. QED BY <2>3, <2>4
<1>12. Listed(X)
  <2> HIDE DEF g
  <2>1. QED BY <1>10, <1>11
<1>13. QED BY <1>3, <1>12

(* Such a list leaves nothing out and repeats nothing.                     *)
LEMMA Listed ==
  ASSUME NEW S, S \subseteq Nat, IsFiniteSet(S), NEW f \in [1 .. Cardinality(S) -> S], Rising(f)
  PROVE  /\ \A i, j \in DOMAIN f : f[i] = f[j] => i = j
         /\ \A n \in S : \E i \in DOMAIN f : f[i] = n
<1> DEFINE D == 1 .. Cardinality(S)
<1>1. Cardinality(S) \in Nat
  BY FS_CardinalityType
<1>2. \A i, j \in D : f[i] = f[j] => i = j
  <2>1. SUFFICES ASSUME NEW i \in D, NEW j \in D, f[i] = f[j], i # j PROVE FALSE
    OBVIOUS
  <2>2. i < j \/ j < i
    BY <1>1, <2>1
  <2>3. f[i] < f[j] \/ f[j] < f[i]
    BY <2>2 DEF Rising
  <2>4. f[i] \in Nat /\ f[j] \in Nat
    OBVIOUS
  <2>5. QED BY <2>1, <2>3, <2>4
<1>3. IsFiniteSet(D) /\ Cardinality(D) = Cardinality(S)
  <2>1. IsFiniteSet(1 .. Cardinality(S))
        /\ Cardinality(1 .. Cardinality(S)) = IF 1 > Cardinality(S) THEN 0 ELSE Cardinality(S) - 1 + 1
    BY <1>1, FS_Interval
  <2>2. QED BY <1>1, <2>1
<1> HIDE DEF D
<1>4. f \in [D -> S]
  BY DEF D
<1>5. f \in Injection(D, S)
  BY <1>2, <1>4, Fun_IsInj
<1>6. f \in Surjection(D, S)
  BY <1>3, <1>5, FS_Injection
<1>7. \A n \in S : \E i \in D : f[i] = n
  BY <1>6, Fun_SurjectionProperties
<1>8. QED BY <1>2, <1>4, <1>7

(* Different numbers can be sorted.                                        *)
LEMMA Sortable ==
  ASSUME NEW n \in Nat, NEW a \in [1 .. n -> Nat],
         \A j, k \in 1 .. n : a[j] = a[k] => j = k
  PROVE  \E f \in [1 .. n -> Nat] :
           /\ Rising(f)
           /\ \A k \in 1 .. n : \E j \in 1 .. n : f[k] = a[j]
           /\ \A k \in 1 .. n : \E j \in 1 .. n : f[j] = a[k]
<1> DEFINE S == {a[k] : k \in 1 .. n}
<1>1. a \in Bijection(1 .. n, S)
  <2>1. a \in [1 .. n -> S] /\ \A i \in S : \E k \in 1 .. n : a[k] = i
    OBVIOUS
  <2> HIDE DEF S
  <2>2. QED BY <2>1, Fun_IsBij
<1>2. IsFiniteSet(1 .. n) /\ Cardinality(1 .. n) = n
  BY FS_Interval
<1>3. IsFiniteSet(S) /\ Cardinality(S) = n
  <2> HIDE DEF S
  <2>1. ExistsBijection(1 .. n, S)
    BY <1>1 DEF ExistsBijection
  <2>2. QED BY <1>2, <2>1, FS_Bijection
<1>4. S \subseteq Nat
  OBVIOUS
<1>5. PICK f \in [1 .. Cardinality(S) -> S] : Rising(f)
  <2> HIDE DEF S
  <2>1. QED BY <1>3, <1>4, Listing
<1>6. \A i \in S : \E k \in DOMAIN f : f[k] = i
  <2> HIDE DEF S
  <2>1. QED BY <1>3, <1>4, <1>5, Listed
<1>7. f \in [1 .. n -> S]
  BY <1>3
<1>8. \A k \in 1 .. n : \E j \in 1 .. n : f[k] = a[j]
  <2>1. SUFFICES ASSUME NEW k \in 1 .. n PROVE \E j \in 1 .. n : f[k] = a[j]
    OBVIOUS
  <2>2. f[k] \in S
    BY <1>7
  <2>3. QED BY <2>2
<1>9. \A k \in 1 .. n : \E j \in 1 .. n : f[j] = a[k]
  <2>1. \A k \in 1 .. n : a[k] \in S
    OBVIOUS
  <2>2. DOMAIN f = 1 .. n
    BY <1>7
  <2> HIDE DEF S
  <2>3. QED BY <1>6, <2>1, <2>2
<1>10. f \in [1 .. n -> Nat]
  BY <1>4, <1>7
<1> HIDE DEF S
<1>11. QED BY <1>5, <1>8, <1>9, <1>10

(* There is one way to sort them.                                          *)
Covers(f, g, n) == \A k \in 1 .. n : \E j \in 1 .. n : f[j] = g[k]

LEMMA SortedOnce ==
  ASSUME NEW n \in Nat, NEW f \in [1 .. n -> Nat], Rising(f), NEW g \in [1 .. n -> Nat], Rising(g),
         Covers(f, g, n), Covers(g, f, n)
  PROVE  \A i \in 1 .. n : f[i] = g[i]
<1> DEFINE G == {k \in Nat : \A i \in 1 .. n : i <= k => f[i] = g[i]}
<1>2. 0 \in G
  OBVIOUS
<1>3. ASSUME NEW k \in Nat, k \in G PROVE k + 1 \in G
  <2>2. \A i \in 1 .. n : i <= k => f[i] = g[i]
    BY <1>3
  <2>0. \A i \in 1 .. n : i <= k + 1 => i <= k \/ i = k + 1
    BY ONLY k \in Nat, n \in Nat
  <2>1. k + 1 \in 1 .. n => f[k + 1] = g[k + 1]
    <3>1. SUFFICES ASSUME k + 1 \in 1 .. n PROVE f[k + 1] = g[k + 1]
      OBVIOUS
    <3>3. PICK a \in 1 .. n : f[a] = g[k + 1]
      BY <3>1 DEF Covers
    <3>4. PICK b \in 1 .. n : g[b] = f[k + 1]
      BY <3>1 DEF Covers
    <3>5. /\ f[a] \in Nat /\ g[b] \in Nat /\ f[k + 1] \in Nat /\ g[k + 1] \in Nat /\ g[a] \in Nat /\ f[b] \in Nat
      BY <3>1
    <3>6. /\ a < k + 1 => g[a] < g[k + 1]
          /\ k + 1 < a => f[k + 1] < f[a]
          /\ b < k + 1 => f[b] < f[k + 1]
          /\ k + 1 < b => g[k + 1] < g[b]
      BY <3>1 DEF Rising
    <3>7. a <= k => f[a] = g[a]
      BY <2>2
    <3>8. b <= k => f[b] = g[b]
      BY <2>2
    <3>14. n \in Nat /\ k \in Nat /\ a \in 1 .. n /\ b \in 1 .. n
      OBVIOUS
    <3>9. ~(a < k + 1)
      BY ONLY <3>3, <3>5, <3>6, <3>7, <3>14
    <3>10. ~(b < k + 1)
      BY ONLY <3>4, <3>5, <3>6, <3>8, <3>14
    <3>11. a = k + 1 \/ k + 1 < a
      BY ONLY <3>9, <3>14
    <3>12. b = k + 1 \/ k + 1 < b
      BY ONLY <3>10, <3>14
    <3>13. QED BY ONLY <3>3, <3>4, <3>5, <3>6, <3>11, <3>12, <3>14
  <2>3. \A i \in 1 .. n : i <= k + 1 => f[i] = g[i]
    BY <2>0, <2>1, <2>2
  <2>4. k + 1 \in Nat
    OBVIOUS
  <2>5. QED BY <2>3, <2>4
<1>4. Nat \subseteq G
  <2> HIDE DEF G
  <2>1. QED BY <1>2, <1>3, Counting
<1>5. QED
  <2>1. SUFFICES ASSUME NEW i \in 1 .. n PROVE f[i] = g[i]
    OBVIOUS
  <2>2. i \in Nat /\ i <= i
    BY ONLY <2>1, n \in Nat
  <2>3. i \in G
    BY ONLY <1>4, <2>2
  <2>4. QED BY ONLY <2>1, <2>2, <2>3
=============================================================================
