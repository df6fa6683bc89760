---------------------------- MODULE FleetProofs ----------------------------
(***************************************************************************)
(* Proofs about module Fleet, for any requests, verdicts, workers, sinks,  *)
(* timeout and number of kills.  The bus of the fleet is the one BusProofs *)
(* speaks of, so its invariant is at hand; what is added is that a service *)
(* turns every message it reads into one message, and no more.             *)
(***************************************************************************)
EXTENDS Fleet, FiniteSetTheorems, TLAPS

BP == INSTANCE BusProofs WITH MaxPublish <- N, MaxCrashes <- MaxKills

Requested == <<"requests", "router">>
Paired == <<"pairs", "judges">>
Relays == Workers \union {"router", "decision"}

Places == {"next", "end", "request", "champion", "shadow", "publish", "ack", "judge",
           "decide", "alarm", "promote", "observe", "start", "control"}

(* Position k of channel ch is done with: it is acked, or one of M is      *)
(* about to ack it.                                                        *)
Handled(ch, M, k) ==
  k \in acked[ch] \/ \E c \in M : pc[c] = "ack" /\ held[c] = <<ch, k>>

Distinct(s) == \A j, k \in DOMAIN log[s] : log[s][j][2] = log[s][k][2] => j = k

(* The consumers M make of every message of ch one message of stream dst   *)
(* at most: what dst has of it is there only when it is done with.         *)
Relayed(ch, M, dst) ==
  /\ \A j \in DOMAIN log[dst] : \E k \in DOMAIN log[ch[1]] :
       log[ch[1]][k][2] = log[dst][j][2] /\ Handled(ch, M, k)
  /\ Distinct(dst)

(* Requests are published in order, and only they are called requests.     *)
Published ==
  /\ sent \in 0 .. N /\ Len(log["requests"]) = sent
  /\ \A k \in 1 .. sent : log["requests"][k] = <<"request", k>>
  /\ \A k \in DOMAIN log["control"] : log["control"][k][1] = "share_update"

(* A service has a message in hand unless it is about to ask for one.      *)
Unfed(c) == pc[c] = "next" \/ (c = "decision" /\ pc[c] = "start")

Standing ==
  /\ pc \in [Tasks -> Places]
  /\ \A c \in Relays : held[c] = Nothing <=> Unfed(c)
  /\ \A w \in Workers : pc[w] = "ack" => loop = w

(* What the router serves, shadows and pairs is a request.                 *)
Onward == {"champion", "shadow", "publish"}
Serving == pc["router"] \in Onward => held["router"][1] = Requested

Judged ==
  /\ Workers = {} => log["verdicts"] = <<>>
  /\ Workers # {} => Relayed(Paired, Workers, "verdicts")

FleetInv ==
  /\ BP!IInv
  /\ Standing
  /\ Serving
  /\ Published
  /\ Relayed(Requested, {"router"}, "pairs")
  /\ Judged
-----------------------------------------------------------------------------
(* The constants of the fleet are those of a bus.                          *)
LEMMA SubsFact ==
  /\ \A c \in Consumers : Subs[c] \in Seq(Streams)
  /\ "router" \in Consumers /\ "decision" \in Consumers /\ Workers \subseteq Consumers
  /\ Consumers \subseteq Tasks /\ "traffic" \in Tasks /\ "runner" \in Tasks
<1>1. \A c \in Consumers : Subs[c] \in Seq(Streams)
  <2>1. SUFFICES ASSUME NEW c \in Consumers PROVE Subs[c] \in Seq(Streams)
    OBVIOUS
  <2>2. /\ <<"requests", "control">> \in Seq(Streams) /\ <<"requests">> \in Seq(Streams)
        /\ <<"verdicts">> \in Seq(Streams) /\ <<"verdicts", "alarms">> \in Seq(Streams)
        /\ <<"pairs">> \in Seq(Streams)
    BY DEF Streams
  <2>3. c \in {"router", "decision", "drift"} \union Workers
    BY DEF Consumers, Services
  <2>4. QED BY <2>2, <2>3, WorkersAssumption DEF Subs
<1>2. QED BY <1>1 DEF Consumers, Services, Tasks

LEMMA NothingFact == Nothing \notin BP!Channels \X Nat
  BY NothingAssumption
     DEF B!Channels, BP!Channels, B!Readers, BP!Readers, B!Range, BP!Range

(* Who reads what.                                                         *)
LEMMA ReadersFact ==
  /\ BP!Readers["router"] \subseteq {Requested, <<"control", "router">>}
  /\ \A w \in Workers : BP!Readers[w] = {Paired}
  /\ Requested \in BP!Channels
  /\ Workers # {} => Paired \in BP!Channels
<1>1. "router" \in Consumers /\ "router" \notin Workers /\ Workers \subseteq Consumers
  BY WorkersAssumption, SubsFact
<1>2. \A c \in Consumers : BP!Readers[c] = {<<s, GroupOf[c]>> : s \in BP!Range(Subs[c])}
  BY DEF BP!Readers
<1>3. BP!Range(Subs["router"]) \subseteq {"requests", "control"} /\ "requests" \in BP!Range(Subs["router"])
  <2>1. Subs["router"] = IF Ramped THEN <<"requests", "control">> ELSE <<"requests">>
    BY <1>1 DEF Subs
  <2>2. /\ BP!Range(<<"requests", "control">>) = {"requests", "control"}
        /\ BP!Range(<<"requests">>) = {"requests"}
    BY DEF BP!Range
  <2>3. QED BY <2>1, <2>2
<1>4. \A w \in Workers : BP!Range(Subs[w]) = {"pairs"}
  <2>1. SUFFICES ASSUME NEW w \in Workers PROVE BP!Range(Subs[w]) = {"pairs"}
    OBVIOUS
  <2>2. Subs[w] = <<"pairs">>
    BY <1>1, WorkersAssumption DEF Subs
  <2>3. QED BY <2>2 DEF BP!Range
<1>5. GroupOf["router"] = "router" /\ \A w \in Workers : GroupOf[w] = "judges"
  BY <1>1 DEF GroupOf
<1>6. \A c \in Consumers : BP!Readers[c] \subseteq BP!Channels
  BY DEF BP!Channels
<1>7. BP!Readers["router"] \subseteq {Requested, <<"control", "router">>} /\ Requested \in BP!Readers["router"]
  BY <1>1, <1>2, <1>3, <1>5 DEF Requested
<1>8. \A w \in Workers : BP!Readers[w] = {Paired}
  BY <1>1, <1>2, <1>4, <1>5 DEF Paired
<1>9. QED BY <1>1, <1>6, <1>7, <1>8
-----------------------------------------------------------------------------
(* What the operations of the bus do, as seen from the services.           *)
LEMMA TakeFacts ==
  ASSUME BP!IInv, NEW c \in Consumers, B!Take(c)
  PROVE  /\ BP!BusInv'
         /\ held[c] = Nothing /\ held'[c] # Nothing
         /\ \A d \in Consumers : d # c => held'[d] = held[d]
         /\ UNCHANGED <<log, acked>>
<1>1. BP!Take(c)
  BY DEF B!Take, BP!Take, B!Reclaim, BP!Reclaim, B!Deliver, BP!Deliver,
         B!Expired, BP!Expired, B!Available, BP!Available
<1>2. BP!BusInv
  BY DEF BP!IInv
<1>3. BP!BusInv'
  BY <1>1, <1>2, BP!TakeKeeps, SubsFact, NothingFact, ReclaimIdleAssumption,
     RequestsAssumption, KillsAssumption
<1>4. PICK ch \in BP!Readers[c], k \in Nat :
        held[c] = Nothing /\ held' = [held EXCEPT ![c] = <<ch, k>>] /\ UNCHANGED <<log, acked>>
  BY <1>1, BP!TakesUnfinished, SubsFact, NothingFact, ReclaimIdleAssumption,
     RequestsAssumption, KillsAssumption
<1>5. DOMAIN held = Consumers
  BY DEF BP!IInv, BP!TypeOK, BP!BusTypeOK
<1>6. <<ch, k>> \in BP!Channels \X Nat
  BY DEF BP!Channels
<1>7. held'[c] = <<ch, k>> /\ \A d \in Consumers : d # c => held'[d] = held[d]
  BY <1>4, <1>5
<1>8. QED BY <1>3, <1>4, <1>6, <1>7, NothingFact

LEMMA AckFacts ==
  ASSUME BP!IInv, NEW c \in Consumers, B!Ack(c)
  PROVE  /\ BP!BusInv'
         /\ held[c] # Nothing /\ held'[c] = Nothing
         /\ \A d \in Consumers : d # c => held'[d] = held[d]
         /\ \A ch \in BP!Channels : acked[ch] \subseteq acked'[ch]
         /\ held[c][2] \in acked'[held[c][1]]
         /\ UNCHANGED log
<1>1. BP!Ack(c)
  BY DEF B!Ack, BP!Ack
<1>2. BP!BusInv
  BY DEF BP!IInv
<1>3. BP!BusInv'
  BY <1>1, <1>2, BP!AckKeeps, SubsFact, NothingFact, ReclaimIdleAssumption,
     RequestsAssumption, KillsAssumption
<1>4. DOMAIN held = Consumers /\ DOMAIN acked = BP!Channels
  BY DEF BP!IInv, BP!TypeOK, BP!BusTypeOK
<1>5. /\ held[c] # Nothing /\ UNCHANGED log
      /\ held' = [held EXCEPT ![c] = Nothing]
      /\ acked' = [acked EXCEPT ![held[c][1]] = acked[held[c][1]] \union {held[c][2]}]
  BY <1>1 DEF BP!Ack
<1>6. held[c][1] \in BP!Channels
  BY <1>2, <1>5 DEF BP!BusInv, BP!HeldWasHanded, BP!Channels
<1>7. /\ \A ch \in BP!Channels : acked[ch] \subseteq acked'[ch]
      /\ held[c][2] \in acked'[held[c][1]]
  BY <1>4, <1>5, <1>6
<1>8. held'[c] = Nothing /\ \A d \in Consumers : d # c => held'[d] = held[d]
  BY <1>4, <1>5
<1>9. QED BY <1>3, <1>5, <1>7, <1>8

LEMMA PublishFacts ==
  ASSUME BP!IInv, NEW s \in Streams, NEW p \in Payloads, B!Publish(s, p)
  PROVE  /\ BP!BusInv'
         /\ UNCHANGED <<held, acked>>
         /\ log[s] \in Seq(Payloads) /\ log'[s] = Append(log[s], p)
         /\ \A r \in Streams : r # s => log'[r] = log[r]
<1>1. BP!Publish(s, p)
  BY DEF B!Publish, BP!Publish
<1>2. BP!BusInv
  BY DEF BP!IInv
<1>3. BP!BusInv'
  BY <1>1, <1>2, BP!PublishKeeps, SubsFact, NothingFact, ReclaimIdleAssumption,
     RequestsAssumption, KillsAssumption
<1>4. log \in [Streams -> Seq(Payloads)]
  BY DEF BP!IInv, BP!TypeOK, BP!BusTypeOK
<1>5. QED BY <1>1, <1>3, <1>4 DEF BP!Publish

(* What a service works on is a message of one of its streams.             *)
LEMMA HeldFacts ==
  ASSUME BP!IInv, NEW c \in Consumers, held[c] # Nothing
  PROVE  /\ held[c] = <<held[c][1], held[c][2]>>
         /\ held[c][1] \in BP!Readers[c] /\ held[c][1] \in BP!Channels
         /\ held[c][2] \in DOMAIN log[held[c][1][1]]
         /\ Payload(c) \in (1 .. N) \union Shares
         /\ Punctual => held[c][2] \notin acked[held[c][1]]
         /\ Punctual => \A d \in Consumers : d # c => held[d] # held[c]
<1>1. /\ log \in [Streams -> Seq(Payloads)] /\ cursor \in [BP!Channels -> Nat]
      /\ held \in [Consumers -> {Nothing} \union (BP!Channels \X Nat)]
  BY DEF BP!IInv, BP!TypeOK, BP!BusTypeOK
<1>2. held[c] \in BP!Channels \X Nat
  BY <1>1
<1>3. held[c][1] \in BP!Readers[c] /\ held[c][2] \in 1 .. cursor[held[c][1]]
  BY DEF BP!IInv, BP!BusInv, BP!HeldWasHanded
<1>4. held[c][1][1] \in Streams
  BY <1>2, BP!ChannelFacts, SubsFact, NothingFact, ReclaimIdleAssumption,
     RequestsAssumption, KillsAssumption
<1>5. cursor[held[c][1]] <= Len(log[held[c][1][1]])
  BY <1>2 DEF BP!IInv, BP!TypeOK, BP!BusTypeOK
<1>6. held[c][2] \in DOMAIN log[held[c][1][1]]
  <2>1. log[held[c][1][1]] \in Seq(Payloads) /\ cursor[held[c][1]] \in Nat
    BY <1>1, <1>2, <1>4
  <2>2. QED BY <1>3, <1>5, <2>1
<1>7. Payload(c) \in (1 .. N) \union Shares
  <2>1. Received(c) \in Payloads
    BY <1>1, <1>4, <1>6 DEF Received
  <2>2. QED BY <2>1 DEF Payload, Payloads
<1>8. ASSUME Punctual
      PROVE  held[c][2] \notin acked[held[c][1]] /\ \A d \in Consumers : d # c => held[d] # held[c]
  <2>1. \A d \in Consumers : held[d] # Nothing =>
          /\ held[d][2] \in DOMAIN pending[held[d][1]]
          /\ pending[held[d][1]][held[d][2]].owner = d
    BY <1>8 DEF BP!IInv, BP!BusInv, BP!PunctualOwnsHeld
  <2>2. acked[held[c][1]] \cap DOMAIN pending[held[c][1]] = {}
    BY <1>2 DEF BP!IInv, BP!BusInv, BP!NothingLost
  <2>3. QED BY <2>1, <2>2
<1>9. QED BY <1>2, <1>3, <1>6, <1>7, <1>8
-----------------------------------------------------------------------------
(* A step of task t: it moves its own message at most, and if it leaves an *)
(* "ack" it has acked.                                                     *)
Moves(t) ==
  /\ \A u \in Tasks : u # t => pc'[u] = pc[u]
  /\ \A c \in Consumers : c # t => held'[c] = held[c]
  /\ \A ch \in BP!Channels : acked[ch] \subseteq acked'[ch]
  /\ pc[t] = "ack" /\ t \in Consumers => held[t][2] \in acked'[held[t][1]]

Grows(s) == \A k \in DOMAIN log[s] : k \in DOMAIN log'[s] /\ log'[s][k] = log[s][k]

(* What is done with stays so.                                             *)
LEMMA HandledStays ==
  ASSUME NEW ch \in BP!Channels, NEW M \in SUBSET Consumers, NEW t, Moves(t),
         NEW k, Handled(ch, M, k)
  PROVE  Handled(ch, M, k)'
<1>1. CASE k \in acked[ch]
  BY <1>1 DEF Handled, Moves
<1>2. ASSUME NEW c \in M, pc[c] = "ack", held[c] = <<ch, k>> PROVE Handled(ch, M, k)'
  <2>1. c \in Tasks /\ c \in Consumers
    BY SubsFact
  <2>2. CASE c = t
    <3>1. held[t][2] = k /\ held[t][1] = ch
      BY <1>2, <2>2
    <3>2. k \in acked'[ch]
      BY <1>2, <2>1, <2>2, <3>1 DEF Moves
    <3>3. QED BY <3>2 DEF Handled
  <2>3. CASE c # t
    <3>1. pc'[c] = "ack" /\ held'[c] = <<ch, k>>
      BY <1>2, <2>1, <2>3 DEF Moves
    <3>2. QED BY <3>1 DEF Handled
  <2>4. QED BY <2>2, <2>3
<1>3. QED BY <1>1, <1>2 DEF Handled

LEMMA RelayStays ==
  ASSUME NEW ch \in BP!Channels, NEW M \in SUBSET Consumers, NEW dst, Relayed(ch, M, dst),
         NEW t, Moves(t), log'[dst] = log[dst], Grows(ch[1])
  PROVE  Relayed(ch, M, dst)'
<1>1. Distinct(dst)'
  BY DEF Relayed, Distinct
<1>2. ASSUME NEW j \in DOMAIN log'[dst]
      PROVE  \E k \in DOMAIN log'[ch[1]] : log'[ch[1]][k][2] = log'[dst][j][2] /\ Handled(ch, M, k)'
  <2>1. PICK k \in DOMAIN log[ch[1]] : log[ch[1]][k][2] = log[dst][j][2] /\ Handled(ch, M, k)
    BY <1>2 DEF Relayed
  <2>2. k \in DOMAIN log'[ch[1]] /\ log'[ch[1]][k] = log[ch[1]][k]
    BY DEF Grows
  <2>3. Handled(ch, M, k)'
    BY <2>1, HandledStays
  <2>4. QED BY <2>1, <2>2, <2>3
<1>3. QED BY <1>1, <1>2 DEF Relayed

(* Consumer c, punctual, publishes what it makes of its message.           *)
LEMMA RelayExtends ==
  ASSUME BP!IInv, Punctual,
         NEW ch \in BP!Channels, NEW M \in SUBSET Consumers, NEW dst \in Streams, dst # ch[1],
         Relayed(ch, M, dst), Distinct(ch[1]),
         NEW c \in M, held[c] # Nothing, held[c][1] = ch, pc[c] # "ack", pc'[c] = "ack",
         Moves(c), held'[c] = held[c], NEW p, p[2] = Payload(c),
         log[dst] \in Seq(Payloads), log'[dst] = Append(log[dst], p), log'[ch[1]] = log[ch[1]]
  PROVE  Relayed(ch, M, dst)'
<1> DEFINE n == Len(log[dst])
<1>0. PICK k : k = held[c][2]
  OBVIOUS
<1>1. /\ k \in DOMAIN log[ch[1]] /\ held[c] = <<ch, k>> /\ k \notin acked[ch]
      /\ \A d \in Consumers : d # c => held[d] # held[c]
  BY <1>0, HeldFacts
<1>2. log[ch[1]][k][2] = p[2]
  BY <1>0 DEF Payload, Received
<1>3. ~Handled(ch, M, k)
  BY <1>1 DEF Handled
<1>4. Handled(ch, M, k)'
  BY <1>1 DEF Handled
<1>5. /\ n \in Nat /\ DOMAIN log[dst] = 1 .. n /\ DOMAIN log'[dst] = 1 .. n + 1
      /\ log'[dst][n + 1] = p /\ \A j \in 1 .. n : log'[dst][j] = log[dst][j]
  OBVIOUS
<1> HIDE DEF n
<1>6. \A j \in 1 .. n : log[dst][j][2] # p[2]
  <2>1. SUFFICES ASSUME NEW j \in 1 .. n, log[dst][j][2] = p[2] PROVE FALSE
    OBVIOUS
  <2>2. PICK i \in DOMAIN log[ch[1]] : log[ch[1]][i][2] = log[dst][j][2] /\ Handled(ch, M, i)
    BY <1>5 DEF Relayed
  <2>3. i = k
    BY <1>1, <1>2, <2>1, <2>2 DEF Distinct
  <2>4. QED BY <1>3, <2>2, <2>3
<1>7. \A j \in 1 .. n + 1 : j \in 1 .. n \/ j = n + 1
  BY <1>5
<1>8. Distinct(dst)'
  <2>1. SUFFICES ASSUME NEW i \in 1 .. n + 1, NEW j \in 1 .. n + 1, log'[dst][i][2] = log'[dst][j][2]
                 PROVE  i = j
    BY <1>5 DEF Distinct
  <2>2. CASE i \in 1 .. n /\ j \in 1 .. n
    <3>1. \A a, b \in 1 .. n : log[dst][a][2] = log[dst][b][2] => a = b
      BY <1>5 DEF Relayed, Distinct
    <3>2. log'[dst][i] = log[dst][i] /\ log'[dst][j] = log[dst][j]
      BY <1>5, <2>2
    <3>3. QED BY <2>1, <2>2, <3>1, <3>2
  <2>3. \A a \in 1 .. n : log'[dst][a][2] # log'[dst][n + 1][2]
    BY <1>5, <1>6
  <2>4. QED BY <1>7, <2>1, <2>2, <2>3
<1>9. ASSUME NEW j \in 1 .. n + 1
      PROVE  \E i \in DOMAIN log'[ch[1]] : log'[ch[1]][i][2] = log'[dst][j][2] /\ Handled(ch, M, i)'
  <2>1. CASE j = n + 1
    <3>1. k \in DOMAIN log'[ch[1]] /\ log'[ch[1]][k][2] = log'[dst][j][2]
      BY <1>1, <1>2, <1>5, <2>1
    <3>2. QED BY <1>4, <3>1
  <2>2. CASE j \in 1 .. n
    <3>1. PICK i \in DOMAIN log[ch[1]] : log[ch[1]][i][2] = log[dst][j][2] /\ Handled(ch, M, i)
      BY <1>5, <2>2 DEF Relayed
    <3>2. Handled(ch, M, i)'
      BY <3>1, HandledStays
    <3>3. QED BY <1>5, <2>2, <3>1, <3>2
  <2>3. QED BY <1>7, <2>1, <2>2
<1>10. QED BY <1>5, <1>8, <1>9 DEF Relayed
-----------------------------------------------------------------------------
LEMMA ServingStays ==
  ASSUME Serving, NEW t, Moves(t), t # "router"
  PROVE  Serving'
  BY SubsFact DEF Serving, Moves

(* A step that publishes nothing.                                          *)
LEMMA Still ==
  ASSUME FleetInv, NEW t \in Tasks, Moves(t), BP!IInv', UNCHANGED <<log, sent>>,
         pc' \in [Tasks -> Places], Serving',
         t \in Relays => (held'[t] = Nothing <=> Unfed(t)'),
         \A w \in Workers : pc'[w] = "ack" => loop' = w
  PROVE  FleetInv'
<1>1. Published'
  BY DEF FleetInv, Published
<1>2. Standing'
  <2>1. ASSUME NEW c \in Relays PROVE held'[c] = Nothing <=> Unfed(c)'
    <3>1. c \in Consumers /\ c \in Tasks
      BY SubsFact DEF Relays
    <3>2. CASE c = t
      BY <3>2 DEF Unfed
    <3>3. CASE c # t
      BY <3>1, <3>3 DEF FleetInv, Standing, Moves, Unfed
    <3>4. QED BY <3>2, <3>3
  <2>2. QED BY <2>1 DEF Standing
<1>3. Relayed(Requested, {"router"}, "pairs")'
  <2>1. {"router"} \in SUBSET Consumers /\ Requested \in BP!Channels
    BY SubsFact, ReadersFact
  <2>2. Grows(Requested[1])
    BY DEF Grows
  <2>3. QED BY <2>1, <2>2, RelayStays DEF FleetInv
<1>4. Judged'
  <2>1. ASSUME Workers # {} PROVE Relayed(Paired, Workers, "verdicts")'
    <3>1. Workers \in SUBSET Consumers /\ Paired \in BP!Channels
      BY <2>1, SubsFact, ReadersFact
    <3>2. Grows(Paired[1])
      BY DEF Grows
    <3>3. Relayed(Paired, Workers, "verdicts")
      BY <2>1 DEF FleetInv, Judged
    <3>4. QED BY <3>1, <3>2, <3>3, RelayStays
  <2>2. QED BY <2>1 DEF FleetInv, Judged
<1>5. QED BY <1>1, <1>2, <1>3, <1>4 DEF FleetInv
-----------------------------------------------------------------------------
(* The loop and the places of the tasks.                                   *)
LEMMA AtFacts ==
  ASSUME FleetInv, NEW t \in Tasks, NEW p, At(t, p)
  PROVE  /\ pc[t] = p /\ flushing[t] = "no"
         /\ \A w \in Workers : w # t => pc[w] # "ack"
<1>1. loop \in {Nobody, t} /\ pc[t] = p /\ flushing[t] = "no"
  BY DEF At
<1>2. \A w \in Workers : w # Nobody
  BY NobodyAssumption, SubsFact
<1>3. \A w \in Workers : pc[w] = "ack" => loop = w
  BY DEF FleetInv, Standing
<1>4. QED BY <1>1, <1>2, <1>3

LEMMA GoToFacts ==
  ASSUME FleetInv, NEW t \in Tasks, NEW q \in Places, GoTo(t, q)
  PROVE  /\ pc' \in [Tasks -> Places] /\ pc'[t] = q
         /\ \A u \in Tasks : u # t => pc'[u] = pc[u]
  BY DEF GoTo, FleetInv, Standing

LEMMA BusStands ==
  ASSUME BP!IInv, UNCHANGED busVars, live' \subseteq Consumers, UNCHANGED crashes
  PROVE  BP!IInv'
<1>1. BP!BusTypeOK' /\ BP!NothingLost' /\ BP!HeldWasHanded' /\ BP!PunctualOwnsHeld'
  BY DEF BP!IInv, BP!TypeOK, BP!BusInv, BP!BusTypeOK, BP!NothingLost, BP!HeldWasHanded,
         BP!PunctualOwnsHeld, busVars
<1>2. QED BY <1>1 DEF BP!IInv, BP!TypeOK, BP!BusInv

LEMMA BusMoves ==
  ASSUME BP!IInv, BP!BusInv', UNCHANGED chaosVars
  PROVE  BP!IInv'
  BY DEF BP!IInv, BP!TypeOK, BP!BusInv, chaosVars

(* Nothing moves that the invariant speaks of.                             *)
LEMMA Idle ==
  ASSUME FleetInv, BP!IInv', UNCHANGED <<log, acked, held, pc, sent>>,
         loop' = loop \/ \A w \in Workers : pc[w] # "ack"
  PROVE  FleetInv'
<1>1. "runner" \in Tasks /\ "runner" \notin Consumers
  BY SubsFact, WorkersAssumption DEF Consumers, Services
<1>2. Moves("runner")
  BY <1>1 DEF Moves
<1>3. "runner" \notin Relays
  BY WorkersAssumption DEF Relays
<1>4. pc' \in [Tasks -> Places] /\ \A w \in Workers : pc'[w] = "ack" => loop' = w
  BY DEF FleetInv, Standing
<1>5. Serving'
  BY <1>2, ServingStays DEF FleetInv
<1>6. QED BY <1>1, <1>2, <1>3, <1>4, <1>5, Still

(* A step inside a service's handler that leaves the bus alone.            *)
LEMMA InnerStep ==
  ASSUME FleetInv, NEW t \in Tasks, NEW p, NEW q \in Places, At(t, p), GoTo(t, q),
         p \notin {"next", "start", "ack"}, q \notin {"next", "start"}, t \in Workers => q # "ack",
         t = "router" /\ q \in Onward => p \in Onward \/ held["router"][1] = Requested,
         UNCHANGED <<busVars, chaosVars, sent>>
  PROVE  FleetInv'
<1>1. BP!IInv'
  BY BusStands DEF FleetInv, BP!IInv, BP!TypeOK, chaosVars
<1>2. /\ pc' \in [Tasks -> Places] /\ pc'[t] = q /\ pc[t] = p
      /\ \A u \in Tasks : u # t => pc'[u] = pc[u]
      /\ \A w \in Workers : w # t => pc[w] # "ack"
  BY AtFacts, GoToFacts
<1>3. Moves(t)
  BY <1>2 DEF Moves, busVars
<1>4. t \in Relays => (held'[t] = Nothing <=> Unfed(t)')
  BY <1>2 DEF FleetInv, Standing, busVars, Unfed
<1>5. \A w \in Workers : pc'[w] = "ack" => loop' = w
  BY <1>2, SubsFact
<1>6. UNCHANGED <<log, sent>>
  BY DEF busVars
<1>7. Serving'
  <2>1. CASE t = "router"
    BY <1>2, <2>1 DEF FleetInv, Serving, busVars
  <2>2. CASE t # "router"
    BY <1>3, <2>2, ServingStays DEF FleetInv
  <2>3. QED BY <2>1, <2>2
<1>8. QED BY <1>1, <1>2, <1>3, <1>4, <1>5, <1>6, <1>7, Still

LEMMA ReceiveStep ==
  ASSUME FleetInv, NEW c \in Consumers, NEW q \in {"request", "judge", "decide", "observe"},
         Receive(c, q)
  PROVE  FleetInv'
<1>1. At(c, "next") /\ B!Take(c) /\ UNCHANGED chaosVars /\ UNCHANGED sent /\ GoTo(c, q)
  BY DEF Receive
<1>2. c \in Tasks /\ q \in Places
  BY SubsFact DEF Places
<1>3. BP!BusInv' /\ held'[c] # Nothing /\ (\A d \in Consumers : d # c => held'[d] = held[d])
      /\ UNCHANGED <<log, acked>>
  BY <1>1, TakeFacts DEF FleetInv
<1>4. BP!IInv'
  BY <1>1, <1>3, BusMoves DEF FleetInv
<1>5. /\ pc' \in [Tasks -> Places] /\ pc'[c] = q /\ pc[c] = "next"
      /\ \A u \in Tasks : u # c => pc'[u] = pc[u]
      /\ \A w \in Workers : w # c => pc[w] # "ack"
  BY <1>1, <1>2, AtFacts, GoToFacts
<1>6. Moves(c)
  BY <1>3, <1>5 DEF Moves
<1>7. \A w \in Workers : pc'[w] = "ack" => loop' = w
  BY <1>5, SubsFact
<1>8. Serving'
  <2>1. CASE c = "router"
    BY <1>5, <2>1 DEF Serving, Onward
  <2>2. CASE c # "router"
    BY <1>6, <2>2, ServingStays DEF FleetInv
  <2>3. QED BY <2>1, <2>2
<1>9. held'[c] = Nothing <=> Unfed(c)'
  BY <1>3, <1>5 DEF Unfed
<1>10. QED BY <1>1, <1>2, <1>3, <1>4, <1>5, <1>6, <1>7, <1>8, <1>9, Still

LEMMA AckStep ==
  ASSUME FleetInv, NEW c \in Consumers, Acknowledge(c)
  PROVE  FleetInv'
<1>1. At(c, "ack") /\ B!Ack(c) /\ UNCHANGED chaosVars /\ UNCHANGED sent /\ GoTo(c, "next")
  BY DEF Acknowledge
<1>2. c \in Tasks /\ "next" \in Places
  BY SubsFact DEF Places
<1>3. /\ BP!BusInv' /\ held'[c] = Nothing /\ (\A d \in Consumers : d # c => held'[d] = held[d])
      /\ (\A ch \in BP!Channels : acked[ch] \subseteq acked'[ch])
      /\ held[c][2] \in acked'[held[c][1]] /\ UNCHANGED log
  BY <1>1, AckFacts DEF FleetInv
<1>4. BP!IInv'
  BY <1>1, <1>3, BusMoves DEF FleetInv
<1>5. /\ pc' \in [Tasks -> Places] /\ pc'[c] = "next"
      /\ \A u \in Tasks : u # c => pc'[u] = pc[u]
      /\ \A w \in Workers : w # c => pc[w] # "ack"
  BY <1>1, <1>2, AtFacts, GoToFacts
<1>6. Moves(c)
  BY <1>3, <1>5 DEF Moves
<1>7. \A w \in Workers : pc'[w] = "ack" => loop' = w
  BY <1>5, SubsFact
<1>8. Serving'
  <2>1. CASE c = "router"
    BY <1>5, <2>1 DEF Serving, Onward
  <2>2. CASE c # "router"
    BY <1>6, <2>2, ServingStays DEF FleetInv
  <2>3. QED BY <2>1, <2>2
<1>9. held'[c] = Nothing <=> Unfed(c)'
  BY <1>3, <1>5 DEF Unfed
<1>10. QED BY <1>1, <1>2, <1>3, <1>4, <1>5, <1>6, <1>7, <1>8, <1>9, Still

LEMMA PollStep ==
  ASSUME FleetInv, NEW c \in Consumers, Poll(c)
  PROVE  FleetInv'
<1>1. BP!IInv'
  BY BusStands DEF Poll, FleetInv, BP!IInv, BP!TypeOK, chaosVars
<1>2. UNCHANGED <<log, acked, held, pc, sent>>
  BY DEF Poll, busVars
<1>3. pc[c] = "next" /\ \A w \in Workers : w # c => pc[w] # "ack"
  BY AtFacts, SubsFact DEF Poll
<1>4. QED BY <1>1, <1>2, <1>3, Idle
-----------------------------------------------------------------------------
(* The places r and q before and after task t publishes.                   *)
Emission(t, r, q) ==
  /\ r # "ack" /\ q \notin Onward
  /\ t \in Relays => \/ r \notin {"next", "start"} /\ q \notin {"next", "start"}
                     \/ t = "decision" /\ r = "start" /\ q = "next"

(* A step that publishes p to stream s.                                    *)
LEMMA PublishStep ==
  ASSUME FleetInv, NEW t \in Tasks, NEW s \in Streams, NEW p \in Payloads, NEW r, NEW q \in Places,
         At(t, r), GoTo(t, q), Emission(t, r, q),
         B!Publish(s, p), UNCHANGED chaosVars, t \in Workers /\ q = "ack" => loop' = t
  PROVE  /\ BP!IInv' /\ Moves(t) /\ Standing' /\ Serving'
         /\ pc'[t] = q /\ held' = held
         /\ log[s] \in Seq(Payloads) /\ log'[s] = Append(log[s], p)
         /\ \A u \in Streams : u # s => log'[u] = log[u]
         /\ \A u \in Streams : Grows(u)
<1>1. /\ BP!BusInv' /\ UNCHANGED <<held, acked>>
      /\ log[s] \in Seq(Payloads) /\ log'[s] = Append(log[s], p)
      /\ \A u \in Streams : u # s => log'[u] = log[u]
  BY PublishFacts DEF FleetInv
<1>2. BP!IInv'
  BY <1>1, BusMoves DEF FleetInv
<1>3. /\ pc' \in [Tasks -> Places] /\ pc'[t] = q /\ pc[t] = r
      /\ \A u \in Tasks : u # t => pc'[u] = pc[u]
      /\ \A w \in Workers : w # t => pc[w] # "ack"
  BY AtFacts, GoToFacts
<1>4. Moves(t)
  BY <1>1, <1>3 DEF Moves, Emission
<1>5. Standing'
  <2>1. ASSUME NEW c \in Relays PROVE held'[c] = Nothing <=> Unfed(c)'
    <3>1. c \in Tasks
      BY SubsFact DEF Relays
    <3>2. held[c] = Nothing <=> Unfed(c)
      BY DEF FleetInv, Standing
    <3>3. Unfed(c)' <=> Unfed(c)
      BY <1>3, <3>1 DEF Unfed, Emission
    <3>4. QED BY <1>1, <3>2, <3>3
  <2>2. ASSUME NEW w \in Workers, pc'[w] = "ack" PROVE loop' = w
    BY <1>3, <2>2, SubsFact
  <2>3. QED BY <1>3, <2>1, <2>2 DEF Standing
<1>6. \A u \in Streams : Grows(u)
  <2>1. SUFFICES ASSUME NEW u \in Streams, NEW k \in DOMAIN log[u]
                 PROVE  k \in DOMAIN log'[u] /\ log'[u][k] = log[u][k]
    BY DEF Grows
  <2>2. CASE u = s
    BY <1>1, <2>2
  <2>3. CASE u # s
    BY <1>1, <2>3
  <2>4. QED BY <2>2, <2>3
<1>7. Serving'
  <2>1. CASE t = "router"
    BY <1>3, <2>1 DEF Serving, Emission
  <2>2. CASE t # "router"
    BY <1>4, <2>2, ServingStays DEF FleetInv
  <2>3. QED BY <2>1, <2>2
<1>8. QED BY <1>1, <1>2, <1>3, <1>4, <1>5, <1>6, <1>7
-----------------------------------------------------------------------------
(* The publishing services, one by one.                                    *)
LEMMA RequestsApart == Published => Distinct("requests")
  BY DEF Published, Distinct

LEMMA TrafficStep ==
  ASSUME FleetInv, TrafficPublish
  PROVE  FleetInv'
<1>1. PICK n : n = sent + 1
  OBVIOUS
<1>2. PICK q : q = IF n = N THEN "end" ELSE "next"
  OBVIOUS
<1>3. /\ At("traffic", "next") /\ sent < N /\ sent' = n /\ GoTo("traffic", q)
      /\ B!Publish("requests", <<"request", n>>) /\ UNCHANGED chaosVars
  BY <1>1, <1>2 DEF TrafficPublish, PublishAndGo
<1>4. sent \in Nat /\ n \in 1 .. N
  BY <1>1, <1>3, RequestsAssumption DEF FleetInv, Published
<1>5. /\ "traffic" \in Tasks /\ "traffic" \notin Relays /\ "traffic" \notin Workers
      /\ q \in Places /\ Emission("traffic", "next", q) /\ <<"request", n>> \in Payloads
      /\ "requests" \in Streams /\ "pairs" \in Streams /\ "verdicts" \in Streams /\ "control" \in Streams
  BY <1>2, <1>4, SubsFact, WorkersAssumption DEF Relays, Places, Payloads, Kinds, Streams, Onward,
                                                Emission
<1>6. /\ BP!IInv' /\ Moves("traffic") /\ Standing' /\ Serving'
      /\ log["requests"] \in Seq(Payloads) /\ log'["requests"] = Append(log["requests"], <<"request", n>>)
      /\ \A u \in Streams : u # "requests" => log'[u] = log[u]
      /\ \A u \in Streams : Grows(u)
  BY <1>3, <1>5, PublishStep
<1>7. Published'
  <2>1. Len(log["requests"]) = sent /\ \A k \in 1 .. sent : log["requests"][k] = <<"request", k>>
    BY DEF FleetInv, Published
  <2>2. Len(log'["requests"]) = n
    BY <1>1, <1>6, <2>1
  <2>3. \A k \in 1 .. n : log'["requests"][k] = <<"request", k>>
    BY <1>1, <1>4, <1>6, <2>1
  <2>4. log'["control"] = log["control"] /\ \A k \in DOMAIN log["control"] : log["control"][k][1] = "share_update"
    BY <1>5, <1>6 DEF FleetInv, Published
  <2>5. QED BY <1>3, <1>4, <2>2, <2>3, <2>4 DEF Published
<1>8. Relayed(Requested, {"router"}, "pairs")'
  <2>1. {"router"} \in SUBSET Consumers /\ Requested \in BP!Channels /\ Requested[1] = "requests"
    BY SubsFact, ReadersFact DEF Requested
  <2>2. QED BY <1>5, <1>6, <2>1, RelayStays DEF FleetInv
<1>9. Judged'
  <2>1. log'["verdicts"] = log["verdicts"]
    BY <1>5, <1>6
  <2>2. ASSUME Workers # {} PROVE Relayed(Paired, Workers, "verdicts")'
    <3>1. Workers \in SUBSET Consumers /\ Paired \in BP!Channels /\ Paired[1] = "pairs"
      BY <2>2, SubsFact, ReadersFact DEF Paired
    <3>2. Relayed(Paired, Workers, "verdicts")
      BY <2>2 DEF FleetInv, Judged
    <3>3. QED BY <1>5, <1>6, <2>1, <3>1, <3>2, RelayStays
  <2>3. QED BY <2>1, <2>2 DEF FleetInv, Judged
<1>10. QED BY <1>6, <1>7, <1>8, <1>9 DEF FleetInv

(* The router's message is a request.                                      *)
LEMMA RouterPublishStep ==
  ASSUME FleetInv, Punctual, RouterPublish
  PROVE  FleetInv'
<1>1. PICK i : i = Payload("router")
  OBVIOUS
<1>2. /\ At("router", "publish") /\ GoTo("router", "ack") /\ sent' = sent
      /\ B!Publish("pairs", <<"pair", i>>) /\ UNCHANGED chaosVars
  BY <1>1 DEF RouterPublish, PublishAndGo
<1>3. pc["router"] = "publish" /\ "router" \in Tasks /\ "router" \in Relays /\ "router" \in Consumers
      /\ "router" \notin Workers
  BY <1>2, AtFacts, SubsFact, WorkersAssumption DEF Relays
<1>4. held["router"] # Nothing
  BY <1>3 DEF FleetInv, Standing, Unfed
<1>5. held["router"][1] \in BP!Readers["router"] /\ i \in (1 .. N) \union Shares
      /\ held["router"][2] \in DOMAIN log[held["router"][1][1]]
  BY <1>1, <1>3, <1>4, HeldFacts DEF FleetInv
<1>6. held["router"][1] = Requested
  BY <1>3 DEF FleetInv, Serving, Onward
<1>7. /\ "ack" \in Places /\ Emission("router", "publish", "ack") /\ <<"pair", i>> \in Payloads
      /\ "requests" \in Streams /\ "pairs" \in Streams /\ "verdicts" \in Streams /\ "control" \in Streams
  BY <1>5 DEF Places, Payloads, Kinds, Streams, Onward, Emission
<1>8. /\ BP!IInv' /\ Moves("router") /\ Standing' /\ Serving' /\ pc'["router"] = "ack" /\ held' = held
      /\ log["pairs"] \in Seq(Payloads) /\ log'["pairs"] = Append(log["pairs"], <<"pair", i>>)
      /\ \A u \in Streams : u # "pairs" => log'[u] = log[u]
      /\ \A u \in Streams : Grows(u)
  BY <1>2, <1>3, <1>7, PublishStep
<1>9. Published'
  <2>1. log'["requests"] = log["requests"] /\ log'["control"] = log["control"]
    BY <1>7, <1>8
  <2>2. QED BY <1>2, <2>1 DEF FleetInv, Published
<1>10. Relayed(Requested, {"router"}, "pairs")'
  <2>1. /\ {"router"} \in SUBSET Consumers /\ Requested \in BP!Channels /\ Requested[1] = "requests"
        /\ "router" \in {"router"}
    BY SubsFact, ReadersFact DEF Requested
  <2>2. Distinct("requests")
    BY RequestsApart DEF FleetInv
  <2>3. log'["requests"] = log["requests"]
    BY <1>7, <1>8
  <2>4. <<"pair", i>>[2] = Payload("router")
    BY <1>1
  <2>5. QED
    BY <1>3, <1>4, <1>6, <1>7, <1>8, <2>1, <2>2, <2>3, <2>4, RelayExtends DEF FleetInv
<1>11. Judged'
  <2>1. log'["verdicts"] = log["verdicts"]
    BY <1>7, <1>8
  <2>2. ASSUME Workers # {} PROVE Relayed(Paired, Workers, "verdicts")'
    <3>1. Workers \in SUBSET Consumers /\ Paired \in BP!Channels /\ Paired[1] = "pairs"
      BY <2>2, SubsFact, ReadersFact DEF Paired
    <3>2. Relayed(Paired, Workers, "verdicts")
      BY <2>2 DEF FleetInv, Judged
    <3>3. QED BY <1>7, <1>8, <2>1, <3>1, <3>2, RelayStays
  <2>3. QED BY <2>1, <2>2 DEF FleetInv, Judged
<1>12. QED BY <1>8, <1>9, <1>10, <1>11 DEF FleetInv

(* A worker does not give the loop up between its publish and its ack.     *)
LEMMA JudgePublishStep ==
  ASSUME FleetInv, Punctual, "ack" \notin Suspends, NEW w \in Workers, JudgePublish(w)
  PROVE  FleetInv'
<1>1. PICK i : i = Payload(w)
  OBVIOUS
<1>2. /\ At(w, "publish") /\ GoTo(w, "ack") /\ sent' = sent
      /\ B!Publish("verdicts", <<"verdict", i>>) /\ UNCHANGED chaosVars /\ UNCHANGED sinkVars
  BY <1>1 DEF JudgePublish, PublishAndGo
<1>3. pc[w] = "publish" /\ flushing[w] = "no" /\ w \in Tasks /\ w \in Relays /\ w \in Consumers
  BY <1>2, AtFacts, SubsFact DEF Relays
<1>4. loop' = w
  <2>1. flushing'[w] = "no"
    BY <1>2, <1>3 DEF sinkVars
  <2>2. QED BY <1>2, <2>1 DEF GoTo
<1>5. held[w] # Nothing
  BY <1>3, WorkersAssumption DEF FleetInv, Standing, Unfed
<1>6. held[w][1] = Paired /\ i \in (1 .. N) \union Shares
  BY <1>1, <1>3, <1>5, HeldFacts, ReadersFact DEF FleetInv
<1>7. /\ "ack" \in Places /\ Emission(w, "publish", "ack") /\ <<"verdict", i>> \in Payloads
      /\ "requests" \in Streams /\ "pairs" \in Streams /\ "verdicts" \in Streams /\ "control" \in Streams
  BY <1>6 DEF Places, Payloads, Kinds, Streams, Onward, Emission
<1>8. /\ BP!IInv' /\ Moves(w) /\ Standing' /\ Serving' /\ pc'[w] = "ack" /\ held' = held
      /\ log["verdicts"] \in Seq(Payloads) /\ log'["verdicts"] = Append(log["verdicts"], <<"verdict", i>>)
      /\ \A u \in Streams : u # "verdicts" => log'[u] = log[u]
      /\ \A u \in Streams : Grows(u)
  BY <1>2, <1>3, <1>4, <1>7, PublishStep
<1>9. Published'
  <2>1. log'["requests"] = log["requests"] /\ log'["control"] = log["control"]
    BY <1>7, <1>8
  <2>2. QED BY <1>2, <2>1 DEF FleetInv, Published
<1>10. Relayed(Requested, {"router"}, "pairs")'
  <2>1. {"router"} \in SUBSET Consumers /\ Requested \in BP!Channels /\ Requested[1] = "requests"
    BY SubsFact, ReadersFact DEF Requested
  <2>2. log'["pairs"] = log["pairs"]
    BY <1>7, <1>8
  <2>3. QED BY <1>7, <1>8, <2>1, <2>2, RelayStays DEF FleetInv
<1>11. Relayed(Paired, Workers, "verdicts")'
  <2>1. Workers \in SUBSET Consumers /\ Paired \in BP!Channels /\ Paired[1] = "pairs"
    BY SubsFact, ReadersFact DEF Paired
  <2>2. Distinct("pairs") /\ Relayed(Paired, Workers, "verdicts")
    BY DEF FleetInv, Judged, Relayed
  <2>3. log'["pairs"] = log["pairs"]
    BY <1>7, <1>8
  <2>4. <<"verdict", i>>[2] = Payload(w)
    BY <1>1
  <2>5. QED
    BY <1>3, <1>5, <1>6, <1>7, <1>8, <2>1, <2>2, <2>3, <2>4, RelayExtends DEF FleetInv
<1>12. QED BY <1>8, <1>9, <1>10, <1>11 DEF FleetInv, Judged

(* The decision service, or the controller in its place, publishes to      *)
(* streams nobody relays.                                                  *)
LEMMA AsidePublishStep ==
  ASSUME FleetInv, NEW s \in {"alarms", "control"}, NEW kind \in Kinds, NEW i \in (1 .. N) \union Shares,
         s = "control" => kind = "share_update", NEW d \in Tasks \ Workers, NEW r, NEW q \in Places,
         At(d, r), GoTo(d, q), Emission(d, r, q), sent' = sent,
         B!Publish(s, <<kind, i>>), UNCHANGED chaosVars
  PROVE  FleetInv'
<1>1. PICK p : p = <<kind, i>>
  OBVIOUS
<1>2. p[1] = kind
  BY <1>1
<1>3. d \in Tasks /\ d \notin Workers
  OBVIOUS
<1>4. /\ p \in Payloads /\ s \in Streams /\ s \notin {"requests", "pairs", "verdicts"}
      /\ "requests" \in Streams /\ "pairs" \in Streams /\ "verdicts" \in Streams /\ "control" \in Streams
  BY <1>1 DEF Payloads, Streams
<1>5. B!Publish(s, p)
  BY <1>1
<1>6. /\ BP!IInv' /\ Moves(d) /\ Standing' /\ Serving' /\ held' = held
      /\ log[s] \in Seq(Payloads) /\ log'[s] = Append(log[s], p)
      /\ \A u \in Streams : u # s => log'[u] = log[u]
      /\ \A u \in Streams : Grows(u)
  BY <1>3, <1>4, <1>5, PublishStep
<1>7. /\ log'["requests"] = log["requests"] /\ log'["pairs"] = log["pairs"]
      /\ log'["verdicts"] = log["verdicts"]
  BY <1>4, <1>6
<1>8. \A k \in DOMAIN log'["control"] : log'["control"][k][1] = "share_update"
  <2>1. \A k \in DOMAIN log["control"] : log["control"][k][1] = "share_update"
    BY DEF FleetInv, Published
  <2>2. CASE s = "control"
    <3>1. PICK v \in Seq(Payloads) : v = log["control"] /\ log'["control"] = Append(v, p)
      BY <1>6, <2>2
    <3>2. PICK n \in Nat : n = Len(v) /\ DOMAIN v = 1 .. n /\ DOMAIN Append(v, p) = 1 .. n + 1
                           /\ Append(v, p)[n + 1] = p /\ \A k \in 1 .. n : Append(v, p)[k] = v[k]
      <4>1. p \in Payloads /\ v \in Seq(Payloads)
        BY <1>4
      <4>2. PICK n \in Nat : n = Len(v) /\ DOMAIN v = 1 .. n
        BY ONLY <4>1
      <4>3. DOMAIN Append(v, p) = 1 .. n + 1
        BY ONLY <4>1, <4>2
      <4>4. Append(v, p)[n + 1] = p
        BY ONLY <4>1, <4>2
      <4>5. \A k \in 1 .. n : Append(v, p)[k] = v[k]
        BY ONLY <4>1, <4>2
      <4>6. QED BY ONLY <4>2, <4>3, <4>4, <4>5
    <3>3. \A k \in 1 .. n + 1 : k \in 1 .. n \/ k = n + 1
      BY <3>2
    <3>4. QED BY <1>2, <2>1, <2>2, <3>1, <3>2, <3>3
  <2>3. CASE s # "control"
    BY <1>4, <1>6, <2>1, <2>3
  <2>4. QED BY <2>2, <2>3
<1>9. Published'
  BY <1>7, <1>8 DEF FleetInv, Published
<1>10. Relayed(Requested, {"router"}, "pairs")'
  <2>1. {"router"} \in SUBSET Consumers /\ Requested \in BP!Channels /\ Requested[1] = "requests"
    BY SubsFact, ReadersFact DEF Requested
  <2>2. QED BY <1>4, <1>6, <1>7, <2>1, RelayStays DEF FleetInv
<1>11. Judged'
  <2>1. ASSUME Workers # {} PROVE Relayed(Paired, Workers, "verdicts")'
    <3>1. Workers \in SUBSET Consumers /\ Paired \in BP!Channels /\ Paired[1] = "pairs"
      BY <2>1, SubsFact, ReadersFact DEF Paired
    <3>2. Relayed(Paired, Workers, "verdicts")
      BY <2>1 DEF FleetInv, Judged
    <3>3. QED BY <1>4, <1>6, <1>7, <3>1, <3>2, RelayStays
  <2>2. QED BY <1>7, <2>1 DEF FleetInv, Judged
<1>12. QED BY <1>6, <1>9, <1>10, <1>11 DEF FleetInv

LEMMA AlarmStep ==
  ASSUME FleetInv, DecisionAlarm
  PROVE  FleetInv'
<1>1. PICK i : i = Payload("decision")
  OBVIOUS
<1>2. /\ At("decision", "alarm") /\ GoTo("decision", "promote") /\ sent' = sent
      /\ B!Publish("alarms", <<"quality_alarm", i>>) /\ UNCHANGED chaosVars
  BY <1>1 DEF DecisionAlarm, PublishAndGo
<1>3. /\ pc["decision"] = "alarm" /\ "decision" \in Tasks \ Workers
      /\ "decision" \in Relays /\ "decision" \in Consumers
  BY <1>2, AtFacts, SubsFact, WorkersAssumption DEF Relays
<1>4. held["decision"] # Nothing
  BY <1>3 DEF FleetInv, Standing, Unfed
<1>5. i \in (1 .. N) \union Shares
  BY <1>1, <1>3, <1>4, HeldFacts DEF FleetInv
<1>6. "promote" \in Places /\ Emission("decision", "alarm", "promote") /\ "quality_alarm" \in Kinds
  BY DEF Places, Kinds, Onward, Emission
<1>7. /\ "decision" \in Tasks \ Workers /\ "alarms" \in {"alarms", "control"}
      /\ "alarms" = "control" => "quality_alarm" = "share_update"
  BY <1>3
<1>8. QED BY ONLY FleetInv, <1>2, <1>5, <1>6, <1>7, AsidePublishStep
-----------------------------------------------------------------------------
(* A killed worker holds nothing any more and is not at its ack: it would  *)
(* have the loop.                                                          *)
LEMMA KillStep ==
  ASSUME FleetInv, NEW w \in Workers, KillWorker(w)
  PROVE  FleetInv'
<1>1. /\ loop = Nobody /\ B!Crash(w) /\ pc' = [pc EXCEPT ![w] = "next"]
      /\ UNCHANGED loop /\ UNCHANGED sent
  BY DEF KillWorker
<1>2. w \in Tasks /\ w \in Consumers /\ Workers \subseteq Tasks
  BY SubsFact
<1>3. \A v \in Workers : pc[v] # "ack"
  BY <1>1, <1>2, NobodyAssumption DEF FleetInv, Standing
<1>4. BP!Drop(w) /\ crashes < MaxKills /\ crashes' = crashes + 1 /\ live' = live \ {w}
  BY <1>1 DEF B!Crash, B!Drop, BP!Drop
<1>5. BP!BusInv'
  BY <1>2, <1>4, BP!DropKeeps, SubsFact, NothingFact, ReclaimIdleAssumption,
     RequestsAssumption, KillsAssumption DEF FleetInv, BP!IInv
<1>6. BP!IInv'
  <2>1. live' \subseteq Consumers
    BY <1>4 DEF FleetInv, BP!IInv, BP!TypeOK
  <2>2. crashes' \in 0 .. MaxKills
    BY <1>4, KillsAssumption DEF FleetInv, BP!IInv, BP!TypeOK
  <2>3. QED BY <1>5, <2>1, <2>2 DEF BP!IInv, BP!TypeOK, BP!BusInv
<1>7. held \in [Consumers -> {Nothing} \union (BP!Channels \X Nat)]
  BY DEF FleetInv, BP!IInv, BP!TypeOK, BP!BusTypeOK
<1>8. /\ held'[w] = Nothing /\ (\A c \in Consumers : c # w => held'[c] = held[c])
      /\ UNCHANGED <<log, acked>>
  BY <1>2, <1>4, <1>7 DEF BP!Drop
<1>9. /\ pc' \in [Tasks -> Places] /\ pc'[w] = "next" /\ \A u \in Tasks : u # w => pc'[u] = pc[u]
  BY <1>1, <1>2 DEF FleetInv, Standing, Places
<1>10. Moves(w)
  BY <1>3, <1>8, <1>9 DEF Moves
<1>11. \A v \in Workers : pc'[v] # "ack"
  BY <1>2, <1>3, <1>9
<1>12. Serving' /\ (held'[w] = Nothing <=> Unfed(w)')
  BY <1>8, <1>9, <1>10, ServingStays, WorkersAssumption DEF FleetInv, Unfed
<1>13. QED BY <1>1, <1>2, <1>6, <1>8, <1>9, <1>10, <1>11, <1>12, Still

LEMMA RestartStep ==
  ASSUME FleetInv, NEW w \in Workers, RestartWorker(w)
  PROVE  FleetInv'
<1>1. live' = live \union {w} /\ UNCHANGED busVars /\ UNCHANGED crashes
  BY DEF RestartWorker, B!Restart, B!busVars, busVars
<1>2. live' \subseteq Consumers
  BY <1>1, SubsFact DEF FleetInv, BP!IInv, BP!TypeOK
<1>3. BP!IInv'
  BY <1>1, <1>2, BusStands DEF FleetInv
<1>4. QED BY <1>1, <1>3, Idle DEF RestartWorker, busVars

LEMMA TickStep ==
  ASSUME FleetInv, Tick
  PROVE  FleetInv'
<1>1. BP!Tick
  BY DEF Tick, B!Tick, BP!Tick, B!Older, BP!Older, B!Channels, BP!Channels, B!Readers, BP!Readers,
         B!Range, BP!Range
<1>2. BP!IInv'
  <2>1. BP!BusInv'
    BY <1>1, BP!TickKeeps, SubsFact, NothingFact, ReclaimIdleAssumption,
       RequestsAssumption, KillsAssumption DEF FleetInv, BP!IInv
  <2>2. QED BY <2>1, BusMoves DEF FleetInv, Tick
<1>3. QED BY <1>1, <1>2, Idle DEF Tick, BP!Tick

(* The store and the runner leave the bus and the services where they are. *)
LEMMA AsideStep ==
  ASSUME FleetInv, UNCHANGED <<busVars, chaosVars, pc, loop, sent>>
  PROVE  FleetInv'
<1>1. BP!IInv'
  BY BusStands DEF FleetInv, BP!IInv, BP!TypeOK, chaosVars
<1>2. QED BY <1>1, Idle DEF busVars
-----------------------------------------------------------------------------
LEMMA RequestInHand ==
  ASSUME FleetInv, pc["router"] = "request", Kind("router") = "request"
  PROVE  held["router"][1] = Requested
<1>1. "router" \in Consumers /\ "router" \in Relays
  BY SubsFact DEF Relays
<1>2. held["router"] # Nothing
  BY <1>1 DEF FleetInv, Standing, Unfed
<1>3. held["router"][1] \in {Requested, <<"control", "router">>}
      /\ held["router"][2] \in DOMAIN log[held["router"][1][1]]
  BY <1>1, <1>2, HeldFacts, ReadersFact DEF FleetInv
<1>4. QED BY <1>3 DEF Kind, Received, FleetInv, Published

LEMMA RouterInnerStep ==
  ASSUME FleetInv, (\E config : RouterServe(config)) \/ RouterChampion \/ RouterShadow
  PROVE  FleetInv'
<1>1. "router" \in Tasks /\ "router" \notin Workers
  BY SubsFact, WorkersAssumption
<1>2. {"champion", "shadow", "ack", "publish"} \subseteq Places /\ {"champion", "shadow"} \subseteq Onward
  BY DEF Places, Onward
<1>3. CASE \E config : RouterServe(config)
  <2>1. /\ At("router", "request") /\ GoTo("router", "champion") /\ UNCHANGED <<busVars, chaosVars, sent>>
        /\ Kind("router") = "request"
    BY <1>3 DEF RouterServe, EmitAndGo
  <2>2. held["router"][1] = Requested
    BY <2>1, RequestInHand DEF At
  <2>3. QED BY <1>1, <1>2, <2>1, <2>2, InnerStep
<1>4. CASE RouterChampion
  <2>1. PICK q \in {"shadow", "ack"} :
          /\ At("router", "champion") /\ GoTo("router", q) /\ UNCHANGED <<busVars, chaosVars, sent>>
    BY <1>4, Zenon DEF RouterChampion, EmitAndGo
  <2>2. QED BY <1>1, <1>2, <2>1, InnerStep
<1>5. CASE RouterShadow
  <2>1. /\ At("router", "shadow") /\ GoTo("router", "publish") /\ UNCHANGED <<busVars, chaosVars, sent>>
    BY <1>5 DEF RouterShadow, EmitAndGo
  <2>2. QED BY <1>1, <1>2, <2>1, InnerStep
<1>6. QED BY <1>3, <1>4, <1>5

LEMMA JudgeEmitStep ==
  ASSUME FleetInv, NEW w \in Workers, JudgeEmit(w)
  PROVE  FleetInv'
<1>1. /\ At(w, "judge") /\ GoTo(w, "publish") /\ UNCHANGED <<busVars, chaosVars, sent>>
  BY DEF JudgeEmit, EmitAndGo
<1>2. w \in Tasks /\ "publish" \in Places /\ w # "router"
  BY SubsFact, WorkersAssumption DEF Places
<1>3. QED BY <1>1, <1>2, InnerStep

LEMMA DecisionInnerStep ==
  ASSUME FleetInv, DecisionSkip \/ DecisionCusum \/ DecisionPromote
  PROVE  FleetInv'
<1>1. "decision" \in Tasks /\ "decision" \notin Workers
  BY SubsFact, WorkersAssumption
<1>2. {"alarm", "ack", "promote"} \subseteq Places
  BY DEF Places
<1>3. CASE DecisionSkip
  <2>1. At("decision", "decide") /\ GoTo("decision", "ack") /\ UNCHANGED <<busVars, chaosVars, sent>>
    BY <1>3 DEF DecisionSkip
  <2>2. QED BY <1>1, <1>2, <2>1, InnerStep
<1>4. CASE DecisionCusum
  <2>1. PICK q \in {"alarm", "promote"} :
          At("decision", "decide") /\ GoTo("decision", q) /\ UNCHANGED <<busVars, chaosVars, sent>>
    BY <1>4 DEF DecisionCusum, EmitAndGo
  <2>2. QED BY <1>1, <1>2, <2>1, InnerStep
<1>5. CASE DecisionPromote
  <2>1. At("decision", "promote") /\ GoTo("decision", "ack") /\ UNCHANGED <<busVars, chaosVars, sent>>
    BY <1>5 DEF DecisionPromote, EmitAndGo
  <2>2. QED BY <1>1, <1>2, <2>1, InnerStep
<1>6. QED BY <1>3, <1>4, <1>5
-----------------------------------------------------------------------------
LEMMA InitInv ==
  ASSUME NEW start \in {"next", "start"}, InitWith(start)
  PROVE  FleetInv
<1>1. /\ B!BusInit /\ live = Consumers /\ crashes = 0 /\ loop = Nobody /\ sent = 0
      /\ pc = [t \in Tasks |-> IF t = "decision" THEN start ELSE "next"]
  BY DEF InitWith
<1>2. BP!Init
  BY <1>1 DEF BP!Init, BP!BusInit, B!BusInit, B!Channels, BP!Channels, B!Readers, BP!Readers,
              B!Range, BP!Range
<1>3. BP!IInv
  BY <1>2, BP!InitIInv, SubsFact, NothingFact, ReclaimIdleAssumption, RequestsAssumption,
     KillsAssumption
<1>4. /\ \A s \in Streams : log[s] = <<>>
      /\ \A c \in Consumers : held[c] = Nothing
      /\ \A t \in Tasks : pc[t] = IF t = "decision" THEN start ELSE "next"
  BY <1>1 DEF B!BusInit
<1>5. Standing
  <2>1. pc \in [Tasks -> Places]
    BY <1>1 DEF Places
  <2>2. Relays \subseteq Consumers /\ Relays \subseteq Tasks
    BY SubsFact DEF Relays
  <2>3. \A c \in Relays : Unfed(c)
    BY <1>4, <2>2 DEF Unfed
  <2>4. \A w \in Workers : pc[w] = "next"
    BY <1>4, SubsFact, WorkersAssumption
  <2>5. QED BY <1>4, <2>1, <2>2, <2>3, <2>4 DEF Standing
<1>6. log["requests"] = <<>> /\ log["control"] = <<>> /\ log["pairs"] = <<>> /\ log["verdicts"] = <<>>
  BY <1>4 DEF Streams
<1>7. Published
  BY <1>1, <1>6, RequestsAssumption DEF Published
<1>8. Relayed(Requested, {"router"}, "pairs") /\ Judged
  BY <1>6 DEF Relayed, Distinct, Judged
<1>9. Serving
  BY <1>4, SubsFact DEF Serving, Onward
<1>10. QED BY <1>3, <1>5, <1>7, <1>8, <1>9 DEF FleetInv

(* What every fleet does: traffic, router, workers, store, clock, runner.  *)
LEMMA RestInv ==
  ASSUME Punctual, "ack" \notin Suspends, FleetInv, Rest
  PROVE  FleetInv'
<1>1. ASSUME NEW c \in Consumers, Acknowledge(c) \/ Poll(c) PROVE FleetInv'
  BY <1>1, AckStep, PollStep
<1>2. CASE TrafficPublish
  BY <1>2, TrafficStep
<1>3. CASE RouterRest
  <2>1. CASE RouterReceive
    BY <2>1, ReceiveStep, SubsFact DEF RouterReceive
  <2>2. CASE RouterPublish
    BY <2>2, RouterPublishStep
  <2>3. QED BY <1>1, <1>3, <2>1, <2>2, RouterInnerStep, SubsFact DEF RouterRest
<1>4. ASSUME NEW w \in Workers, Judge(w) \/ KillWorker(w) \/ RestartWorker(w) PROVE FleetInv'
  <2>1. w \in Consumers
    BY SubsFact
  <2>2. CASE JudgeReceive(w)
    BY <2>1, <2>2, ReceiveStep DEF JudgeReceive
  <2>3. CASE JudgeEmit(w)
    BY <2>3, JudgeEmitStep
  <2>4. CASE JudgePublish(w)
    BY <2>4, JudgePublishStep
  <2>5. QED BY <1>1, <1>4, <2>1, <2>2, <2>3, <2>4, KillStep, RestartStep DEF Judge
<1>5. CASE Store \/ Runner
  <2>1. UNCHANGED <<busVars, chaosVars, pc, loop, sent>>
    BY <1>5 DEF Store, Runner, Stop, TimeOut, FlushSink, Finish
  <2>2. QED BY <2>1, AsideStep
<1>6. CASE Tick
  BY <1>6, TickStep
<1>7. QED BY <1>2, <1>3, <1>4, <1>5, <1>6 DEF Rest

(* One case per action of the fleet.                                       *)
LEMMA NextInv ==
  ASSUME Punctual, "ack" \notin Suspends
  PROVE  FleetInv /\ [Next]_vars => FleetInv'
<1> SUFFICES ASSUME FleetInv, [Next]_vars PROVE FleetInv'
  OBVIOUS
<1>1. CASE RouterRequest
  BY <1>1, RouterInnerStep DEF RouterRequest
<1>2. CASE Decision
  <2>1. CASE DecisionReceive
    BY <2>1, ReceiveStep, SubsFact DEF DecisionReceive
  <2>2. CASE DecisionAlarm
    BY <2>2, AlarmStep
  <2>3. QED BY <1>2, <2>1, <2>2, DecisionInnerStep, AckStep, PollStep, SubsFact DEF Decision
<1>3. CASE UNCHANGED vars
  <2>1. UNCHANGED <<busVars, chaosVars, pc, loop, sent>>
    BY <1>3 DEF vars
  <2>2. QED BY <2>1, AsideStep
<1>4. QED BY <1>1, <1>2, <1>3, RestInv DEF Next

(* For any requests, workers, sinks, batches and number of kills: one      *)
(* verdict per pair reaches the decision service, if a worker is done with *)
(* its pair before the pair can be reclaimed (JudgeWorker.run) and the ack *)
(* follows the publish with no await in between (bus.py, ack).             *)
THEOREM OneVerdictPerPair ==
  ASSUME Punctual, "ack" \notin Suspends
  PROVE  Spec => []VerdictOnce
<1>1. Init => FleetInv
  BY InitInv DEF Init
<1>2. FleetInv /\ [Next]_vars => FleetInv'
  BY NextInv
<1>3. FleetInv => VerdictOnce
  BY DEF FleetInv, Judged, Relayed, Distinct, VerdictOnce
<1>4. QED BY <1>1, <1>2, <1>3, PTL DEF Spec
-----------------------------------------------------------------------------
(***************************************************************************)
(* The outcome of a run, whoever is killed and when: what the log holds in *)
(* the end is what the requests call for.  The sinks are those SinkProofs  *)
(* speaks of, and the bus and the relaying of messages are as above; what  *)
(* is added is who has which events under way, and that the run does not   *)
(* stop before its verdicts are in.                                        *)
(***************************************************************************)
SP == INSTANCE SinkProofs

Verdicts == <<"verdicts", "decision">>

(* The events of a service go to its sink; what a verdict's row says is    *)
(* the judge's verdict on a sampled pair.                                  *)
Bands == [router |-> {0, 1, 2}, judge |-> {5}, decision |-> {6, 8, 9}, drift |-> {7}]

SinkOf(t) == IF t \in Workers THEN "judge" ELSE IF t \in {"router", "decision"} THEN t ELSE "drift"

Bodies ==
  {"champion", "challenger", "shadow", "a", "b", "tie", "quality_alarm", "promotion",
   "drift_alarm", "test_reset", "canary-1", "canary-5", "canary-25", "full", "rolled-back"}

AllEvents == [seq : ((1 .. N) \union Shares) \X {0, 1, 2, 5, 6, 7, 8, 9}, body : Bodies]

Legit ==
  {e \in AllEvents : e.seq[2] = 5 => e.seq[1] \in Sampled /\ e.body = Winner[e.seq[1]]}

(* Each event is in its service's sink, or under way with a task that has  *)
(* that sink, or the runner's.                                             *)
Stocked ==
  /\ SP!Holds(Legit) /\ SP!Owned
  /\ \A s \in Sinks : \A e \in SP!Events(buffer[s]) : e.seq[2] \in Bands[s]
  /\ \A t \in Tasks \ {"runner"} : \A e \in SP!Load[t] : e.seq[2] \in Bands[SinkOf(t)]

Safe == SP!KeptSeqs \subseteq SP!KeptSeqs'
-----------------------------------------------------------------------------
(* The sinks of the fleet are those of module Sink.                        *)
LEMMA SinksFact ==
  /\ {"router", "judge", "decision"} \subseteq Sinks
  /\ Sinks \subseteq {"router", "judge", "decision", "drift"}
<1>1. CASE Monitored
  <2> DEFINE three == <<"router", "judge", "decision">>
             one == <<"drift">>
  <2>1. FinalFlushes = three \o one
    BY <1>1 DEF FinalFlushes
  <2>2. /\ Len(three) = 3 /\ Len(one) = 1 /\ three \in Seq({"router", "judge", "decision", "drift"})
        /\ one \in Seq({"router", "judge", "decision", "drift"})
    OBVIOUS
  <2>3. /\ DOMAIN (three \o one) = 1 .. 4 /\ (three \o one)[4] = one[1]
        /\ \A i \in 1 .. 3 : (three \o one)[i] = three[i]
    BY <2>2
  <2>4. Sinks = {FinalFlushes[i] : i \in 1 .. 4}
    BY <2>1, <2>3 DEF Sinks
  <2>5. QED BY <2>1, <2>3, <2>4
<1>2. CASE ~Monitored
  <2>1. FinalFlushes = <<"router", "judge", "decision">>
    BY <1>2 DEF FinalFlushes
  <2>2. DOMAIN FinalFlushes = 1 .. 3
    BY <2>1
  <2>3. QED BY <2>1, <2>2 DEF Sinks
<1>3. QED BY <1>1, <1>2

LEMMA EmitStock ==
  ASSUME Stocked, NEW t \in Tasks \ {"runner"}, NEW s \in Sinks, s = SinkOf(t),
         NEW e \in Legit, e.seq[2] \in Bands[s], flushing[t] = "no", S!Emit(t, s, e)
  PROVE  /\ Stocked' /\ Safe /\ e.seq \in SP!KeptSeqs' /\ rows' = rows
         /\ \A u \in Tasks : u # t => flushing'[u] = flushing[u] /\ SP!Load'[u] = SP!Load[u]
         /\ SP!Load'[t] \subseteq SP!Events(buffer[s]) \union {e}
         /\ \A r \in Sinks \ {s} : buffer'[r] = buffer[r]
         /\ Len(buffer[s]) + 1 >= Batch[s] => buffer'[s] = <<>>
         /\ Len(buffer[s]) + 1 < Batch[s] =>
              flushing' = flushing /\ Len(buffer'[s]) = Len(buffer[s]) + 1
<1>1. SP!Emit(t, s, e)
  BY DEF S!Emit, SP!Emit, S!EnterLock, SP!EnterLock, S!Thread, SP!Thread
<1>2. SP!Holds(Legit)' /\ rows' = rows
  BY <1>1, SP!EmitHolds, BatchAssumption, NobodyAssumption DEF Stocked
<1>3. /\ SP!Owned'
      /\ \A u \in Tasks : u # t => flushing'[u] = flushing[u] /\ SP!Load'[u] = SP!Load[u]
      /\ SP!Load'[t] \subseteq SP!Events(buffer[s]) \union {e}
      /\ \A r \in Sinks \ {s} : buffer'[r] = buffer[r]
      /\ SP!Events(buffer'[s]) \subseteq SP!Events(buffer[s]) \union {e}
      /\ Len(buffer[s]) + 1 >= Batch[s] => buffer'[s] = <<>>
      /\ Len(buffer[s]) + 1 < Batch[s] =>
           flushing' = flushing /\ Len(buffer'[s]) = Len(buffer[s]) + 1
      /\ e \in SP!InFlight' /\ \A x : x \in SP!InFlight => x \in SP!InFlight'
  <2>1. SP!Holds(Legit)
    BY DEF Stocked
  <2>2. SP!Owned
    BY DEF Stocked
  <2>3. t \in Tasks /\ s \in Sinks /\ e \in Legit /\ flushing[t] = "no"
    OBVIOUS
  <2>. HIDE DEF Legit, Tasks, Sinks
  <2>4. QED BY ONLY <1>1, <2>1, <2>2, <2>3, SP!EmitCarries, BatchAssumption, NobodyAssumption
<1>4. Stocked'
  BY <1>2, <1>3 DEF Stocked
<1>5. Safe /\ e.seq \in SP!KeptSeqs'
  BY <1>2, <1>3 DEF Safe, SP!KeptSeqs
<1>6. QED BY <1>2, <1>3, <1>4, <1>5

LEMMA FlushStock ==
  ASSUME Stocked, NEW s \in Sinks, flushing["runner"] = "no", S!Flush("runner", s)
  PROVE  /\ Stocked' /\ Safe /\ rows' = rows /\ buffer'[s] = <<>>
         /\ \A u \in Tasks \ {"runner"} : flushing'[u] = flushing[u] /\ SP!Load'[u] = SP!Load[u]
         /\ \A r \in Sinks \ {s} : buffer'[r] = buffer[r]
<1>1. SP!Flush("runner", s) /\ "runner" \in Tasks
  BY SubsFact DEF S!Flush, SP!Flush, S!EnterLock, SP!EnterLock, S!Thread, SP!Thread, S!sinkVars, SP!sinkVars
<1>2. SP!Holds(Legit)' /\ rows' = rows
  BY <1>1, SP!FlushHolds, BatchAssumption, NobodyAssumption DEF Stocked
<1>3. /\ SP!Owned'
      /\ \A u \in Tasks : u # "runner" => flushing'[u] = flushing[u] /\ SP!Load'[u] = SP!Load[u]
      /\ buffer'[s] = <<>> /\ \A r \in Sinks \ {s} : buffer'[r] = buffer[r]
      /\ \A x : x \in SP!InFlight => x \in SP!InFlight'
  BY <1>1, SP!FlushCarries, BatchAssumption, NobodyAssumption DEF Stocked
<1>4. SP!Events(<<>>) = {}
  BY DEF SP!Events
<1>5. Stocked'
  BY <1>2, <1>3, <1>4 DEF Stocked
<1>6. Safe
  BY <1>2, <1>3 DEF Safe, SP!KeptSeqs
<1>7. QED BY <1>2, <1>3, <1>5, <1>6

LEMMA StoreStock ==
  ASSUME Stocked, Store
  PROVE  /\ Stocked' /\ Safe /\ buffer' = buffer /\ SP!Stand
         /\ \A u \in Tasks : /\ SP!Load'[u] \subseteq SP!Load[u]
                             /\ flushing[u] = "no" => flushing'[u] = "no"
<1>1. CASE \E th \in threads : S!Insert(th)
  <2>1. PICK th \in threads : S!Insert(th)
    BY <1>1
  <2>2. SP!Insert(th) /\ buffer' = buffer
    BY <2>1 DEF S!Insert, SP!Insert, S!InsertOrIgnore, SP!InsertOrIgnore
  <2>3. SP!Holds(Legit)' /\ SP!Stand
    BY <2>2, SP!InsertHolds, BatchAssumption, NobodyAssumption DEF Stocked
  <2>4. /\ SP!Owned'
        /\ \A u \in Tasks : (flushing'[u] = "no" \/ flushing'[u] = flushing[u])
                            /\ SP!Load'[u] \subseteq SP!Load[u]
        /\ \A x : x \in SP!InFlight => x \in SP!InFlight' \/ x.seq \in DOMAIN rows'
    BY <2>2, SP!InsertCarries, BatchAssumption, NobodyAssumption DEF Stocked
  <2>5. Stocked'
    BY <2>2, <2>3, <2>4 DEF Stocked
  <2>6. Safe
    BY <2>3, <2>4 DEF Safe, SP!KeptSeqs, SP!Stand
  <2>7. QED BY <2>2, <2>3, <2>4, <2>5, <2>6
<1>2. CASE \E t \in Tasks : S!Acquire(t)
  <2>1. PICK t \in Tasks : S!Acquire(t)
    BY <1>2
  <2>2. SP!Acquire(t) /\ buffer' = buffer
    BY <2>1 DEF S!Acquire, SP!Acquire, S!Thread, SP!Thread
  <2>3. SP!Holds(Legit)' /\ rows' = rows
    BY <2>2, SP!AcquireHolds, BatchAssumption, NobodyAssumption DEF Stocked
  <2>4. /\ SP!Owned'
        /\ \A u \in Tasks : (flushing'[u] = "no" <=> flushing[u] = "no") /\ SP!Load'[u] = SP!Load[u]
        /\ \A x : x \in SP!InFlight => x \in SP!InFlight'
    BY <2>2, SP!AcquireCarries, BatchAssumption, NobodyAssumption DEF Stocked
  <2>5. Stocked'
    BY <2>2, <2>3, <2>4 DEF Stocked
  <2>6. Safe /\ SP!Stand
    BY <2>3, <2>4 DEF Safe, SP!KeptSeqs, SP!Stand
  <2>7. QED BY <2>2, <2>4, <2>5, <2>6
<1>3. QED BY <1>1, <1>2 DEF Store

(* What a cancellation may lose is under way with a cancelled task.        *)
LEMMA CancelStock ==
  ASSUME Stocked, NEW T \in SUBSET Tasks, S!CancelAll(T)
  PROVE  /\ Stocked' /\ buffer' = buffer /\ rows' = rows
         /\ \A u \in T : flushing'[u] = "no" /\ SP!Load'[u] = {}
         /\ \A u \in Tasks \ T : flushing'[u] = flushing[u] /\ SP!Load'[u] = SP!Load[u]
         /\ \A q \in SP!KeptSeqs : q \in SP!KeptSeqs' \/ \E u \in T : \E e \in SP!Load[u] : e.seq = q
<1>1. SP!CancelAll(T) /\ buffer' = buffer
  BY DEF S!CancelAll, SP!CancelAll
<1>2. SP!Holds(Legit)' /\ rows' = rows
  BY <1>1, SP!CancelHolds, BatchAssumption, NobodyAssumption DEF Stocked
<1>3. /\ SP!Owned'
      /\ \A u \in T : flushing'[u] = "no" /\ SP!Load'[u] = {}
      /\ \A u \in Tasks \ T : flushing'[u] = flushing[u] /\ SP!Load'[u] = SP!Load[u]
      /\ \A x : x \in SP!InFlight => x \in SP!InFlight' \/ \E u \in T : x \in SP!Load[u]
  BY <1>1, SP!CancelCarries, BatchAssumption, NobodyAssumption DEF Stocked
<1>4. Stocked'
  BY <1>1, <1>2, <1>3 DEF Stocked
<1>5. ASSUME NEW q \in SP!KeptSeqs
      PROVE  q \in SP!KeptSeqs' \/ \E u \in T : \E e \in SP!Load[u] : e.seq = q
  BY <1>2, <1>3 DEF SP!KeptSeqs
<1>6. QED BY <1>1, <1>2, <1>3, <1>4, <1>5

LEMMA StillStock ==
  ASSUME Stocked, UNCHANGED sinkVars
  PROVE  /\ Stocked' /\ Safe /\ SP!Load' = SP!Load
  BY DEF Stocked, sinkVars, SP!Holds, SP!Owned, SP!Load, SP!KeptSeqs, SP!InFlight, Safe
-----------------------------------------------------------------------------
(* Channel ch has one reader, c, which is never killed: it reads in order, *)
(* and what is pending is what it has in hand.                             *)
Sole(ch, c) ==
  /\ c \in Consumers /\ ch \in BP!Readers[c]
  /\ \A d \in Consumers : d # c => ch \notin BP!Readers[d]

Alone(ch, c) ==
  /\ \A k \in DOMAIN pending[ch] : held[c] = <<ch, k>>
  /\ held[c] # Nothing /\ held[c][1] = ch => held[c][2] = cursor[ch]

LEMMA SoleReaders ==
  /\ Sole(Requested, "router") /\ Sole(Verdicts, "decision")
  /\ BP!Readers["decision"] \subseteq {Verdicts, <<"alarms", "decision">>}
<1>1. /\ "router" \in Consumers /\ "decision" \in Consumers /\ Workers \subseteq Consumers
      /\ "router" \notin Workers /\ "decision" \notin Workers
  BY SubsFact, WorkersAssumption
<1>2. \A c \in Consumers : BP!Readers[c] = {<<s, GroupOf[c]>> : s \in BP!Range(Subs[c])}
  BY DEF BP!Readers
<1>3. /\ GroupOf["router"] = "router" /\ GroupOf["decision"] = "decision"
      /\ \A c \in Consumers : c # "router" => GroupOf[c] # "router"
      /\ \A c \in Consumers : c # "decision" => GroupOf[c] # "decision"
  BY <1>1 DEF GroupOf
<1>4. Subs["decision"] = <<"verdicts">> \/ Subs["decision"] = <<"verdicts", "alarms">>
  BY <1>1 DEF Subs
<1>5. /\ BP!Range(<<"verdicts">>) = {"verdicts"}
      /\ BP!Range(<<"verdicts", "alarms">>) = {"verdicts", "alarms"}
  BY DEF BP!Range
<1>6. Verdicts \in BP!Readers["decision"]
      /\ BP!Readers["decision"] \subseteq {Verdicts, <<"alarms", "decision">>}
  BY <1>1, <1>2, <1>3, <1>4, <1>5 DEF Verdicts
<1>7. Requested \in BP!Readers["router"]
  <2>1. Subs["router"] = <<"requests", "control">> \/ Subs["router"] = <<"requests">>
    BY <1>1 DEF Subs
  <2>2. "requests" \in BP!Range(Subs["router"])
    BY <2>1 DEF BP!Range
  <2>3. QED BY <1>1, <1>2, <1>3, <2>2 DEF Requested
<1>8. \A c \in Consumers : \A r \in BP!Readers[c] : r[2] = GroupOf[c]
  BY <1>2
<1>9. Requested[2] = "router" /\ Verdicts[2] = "decision"
  BY DEF Requested, Verdicts
<1>10. QED BY <1>1, <1>3, <1>6, <1>7, <1>8, <1>9 DEF Sole

LEMMA ChannelTypes ==
  ASSUME BP!IInv, NEW ch, NEW c, Sole(ch, c)
  PROVE  /\ ch \in BP!Channels /\ c \in Consumers
         /\ DOMAIN pending = BP!Channels /\ DOMAIN cursor = BP!Channels /\ DOMAIN held = Consumers
         /\ cursor[ch] \in Nat /\ DOMAIN pending[ch] \subseteq 1 .. cursor[ch]
         /\ acked[ch] \union DOMAIN pending[ch] = 1 .. cursor[ch]
         /\ acked[ch] \cap DOMAIN pending[ch] = {}
         /\ \A r \in BP!Channels, k \in Nat : Nothing # <<r, k>>
<1>1. ch \in BP!Channels /\ c \in Consumers
  BY DEF Sole, BP!Channels
<1>2. BP!BusTypeOK /\ BP!NothingLost
  BY DEF BP!IInv, BP!TypeOK, BP!BusInv
<1>3. QED BY <1>1, <1>2, NothingFact DEF BP!BusTypeOK, BP!NothingLost

(* What the others take or ack is nothing of the channel's.                *)
LEMMA OthersLeave ==
  ASSUME BP!IInv, NEW ch, NEW c, Sole(ch, c), Alone(ch, c),
         NEW d \in Consumers, d # c, B!Take(d) \/ B!Ack(d)
  PROVE  Alone(ch, c)' /\ cursor'[ch] = cursor[ch]
<1>1. /\ ch \notin BP!Readers[d] /\ ch \in BP!Channels /\ c \in Consumers
      /\ DOMAIN pending = BP!Channels /\ DOMAIN cursor = BP!Channels
  BY ChannelTypes DEF Sole
<1>2. held'[c] = held[c]
  BY <1>1, TakeFacts, AckFacts
<1>3. pending'[ch] = pending[ch] /\ cursor'[ch] = cursor[ch]
  <2>1. CASE B!Ack(d)
    <3>1. held[d] # Nothing /\ held[d][1] # ch
      BY <1>1, <2>1, AckFacts DEF BP!IInv, BP!BusInv, BP!HeldWasHanded
    <3>2. QED BY <1>1, <2>1, <3>1 DEF B!Ack
  <2>2. CASE B!Take(d)
    <3>1. PICK i \in DOMAIN Subs[d] :
            B!Reclaim(d, <<Subs[d][i], GroupOf[d]>>) \/ B!Deliver(d, <<Subs[d][i], GroupOf[d]>>)
      BY <2>2, Zenon DEF B!Take
    <3> DEFINE r == <<Subs[d][i], GroupOf[d]>>
    <3>2. r # ch
      <4>1. r \in BP!Readers[d]
        BY DEF BP!Readers, BP!Range
      <4>2. QED BY <1>1, <4>1
    <3> HIDE DEF r
    <3>3. B!Reclaim(d, r) \/ B!Deliver(d, r)
      BY <3>1 DEF r
    <3>4. CASE B!Reclaim(d, r)
      <4>1. PICK k : pending' = [pending EXCEPT ![r][k] = [owner |-> d, idle |-> 0]]
                     /\ UNCHANGED cursor
        BY <3>4 DEF B!Reclaim
      <4>2. QED BY <1>1, <3>2, <4>1
    <3>5. CASE B!Deliver(d, r)
      BY <1>1, <3>2, <3>5 DEF B!Deliver
    <3>6. QED BY <3>3, <3>4, <3>5
  <2>3. QED BY <2>1, <2>2
<1>4. QED BY <1>2, <1>3 DEF Alone

(* The reader, with nothing in hand, takes the next message of the channel *)
(* or one of another channel.                                              *)
LEMMA AloneTakes ==
  ASSUME BP!IInv, NEW ch, NEW c, Sole(ch, c), Alone(ch, c), B!Take(c)
  PROVE  /\ Alone(ch, c)' /\ held'[c] # Nothing
         /\ held'[c][1] = ch => cursor'[ch] = cursor[ch] + 1
         /\ held'[c][1] # ch => cursor'[ch] = cursor[ch]
<1>1. /\ ch \in BP!Channels /\ c \in Consumers /\ cursor[ch] \in Nat
      /\ DOMAIN pending = BP!Channels /\ DOMAIN cursor = BP!Channels /\ DOMAIN held = Consumers
      /\ \A r \in BP!Channels, k \in Nat : Nothing # <<r, k>>
      /\ DOMAIN pending[ch] \subseteq 1 .. cursor[ch]
  BY ChannelTypes
<1>2. held[c] = Nothing /\ held'[c] # Nothing
  BY <1>1, TakeFacts
<1>3. DOMAIN pending[ch] = {}
  BY <1>1, <1>2 DEF Alone
<1>4. PICK i \in DOMAIN Subs[c] :
        B!Reclaim(c, <<Subs[c][i], GroupOf[c]>>) \/ B!Deliver(c, <<Subs[c][i], GroupOf[c]>>)
  BY Zenon DEF B!Take
<1> DEFINE r == <<Subs[c][i], GroupOf[c]>>
<1> HIDE DEF r
<1>5. B!Reclaim(c, r) \/ B!Deliver(c, r)
  BY <1>4 DEF r
<1>6. CASE B!Reclaim(c, r)
  <2>1. PICK k \in DOMAIN pending[r] :
          /\ pending' = [pending EXCEPT ![r][k] = [owner |-> c, idle |-> 0]]
          /\ held' = [held EXCEPT ![c] = <<r, k>>]
          /\ UNCHANGED cursor
    BY <1>6 DEF B!Reclaim, B!Expired
  <2>2. r # ch
    BY <1>3, <2>1
  <2>3. pending'[ch] = pending[ch] /\ held'[c] = <<r, k>> /\ cursor'[ch] = cursor[ch]
    BY <1>1, <2>1, <2>2
  <2>4. QED BY <1>2, <1>3, <2>2, <2>3 DEF Alone
<1>7. CASE B!Deliver(c, r)
  <2> DEFINE k == cursor[r] + 1
             fresh == [j \in DOMAIN pending[r] \union {k} |->
                         IF j = k THEN [owner |-> c, idle |-> 0] ELSE pending[r][j]]
  <2>1. /\ cursor' = [cursor EXCEPT ![r] = k]
        /\ pending' = [pending EXCEPT ![r] = fresh]
        /\ held' = [held EXCEPT ![c] = <<r, k>>]
    BY <1>7 DEF B!Deliver
  <2>2. DOMAIN fresh = DOMAIN pending[r] \union {k}
    OBVIOUS
  <2> HIDE DEF fresh
  <2>3. CASE r = ch
    <3>1. /\ held'[c] = <<ch, cursor[ch] + 1>> /\ cursor'[ch] = cursor[ch] + 1
          /\ DOMAIN pending'[ch] = {cursor[ch] + 1}
      BY <1>1, <1>3, <2>1, <2>2, <2>3
    <3>2. QED BY <1>2, <3>1 DEF Alone
  <2>4. CASE r # ch
    <3>1. held'[c] = <<r, k>> /\ cursor'[ch] = cursor[ch] /\ pending'[ch] = pending[ch]
      BY <1>1, <2>1, <2>4
    <3>2. QED BY <1>2, <1>3, <2>4, <3>1 DEF Alone
  <2>5. QED BY <2>3, <2>4
<1>8. QED BY <1>5, <1>6, <1>7

LEMMA AloneAcks ==
  ASSUME BP!IInv, NEW ch, NEW c, Sole(ch, c), Alone(ch, c), B!Ack(c)
  PROVE  Alone(ch, c)' /\ cursor'[ch] = cursor[ch] /\ DOMAIN pending'[ch] = {}
<1>1. /\ ch \in BP!Channels /\ c \in Consumers /\ DOMAIN pending = BP!Channels
      /\ DOMAIN pending[ch] \subseteq 1 .. cursor[ch] /\ cursor[ch] \in Nat
  BY ChannelTypes
<1>2. held'[c] = Nothing /\ UNCHANGED cursor
  BY <1>1, AckFacts DEF B!Ack
<1> DEFINE r == held[c][1]
           k == held[c][2]
           left == [j \in DOMAIN pending[r] \ {k} |-> pending[r][j]]
<1>3. pending' = [pending EXCEPT ![r] = left]
  BY DEF B!Ack
<1>4. DOMAIN left = DOMAIN pending[r] \ {k}
  OBVIOUS
<1> HIDE DEF left
<1>5. \A j \in DOMAIN pending[ch] : r = ch /\ k = j
  BY DEF Alone
<1>6. DOMAIN pending'[ch] = {}
  <2>1. CASE r = ch
    BY <1>1, <1>3, <1>4, <1>5, <2>1
  <2>2. CASE r # ch
    BY <1>1, <1>3, <1>5, <2>2
  <2>3. QED BY <2>1, <2>2
<1>7. QED BY <1>2, <1>6 DEF Alone

(* The clock, a killed worker and what is published do not touch it.       *)
LEMMA AloneStays ==
  ASSUME NEW ch, NEW c, Alone(ch, c), held'[c] = held[c], cursor'[ch] = cursor[ch],
         DOMAIN pending'[ch] = DOMAIN pending[ch]
  PROVE  Alone(ch, c)'
  BY DEF Alone
-----------------------------------------------------------------------------
(* What a consumer is working on, and that a step is none of its own.      *)
Job == [c \in Consumers |-> Payload(c)]

Aside(c) ==
  /\ pc'[c] = pc[c] /\ held'[c] = held[c]
  /\ held[c] # Nothing => Job'[c] = Job[c]

Others(t) ==
  /\ \A u \in Tasks : u # t => pc'[u] = pc[u]
  /\ \A c \in Consumers : c # t => held'[c] = held[c]
  /\ \A s \in Streams : Grows(s)

(* The task whose step it is, the runner's being those nobody else takes.  *)
Acts(t) ==
  \/ t = "traffic" /\ TrafficPublish
  \/ t = "router" /\ (RouterRest \/ RouterRequest)
  \/ t \in Workers /\ (Judge(t) \/ KillWorker(t))
  \/ t = "decision" /\ Decision
  \/ t = "runner" /\ \/ Store \/ Tick \/ Runner \/ UNCHANGED vars
                     \/ \E w \in Workers : RestartWorker(w)

LEMMA SomebodyActs == [Next]_vars => \E t \in Tasks : Acts(t)
  BY SubsFact DEF Next, Rest, Acts

LEMMA JobIs ==
  ASSUME NEW c \in Consumers
  PROVE  /\ Job[c] = log[held[c][1][1]][held[c][2]][2]
         /\ Job'[c] = log'[held'[c][1][1]][held'[c][2]][2]
         /\ Job[c] = Payload(c)
  BY DEF Job, Payload, Received

LEMMA AsideHolds ==
  ASSUME FleetInv, \A s \in Streams : Grows(s), NEW c \in Consumers, held'[c] = held[c],
         pc'[c] = pc[c]
  PROVE  Aside(c)
<1>1. ASSUME held[c] # Nothing PROVE Job'[c] = Job[c]
  <2>1. held[c][1] \in BP!Channels /\ held[c][2] \in DOMAIN log[held[c][1][1]]
    BY <1>1, HeldFacts DEF FleetInv
  <2>2. held[c][1][1] \in Streams
    BY <2>1, BP!ChannelFacts, SubsFact, NothingFact, ReclaimIdleAssumption,
       RequestsAssumption, KillsAssumption
  <2>3. log'[held[c][1][1]][held[c][2]] = log[held[c][1][1]][held[c][2]]
    BY <2>1, <2>2 DEF Grows
  <2>4. /\ Job[c] = log[held[c][1][1]][held[c][2]][2]
        /\ Job'[c] = log'[held'[c][1][1]][held'[c][2]][2]
    BY JobIs
  <2>5. held'[c] = held[c]
    OBVIOUS
  <2>6. QED BY ONLY <2>3, <2>4, <2>5
<1>2. QED BY <1>1 DEF Aside

LEMMA StillGrows == UNCHANGED log => \A s \in Streams : Grows(s)
  BY DEF Grows

(* The steps of a task as seen from the bus, the loop and its sink.        *)
LEMMA Receives ==
  ASSUME FleetInv, NEW c \in Consumers, NEW q \in Places, Receive(c, q)
  PROVE  /\ Others(c) /\ B!Take(c) /\ UNCHANGED log
         /\ pc[c] = "next" /\ pc'[c] = q /\ held[c] = Nothing /\ held'[c] # Nothing
         /\ UNCHANGED sinkVars /\ flushing[c] = "no" /\ phase = "running"
         /\ UNCHANGED <<decisionVars, runnerVars>>
<1>1. At(c, "next") /\ B!Take(c) /\ UNCHANGED sinkVars /\ UNCHANGED <<decisionVars, runnerVars>>
      /\ GoTo(c, q) /\ c \in Tasks
  BY SubsFact DEF Receive
<1>2. /\ held[c] = Nothing /\ held'[c] # Nothing /\ UNCHANGED log
      /\ \A d \in Consumers : d # c => held'[d] = held[d]
  BY <1>1, TakeFacts DEF FleetInv
<1>3. /\ pc[c] = "next" /\ pc'[c] = q /\ flushing[c] = "no"
      /\ \A u \in Tasks : u # c => pc'[u] = pc[u]
  BY <1>1, AtFacts, GoToFacts
<1>4. QED BY <1>1, <1>2, <1>3, StillGrows DEF Others, At

LEMMA Acks ==
  ASSUME FleetInv, NEW c \in Consumers, Acknowledge(c)
  PROVE  /\ Others(c) /\ B!Ack(c) /\ UNCHANGED log
         /\ pc[c] = "ack" /\ pc'[c] = "next" /\ held[c] # Nothing /\ held'[c] = Nothing
         /\ UNCHANGED sinkVars /\ flushing[c] = "no" /\ phase = "running"
         /\ UNCHANGED <<decisionVars, runnerVars>>
<1>1. At(c, "ack") /\ B!Ack(c) /\ UNCHANGED sinkVars /\ UNCHANGED <<decisionVars, runnerVars>>
      /\ GoTo(c, "next") /\ c \in Tasks /\ "next" \in Places
  BY SubsFact DEF Acknowledge, Places
<1>2. /\ held[c] # Nothing /\ held'[c] = Nothing /\ UNCHANGED log
      /\ \A d \in Consumers : d # c => held'[d] = held[d]
  BY <1>1, AckFacts DEF FleetInv
<1>3. /\ pc[c] = "ack" /\ pc'[c] = "next" /\ flushing[c] = "no"
      /\ \A u \in Tasks : u # c => pc'[u] = pc[u]
  BY <1>1, AtFacts, GoToFacts
<1>4. QED BY <1>1, <1>2, <1>3, StillGrows DEF Others, At

LEMMA Inner ==
  ASSUME FleetInv, NEW t \in Tasks, NEW p, NEW q \in Places, At(t, p), GoTo(t, q), UNCHANGED busVars
  PROVE  /\ Others(t) /\ UNCHANGED <<log, held>> /\ Job' = Job
         /\ pc[t] = p /\ pc'[t] = q /\ flushing[t] = "no" /\ phase = "running"
<1>1. /\ pc[t] = p /\ pc'[t] = q /\ flushing[t] = "no" /\ phase = "running"
      /\ \A u \in Tasks : u # t => pc'[u] = pc[u]
  BY AtFacts, GoToFacts DEF At
<1>2. UNCHANGED <<log, held>>
  BY DEF busVars
<1>3. Job' = Job
  BY <1>2 DEF Job, Payload, Received
<1>4. QED BY <1>1, <1>2, <1>3, StillGrows DEF Others

LEMMA Publishes ==
  ASSUME FleetInv, NEW t \in Tasks, NEW s \in Streams, NEW k \in Kinds, NEW i \in (1 .. N) \union Shares,
         NEW p, NEW q \in Places, At(t, p), PublishAndGo(t, s, k, i, q)
  PROVE  /\ Others(t) /\ UNCHANGED <<held, cursor, pending>> /\ log[s] \in Seq(Payloads)
         /\ log'[s] = Append(log[s], <<k, i>>) /\ \A r \in Streams : r # s => log'[r] = log[r]
         /\ pc[t] = p /\ pc'[t] = q
         /\ UNCHANGED sinkVars /\ flushing[t] = "no" /\ phase = "running"
         /\ UNCHANGED runnerVars
<1>1. B!Publish(s, <<k, i>>) /\ GoTo(t, q) /\ UNCHANGED sinkVars /\ UNCHANGED runnerVars
  BY DEF PublishAndGo
<1>2. <<k, i>> \in Payloads
  BY DEF Payloads
<1>3. /\ held' = held /\ log[s] \in Seq(Payloads)
      /\ log'[s] = Append(log[s], <<k, i>>) /\ \A r \in Streams : r # s => log'[r] = log[r]
  BY <1>1, <1>2, PublishFacts DEF FleetInv
<1>4. /\ pc[t] = p /\ pc'[t] = q /\ flushing[t] = "no" /\ phase = "running"
      /\ \A u \in Tasks : u # t => pc'[u] = pc[u]
  BY <1>1, AtFacts, GoToFacts DEF At
<1>5. \A r \in Streams : Grows(r)
  <2>1. SUFFICES ASSUME NEW r \in Streams, NEW j \in DOMAIN log[r]
                 PROVE  j \in DOMAIN log'[r] /\ log'[r][j] = log[r][j]
    BY DEF Grows
  <2>2. CASE r = s
    <3>1. PICK v \in Seq(Payloads) : v = log[s] /\ log'[s] = Append(v, <<k, i>>)
      BY <1>3
    <3>2. PICK e \in Payloads : e = <<k, i>>
      BY <1>2
    <3>3. j \in DOMAIN v
      BY <2>1, <2>2, <3>1
    <3>4. j \in DOMAIN Append(v, e) /\ Append(v, e)[j] = v[j]
      BY ONLY <3>3, v \in Seq(Payloads), e \in Payloads
    <3>5. QED BY <2>2, <3>1, <3>2, <3>4
  <2>3. CASE r # s
    BY <1>3, <2>3
  <2>4. QED BY <2>2, <2>3
<1>6. QED BY <1>1, <1>3, <1>4, <1>5 DEF Others, B!Publish

LEMMA Kills ==
  ASSUME FleetInv, NEW w \in Workers, KillWorker(w)
  PROVE  /\ Others(w) /\ UNCHANGED <<log, cursor, pending, decisionVars, runnerVars>>
         /\ pc'[w] = "next" /\ held'[w] = Nothing
         /\ S!CancelAll({w}) /\ phase = "running" /\ MaxKills # 0
<1>1. /\ B!Crash(w) /\ pc' = [pc EXCEPT ![w] = "next"] /\ S!CancelAll({w}) /\ phase = "running"
      /\ UNCHANGED <<decisionVars, runnerVars>> /\ w \in Tasks /\ w \in Consumers
  BY SubsFact DEF KillWorker
<1>2. /\ held' = [held EXCEPT ![w] = Nothing] /\ UNCHANGED <<log, cursor, pending>>
      /\ crashes < MaxKills
  BY <1>1 DEF B!Crash, B!Drop
<1>3. /\ pc \in [Tasks -> Places] /\ DOMAIN held = Consumers /\ crashes \in 0 .. MaxKills
  BY DEF FleetInv, Standing, BP!IInv, BP!TypeOK, BP!BusTypeOK
<1>4. /\ pc'[w] = "next" /\ held'[w] = Nothing
      /\ \A u \in Tasks : u # w => pc'[u] = pc[u]
      /\ \A c \in Consumers : c # w => held'[c] = held[c]
  BY <1>1, <1>2, <1>3
<1>5. MaxKills # 0
  BY <1>2, <1>3, KillsAssumption
<1>6. QED BY <1>1, <1>2, <1>4, <1>5, StillGrows DEF Others
-----------------------------------------------------------------------------
(* The router works on a request, a worker on a pair.                      *)
LEMMA RouterWork ==
  ASSUME FleetInv, held["router"][1] = Requested, held["router"] # Nothing
  PROVE  /\ held["router"] = <<Requested, Job["router"]>> /\ Job["router"] \in 1 .. N
         /\ Job["router"] <= cursor[Requested] /\ cursor[Requested] <= N /\ cursor[Requested] \in Nat
<1>1. "router" \in Consumers
  BY SubsFact
<1>2. /\ held["router"] = <<held["router"][1], held["router"][2]>>
      /\ held["router"][1] \in BP!Readers["router"]
      /\ held["router"][2] \in DOMAIN log[held["router"][1][1]]
  BY <1>1, HeldFacts DEF FleetInv
<1>3. held["router"][1] = Requested
  OBVIOUS
<1>4. Requested[1] = "requests" /\ Requested \in BP!Channels
  BY ReadersFact DEF Requested
<1>5. /\ log \in [Streams -> Seq(Payloads)] /\ "requests" \in Streams
      /\ cursor[Requested] \in Nat /\ cursor[Requested] <= Len(log["requests"])
      /\ held["router"][2] \in 1 .. cursor[Requested]
  BY <1>1, <1>3, <1>4 DEF FleetInv, BP!IInv, BP!TypeOK, BP!BusInv, BP!BusTypeOK, BP!HeldWasHanded, Streams
<1>6. /\ sent \in 0 .. N /\ Len(log["requests"]) = sent
      /\ \A k \in 1 .. sent : log["requests"][k] = <<"request", k>>
  BY DEF FleetInv, Published
<1>7. held["router"][2] \in 1 .. sent /\ cursor[Requested] <= N
  BY <1>5, <1>6, RequestsAssumption
<1>8. Job["router"] = log["requests"][held["router"][2]][2]
  BY <1>1, <1>3, <1>4, JobIs
<1>9. Job["router"] = held["router"][2]
  BY <1>6, <1>7, <1>8
<1>10. held["router"][2] \in 1 .. N
  BY <1>6, <1>7, RequestsAssumption
<1>11. QED BY <1>2, <1>3, <1>5, <1>7, <1>9, <1>10

LEMMA WorkerWork ==
  ASSUME FleetInv, NEW w \in Workers, held[w] # Nothing
  PROVE  /\ held[w] = <<Paired, held[w][2]>>
         /\ held[w][2] \in DOMAIN log["pairs"] /\ Job[w] = log["pairs"][held[w][2]][2]
         /\ Job[w] \in (1 .. N) \union Shares
<1>1. w \in Consumers /\ Paired[1] = "pairs"
  BY SubsFact DEF Paired
<1>2. /\ held[w] = <<held[w][1], held[w][2]>> /\ held[w][1] = Paired
      /\ held[w][2] \in DOMAIN log[held[w][1][1]] /\ Payload(w) \in (1 .. N) \union Shares
  BY <1>1, HeldFacts, ReadersFact DEF FleetInv
<1>3. QED BY <1>1, <1>2, JobIs

(* What the publishing steps publish.                                      *)
LEMMA TrafficPublishes ==
  ASSUME FleetInv, TrafficPublish
  PROVE  /\ Others("traffic") /\ UNCHANGED <<held, cursor, pending, decisionVars, runnerVars>>
         /\ \A s \in Streams : s # "requests" => log'[s] = log[s]
         /\ UNCHANGED sinkVars /\ phase = "running"
<1>1. PICK n : n = sent + 1
  OBVIOUS
<1>2. PICK q : q = IF n = N THEN "end" ELSE "next"
  OBVIOUS
<1>3. /\ At("traffic", "next") /\ sent < N /\ UNCHANGED decisionVars
      /\ PublishAndGo("traffic", "requests", "request", n, q)
  BY <1>1, <1>2 DEF TrafficPublish
<1>4. n \in 1 .. N
  BY <1>1, <1>3, RequestsAssumption DEF FleetInv, Published
<1>5. "traffic" \in Tasks /\ q \in Places /\ "requests" \in Streams /\ "request" \in Kinds
  BY <1>2, SubsFact DEF Places, Streams, Kinds
<1>6. QED BY <1>3, <1>4, <1>5, Publishes

LEMMA RouterPublishes ==
  ASSUME FleetInv, RouterPublish
  PROVE  /\ Others("router") /\ UNCHANGED <<held, cursor, pending, decisionVars, runnerVars>>
         /\ log["pairs"] \in Seq(Payloads)
         /\ log'["pairs"] = Append(log["pairs"], <<"pair", Job["router"]>>)
         /\ \A s \in Streams : s # "pairs" => log'[s] = log[s]
         /\ pc["router"] = "publish" /\ pc'["router"] = "ack"
         /\ UNCHANGED sinkVars /\ flushing["router"] = "no" /\ phase = "running"
<1>1. "router" \in Consumers /\ "router" \in Tasks /\ "router" \in Relays
  BY SubsFact DEF Relays
<1>2. PICK i : i = Payload("router")
  OBVIOUS
<1>3. /\ At("router", "publish") /\ UNCHANGED decisionVars
      /\ PublishAndGo("router", "pairs", "pair", i, "ack")
  BY <1>1, <1>2 DEF RouterPublish
<1>4. held["router"] # Nothing
  BY <1>1, <1>3, AtFacts DEF FleetInv, Standing, Unfed
<1>5. i \in (1 .. N) \union Shares /\ "ack" \in Places /\ "pairs" \in Streams /\ "pair" \in Kinds
  BY <1>1, <1>2, <1>4, HeldFacts DEF FleetInv, Places, Streams, Kinds
<1>6. /\ Others("router") /\ UNCHANGED <<held, cursor, pending>> /\ log["pairs"] \in Seq(Payloads)
      /\ log'["pairs"] = Append(log["pairs"], <<"pair", i>>)
      /\ \A s \in Streams : s # "pairs" => log'[s] = log[s]
      /\ pc["router"] = "publish" /\ pc'["router"] = "ack"
      /\ UNCHANGED sinkVars /\ flushing["router"] = "no" /\ phase = "running"
      /\ UNCHANGED runnerVars
  BY <1>1, <1>3, <1>5, Publishes
<1>7. i = Job["router"]
  BY <1>1, <1>2, JobIs
<1>8. QED BY <1>3, <1>6, <1>7

LEMMA JudgePublishes ==
  ASSUME FleetInv, NEW w \in Workers, JudgePublish(w)
  PROVE  /\ Others(w) /\ UNCHANGED <<held, cursor, pending, decisionVars, runnerVars>>
         /\ log["verdicts"] \in Seq(Payloads)
         /\ log'["verdicts"] = Append(log["verdicts"], <<"verdict", Job[w]>>)
         /\ \A s \in Streams : s # "verdicts" => log'[s] = log[s]
         /\ pc[w] = "publish" /\ pc'[w] = "ack"
         /\ UNCHANGED sinkVars /\ flushing[w] = "no" /\ phase = "running"
<1>1. w \in Consumers /\ w \in Tasks /\ w \in Relays
  BY SubsFact DEF Relays
<1>2. PICK i : i = Payload(w)
  OBVIOUS
<1>3. /\ At(w, "publish") /\ UNCHANGED decisionVars
      /\ PublishAndGo(w, "verdicts", "verdict", i, "ack") /\ i = Job[w]
  BY <1>1, <1>2, JobIs DEF JudgePublish
<1>4. held[w] # Nothing
  BY <1>1, <1>3, AtFacts DEF FleetInv, Standing, Unfed
<1>5. i \in (1 .. N) \union Shares /\ "ack" \in Places /\ "verdicts" \in Streams /\ "verdict" \in Kinds
  BY <1>3, <1>4, WorkerWork DEF Places, Streams, Kinds
<1>6. /\ Others(w) /\ UNCHANGED <<held, cursor, pending>> /\ log["verdicts"] \in Seq(Payloads)
      /\ log'["verdicts"] = Append(log["verdicts"], <<"verdict", i>>)
      /\ \A s \in Streams : s # "verdicts" => log'[s] = log[s]
      /\ pc[w] = "publish" /\ pc'[w] = "ack"
      /\ UNCHANGED sinkVars /\ flushing[w] = "no" /\ phase = "running"
      /\ UNCHANGED runnerVars
  BY <1>1, <1>3, <1>5, Publishes
<1>7. QED BY <1>3, <1>6

LEMMA DecisionPublishes ==
  ASSUME FleetInv, DecisionAlarm
  PROVE  /\ Others("decision") /\ UNCHANGED <<held, cursor, pending>>
         /\ UNCHANGED <<decisionVars, runnerVars>>
         /\ log["alarms"] \in Seq(Payloads)
         /\ \E i : log'["alarms"] = Append(log["alarms"], <<"quality_alarm", i>>)
         /\ \A s \in Streams : s # "alarms" => log'[s] = log[s]
         /\ pc["decision"] = "alarm" /\ pc'["decision"] = "promote"
         /\ UNCHANGED sinkVars /\ flushing["decision"] = "no" /\ phase = "running"
<1>1. "decision" \in Consumers /\ "decision" \in Tasks /\ "decision" \in Relays
  BY SubsFact DEF Relays
<1>2. PICK i : i = Payload("decision")
  OBVIOUS
<1>3. /\ At("decision", "alarm") /\ UNCHANGED decisionVars
      /\ PublishAndGo("decision", "alarms", "quality_alarm", i, "promote")
  BY <1>1, <1>2 DEF DecisionAlarm
<1>4. held["decision"] # Nothing
  BY <1>1, <1>3, AtFacts DEF FleetInv, Standing, Unfed
<1>5. i \in (1 .. N) \union Shares /\ "promote" \in Places /\ "alarms" \in Streams
      /\ "quality_alarm" \in Kinds
  BY <1>1, <1>2, <1>4, HeldFacts DEF FleetInv, Places, Streams, Kinds
<1>6. /\ Others("decision") /\ UNCHANGED <<held, cursor, pending>> /\ log["alarms"] \in Seq(Payloads)
      /\ log'["alarms"] = Append(log["alarms"], <<"quality_alarm", i>>)
      /\ \A s \in Streams : s # "alarms" => log'[s] = log[s]
      /\ pc["decision"] = "alarm" /\ pc'["decision"] = "promote"
      /\ UNCHANGED sinkVars /\ flushing["decision"] = "no" /\ phase = "running"
      /\ UNCHANGED runnerVars
  BY <1>1, <1>3, <1>5, Publishes
<1>7. QED BY <1>3, <1>6
-----------------------------------------------------------------------------
(* The emitting steps, and the places they lead to.                        *)
LEMMA Emits ==
  ASSUME FleetInv, NEW t \in Tasks, NEW p, NEW q \in Places, NEW s, NEW e,
         At(t, p), EmitAndGo(t, s, e, q)
  PROVE  /\ S!Emit(t, s, e) /\ Others(t) /\ UNCHANGED <<busVars, runnerVars>> /\ Job' = Job
         /\ pc[t] = p /\ pc'[t] = q /\ flushing[t] = "no" /\ phase = "running"
  BY Inner DEF EmitAndGo

LEMMA RouterEmits ==
  ASSUME FleetInv, RouterRequest \/ RouterChampion \/ RouterShadow
  PROVE  \E b \in {0, 1, 2}, body \in {"champion", "shadow"} :
           /\ S!Emit("router", "router", Event(Job["router"], b, body))
           /\ Others("router") /\ UNCHANGED <<busVars, runnerVars, decisionVars>> /\ Job' = Job
           /\ flushing["router"] = "no" /\ phase = "running"
           /\ \/ pc["router"] = "request" /\ pc'["router"] = "champion" /\ b = 0
              \/ /\ pc["router"] = "champion" /\ b = 1
                 /\ pc'["router"] = IF Job["router"] \in Sampled THEN "shadow" ELSE "ack"
              \/ pc["router"] = "shadow" /\ pc'["router"] = "publish" /\ b = 2
<1>1. "router" \in Tasks /\ {"champion", "shadow", "ack", "publish"} \subseteq Places
  BY SubsFact DEF Places
<1>2. PICK i : i = Payload("router") /\ i = Job["router"]
  BY SubsFact, JobIs
<1>3. CASE RouterRequest
  <2>1. /\ At("router", "request") /\ UNCHANGED decisionVars
        /\ EmitAndGo("router", "router", Event(i, 0, "champion"), "champion")
    BY <1>2, <1>3 DEF RouterRequest, RouterServe
  <2>2. QED BY <1>1, <1>2, <2>1, Emits
<1>4. CASE RouterChampion
  <2>1. PICK q : q = IF i \in Sampled THEN "shadow" ELSE "ack"
    OBVIOUS
  <2>2. /\ At("router", "champion") /\ UNCHANGED decisionVars
        /\ EmitAndGo("router", "router", Event(i, 1, "champion"), q)
    BY <1>2, <1>4, <2>1, Zenon DEF RouterChampion
  <2>3. QED BY <1>1, <1>2, <2>1, <2>2, Emits
<1>5. CASE RouterShadow
  <2>1. /\ At("router", "shadow") /\ UNCHANGED decisionVars
        /\ EmitAndGo("router", "router", Event(i, 2, "shadow"), "publish")
    BY <1>2, <1>5 DEF RouterShadow
  <2>2. QED BY <1>1, <1>2, <2>1, Emits
<1>6. QED BY <1>3, <1>4, <1>5

LEMMA JudgeEmits ==
  ASSUME FleetInv, NEW w \in Workers, JudgeEmit(w)
  PROVE  /\ S!Emit(w, "judge", Event(Job[w], 5, Winner[Job[w]]))
         /\ Others(w) /\ UNCHANGED <<busVars, runnerVars, decisionVars>> /\ Job' = Job
         /\ flushing[w] = "no" /\ phase = "running"
         /\ pc[w] = "judge" /\ pc'[w] = "publish"
<1>1. w \in Tasks /\ "publish" \in Places
  BY SubsFact DEF Places
<1>2. PICK i : i = Payload(w) /\ i = Job[w]
  BY SubsFact, JobIs
<1>3. /\ At(w, "judge") /\ UNCHANGED decisionVars
      /\ EmitAndGo(w, "judge", Event(i, 5, Winner[i]), "publish")
  BY <1>2 DEF JudgeEmit
<1>4. QED BY <1>1, <1>2, <1>3, Emits

(* What the decision service does with a message, with and without a row.  *)
LEMMA DecisionDecides ==
  ASSUME FleetInv, DecisionSkip \/ DecisionCusum \/ DecisionPromote
  PROVE  /\ Others("decision") /\ UNCHANGED <<busVars, runnerVars>> /\ Job' = Job
         /\ flushing["decision"] = "no" /\ phase = "running"
         /\ pc["decision"] \in {"decide", "promote"} /\ pc'["decision"] \in {"alarm", "promote", "ack"}
         /\ \/ processed' = processed
            \/ /\ processed' = processed + 1 /\ pc["decision"] = "decide"
               /\ Kind("decision") = "verdict"
         /\ \/ UNCHANGED <<sinkVars, alarmAt, promotedAt>>
            \/ \E body \in {"quality_alarm", "promotion"} :
                 /\ S!Emit("decision", "decision", Event(Job["decision"], 6, body))
                 /\ \/ alarmAt = Nothing /\ alarmAt' = Job["decision"] /\ promotedAt' = promotedAt
                    \/ promotedAt = Nothing /\ promotedAt' = Job["decision"] /\ alarmAt' = alarmAt
<1>1. "decision" \in Tasks /\ {"alarm", "promote", "ack"} \subseteq Places
  BY SubsFact DEF Places
<1>2. PICK i : i = Payload("decision") /\ i = Job["decision"]
  BY SubsFact, JobIs
<1>3. CASE DecisionSkip
  <2>1. /\ At("decision", "decide") /\ GoTo("decision", "ack")
        /\ UNCHANGED <<busVars, sinkVars, runnerVars, alarmAt, promotedAt>>
        /\ \/ processed' = processed
           \/ processed' = processed + 1 /\ Kind("decision") = "verdict"
    BY <1>3 DEF DecisionSkip
  <2>2. QED BY <1>1, <2>1, Inner
<1>4. CASE DecisionCusum
  <2>1. /\ At("decision", "decide") /\ processed' = processed + 1 /\ Kind("decision") = "verdict"
        /\ promotedAt' = promotedAt
        /\ \/ /\ alarmAt = Nothing /\ alarmAt' = i
              /\ EmitAndGo("decision", "decision", Event(i, 6, "quality_alarm"), "alarm")
           \/ /\ UNCHANGED <<busVars, sinkVars, runnerVars, alarmAt>>
              /\ GoTo("decision", "promote")
    BY <1>2, <1>4, Zenon DEF DecisionCusum
  <2>2. CASE alarmAt = Nothing /\ alarmAt' = i
               /\ EmitAndGo("decision", "decision", Event(i, 6, "quality_alarm"), "alarm")
    <3>1. /\ S!Emit("decision", "decision", Event(i, 6, "quality_alarm"))
          /\ Others("decision") /\ UNCHANGED <<busVars, runnerVars>> /\ Job' = Job
          /\ pc["decision"] = "decide" /\ pc'["decision"] = "alarm"
          /\ flushing["decision"] = "no" /\ phase = "running"
      BY <1>1, <2>1, <2>2, Emits
    <3>2. QED BY <1>2, <2>1, <2>2, <3>1
  <2>3. CASE UNCHANGED <<busVars, sinkVars, runnerVars, alarmAt>> /\ GoTo("decision", "promote")
    BY <1>1, <2>1, <2>3, Inner
  <2>4. QED BY <2>1, <2>2, <2>3
<1>5. CASE DecisionPromote
  <2>1. /\ At("decision", "promote") /\ processed' = processed /\ alarmAt' = alarmAt
        /\ \/ /\ promotedAt = Nothing /\ promotedAt' = i
              /\ EmitAndGo("decision", "decision", Event(i, 6, "promotion"), "ack")
           \/ /\ UNCHANGED <<busVars, sinkVars, runnerVars, promotedAt>>
              /\ GoTo("decision", "ack")
    BY <1>2, <1>5, Zenon DEF DecisionPromote
  <2>2. CASE promotedAt = Nothing /\ promotedAt' = i
               /\ EmitAndGo("decision", "decision", Event(i, 6, "promotion"), "ack")
    <3>1. /\ S!Emit("decision", "decision", Event(i, 6, "promotion"))
          /\ Others("decision") /\ UNCHANGED <<busVars, runnerVars>> /\ Job' = Job
          /\ pc["decision"] = "promote" /\ pc'["decision"] = "ack"
          /\ flushing["decision"] = "no" /\ phase = "running"
      BY <1>1, <2>1, <2>2, Emits
    <3>2. QED BY <1>2, <2>1, <2>2, <3>1
  <2>3. CASE UNCHANGED <<busVars, sinkVars, runnerVars, promotedAt>> /\ GoTo("decision", "ack")
    BY <1>1, <2>1, <2>3, Inner
  <2>4. QED BY <2>1, <2>2, <2>3
<1>6. QED BY <1>3, <1>4, <1>5
-----------------------------------------------------------------------------
(* A task's step leaves the others' places, messages and streams alone.    *)
LEMMA Polls ==
  ASSUME NEW c, Poll(c)
  PROVE  /\ UNCHANGED <<busVars, pc, sinkVars, decisionVars, runnerVars>> /\ Others(c)
         /\ pc[c] = "next" /\ flushing[c] = "no" /\ phase = "running" /\ Job' = Job
<1>1. /\ UNCHANGED <<busVars, pc, sinkVars, decisionVars, runnerVars>>
      /\ pc[c] = "next" /\ flushing[c] = "no" /\ phase = "running"
  BY DEF Poll, At
<1>2. UNCHANGED <<log, held>>
  BY <1>1 DEF busVars
<1>3. Job' = Job
  BY <1>2 DEF Job, Payload, Received
<1>4. QED BY <1>1, <1>2, <1>3, StillGrows DEF Others

LEMMA RunnerAside ==
  ASSUME FleetInv, Acts("runner")
  PROVE  /\ Others("runner") /\ UNCHANGED <<log, held, pc, cursor>> /\ UNCHANGED decisionVars
         /\ Job' = Job /\ \A ch \in BP!Channels : DOMAIN pending'[ch] = DOMAIN pending[ch]
<1>1. "runner" \notin Workers
  BY WorkersAssumption
<1>2. Store \/ Tick \/ Runner \/ (UNCHANGED vars) \/ \E w \in Workers : RestartWorker(w)
  BY <1>1 DEF Acts
<1>3. CASE Tick
  <2>1. UNCHANGED <<log, held, pc, cursor>> /\ (UNCHANGED decisionVars) /\ B!Tick
    BY <1>3 DEF Tick, B!Tick
  <2>2. pending' = [ch \in B!Channels |-> [k \in DOMAIN pending[ch] |-> B!Older(pending[ch][k])]]
    BY <2>1 DEF B!Tick
  <2>3. B!Channels = BP!Channels
    BY DEF B!Channels, BP!Channels, B!Readers, BP!Readers, B!Range, BP!Range
  <2>4. \A ch \in BP!Channels : DOMAIN pending'[ch] = DOMAIN pending[ch]
    BY <2>2, <2>3
  <2>5. Job' = Job
    BY <2>1 DEF Job, Payload, Received
  <2>6. QED BY <2>1, <2>4, <2>5, StillGrows DEF Others
<1>4. CASE ~Tick
  <2>1. UNCHANGED <<busVars, pc, decisionVars>>
    <3>1. CASE Store
      BY <3>1 DEF Store
    <3>2. CASE Runner
      BY <3>2 DEF Runner, Stop, TimeOut, FlushSink, Finish
    <3>3. CASE UNCHANGED vars
      BY <3>3 DEF vars
    <3>4. CASE \E w \in Workers : RestartWorker(w)
      BY <3>4 DEF RestartWorker, B!Restart, B!busVars, busVars
    <3>5. QED BY <1>2, <1>4, <3>1, <3>2, <3>3, <3>4
  <2>2. UNCHANGED <<log, held, pc, cursor, pending>>
    BY <2>1 DEF busVars
  <2>3. Job' = Job
    BY <2>2 DEF Job, Payload, Received
  <2>4. QED BY <2>1, <2>2, <2>3, StillGrows DEF Others
<1>5. QED BY <1>3, <1>4

LEMMA ActsAside ==
  ASSUME FleetInv, NEW t \in Tasks, Acts(t)
  PROVE  /\ Others(t)
         /\ t # "runner" => phase = "running" /\ UNCHANGED runnerVars
         /\ t # "decision" => log'["alarms"] = log["alarms"] /\ UNCHANGED decisionVars
         /\ t # "router" => log'["pairs"] = log["pairs"]
         /\ t \notin Workers => log'["verdicts"] = log["verdicts"]
<1>0. /\ {"requests", "pairs", "verdicts", "alarms"} \subseteq Streams
      /\ "router" \in Consumers /\ "decision" \in Consumers /\ Workers \subseteq Consumers
      /\ {"request", "judge", "decide"} \subseteq Places
      /\ {"traffic", "router", "decision", "runner"} \cap Workers = {}
  BY SubsFact, WorkersAssumption DEF Streams, Places
<1>1. ASSUME NEW c \in Consumers, Acknowledge(c) \/ Poll(c)
      PROVE  Others(c) /\ (UNCHANGED <<log, decisionVars, runnerVars>>) /\ phase = "running"
  BY <1>1, Acks, Polls DEF busVars
<1>2. CASE t = "traffic" /\ TrafficPublish
  BY <1>0, <1>2, TrafficPublishes
<1>3. CASE t = "router" /\ (RouterRest \/ RouterRequest)
  <2>1. CASE RouterReceive
    BY <1>0, <1>3, <2>1, Receives DEF RouterReceive
  <2>2. CASE RouterPublish
    BY <1>0, <1>3, <2>2, RouterPublishes
  <2>3. CASE RouterRequest \/ RouterChampion \/ RouterShadow
    <3>1. Others("router") /\ (UNCHANGED <<busVars, runnerVars, decisionVars>>) /\ phase = "running"
      BY <2>3, RouterEmits
    <3>2. QED BY <1>3, <3>1 DEF busVars
  <2>4. QED BY <1>0, <1>1, <1>3, <2>1, <2>2, <2>3 DEF RouterRest
<1>4. CASE t \in Workers /\ (Judge(t) \/ KillWorker(t))
  <2>1. CASE JudgeReceive(t)
    BY <1>0, <1>4, <2>1, Receives DEF JudgeReceive
  <2>2. CASE JudgePublish(t)
    BY <1>0, <1>4, <2>2, JudgePublishes
  <2>3. CASE JudgeEmit(t)
    <3>1. Others(t) /\ (UNCHANGED <<busVars, runnerVars, decisionVars>>) /\ phase = "running"
      BY <1>4, <2>3, JudgeEmits
    <3>2. QED BY <1>4, <3>1 DEF busVars
  <2>4. CASE KillWorker(t)
    BY <1>4, <2>4, Kills
  <2>5. QED BY <1>0, <1>1, <1>4, <2>1, <2>2, <2>3, <2>4 DEF Judge
<1>5. CASE t = "decision" /\ Decision
  <2>1. CASE DecisionReceive
    BY <1>0, <1>5, <2>1, Receives DEF DecisionReceive
  <2>2. CASE DecisionAlarm
    BY <1>0, <1>5, <2>2, DecisionPublishes
  <2>3. CASE DecisionSkip \/ DecisionCusum \/ DecisionPromote
    <3>1. Others("decision") /\ (UNCHANGED <<busVars, runnerVars>>) /\ phase = "running"
      BY <2>3, DecisionDecides
    <3>2. QED BY <1>5, <3>1 DEF busVars
  <2>4. QED BY <1>0, <1>1, <1>5, <2>1, <2>2, <2>3 DEF Decision
<1>6. CASE t = "runner"
  BY <1>6, RunnerAside
<1>7. QED BY <1>2, <1>3, <1>4, <1>5, <1>6 DEF Acts

(* It is at most its own channel that a step reads from.                   *)
LEMMA ActsAlone ==
  ASSUME FleetInv, NEW ch, NEW c, Sole(ch, c), Alone(ch, c), c \notin Workers \/ MaxKills = 0,
         NEW t \in Tasks, Acts(t)
  PROVE  Alone(ch, c)' /\ (t # c => cursor'[ch] = cursor[ch])
<1>0. /\ ch \in BP!Channels /\ c \in Consumers /\ BP!IInv
      /\ "router" \in Consumers /\ "decision" \in Consumers /\ Workers \subseteq Consumers
      /\ {"request", "judge", "decide"} \subseteq Places
      /\ c \notin {"traffic", "runner"}
  BY SubsFact, WorkersAssumption DEF Sole, BP!Channels, FleetInv, Places, Consumers, Services
<1>1. ASSUME UNCHANGED <<held, cursor, pending>> PROVE Alone(ch, c)' /\ cursor'[ch] = cursor[ch]
  BY <1>1 DEF Alone
<1>2. ASSUME NEW d \in Consumers, Acknowledge(d)
      PROVE  Alone(ch, c)' /\ cursor'[ch] = cursor[ch]
  <2>1. B!Ack(d)
    BY <1>2 DEF Acknowledge
  <2>2. QED BY <1>0, <2>1, OthersLeave, AloneAcks
<1>3. ASSUME NEW d \in Consumers, NEW q \in Places, Receive(d, q)
      PROVE  Alone(ch, c)' /\ (d # c => cursor'[ch] = cursor[ch])
  <2>1. B!Take(d)
    BY <1>3 DEF Receive
  <2>2. QED BY <1>0, <2>1, OthersLeave, AloneTakes
<1>4. ASSUME NEW d \in Consumers, Poll(d) PROVE Alone(ch, c)' /\ cursor'[ch] = cursor[ch]
  BY <1>1, <1>4, Polls DEF busVars
<1>5. CASE t = "traffic" /\ TrafficPublish
  BY <1>1, <1>5, TrafficPublishes
<1>6. CASE t = "router" /\ (RouterRest \/ RouterRequest)
  <2>1. CASE RouterReceive
    BY <1>0, <1>3, <1>6, <2>1 DEF RouterReceive
  <2>2. CASE RouterPublish
    BY <1>1, <2>2, RouterPublishes
  <2>3. CASE RouterRequest \/ RouterChampion \/ RouterShadow
    <3>1. UNCHANGED busVars
      BY <2>3, RouterEmits
    <3>2. QED BY <1>1, <3>1 DEF busVars
  <2>4. QED BY <1>0, <1>2, <1>4, <1>6, <2>1, <2>2, <2>3 DEF RouterRest
<1>7. CASE t \in Workers /\ (Judge(t) \/ KillWorker(t))
  <2>1. CASE JudgeReceive(t)
    BY <1>0, <1>3, <1>7, <2>1 DEF JudgeReceive
  <2>2. CASE JudgePublish(t)
    BY <1>1, <1>7, <2>2, JudgePublishes
  <2>3. CASE JudgeEmit(t)
    <3>1. UNCHANGED busVars
      BY <1>7, <2>3, JudgeEmits
    <3>2. QED BY <1>1, <3>1 DEF busVars
  <2>4. CASE KillWorker(t)
    <3>1. UNCHANGED <<cursor, pending>> /\ held'[c] = held[c]
      BY <1>0, <1>7, <2>4, Kills DEF Others
    <3>2. QED BY <3>1 DEF Alone
  <2>5. QED BY <1>0, <1>2, <1>4, <1>7, <2>1, <2>2, <2>3, <2>4 DEF Judge
<1>8. CASE t = "decision" /\ Decision
  <2>1. CASE DecisionReceive
    BY <1>0, <1>3, <1>8, <2>1 DEF DecisionReceive
  <2>2. CASE DecisionAlarm
    BY <1>1, <2>2, DecisionPublishes
  <2>3. CASE DecisionSkip \/ DecisionCusum \/ DecisionPromote
    <3>1. UNCHANGED busVars
      BY <2>3, DecisionDecides
    <3>2. QED BY <1>1, <3>1 DEF busVars
  <2>4. QED BY <1>0, <1>2, <1>4, <1>8, <2>1, <2>2, <2>3 DEF Decision
<1>9. CASE t = "runner"
  <2>1. UNCHANGED <<held, cursor>> /\ DOMAIN pending'[ch] = DOMAIN pending[ch]
    BY <1>0, <1>9, RunnerAside
  <2>2. QED BY <2>1 DEF Alone
<1>10. QED BY <1>5, <1>6, <1>7, <1>8, <1>9 DEF Acts
-----------------------------------------------------------------------------
(* What is judged are the sampled requests.                                *)
Samples ==
  /\ \A k \in DOMAIN log["pairs"] : log["pairs"][k][2] \in Sampled
  /\ pc["router"] \in {"shadow", "publish"} => Job["router"] \in Sampled

LEMMA Bystander ==
  ASSUME FleetInv, NEW t \in Tasks, Acts(t), NEW c \in Consumers, c # t
  PROVE  Aside(c)
<1>1. Others(t) /\ c \in Tasks
  BY ActsAside, SubsFact
<1>2. QED BY <1>1, AsideHolds DEF Others

LEMMA SamplesStep ==
  ASSUME FleetInv, Samples, NEW t \in Tasks, Acts(t)
  PROVE  Samples'
<1>1. "router" \in Consumers /\ "router" \in Relays /\ "request" \in Places /\ "router" \notin Workers
  BY SubsFact, WorkersAssumption DEF Relays, Places
<1>2. CASE t # "router"
  <2>1. Aside("router") /\ log'["pairs"] = log["pairs"]
    BY <1>1, <1>2, ActsAside, Bystander
  <2>2. pc["router"] # "next" => held["router"] # Nothing
    BY <1>1 DEF FleetInv, Standing, Unfed
  <2>3. QED BY <2>1, <2>2 DEF Samples, Aside
<1>3. CASE t = "router"
  <2>1. RouterRest \/ RouterRequest
    BY <1>1, <1>3 DEF Acts
  <2>2. CASE RouterReceive
    BY <1>1, <2>2, Receives DEF RouterReceive, Samples
  <2>3. CASE RouterRequest \/ RouterChampion \/ RouterShadow
    <3>1. UNCHANGED busVars /\ Job' = Job
          /\ \/ pc'["router"] = "champion"
             \/ pc'["router"] = IF Job["router"] \in Sampled THEN "shadow" ELSE "ack"
             \/ pc["router"] = "shadow" /\ pc'["router"] = "publish"
      BY <2>3, RouterEmits
    <3>2. UNCHANGED log
      BY <3>1 DEF busVars
    <3>3. QED BY <3>1, <3>2 DEF Samples
  <2>4. CASE RouterPublish
    <3>1. /\ log["pairs"] \in Seq(Payloads) /\ pc["router"] = "publish" /\ pc'["router"] = "ack"
          /\ log'["pairs"] = Append(log["pairs"], <<"pair", Job["router"]>>)
      BY <2>4, RouterPublishes
    <3>2. Job["router"] \in Sampled
      BY <3>1 DEF Samples
    <3>3. PICK p : p = <<"pair", Job["router"]>>
      OBVIOUS
    <3>4. log'["pairs"] = Append(log["pairs"], p) /\ p[2] \in Sampled
      BY <3>1, <3>2, <3>3
    <3>5. PICK n \in Nat : n = Len(log["pairs"])
      BY <3>1
    <3>6. /\ DOMAIN log["pairs"] = 1 .. n /\ DOMAIN log'["pairs"] = 1 .. n + 1
          /\ log'["pairs"][n + 1] = p /\ \A k \in 1 .. n : log'["pairs"][k] = log["pairs"][k]
      BY <3>1, <3>4, <3>5
    <3>7. \A k \in 1 .. n + 1 : k \in 1 .. n \/ k = n + 1
      OBVIOUS
    <3>8. \A k \in DOMAIN log'["pairs"] : log'["pairs"][k][2] \in Sampled
      BY <3>4, <3>6, <3>7 DEF Samples
    <3>9. QED BY <3>1, <3>8 DEF Samples
  <2>5. CASE Acknowledge("router")
    BY <1>1, <2>5, Acks DEF Samples
  <2>6. CASE Poll("router")
    BY <2>6, Polls DEF Samples, busVars
  <2>7. QED BY <2>1, <2>2, <2>3, <2>4, <2>5, <2>6 DEF RouterRest
<1>4. QED BY <1>2, <1>3

LEMMA WorkerSampled ==
  ASSUME FleetInv, Samples, NEW w \in Workers, held[w] # Nothing
  PROVE  Job[w] \in Sampled
  BY WorkerWork DEF Samples

LEMMA VerdictSampled ==
  ASSUME FleetInv, Samples, NEW k \in DOMAIN log["verdicts"]
  PROVE  log["verdicts"][k][2] \in Sampled
<1>1. Paired[1] = "pairs" /\ Relayed(Paired, Workers, "verdicts")
  BY DEF Paired, FleetInv, Judged
<1>2. PICK j \in DOMAIN log["pairs"] : log["pairs"][j][2] = log["verdicts"][k][2]
  BY <1>1 DEF Relayed
<1>3. QED BY <1>2 DEF Samples
-----------------------------------------------------------------------------
(* The sinks hold what they should, and a step leaves what the other tasks *)
(* have under way alone, or stores it.  Only a cancellation drops.         *)
Calm(u) ==
  /\ SP!Load'[u] \subseteq SP!Load[u]
  /\ flushing[u] = "no" => flushing'[u] = "no"

LEMMA StillCalm ==
  ASSUME Stocked, UNCHANGED sinkVars
  PROVE  Stocked' /\ Safe /\ buffer' = buffer /\ flushing' = flushing /\ rows' = rows
         /\ \A u \in Tasks : Calm(u)
  BY StillStock DEF sinkVars, Calm

LEMMA RouterStock ==
  ASSUME FleetInv, Stocked, RouterRest \/ RouterRequest
  PROVE  /\ Stocked' /\ Safe /\ rows' = rows
         /\ \A u \in Tasks : u # "router" => Calm(u)
         /\ \A r \in Sinks \ {"router"} : buffer'[r] = buffer[r]
         /\ RouterRequest => <<Job["router"], 0>> \in SP!KeptSeqs'
<1>1. /\ "router" \in Consumers /\ "router" \in Tasks \ {"runner"} /\ "request" \in Places
      /\ "router" \in Relays /\ SinkOf("router") = "router" /\ "router" \in Sinks
  BY SubsFact, WorkersAssumption, SinksFact DEF Relays, Places, SinkOf
<1>2. CASE ~(RouterRequest \/ RouterChampion \/ RouterShadow)
  <2>1. UNCHANGED sinkVars
    BY <1>1, <1>2, RouterPublishes, Polls DEF RouterRest, Acknowledge, RouterReceive, Receive
  <2>2. QED BY <1>2, <2>1, StillCalm
<1>3. CASE RouterRequest \/ RouterChampion \/ RouterShadow
  <2>1. PICK b \in {0, 1, 2}, body \in {"champion", "shadow"} :
           /\ S!Emit("router", "router", Event(Job["router"], b, body))
           /\ flushing["router"] = "no" /\ pc["router"] \in {"request", "champion", "shadow"}
           /\ pc["router"] = "request" => b = 0
    BY <1>3, RouterEmits
  <2>2. held["router"] # Nothing
    BY <1>1, <2>1 DEF FleetInv, Standing, Unfed
  <2>3. Job["router"] \in 1 .. N
    <3>1. pc["router"] \in Onward \/ (pc["router"] = "request" /\ Kind("router") = "request")
      BY <1>3, <2>1 DEF RouterRequest, RouterServe, RouterChampion, RouterShadow, At, Onward
    <3>2. held["router"][1] = Requested
      BY <3>1, RequestInHand DEF FleetInv, Serving
    <3>3. QED BY <2>2, <3>2, RouterWork
  <2>4. PICK e : e = Event(Job["router"], b, body)
    OBVIOUS
  <2>5. e \in Legit /\ e.seq[2] \in Bands["router"]
    BY <2>3, <2>4 DEF Event, Legit, AllEvents, Bodies, Bands
  <2>6. S!Emit("router", "router", e) /\ flushing["router"] = "no"
    BY <2>1, <2>4
  <2>7. /\ Stocked' /\ Safe /\ e.seq \in SP!KeptSeqs' /\ rows' = rows
        /\ \A u \in Tasks : u # "router" => flushing'[u] = flushing[u] /\ SP!Load'[u] = SP!Load[u]
        /\ \A r \in Sinks \ {"router"} : buffer'[r] = buffer[r]
    BY <1>1, <2>5, <2>6, EmitStock
  <2>8. RouterRequest => e.seq = <<Job["router"], 0>>
    BY <2>1, <2>4 DEF RouterRequest, RouterServe, At, Event
  <2>9. QED BY <2>7, <2>8 DEF Calm
<1>4. QED BY <1>2, <1>3

LEMMA JudgeStock ==
  ASSUME FleetInv, Samples, Stocked, NEW w \in Workers, Judge(w)
  PROVE  /\ Stocked' /\ Safe /\ rows' = rows
         /\ \A u \in Tasks : u # w => Calm(u)
         /\ \A r \in Sinks \ {"judge"} : buffer'[r] = buffer[r]
         /\ JudgeEmit(w) =>
              /\ <<Job[w], 5>> \in SP!KeptSeqs'
              /\ Batch["judge"] = 1 /\ buffer["judge"] = <<>> =>
                   buffer'["judge"] = <<>> /\ \A e \in SP!Load'[w] : e.seq = <<Job[w], 5>>
         /\ ~JudgeEmit(w) => UNCHANGED sinkVars
<1>1. /\ w \in Consumers /\ w \in Tasks \ {"runner"} /\ "judge" \in Places
      /\ w \in Relays /\ SinkOf(w) = "judge" /\ "judge" \in Sinks
  BY SubsFact, WorkersAssumption, SinksFact DEF Relays, Places, SinkOf
<1>2. CASE ~JudgeEmit(w)
  <2>1. UNCHANGED sinkVars
    BY <1>1, <1>2, JudgePublishes, Polls DEF Judge, Acknowledge, JudgeReceive, Receive
  <2>2. QED BY <1>2, <2>1, StillCalm
<1>3. CASE JudgeEmit(w)
  <2>1. /\ S!Emit(w, "judge", Event(Job[w], 5, Winner[Job[w]]))
        /\ flushing[w] = "no" /\ pc[w] = "judge"
    BY <1>3, JudgeEmits
  <2>2. held[w] # Nothing
    BY <1>1, <2>1 DEF FleetInv, Standing, Unfed
  <2>3. Job[w] \in Sampled
    BY <2>2, WorkerSampled
  <2>4. Job[w] \in 1 .. N /\ Winner[Job[w]] \in {"a", "b", "tie"}
    BY <2>3, RequestsAssumption, WinnerAssumption
  <2>5. PICK e : e = Event(Job[w], 5, Winner[Job[w]])
    OBVIOUS
  <2>6. e \in Legit /\ e.seq[2] \in Bands["judge"] /\ e.seq = <<Job[w], 5>>
    BY <2>3, <2>4, <2>5 DEF Event, Legit, AllEvents, Bodies, Bands
  <2>7. S!Emit(w, "judge", e) /\ flushing[w] = "no"
    BY <2>1, <2>5
  <2>8. /\ Stocked' /\ Safe /\ e.seq \in SP!KeptSeqs' /\ rows' = rows
        /\ \A u \in Tasks : u # w => flushing'[u] = flushing[u] /\ SP!Load'[u] = SP!Load[u]
        /\ SP!Load'[w] \subseteq SP!Events(buffer["judge"]) \union {e}
        /\ \A r \in Sinks \ {"judge"} : buffer'[r] = buffer[r]
        /\ Len(buffer["judge"]) + 1 >= Batch["judge"] => buffer'["judge"] = <<>>
    BY <1>1, <2>6, <2>7, EmitStock
  <2>9. SP!Events(<<>>) = {}
    BY DEF SP!Events
  <2>10. ASSUME Batch["judge"] = 1, buffer["judge"] = <<>>
         PROVE  buffer'["judge"] = <<>> /\ \A x \in SP!Load'[w] : x.seq = <<Job[w], 5>>
    <3>1. Len(buffer["judge"]) + 1 >= Batch["judge"]
      BY <2>10
    <3>2. QED BY <2>6, <2>8, <2>9, <2>10, <3>1
  <2>11. QED BY <1>3, <2>6, <2>8, <2>10 DEF Calm
<1>4. QED BY <1>2, <1>3

LEMMA DecisionStock ==
  ASSUME FleetInv, Stocked, Decision
  PROVE  /\ Stocked' /\ Safe /\ rows' = rows
         /\ \A u \in Tasks : u # "decision" => Calm(u)
         /\ \A r \in Sinks \ {"decision"} : buffer'[r] = buffer[r]
         /\ \/ (UNCHANGED <<sinkVars, alarmAt, promotedAt>>) /\ flushing["decision"] = "no"
            \/ /\ \/ alarmAt = Nothing /\ alarmAt' = Job["decision"] /\ promotedAt' = promotedAt
                  \/ promotedAt = Nothing /\ promotedAt' = Job["decision"] /\ alarmAt' = alarmAt
               /\ Job["decision"] # Nothing /\ <<Job["decision"], 6>> \in SP!KeptSeqs'
               /\ Len(buffer["decision"]) + 1 < Batch["decision"] =>
                    flushing' = flushing /\ Len(buffer'["decision"]) = Len(buffer["decision"]) + 1
<1>1. /\ "decision" \in Consumers /\ "decision" \in Tasks \ {"runner"} /\ "decide" \in Places
      /\ "decision" \in Relays /\ SinkOf("decision") = "decision" /\ "decision" \in Sinks
  BY SubsFact, WorkersAssumption, SinksFact DEF Relays, Places, SinkOf
<1>2. CASE UNCHANGED <<sinkVars, alarmAt, promotedAt>> /\ flushing["decision"] = "no"
  BY <1>2, StillCalm
<1>3. CASE DecisionReceive \/ DecisionAlarm \/ Acknowledge("decision") \/ Poll("decision")
  <2>1. UNCHANGED <<sinkVars, decisionVars>> /\ flushing["decision"] = "no"
    <3>1. CASE DecisionReceive
      BY <1>1, <3>1, Receives DEF DecisionReceive
    <3>2. CASE DecisionAlarm
      BY <3>2, DecisionPublishes
    <3>3. CASE Acknowledge("decision")
      BY <1>1, <3>3, Acks
    <3>4. CASE Poll("decision")
      BY <3>4, Polls
    <3>5. QED BY <1>3, <3>1, <3>2, <3>3, <3>4
  <2>2. QED BY <1>2, <2>1 DEF decisionVars
<1>4. CASE DecisionSkip \/ DecisionCusum \/ DecisionPromote
  <2>1. /\ flushing["decision"] = "no" /\ pc["decision"] \in {"decide", "promote"}
        /\ \/ UNCHANGED <<sinkVars, alarmAt, promotedAt>>
           \/ \E body \in {"quality_alarm", "promotion"} :
                /\ S!Emit("decision", "decision", Event(Job["decision"], 6, body))
                /\ \/ alarmAt = Nothing /\ alarmAt' = Job["decision"] /\ promotedAt' = promotedAt
                   \/ promotedAt = Nothing /\ promotedAt' = Job["decision"] /\ alarmAt' = alarmAt
    BY <1>4, DecisionDecides
  <2>2. ASSUME NEW body \in {"quality_alarm", "promotion"},
               S!Emit("decision", "decision", Event(Job["decision"], 6, body))
        PROVE  /\ Stocked' /\ Safe /\ rows' = rows
               /\ \A u \in Tasks : u # "decision" => Calm(u)
               /\ \A r \in Sinks \ {"decision"} : buffer'[r] = buffer[r]
               /\ Job["decision"] # Nothing /\ <<Job["decision"], 6>> \in SP!KeptSeqs'
               /\ Len(buffer["decision"]) + 1 < Batch["decision"] =>
                    flushing' = flushing /\ Len(buffer'["decision"]) = Len(buffer["decision"]) + 1
    <3>1. held["decision"] # Nothing
      BY <1>1, <2>1 DEF FleetInv, Standing, Unfed
    <3>2. Job["decision"] \in (1 .. N) \union Shares
      BY <1>1, <3>1, HeldFacts, JobIs DEF FleetInv
    <3>3. PICK e : e = Event(Job["decision"], 6, body)
      OBVIOUS
    <3>4. e \in Legit /\ e.seq[2] \in Bands["decision"] /\ e.seq = <<Job["decision"], 6>>
      BY <3>2, <3>3 DEF Event, Legit, AllEvents, Bodies, Bands
    <3>5. S!Emit("decision", "decision", e)
      BY <2>2, <3>3
    <3>6. /\ Stocked' /\ Safe /\ e.seq \in SP!KeptSeqs' /\ rows' = rows
          /\ \A u \in Tasks : u # "decision" => flushing'[u] = flushing[u] /\ SP!Load'[u] = SP!Load[u]
          /\ \A r \in Sinks \ {"decision"} : buffer'[r] = buffer[r]
          /\ Len(buffer["decision"]) + 1 < Batch["decision"] =>
               flushing' = flushing /\ Len(buffer'["decision"]) = Len(buffer["decision"]) + 1
      BY <1>1, <2>1, <3>4, <3>5, EmitStock
    <3>7. Job["decision"] # Nothing
      BY <3>2, NothingAssumption
    <3>8. QED BY <3>4, <3>6, <3>7 DEF Calm
  <2>3. QED BY <1>2, <2>1, <2>2
<1>5. QED BY <1>3, <1>4 DEF Decision

(* The runner's steps, and a kill.                                         *)
LEMMA RunnerStock ==
  ASSUME Stocked, toFlush \in Seq(Sinks), Acts("runner")
  PROVE  /\ Stocked' /\ (Safe \/ Stop)
         /\ \A u \in Tasks : u # "runner" => Calm(u)
         /\ Store \/ FlushSink \/ Stop \/ UNCHANGED sinkVars
<1>1. "runner" \notin Workers
  BY WorkersAssumption
<1>2. Store \/ Tick \/ Runner \/ (UNCHANGED vars) \/ \E w \in Workers : RestartWorker(w)
  BY <1>1 DEF Acts
<1>3. CASE Store
  BY <1>3, StoreStock DEF Calm
<1>4. CASE FlushSink
  <2>1. flushing["runner"] = "no" /\ S!Flush("runner", Head(toFlush)) /\ toFlush # <<>>
    BY <1>4 DEF FlushSink
  <2>2. Head(toFlush) \in Sinks
    BY <2>1
  <2>3. QED BY <1>4, <2>1, <2>2, FlushStock DEF Calm
<1>5. CASE Stop
  <2>1. S!CancelAll(Tasks)
    BY <1>5 DEF Stop
  <2>2. Stocked' /\ \A u \in Tasks : flushing'[u] = "no" /\ SP!Load'[u] = {}
    BY <2>1, CancelStock
  <2>3. QED BY <1>5, <2>2 DEF Calm
<1>6. CASE Tick \/ TimeOut \/ Finish \/ (UNCHANGED vars) \/ \E w \in Workers : RestartWorker(w)
  <2>1. UNCHANGED sinkVars
    BY <1>6 DEF Tick, TimeOut, Finish, vars, RestartWorker
  <2>2. QED BY <2>1, StillCalm
<1>7. QED BY <1>2, <1>3, <1>4, <1>5, <1>6 DEF Runner

LEMMA KillStock ==
  ASSUME FleetInv, Stocked, NEW w \in Workers, KillWorker(w)
  PROVE  /\ Stocked' /\ rows' = rows /\ buffer' = buffer
         /\ \A u \in Tasks : Calm(u)
         /\ flushing'[w] = "no" /\ SP!Load'[w] = {}
         /\ \A q \in SP!KeptSeqs : q \in SP!KeptSeqs' \/ \E e \in SP!Load[w] : e.seq = q
<1>1. S!CancelAll({w}) /\ {w} \in SUBSET Tasks
  BY Kills, SubsFact
<1>2. /\ Stocked' /\ buffer' = buffer /\ rows' = rows
      /\ \A u \in {w} : flushing'[u] = "no" /\ SP!Load'[u] = {}
      /\ \A u \in Tasks \ {w} : flushing'[u] = flushing[u] /\ SP!Load'[u] = SP!Load[u]
      /\ \A q \in SP!KeptSeqs : q \in SP!KeptSeqs' \/ \E u \in {w} : \E e \in SP!Load[u] : e.seq = q
  BY <1>1, CancelStock
<1>3. QED BY <1>1, <1>2 DEF Calm

(* All of it together.                                                     *)
LEMMA ActsStock ==
  ASSUME FleetInv, Samples, Stocked, toFlush \in Seq(Sinks), NEW t \in Tasks, Acts(t)
  PROVE  /\ Stocked'
         /\ \A u \in Tasks : u # t => Calm(u)
         /\ Safe \/ Stop \/ (t \in Workers /\ KillWorker(t))
         /\ t # "runner" => \A r \in Sinks \ {SinkOf(t)} : buffer'[r] = buffer[r]
<1>1. CASE t = "traffic" /\ TrafficPublish
  <2>1. UNCHANGED sinkVars
    BY <1>1, TrafficPublishes
  <2>2. QED BY <2>1, StillCalm
<1>2. CASE t = "router" /\ (RouterRest \/ RouterRequest)
  BY <1>2, RouterStock, WorkersAssumption DEF SinkOf
<1>3. CASE t \in Workers /\ (Judge(t) \/ KillWorker(t))
  BY <1>3, JudgeStock, KillStock DEF SinkOf
<1>4. CASE t = "decision" /\ Decision
  BY <1>4, DecisionStock, WorkersAssumption DEF SinkOf
<1>5. CASE t = "runner"
  BY <1>5, RunnerStock
<1>6. QED BY <1>1, <1>2, <1>3, <1>4, <1>5 DEF Acts
-----------------------------------------------------------------------------
(* A task that is flushing stands where its emit left it.  A request that  *)
(* is not sampled is acked from there, with no pair published.             *)
Busy ==
  /\ \A w \in Workers : flushing[w] # "no" => pc[w] = "publish"
  /\ flushing["router"] # "no" => pc["router"] \in Onward \union {"ack"}
  /\ flushing["router"] # "no" /\ pc["router"] = "ack" =>
       held["router"][1] = Requested /\ Job["router"] \notin Sampled

LEMMA WorkerBusy ==
  ASSUME FleetInv, Samples, Stocked, NEW w \in Workers, Judge(w) \/ KillWorker(w)
  PROVE  JudgeEmit(w) \/ flushing'[w] = "no"
<1>1. w \in Consumers /\ "judge" \in Places
  BY SubsFact DEF Places
<1>2. CASE JudgeReceive(w)
  BY <1>1, <1>2, Receives DEF JudgeReceive, sinkVars
<1>3. CASE JudgePublish(w)
  BY <1>3, JudgePublishes DEF sinkVars
<1>4. CASE Acknowledge(w)
  BY <1>1, <1>4, Acks DEF sinkVars
<1>5. CASE Poll(w)
  BY <1>5, Polls DEF sinkVars
<1>6. CASE KillWorker(w)
  BY <1>6, KillStock
<1>7. QED BY <1>2, <1>3, <1>4, <1>5, <1>6 DEF Judge

LEMMA RouterBusy ==
  ASSUME FleetInv, RouterRest \/ RouterRequest
  PROVE  \/ RouterRequest \/ RouterChampion \/ RouterShadow
         \/ flushing'["router"] = "no"
<1>1. "router" \in Consumers /\ "request" \in Places
  BY SubsFact DEF Places
<1>2. CASE RouterReceive
  BY <1>1, <1>2, Receives DEF RouterReceive, sinkVars
<1>3. CASE RouterPublish
  BY <1>3, RouterPublishes DEF sinkVars
<1>4. CASE Acknowledge("router")
  BY <1>1, <1>4, Acks DEF sinkVars
<1>5. CASE Poll("router")
  BY <1>5, Polls DEF sinkVars
<1>6. QED BY <1>2, <1>3, <1>4, <1>5 DEF RouterRest

LEMMA BusyStep ==
  ASSUME FleetInv, Samples, Stocked, toFlush \in Seq(Sinks), Busy, NEW t \in Tasks, Acts(t)
  PROVE  Busy'
<1>1. "router" \in Consumers /\ "router" \notin Workers /\ Workers \subseteq Consumers
      /\ {"traffic", "decision", "runner"} \cap Workers = {}
      /\ "router" \in Relays /\ Consumers \subseteq Tasks
  BY SubsFact, WorkersAssumption DEF Relays
<1>2. \A u \in Consumers : u # t => Calm(u) /\ Aside(u)
  BY <1>1, ActsStock, Bystander
<1>3. ASSUME NEW w \in Workers, flushing'[w] # "no" PROVE pc'[w] = "publish"
  <2>1. CASE t # w
    BY <1>1, <1>2, <1>3, <2>1 DEF Calm, Aside, Busy
  <2>2. CASE t = w
    <3>1. Judge(w) \/ KillWorker(w)
      BY <1>1, <2>2 DEF Acts
    <3>2. JudgeEmit(w)
      BY <1>3, <3>1, WorkerBusy
    <3>3. QED BY <3>2, JudgeEmits
  <2>3. QED BY <2>1, <2>2
<1>4. ASSUME flushing'["router"] # "no"
      PROVE  /\ pc'["router"] \in Onward \union {"ack"}
             /\ pc'["router"] = "ack" =>
                  held'["router"][1] = Requested /\ Job'["router"] \notin Sampled
  <2>1. CASE t # "router"
    <3>1. Calm("router") /\ Aside("router") /\ flushing["router"] # "no"
      BY <1>1, <1>2, <1>4, <2>1 DEF Calm
    <3>2. pc["router"] # "next" => held["router"] # Nothing
      BY <1>1 DEF FleetInv, Standing, Unfed
    <3>3. pc["router"] # "next"
      BY <3>1 DEF Busy, Onward
    <3>4. QED BY <3>1, <3>2, <3>3 DEF Aside, Busy
  <2>2. CASE t = "router"
    <3>1. RouterRest \/ RouterRequest
      BY <1>1, <2>2 DEF Acts
    <3>2. RouterRequest \/ RouterChampion \/ RouterShadow
      BY <1>4, <3>1, RouterBusy
    <3>3. /\ Job' = Job /\ UNCHANGED busVars
          /\ \/ pc'["router"] = "champion"
             \/ /\ pc["router"] = "champion"
                /\ pc'["router"] = IF Job["router"] \in Sampled THEN "shadow" ELSE "ack"
             \/ pc'["router"] = "publish"
      BY <3>2, RouterEmits
    <3>4. pc["router"] = "champion" => held'["router"][1] = Requested
      BY <3>3 DEF FleetInv, Serving, Onward, busVars
    <3>5. QED BY <3>3, <3>4 DEF Onward
  <2>3. QED BY <2>1, <2>2
<1>5. QED BY <1>3, <1>4 DEF Busy
-----------------------------------------------------------------------------
(* The router reads the requests in order and the decision service the     *)
(* verdicts, each of which it counts once at most.                         *)
Undecided ==
  held["decision"] # Nothing /\ held["decision"][1] = Verdicts /\ pc["decision"] = "decide"

Reading ==
  /\ Alone(Requested, "router") /\ Alone(Verdicts, "decision")
  /\ \A k \in DOMAIN log["alarms"] : log["alarms"][k][1] # "verdict"
  /\ processed \in Nat /\ processed <= cursor[Verdicts]
  /\ Undecided => processed < cursor[Verdicts]

LEMMA VerdictDecided ==
  ASSUME FleetInv, Reading, held["decision"] # Nothing, Kind("decision") = "verdict"
  PROVE  held["decision"][1] = Verdicts
<1>1. "decision" \in Consumers
  BY SubsFact
<1>2. /\ held["decision"][1] \in BP!Readers["decision"]
      /\ held["decision"][2] \in DOMAIN log[held["decision"][1][1]]
  BY <1>1, HeldFacts DEF FleetInv
<1>3. log[held["decision"][1][1]][held["decision"][2]][1] = "verdict"
  BY DEF Kind, Received
<1>4. held["decision"][1] # <<"alarms", "decision">>
  BY <1>2, <1>3 DEF Reading
<1>5. QED BY <1>2, <1>4, SoleReaders

LEMMA ReadingStep ==
  ASSUME FleetInv, Reading, NEW t \in Tasks, Acts(t)
  PROVE  Reading'
<1>1. /\ Sole(Requested, "router") /\ Sole(Verdicts, "decision")
      /\ "router" \notin Workers /\ "decision" \notin Workers
      /\ "decision" \in Consumers /\ "decision" \in Relays
      /\ {"decide"} \subseteq Places
  BY SoleReaders, WorkersAssumption, SubsFact DEF Relays, Places
<1>2. /\ Alone(Requested, "router")' /\ Alone(Verdicts, "decision")'
      /\ t # "decision" => cursor'[Verdicts] = cursor[Verdicts]
  BY <1>1, ActsAlone DEF Reading
<1>3. cursor[Verdicts] \in Nat
  BY <1>1, ChannelTypes DEF FleetInv
<1>4. CASE t # "decision"
  <2>1. Aside("decision") /\ log'["alarms"] = log["alarms"] /\ processed' = processed
    BY <1>1, <1>4, ActsAside, Bystander DEF decisionVars
  <2>2. Undecided' => Undecided
    BY <2>1 DEF Undecided, Aside
  <2>3. QED BY <1>2, <1>4, <2>1, <2>2 DEF Reading
<1>5. CASE t = "decision"
  <2>1. Decision
    BY <1>1, <1>5 DEF Acts
  <2>2. CASE DecisionReceive
    <3>1. /\ B!Take("decision") /\ UNCHANGED log /\ processed' = processed
          /\ pc'["decision"] = "decide" /\ held["decision"] = Nothing /\ held'["decision"] # Nothing
      BY <1>1, <2>2, Receives DEF DecisionReceive, decisionVars
    <3>2. /\ held'["decision"][1] = Verdicts => cursor'[Verdicts] = cursor[Verdicts] + 1
          /\ held'["decision"][1] # Verdicts => cursor'[Verdicts] = cursor[Verdicts]
      BY <1>1, <3>1, AloneTakes DEF FleetInv, Reading
    <3>3. processed' <= cursor'[Verdicts] /\ (Undecided' => processed' < cursor'[Verdicts])
      BY <1>3, <3>1, <3>2 DEF Reading, Undecided
    <3>4. QED BY <1>2, <3>1, <3>3 DEF Reading
  <2>3. CASE DecisionAlarm
    <3>1. /\ UNCHANGED cursor /\ processed' = processed /\ pc'["decision"] = "promote"
          /\ log["alarms"] \in Seq(Payloads)
      BY <2>3, DecisionPublishes DEF decisionVars
    <3>2. PICK i : log'["alarms"] = Append(log["alarms"], <<"quality_alarm", i>>)
      BY <2>3, DecisionPublishes
    <3>3. PICK p : p = <<"quality_alarm", i>>
      OBVIOUS
    <3>4. log'["alarms"] = Append(log["alarms"], p) /\ p[1] = "quality_alarm"
      BY <3>2, <3>3
    <3>5. PICK n \in Nat : n = Len(log["alarms"])
      BY <3>1
    <3>6. /\ DOMAIN log["alarms"] = 1 .. n /\ DOMAIN log'["alarms"] = 1 .. n + 1
          /\ log'["alarms"][n + 1] = p /\ \A k \in 1 .. n : log'["alarms"][k] = log["alarms"][k]
      BY <3>1, <3>4, <3>5
    <3>7. \A k \in 1 .. n + 1 : k \in 1 .. n \/ k = n + 1
      OBVIOUS
    <3>8. \A k \in DOMAIN log'["alarms"] : log'["alarms"][k][1] # "verdict"
      BY <3>4, <3>6, <3>7 DEF Reading
    <3>9. QED BY <1>2, <3>1, <3>8 DEF Reading, Undecided
  <2>4. CASE DecisionSkip \/ DecisionCusum \/ DecisionPromote
    <3>1. /\ UNCHANGED busVars /\ pc'["decision"] \in {"alarm", "promote", "ack"}
          /\ pc["decision"] \in {"decide", "promote"}
          /\ \/ processed' = processed
             \/ /\ processed' = processed + 1 /\ pc["decision"] = "decide"
                /\ Kind("decision") = "verdict"
      BY <2>4, DecisionDecides
    <3>2. UNCHANGED <<log, cursor>>
      BY <3>1 DEF busVars
    <3>3. held["decision"] # Nothing
      BY <1>1, <3>1 DEF FleetInv, Standing, Unfed
    <3>4. processed' \in Nat /\ processed' <= cursor[Verdicts]
      <4>1. CASE processed' = processed
        BY <4>1 DEF Reading
      <4>2. CASE processed' = processed + 1 /\ pc["decision"] = "decide" /\ Kind("decision") = "verdict"
        <5>1. Undecided
          BY <3>3, <4>2, VerdictDecided DEF Undecided
        <5>2. QED BY <1>3, <4>2, <5>1 DEF Reading
      <4>3. QED BY <3>1, <4>1, <4>2
    <3>5. ~Undecided'
      BY <3>1 DEF Undecided
    <3>6. QED BY <1>2, <3>2, <3>4, <3>5 DEF Reading
  <2>5. CASE Acknowledge("decision")
    <3>1. /\ B!Ack("decision") /\ UNCHANGED log /\ processed' = processed
          /\ pc'["decision"] = "next"
      BY <1>1, <2>5, Acks DEF decisionVars
    <3>2. cursor' = cursor
      BY <3>1 DEF B!Ack
    <3>3. ~Undecided'
      BY <3>1 DEF Undecided
    <3>4. QED BY <1>2, <3>1, <3>2, <3>3 DEF Reading
  <2>6. CASE Poll("decision")
    <3>1. UNCHANGED <<log, cursor, held, pc, processed>>
      BY <2>6, Polls DEF decisionVars, busVars
    <3>2. Undecided' = Undecided
      BY <3>1 DEF Undecided
    <3>3. QED BY <1>2, <3>1, <3>2 DEF Reading
  <2>7. QED BY <2>1, <2>2, <2>3, <2>4, <2>5, <2>6 DEF Decision
<1>6. QED BY <1>4, <1>5
-----------------------------------------------------------------------------
(* The runner: once it has stopped the tasks nothing is left but the       *)
(* buffers, each of which it has still to flush.                           *)
Closing ==
  /\ toFlush \in Seq(Sinks)
  /\ phase = "running" => toFlush = FinalFlushes /\ flushing["runner"] = "no"
  /\ phase \in {"flushing", "done"} =>
       /\ processed >= Target
       /\ \A t \in Tasks : t # "runner" => flushing[t] = "no"
       /\ \A s \in Sinks : buffer[s] # <<>> => \E i \in DOMAIN toFlush : toFlush[i] = s
  /\ phase = "done" => toFlush = <<>> /\ flushing["runner"] = "no"

LEMMA FinalFact ==
  FinalFlushes \in Seq(Sinks) /\ \A s \in Sinks : \E i \in DOMAIN FinalFlushes : FinalFlushes[i] = s
<1>1. FinalFlushes \in Seq({"router", "judge", "decision", "drift"})
  <2> DEFINE names == {"router", "judge", "decision", "drift"}
             three == <<"router", "judge", "decision">>
             rest == IF Monitored THEN <<"drift">> ELSE <<>>
  <2>1. three \in Seq(names) /\ rest \in Seq(names)
    <3>1. three \in Seq(names) /\ <<"drift">> \in Seq(names) /\ <<>> \in Seq(names)
      OBVIOUS
    <3>2. rest = <<"drift">> \/ rest = <<>>
      OBVIOUS
    <3>3. QED BY <3>1, <3>2
  <2>2. FinalFlushes = three \o rest
    BY DEF FinalFlushes
  <2> HIDE DEF three, rest, names
  <2>3. three \o rest \in Seq(names)
    BY <2>1
  <2>4. QED BY <2>2, <2>3 DEF names
<1>2. \A i \in DOMAIN FinalFlushes : FinalFlushes[i] \in Sinks
  BY DEF Sinks
<1>3. QED BY <1>1, <1>2 DEF Sinks

LEMMA ClosingStep ==
  ASSUME FleetInv, Samples, Stocked, Closing, NEW t \in Tasks, Acts(t)
  PROVE  Closing'
<1>1. /\ "runner" \in Tasks /\ "runner" \notin Workers
      /\ \A s \in Sinks : buffer[s] \in Seq(Legit) /\ DOMAIN buffer = Sinks
  BY SubsFact, WorkersAssumption DEF Stocked, SP!Holds
<1>2. \A u \in Tasks : u # t => Calm(u)
  BY ActsStock DEF Closing
<1>3. CASE t # "runner"
  BY <1>1, <1>2, <1>3, ActsAside DEF Closing, Calm, runnerVars
<1>4. CASE t = "runner"
  <2>0. Store \/ Tick \/ Runner \/ (UNCHANGED vars) \/ \E w \in Workers : RestartWorker(w)
    BY <1>1, <1>4 DEF Acts
  <2>1. processed' = processed
    BY <1>4, RunnerAside DEF decisionVars
  <2>2. CASE Store
    <3>1. UNCHANGED runnerVars
      BY <2>2 DEF Store
    <3>2. buffer' = buffer /\ \A u \in Tasks : flushing[u] = "no" => flushing'[u] = "no"
      BY <2>2, StoreStock
    <3>3. QED BY <1>1, <2>1, <3>1, <3>2 DEF Closing, runnerVars
  <2>3. CASE Tick \/ (UNCHANGED vars) \/ \E w \in Workers : RestartWorker(w)
    <3>1. UNCHANGED runnerVars /\ UNCHANGED sinkVars
      BY <2>3 DEF Tick, vars, RestartWorker
    <3>2. QED BY <2>1, <3>1 DEF Closing, runnerVars, sinkVars
  <2>4. CASE Stop
    <3>1. /\ phase = "running" /\ phase' = "flushing" /\ toFlush' = toFlush /\ processed >= Target
          /\ S!CancelAll(Tasks)
      BY <2>4 DEF Stop
    <3>2. \A u \in Tasks : flushing'[u] = "no"
      BY <3>1, CancelStock
    <3>3. toFlush' = FinalFlushes
      BY <3>1 DEF Closing
    <3>4. QED BY <2>1, <3>1, <3>2, <3>3, FinalFact DEF Closing, Target
  <2>5. CASE TimeOut
    <3>1. phase' = "stalled" /\ toFlush' = toFlush
      BY <2>5 DEF TimeOut
    <3>2. QED BY <3>1 DEF Closing
  <2>6. CASE FlushSink
    <3>1. PICK s : s = Head(toFlush)
      OBVIOUS
    <3>2. /\ phase = "flushing" /\ phase' = phase /\ flushing["runner"] = "no" /\ toFlush # <<>>
          /\ S!Flush("runner", s) /\ toFlush' = Tail(toFlush) /\ s \in Sinks
      BY <2>6, <3>1 DEF FlushSink, Closing
    <3>3. /\ toFlush' \in Seq(Sinks)
          /\ \A i \in DOMAIN toFlush : i = 1 \/ (i - 1 \in DOMAIN toFlush' /\ toFlush'[i - 1] = toFlush[i])
          /\ toFlush[1] = s
      BY <3>1, <3>2 DEF Closing
    <3>4. /\ buffer'[s] = <<>> /\ \A r \in Sinks \ {s} : buffer'[r] = buffer[r]
          /\ \A u \in Tasks \ {"runner"} : flushing'[u] = flushing[u]
      BY <3>2, FlushStock
    <3>5. ASSUME NEW r \in Sinks, buffer'[r] # <<>>
          PROVE  \E i \in DOMAIN toFlush' : toFlush'[i] = r
      <4>1. r # s /\ buffer[r] # <<>>
        BY <3>4, <3>5
      <4>2. PICK i \in DOMAIN toFlush : toFlush[i] = r
        BY <3>2, <4>1 DEF Closing
      <4>3. i - 1 \in DOMAIN toFlush' /\ toFlush'[i - 1] = r
        BY <3>3, <4>1, <4>2
      <4>4. QED BY <4>3
    <3>6. QED BY <2>1, <3>2, <3>3, <3>4, <3>5 DEF Closing, Target
  <2>7. CASE Finish
    <3>1. /\ phase = "flushing" /\ phase' = "done" /\ toFlush' = toFlush /\ toFlush = <<>>
          /\ flushing["runner"] = "no" /\ UNCHANGED sinkVars
      BY <2>7 DEF Finish
    <3>2. QED BY <2>1, <3>1 DEF Closing, sinkVars, Target
  <2>8. QED BY <2>0, <2>2, <2>3, <2>4, <2>5, <2>6, <2>7 DEF Runner
<1>5. QED BY <1>3, <1>4
-----------------------------------------------------------------------------
(* The target is as many verdicts as there are sampled requests: one of    *)
(* each, since none is published twice and none counted twice.             *)
LEMMA AllPublished ==
  ASSUME FleetInv, Samples, Reading, processed >= Target
  PROVE  /\ \A i \in Sampled : \E k \in DOMAIN log["verdicts"] : log["verdicts"][k][2] = i
         /\ Len(log["verdicts"]) = processed
<1>1. /\ log["verdicts"] \in Seq(Payloads) /\ cursor[Verdicts] \in Nat
      /\ cursor[Verdicts] <= Len(log["verdicts"])
  <2>1. Sole(Verdicts, "decision") /\ "verdicts" \in Streams
    BY SoleReaders DEF Streams
  <2>2. Verdicts \in BP!Channels
    BY <2>1, ChannelTypes DEF FleetInv
  <2>3. QED BY <2>1, <2>2 DEF FleetInv, BP!IInv, BP!TypeOK, BP!BusTypeOK, Verdicts
<1>2. PICK n \in Nat : n = Len(log["verdicts"])
  BY <1>1
<1>3. DOMAIN log["verdicts"] = 1 .. n
  BY <1>1, <1>2
<1>4. IsFiniteSet(Sampled) /\ Cardinality(Sampled) \in Nat
  <2>1. IsFiniteSet(1 .. N)
    BY RequestsAssumption, FS_Interval
  <2>2. IsFiniteSet(Sampled)
    BY <2>1, RequestsAssumption, FS_Subset
  <2>3. QED BY <2>2, FS_CardinalityType
<1> DEFINE f == [k \in 1 .. n |-> log["verdicts"][k][2]]
<1>5. f \in Injection(1 .. n, Sampled)
  <2>1. f \in [1 .. n -> Sampled]
    BY <1>3, VerdictSampled
  <2>2. \A j, k \in 1 .. n : f[j] = f[k] => j = k
    BY <1>3 DEF FleetInv, Judged, Relayed, Distinct
  <2>3. QED BY <2>1, <2>2 DEF Injection, IsInjective
<1>6. Cardinality(1 .. n) = n
  BY FS_Interval
<1>7. n <= Cardinality(Sampled) /\ (n = Cardinality(Sampled) <=> f \in Surjection(1 .. n, Sampled))
  BY <1>4, <1>5, <1>6, FS_Injection
<1>8. n = Cardinality(Sampled) /\ n = processed
  <2>1. processed \in Nat /\ processed <= n
    BY <1>1, <1>2 DEF Reading
  <2>2. QED BY <1>4, <1>7, <2>1 DEF Target
<1>9. f \in Surjection(1 .. n, Sampled)
  BY <1>7, <1>8
<1>10. QED BY <1>2, <1>3, <1>8, <1>9 DEF Surjection
-----------------------------------------------------------------------------
(* What can be lost: when the runner stops, what a task is flushing; when  *)
(* a worker is killed, what it is flushing.                                *)
LEMMA StopLoses ==
  ASSUME Stocked, Closing, Stop, NEW q \in SP!KeptSeqs, q \notin SP!KeptSeqs'
  PROVE  \E u \in Tasks \ {"runner"} :
           flushing[u] # "no" /\ q[2] \in Bands[SinkOf(u)] /\ \E e \in SP!Load[u] : e.seq = q
<1>1. S!CancelAll(Tasks) /\ phase = "running"
  BY DEF Stop
<1>2. PICK u \in Tasks : \E e \in SP!Load[u] : e.seq = q
  BY <1>1, CancelStock
<1>3. flushing[u] # "no"
  BY <1>2, SP!IdleLoad, BatchAssumption, NobodyAssumption DEF Stocked
<1>4. u # "runner"
  BY <1>1, <1>3 DEF Closing
<1>5. QED BY <1>2, <1>3, <1>4 DEF Stocked

LEMMA KillLoses ==
  ASSUME FleetInv, Stocked, NEW w \in Workers, KillWorker(w),
         NEW q \in SP!KeptSeqs, q \notin SP!KeptSeqs'
  PROVE  flushing[w] # "no" /\ q[2] = 5 /\ \E e \in SP!Load[w] : e.seq = q
<1>1. PICK e \in SP!Load[w] : e.seq = q
  BY KillStock
<1>2. w \in Tasks \ {"runner"} /\ SinkOf(w) = "judge" /\ Bands["judge"] = {5}
  BY SubsFact, WorkersAssumption DEF SinkOf, Bands
<1>3. flushing[w] # "no"
  BY <1>1, <1>2, SP!IdleLoad, BatchAssumption, NobodyAssumption DEF Stocked
<1>4. QED BY <1>1, <1>2, <1>3 DEF Stocked

(* A worker that is to publish has a pair of its own, which nobody has     *)
(* published a verdict on.                                                 *)
LEMMA Unpublished ==
  ASSUME FleetInv, Punctual, NEW w \in Workers, pc[w] = "publish"
  PROVE  /\ held[w] # Nothing
         /\ \A k \in DOMAIN log["verdicts"] : log["verdicts"][k][2] # Job[w]
         /\ \A v \in Workers : v # w /\ held[v] # Nothing => Job[v] # Job[w]
<1>1. w \in Consumers /\ w \in Relays /\ Workers \subseteq Consumers /\ Paired[1] = "pairs"
  BY SubsFact DEF Relays, Paired
<1>2. held[w] # Nothing
  BY <1>1 DEF FleetInv, Standing, Unfed
<1>3. Distinct("pairs") /\ Relayed(Paired, Workers, "verdicts")
  BY DEF FleetInv, Judged, Relayed
<1>4. PICK k : k = held[w][2]
  OBVIOUS
<1>5. /\ held[w] = <<Paired, k>> /\ k \in DOMAIN log["pairs"] /\ log["pairs"][k][2] = Job[w]
      /\ k \notin acked[Paired] /\ \A d \in Consumers : d # w => held[d] # held[w]
  BY <1>1, <1>2, <1>4, WorkerWork, HeldFacts DEF FleetInv
<1>6. ~Handled(Paired, Workers, k)
  BY <1>1, <1>5 DEF Handled
<1>7. ASSUME NEW j \in DOMAIN log["verdicts"], log["verdicts"][j][2] = Job[w] PROVE FALSE
  <2>1. PICK i \in DOMAIN log["pairs"] :
          log["pairs"][i][2] = log["verdicts"][j][2] /\ Handled(Paired, Workers, i)
    BY <1>1, <1>3 DEF Relayed
  <2>2. i = k
    BY <1>3, <1>5, <1>7, <2>1 DEF Distinct
  <2>3. QED BY <1>6, <2>1, <2>2
<1>8. ASSUME NEW v \in Workers, v # w, held[v] # Nothing, Job[v] = Job[w] PROVE FALSE
  <2>1. /\ held[v] = <<Paired, held[v][2]>> /\ held[v][2] \in DOMAIN log["pairs"]
        /\ log["pairs"][held[v][2]][2] = Job[v]
    BY <1>8, WorkerWork
  <2>2. held[v][2] = k
    BY <1>3, <1>5, <1>8, <2>1 DEF Distinct
  <2>3. QED BY <1>1, <1>5, <1>8, <2>1, <2>2
<1>9. QED BY <1>2, <1>7, <1>8

(* When as many verdicts were counted as there are sampled requests, no    *)
(* worker is flushing; the router has read all that are sampled, and what  *)
(* it is still recording is not one of them.                               *)
LEMMA WorkersDone ==
  ASSUME FleetInv, Punctual, Samples, Busy, Reading, processed >= Target, NEW w \in Workers
  PROVE  flushing[w] = "no"
<1>1. SUFFICES ASSUME flushing[w] # "no" PROVE FALSE
  OBVIOUS
<1>2. pc[w] = "publish"
  BY <1>1 DEF Busy
<1>3. held[w] # Nothing /\ \A k \in DOMAIN log["verdicts"] : log["verdicts"][k][2] # Job[w]
  BY <1>2, Unpublished
<1>4. Job[w] \in Sampled
  BY <1>3, WorkerSampled
<1>5. QED BY <1>3, <1>4, AllPublished

LEMMA SampledDone ==
  ASSUME FleetInv, Samples, Reading, processed >= Target, NEW n \in Sampled
  PROVE  Handled(Requested, {"router"}, n) /\ n \in 1 .. cursor[Requested]
<1>1. PICK k \in DOMAIN log["verdicts"] : log["verdicts"][k][2] = n
  BY AllPublished
<1>2. PICK j \in DOMAIN log["pairs"] : log["pairs"][j][2] = n
  <2>1. Paired[1] = "pairs" /\ Relayed(Paired, Workers, "verdicts")
    BY <1>1 DEF Paired, FleetInv, Judged
  <2>2. QED BY <1>1, <2>1 DEF Relayed
<1>3. PICK r \in DOMAIN log["requests"] :
        log["requests"][r][2] = n /\ Handled(Requested, {"router"}, r)
  <2>1. Requested[1] = "requests" /\ Relayed(Requested, {"router"}, "pairs")
    BY DEF Requested, FleetInv
  <2>2. QED BY <1>2, <2>1 DEF Relayed
<1>4. r = n
  <2>1. r \in 1 .. sent /\ \A i \in 1 .. sent : log["requests"][i] = <<"request", i>>
    <3>1. log \in [Streams -> Seq(Payloads)] /\ "requests" \in Streams
      BY DEF FleetInv, BP!IInv, BP!TypeOK, BP!BusTypeOK, Streams
    <3>2. Len(log["requests"]) = sent /\ \A i \in 1 .. sent : log["requests"][i] = <<"request", i>>
      BY DEF FleetInv, Published
    <3>3. DOMAIN log["requests"] = 1 .. Len(log["requests"])
      BY <3>1
    <3>4. QED BY <1>3, <3>2, <3>3
  <2>2. QED BY <1>3, <2>1
<1>5. /\ Sole(Requested, "router") /\ "router" \in Consumers /\ "router" \in Relays
      /\ cursor[Requested] \in Nat /\ n \in 1 .. N /\ N \in Nat
      /\ acked[Requested] \union DOMAIN pending[Requested] = 1 .. cursor[Requested]
  BY SoleReaders, ChannelTypes, SubsFact, RequestsAssumption DEF FleetInv, Relays
<1>6. CASE n \in acked[Requested]
  BY <1>3, <1>4, <1>5, <1>6
<1>7. CASE pc["router"] = "ack" /\ held["router"] = <<Requested, n>>
  <2>1. held["router"] # Nothing
    BY <1>5, <1>7 DEF FleetInv, Standing, Unfed
  <2>2. held["router"][1] = Requested
    BY <1>7
  <2>3. Job["router"] = n /\ n <= cursor[Requested]
    BY <1>7, <2>1, <2>2, RouterWork
  <2>4. QED BY <1>3, <1>4, <1>5, <2>3
<1>8. QED BY <1>3, <1>4, <1>6, <1>7 DEF Handled

LEMMA RouterDone ==
  ASSUME FleetInv, Punctual, Samples, Busy, Reading, processed >= Target,
         \/ flushing["router"] # "no"
         \/ held["router"] # Nothing /\ held["router"][1] = Requested /\ pc["router"] # "ack"
  PROVE  cursor[Requested] \notin Sampled
<1>1. SUFFICES ASSUME cursor[Requested] \in Sampled PROVE FALSE
  OBVIOUS
<1>2. /\ "router" \in Consumers /\ "router" \in Relays /\ Sole(Requested, "router")
      /\ Alone(Requested, "router")
  BY SoleReaders, SubsFact DEF Reading, Relays
<1>3. held["router"] # Nothing /\ held["router"][1] = Requested
  <2>1. CASE flushing["router"] # "no"
    <3>1. pc["router"] \in Onward \union {"ack"} /\ (pc["router"] = "ack" => held["router"][1] = Requested)
      BY <2>1 DEF Busy
    <3>2. held["router"] # Nothing
      BY <1>2, <3>1 DEF FleetInv, Standing, Unfed, Onward
    <3>3. QED BY <3>1, <3>2 DEF FleetInv, Serving
  <2>2. QED BY <2>1
<1>4. held["router"] = <<Requested, Job["router"]>>
  BY <1>3, RouterWork
<1>5. held["router"][2] = cursor[Requested]
  BY <1>2, <1>3 DEF Alone
<1>6. Job["router"] = cursor[Requested]
  BY <1>4, <1>5
<1>7. cursor[Requested] \notin acked[Requested]
  <2>1. held["router"][2] \notin acked[held["router"][1]]
    BY <1>2, <1>3, HeldFacts DEF FleetInv
  <2>2. QED BY <1>3, <1>5, <2>1
<1>8. pc["router"] = "ack"
  <2>1. Handled(Requested, {"router"}, cursor[Requested])
    BY <1>1, SampledDone
  <2>2. QED BY <1>7, <2>1 DEF Handled
<1>9. QED BY <1>1, <1>6, <1>8 DEF Busy
-----------------------------------------------------------------------------
(* A verdict is in the log, or on its way there, from when the worker      *)
(* emitted it: what a kill drops is not published, and never will be.      *)
Backed ==
  /\ \A k \in DOMAIN log["verdicts"] : <<log["verdicts"][k][2], 5>> \in SP!KeptSeqs
  /\ \A w \in Workers : pc[w] = "publish" => <<Job[w], 5>> \in SP!KeptSeqs
  /\ Batch["judge"] = 1 =>
       buffer["judge"] = <<>> /\ \A w \in Workers : \A e \in SP!Load[w] : e.seq = <<Job[w], 5>>

(* The rows that Backed speaks of survive every step.                      *)
LEMMA BackedSafe ==
  ASSUME FleetInv, Punctual, Batch["judge"] = 1 \/ MaxKills = 0,
         Samples, Stocked, Busy, Reading, Closing, Backed, NEW t \in Tasks, Acts(t)
  PROVE  /\ \A k \in DOMAIN log["verdicts"] : <<log["verdicts"][k][2], 5>> \in SP!KeptSeqs'
         /\ \A w \in Workers : pc[w] = "publish" /\ (w = t => Judge(w) /\ ~KillWorker(w)) =>
              <<Job[w], 5>> \in SP!KeptSeqs'
<1>0. Safe \/ Stop \/ (t \in Workers /\ KillWorker(t))
  BY ActsStock DEF Closing
<1>1. CASE Safe
  BY <1>1 DEF Safe, Backed
<1>2. CASE Stop
  <2>1. ASSUME NEW q \in SP!KeptSeqs, q[2] = 5 PROVE q \in SP!KeptSeqs'
    <3>1. SUFFICES ASSUME q \notin SP!KeptSeqs' PROVE FALSE
      OBVIOUS
    <3>2. PICK u \in Tasks \ {"runner"} : flushing[u] # "no" /\ 5 \in Bands[SinkOf(u)]
      BY <1>2, <2>1, <3>1, StopLoses
    <3>3. u \in Workers
      BY <3>2 DEF SinkOf, Bands
    <3>4. processed >= Target
      BY <1>2 DEF Stop
    <3>5. QED BY <3>2, <3>3, <3>4, WorkersDone
  <2>2. QED BY <2>1 DEF Backed
<1>3. CASE t \in Workers /\ KillWorker(t)
  <2>1. Batch["judge"] = 1
    BY <1>3, Kills
  <2>2. ASSUME NEW q \in SP!KeptSeqs, q \notin SP!KeptSeqs'
        PROVE  q = <<Job[t], 5>> /\ pc[t] = "publish"
    <3>1. flushing[t] # "no" /\ \E e \in SP!Load[t] : e.seq = q
      BY <1>3, <2>2, KillLoses
    <3>2. pc[t] = "publish"
      BY <1>3, <3>1 DEF Busy
    <3>3. \A e \in SP!Load[t] : e.seq = <<Job[t], 5>>
      BY <1>3, <2>1 DEF Backed
    <3>4. QED BY <3>1, <3>2, <3>3
  <2>3. ASSUME NEW k \in DOMAIN log["verdicts"]
        PROVE  <<log["verdicts"][k][2], 5>> \in SP!KeptSeqs'
    <3>1. SUFFICES ASSUME <<log["verdicts"][k][2], 5>> \notin SP!KeptSeqs' PROVE FALSE
      OBVIOUS
    <3>2. <<log["verdicts"][k][2], 5>> = <<Job[t], 5>> /\ pc[t] = "publish"
      BY <2>2, <3>1 DEF Backed
    <3>3. log["verdicts"][k][2] = Job[t]
      BY <3>2
    <3>4. QED BY <1>3, <3>2, <3>3, Unpublished
  <2>4. ASSUME NEW w \in Workers, pc[w] = "publish", w # t
        PROVE  <<Job[w], 5>> \in SP!KeptSeqs'
    <3>1. SUFFICES ASSUME <<Job[w], 5>> \notin SP!KeptSeqs' PROVE FALSE
      OBVIOUS
    <3>2. <<Job[w], 5>> = <<Job[t], 5>> /\ pc[t] = "publish"
      BY <2>2, <2>4, <3>1 DEF Backed
    <3>3. Job[w] = Job[t] /\ held[w] # Nothing
      BY <2>4, <3>2, Unpublished
    <3>4. QED BY <1>3, <2>4, <3>2, <3>3, Unpublished
  <2>5. QED BY <1>3, <2>3, <2>4
<1>4. QED BY <1>0, <1>1, <1>2, <1>3

LEMMA BackedStep ==
  ASSUME FleetInv, Punctual, Batch["judge"] = 1 \/ MaxKills = 0,
         Samples, Stocked, Busy, Reading, Closing, Backed, NEW t \in Tasks, Acts(t)
  PROVE  Backed'
<1>1. /\ Workers \subseteq Consumers /\ Workers \subseteq Tasks /\ Workers \subseteq Relays
      /\ {"traffic", "router", "decision", "runner"} \cap Workers = {} /\ "judge" \in Sinks
  BY SubsFact, WorkersAssumption, SinksFact DEF Relays
<1>2. /\ \A k \in DOMAIN log["verdicts"] : <<log["verdicts"][k][2], 5>> \in SP!KeptSeqs'
      /\ \A w \in Workers : pc[w] = "publish" /\ (w = t => Judge(w) /\ ~KillWorker(w)) =>
           <<Job[w], 5>> \in SP!KeptSeqs'
  BY BackedSafe
<1>3. \A u \in Tasks : u # t => Calm(u)
  BY ActsStock DEF Closing
<1>4. \A w \in Workers : w # t => Aside(w)
  BY <1>1, Bystander
<1>5. \A w \in Workers : pc[w] # "next" => held[w] # Nothing
  BY <1>1 DEF FleetInv, Standing, Unfed
<1>6. ASSUME NEW k \in DOMAIN log'["verdicts"]
      PROVE  <<log'["verdicts"][k][2], 5>> \in SP!KeptSeqs'
  <2>1. CASE log'["verdicts"] = log["verdicts"]
    BY <1>2, <2>1
  <2>2. CASE log'["verdicts"] # log["verdicts"]
    <3>1. t \in Workers
      BY <2>2, ActsAside
    <3>2. ~KillWorker(t)
      BY <2>2, <3>1, Kills
    <3>3. Judge(t)
      BY <1>1, <3>1, <3>2 DEF Acts
    <3>4. JudgePublish(t)
      <4>1. CASE JudgeReceive(t)
        BY <1>1, <2>2, <3>1, <4>1, Receives DEF JudgeReceive, Places
      <4>2. CASE JudgeEmit(t)
        BY <2>2, <3>1, <4>2, JudgeEmits DEF busVars
      <4>3. CASE Acknowledge(t)
        BY <1>1, <2>2, <3>1, <4>3, Acks
      <4>4. CASE Poll(t)
        BY <2>2, <4>4, Polls DEF busVars
      <4>5. QED BY <3>3, <4>1, <4>2, <4>3, <4>4 DEF Judge
    <3>5. /\ log["verdicts"] \in Seq(Payloads) /\ pc[t] = "publish"
          /\ log'["verdicts"] = Append(log["verdicts"], <<"verdict", Job[t]>>)
      BY <3>1, <3>4, JudgePublishes
    <3>6. PICK p : p = <<"verdict", Job[t]>>
      OBVIOUS
    <3>7. PICK n \in Nat : n = Len(log["verdicts"])
      BY <3>5
    <3>8. /\ DOMAIN log["verdicts"] = 1 .. n /\ DOMAIN log'["verdicts"] = 1 .. n + 1
          /\ log'["verdicts"][n + 1] = p /\ \A j \in 1 .. n : log'["verdicts"][j] = log["verdicts"][j]
      BY <3>5, <3>6, <3>7
    <3>9. <<p[2], 5>> \in SP!KeptSeqs'
      BY <1>2, <3>1, <3>2, <3>3, <3>5, <3>6
    <3>10. k \in 1 .. n \/ k = n + 1
      BY <3>8
    <3>11. QED BY <1>2, <3>8, <3>9, <3>10
  <2>3. QED BY <2>1, <2>2
<1>7. ASSUME NEW w \in Workers, pc'[w] = "publish"
      PROVE  <<Job'[w], 5>> \in SP!KeptSeqs'
  <2>1. CASE w # t
    BY <1>2, <1>4, <1>5, <1>7, <2>1 DEF Aside
  <2>2. CASE w = t
    <3>1. ~KillWorker(w)
      BY <1>7, Kills
    <3>2. Judge(w)
      BY <1>1, <2>2, <3>1 DEF Acts
    <3>3. CASE JudgeEmit(w)
      BY <3>2, <3>3, JudgeStock, JudgeEmits
    <3>4. CASE JudgeReceive(w)
      BY <1>1, <1>7, <3>4, Receives DEF JudgeReceive, Places
    <3>5. CASE JudgePublish(w)
      BY <1>7, <3>5, JudgePublishes
    <3>6. CASE Acknowledge(w)
      BY <1>1, <1>7, <3>6, Acks
    <3>7. CASE Poll(w)
      BY <1>7, <3>7, Polls
    <3>8. QED BY <3>2, <3>3, <3>4, <3>5, <3>6, <3>7 DEF Judge
  <2>3. QED BY <2>1, <2>2
<1>8. ASSUME Batch["judge"] = 1
      PROVE  /\ buffer'["judge"] = <<>>
             /\ \A w \in Workers : \A e \in SP!Load'[w] : e.seq = <<Job'[w], 5>>
  <2>1. buffer["judge"] = <<>>
    BY <1>8 DEF Backed
  <2>2. buffer'["judge"] = <<>>
    <3>1. CASE t \in Workers
      <4>1. CASE KillWorker(t)
        BY <2>1, <3>1, <4>1, KillStock
      <4>2. CASE JudgeEmit(t)
        BY <1>8, <2>1, <3>1, <4>2, JudgeStock DEF Judge
      <4>3. CASE Judge(t) /\ ~JudgeEmit(t)
        BY <2>1, <3>1, <4>3, JudgeStock DEF sinkVars
      <4>4. QED BY <1>1, <3>1, <4>1, <4>2, <4>3 DEF Acts
    <3>2. CASE t \notin Workers /\ t # "runner"
      <4>1. SinkOf(t) # "judge"
        BY <3>2 DEF SinkOf
      <4>2. QED BY <1>1, <2>1, <3>2, <4>1, ActsStock DEF Closing
    <3>3. CASE t = "runner"
      <4>1. CASE Store
        BY <2>1, <4>1, StoreStock
      <4>2. CASE FlushSink
        <5>1. PICK s : s = Head(toFlush)
          OBVIOUS
        <5>2. flushing["runner"] = "no" /\ S!Flush("runner", s) /\ s \in Sinks
          BY <4>2, <5>1 DEF FlushSink, Closing
        <5>3. buffer'[s] = <<>> /\ \A r \in Sinks \ {s} : buffer'[r] = buffer[r]
          BY <5>2, FlushStock
        <5>4. QED BY <1>1, <2>1, <5>3
      <4>3. CASE Stop
        BY <2>1, <4>3 DEF Stop, S!CancelAll
      <4>4. CASE UNCHANGED sinkVars
        BY <2>1, <4>4 DEF sinkVars
      <4>5. QED BY <3>3, <4>1, <4>2, <4>3, <4>4, RunnerStock DEF Closing
    <3>4. QED BY <3>1, <3>2, <3>3
  <2>3. ASSUME NEW w \in Workers, NEW e \in SP!Load'[w]
        PROVE  e.seq = <<Job'[w], 5>>
    <3>1. CASE w # t
      <4>1. e \in SP!Load[w]
        BY <1>1, <1>3, <2>3, <3>1 DEF Calm
      <4>2. flushing[w] # "no"
        BY <1>1, <4>1, SP!IdleLoad, BatchAssumption, NobodyAssumption DEF Stocked
      <4>3. Job'[w] = Job[w]
        BY <1>4, <1>5, <3>1, <4>2 DEF Busy, Aside
      <4>4. QED BY <1>8, <4>1, <4>3 DEF Backed
    <3>2. CASE w = t
      <4>1. Judge(w) \/ KillWorker(w)
        BY <1>1, <3>2 DEF Acts
      <4>2. CASE JudgeEmit(w)
        <5>1. Job' = Job /\ \A x \in SP!Load'[w] : x.seq = <<Job[w], 5>>
          BY <1>8, <2>1, <4>2, JudgeStock, JudgeEmits DEF Judge
        <5>2. QED BY <2>3, <5>1
      <4>3. CASE KillWorker(w)
        BY <2>3, <4>3, KillStock
      <4>4. CASE Judge(w) /\ ~JudgeEmit(w) /\ ~KillWorker(w)
        <5>1. (UNCHANGED sinkVars) /\ flushing'[w] = "no"
          BY <4>4, JudgeStock, WorkerBusy
        <5>2. flushing[w] = "no" /\ SP!Load' = SP!Load
          BY <5>1, StillStock DEF sinkVars
        <5>3. SP!Load[w] = {}
          BY <1>1, <5>2, SP!IdleLoad, BatchAssumption, NobodyAssumption DEF Stocked
        <5>4. QED BY <2>3, <5>2, <5>3
      <4>5. QED BY <4>1, <4>2, <4>3, <4>4
    <3>3. QED BY <3>1, <3>2
  <2>4. QED BY <2>2, <2>3
<1>9. QED BY <1>6, <1>7, <1>8 DEF Backed
-----------------------------------------------------------------------------
(* What was handed to the router is in the log or on its way, but for what *)
(* it has still to record of the request in hand; what is in its sink are  *)
(* the latest requests, so that what it can lose are as many at most.      *)
BandsOf(i) == {0, 1} \union (IF i \in Sampled THEN {2} ELSE {})

Before(b) ==
  {"request"} \union (IF b = 0 THEN {} ELSE {"champion"}) \union (IF b = 2 THEN {"shadow"} ELSE {})

Entered(i) == \A b \in BandsOf(i) : <<i, b>> \in SP!KeptSeqs

Underway ==
  \A i \in 1 .. cursor[Requested] : \A b \in BandsOf(i) :
    <<i, b>> \in SP!KeptSeqs \/ (held["router"] = <<Requested, i>> /\ pc["router"] \in Before(b))

Trails(events, ahead, taken) ==
  \A p \in DOMAIN events : events[p].seq[1] + (Len(events) - p) + ahead >= taken

Recent ==
  /\ Len(buffer["router"]) < Batch["router"]
  /\ Trails(buffer["router"], IF pc["router"] = "request" THEN 1 ELSE 0, cursor[Requested])
  /\ \A e \in SP!Load["router"] : e.seq[1] + Batch["router"] > cursor[Requested]

Cut ==
  /\ Sampled \subseteq 1 .. cursor[Requested]
  /\ \A i \in 1 .. cursor[Requested] :
       \/ Entered(i)
       \/ i + Batch["router"] > cursor[Requested] /\ cursor[Requested] \notin Sampled

Recorded ==
  /\ phase = "running" => Underway /\ Recent
  /\ phase \in {"flushing", "done"} => Cut

LEMMA PhasesStep ==
  ASSUME FleetInv, NEW t \in Tasks, Acts(t)
  PROVE  /\ phase' = "running" => phase = "running" /\ ~Stop
         /\ phase' \in {"flushing", "done"} => Stop \/ (phase \in {"flushing", "done"} /\ t = "runner" /\ ~Stop)
<1>1. CASE t # "runner"
  <2>1. phase = "running" /\ phase' = phase
    BY <1>1, ActsAside DEF runnerVars
  <2>2. QED BY <2>1 DEF Stop
<1>2. CASE t = "runner"
  <2>1. Store \/ Tick \/ Runner \/ (UNCHANGED vars) \/ \E w \in Workers : RestartWorker(w)
    BY <1>2, WorkersAssumption DEF Acts
  <2>2. CASE Store \/ Tick \/ (UNCHANGED vars) \/ \E w \in Workers : RestartWorker(w)
    <3>1. phase' = phase
      BY <2>2 DEF Store, Tick, vars, RestartWorker, runnerVars
    <3>2. QED BY <1>2, <3>1 DEF Stop
  <2>3. CASE Runner
    BY <1>2, <2>3 DEF Runner, Stop, TimeOut, FlushSink, Finish
  <2>4. QED BY <2>1, <2>2, <2>3
<1>3. QED BY <1>1, <1>2

LEMMA RouterSafe ==
  ASSUME FleetInv, Samples, Stocked, Closing, NEW t \in Tasks, Acts(t), ~Stop,
         NEW i, NEW b \in {0, 1, 2}, <<i, b>> \in SP!KeptSeqs
  PROVE  <<i, b>> \in SP!KeptSeqs'
<1>0. Safe \/ (t \in Workers /\ KillWorker(t))
  BY ActsStock DEF Closing
<1>1. CASE Safe
  BY <1>1 DEF Safe
<1>2. CASE t \in Workers /\ KillWorker(t)
  <2>1. SUFFICES ASSUME <<i, b>> \notin SP!KeptSeqs' PROVE FALSE
    OBVIOUS
  <2>2. PICK q : q = <<i, b>>
    OBVIOUS
  <2>3. q[2] = 5
    BY <1>2, <2>1, <2>2, KillLoses
  <2>4. QED BY <2>2, <2>3
<1>3. QED BY <1>0, <1>1, <1>2

(* An event of the request in hand, the last one handed out.               *)
LEMMA RouterFills ==
  ASSUME FleetInv, Stocked, Reading, RouterRequest \/ RouterChampion \/ RouterShadow
  PROVE  \E b \in {0, 1, 2}, e \in Legit :
           /\ e.seq = <<cursor[Requested], b>> /\ <<cursor[Requested], b>> \in SP!KeptSeqs'
           /\ held["router"] = <<Requested, cursor[Requested]>> /\ cursor[Requested] \in 1 .. N
           /\ UNCHANGED <<held, cursor>> /\ pc'["router"] # "request"
           /\ \A c \in BandsOf(cursor[Requested]) : pc["router"] \in Before(c) => c = b \/ pc'["router"] \in Before(c)
           /\ S!Emit("router", "router", e) /\ Stocked'
           /\ SP!Load'["router"] \subseteq SP!Events(buffer["router"]) \union {e}
<1>1. /\ "router" \in Consumers /\ "router" \in Tasks \ {"runner"}
      /\ "router" \in Relays /\ SinkOf("router") = "router" /\ "router" \in Sinks
  BY SubsFact, WorkersAssumption, SinksFact DEF Relays, SinkOf
<1>2. PICK b \in {0, 1, 2}, body \in {"champion", "shadow"} :
        /\ S!Emit("router", "router", Event(Job["router"], b, body)) /\ UNCHANGED busVars
        /\ flushing["router"] = "no"
        /\ \/ pc["router"] = "request" /\ pc'["router"] = "champion" /\ b = 0
           \/ /\ pc["router"] = "champion" /\ b = 1
              /\ pc'["router"] = IF Job["router"] \in Sampled THEN "shadow" ELSE "ack"
           \/ pc["router"] = "shadow" /\ pc'["router"] = "publish" /\ b = 2
  BY RouterEmits
<1>3. held["router"] # Nothing
  BY <1>1, <1>2 DEF FleetInv, Standing, Unfed
<1>4. held["router"][1] = Requested
  <2>1. pc["router"] \in Onward \/ (pc["router"] = "request" /\ Kind("router") = "request")
    BY <1>2 DEF RouterRequest, RouterServe, RouterChampion, RouterShadow, At, Onward
  <2>2. QED BY <1>3, <2>1, RequestInHand DEF FleetInv, Serving
<1>5. held["router"] = <<Requested, Job["router"]>> /\ Job["router"] \in 1 .. N
  BY <1>3, <1>4, RouterWork
<1>6. Job["router"] = cursor[Requested]
  <2>1. held["router"][2] = cursor[Requested]
    BY <1>3, <1>4 DEF Reading, Alone
  <2>2. QED BY <1>5, <2>1
<1>7. PICK e : e = Event(Job["router"], b, body)
  OBVIOUS
<1>8. e \in Legit /\ e.seq[2] \in Bands["router"] /\ e.seq = <<cursor[Requested], b>>
  BY <1>5, <1>6, <1>7 DEF Event, Legit, AllEvents, Bodies, Bands
<1>9. S!Emit("router", "router", e)
  BY <1>2, <1>7
<1>10. /\ Stocked' /\ e.seq \in SP!KeptSeqs'
       /\ SP!Load'["router"] \subseteq SP!Events(buffer["router"]) \union {e}
  BY <1>1, <1>2, <1>8, <1>9, EmitStock
<1>11. UNCHANGED <<held, cursor>> /\ pc'["router"] # "request"
  BY <1>2 DEF busVars
<1>12. ASSUME NEW c \in BandsOf(cursor[Requested]), pc["router"] \in Before(c)
       PROVE  c = b \/ pc'["router"] \in Before(c)
  BY <1>2, <1>6, <1>12 DEF BandsOf, Before
<1>13. QED BY <1>5, <1>6, <1>8, <1>9, <1>10, <1>11, <1>12

LEMMA TrailsOn ==
  ASSUME NEW q \in Seq(Legit), NEW e \in Legit, NEW k \in Nat, e.seq[1] = k, NEW a \in {0, 1},
         Trails(q, a, k)
  PROVE  /\ Trails(Append(q, e), 0, k)
         /\ \A size \in Nat : Len(q) < size =>
              \A x \in SP!Events(q) \union {e} : x.seq[1] + size > k
<1>1. \A x \in Legit : x.seq[1] \in Nat
  BY RequestsAssumption DEF Legit, AllEvents, Shares
<1>2. PICK n \in Nat : n = Len(q)
  OBVIOUS
<1>3. \A p \in 1 .. n : q[p] \in Legit /\ q[p].seq[1] \in Nat /\ q[p].seq[1] + (n - p) + a >= k
  BY <1>1, <1>2 DEF Trails
<1>4. DOMAIN q = 1 .. n
  BY <1>2
<1>5. PICK r \in Seq(Legit) :
        /\ r = Append(q, e) /\ DOMAIN r = 1 .. n + 1 /\ Len(r) = n + 1
        /\ r[n + 1] = e /\ \A p \in 1 .. n : r[p] = q[p]
  <2>1. Append(q, e) \in Seq(Legit) /\ Len(Append(q, e)) = n + 1 /\ DOMAIN Append(q, e) = 1 .. n + 1
    BY <1>2
  <2>2. Append(q, e)[n + 1] = e /\ \A p \in 1 .. n : Append(q, e)[p] = q[p]
    BY <1>2
  <2>3. QED BY <2>1, <2>2
<1>6. ASSUME NEW p \in 1 .. n + 1 PROVE r[p].seq[1] + ((n + 1) - p) + 0 >= k
  <2>1. CASE p = n + 1
    <3>1. r[p].seq[1] = k
      BY <1>5, <2>1
    <3>2. k + ((n + 1) - p) + 0 >= k
      BY <2>1
    <3>3. QED BY <3>1, <3>2
  <2>2. CASE p \in 1 .. n
    <3>1. PICK v \in Nat : v = q[p].seq[1]
      BY <1>3, <2>2
    <3>2. v + (n - p) + a >= k
      BY <1>3, <2>2, <3>1
    <3>3. v + ((n + 1) - p) + 0 >= k
      BY <2>2, <3>2
    <3>4. r[p].seq[1] = v
      BY <1>5, <2>2, <3>1
    <3>5. QED BY <3>3, <3>4
  <2>3. QED BY <2>1, <2>2
<1>7. Trails(Append(q, e), 0, k)
  BY <1>5, <1>6 DEF Trails
<1>8. ASSUME NEW size \in Nat, n < size, NEW x \in SP!Events(q) \union {e}
      PROVE  x.seq[1] + size > k
  <2>1. CASE x = e
    BY <1>8, <2>1
  <2>2. CASE x \in SP!Events(q)
    <3>1. PICK p \in 1 .. n : x = q[p]
      BY <1>4, <2>2 DEF SP!Events
    <3>2. PICK v \in Nat : v = q[p].seq[1]
      BY <1>3
    <3>3. v + (n - p) + a >= k
      BY <1>3, <3>2
    <3>4. v + size > k
      BY <1>8, <3>3
    <3>5. QED BY <3>1, <3>2, <3>4
  <2>3. QED BY <1>8, <2>1, <2>2
<1>9. QED BY <1>2, <1>7, <1>8

LEMMA TrailsMore ==
  ASSUME NEW q \in Seq(Legit), NEW k \in Nat, NEW j \in {k, k + 1}, Trails(q, 0, k)
  PROVE  Trails(q, 1, j)
<1>1. ASSUME NEW p \in DOMAIN q PROVE q[p].seq[1] + (Len(q) - p) + 1 >= j
  <2>1. PICK v \in Nat : v = q[p].seq[1]
    BY RequestsAssumption DEF Legit, AllEvents, Shares
  <2>2. v + (Len(q) - p) + 0 >= k
    BY <2>1 DEF Trails
  <2>3. v + (Len(q) - p) + 1 >= j
    BY <2>2
  <2>4. QED BY <2>1, <2>3
<1>2. QED BY <1>1 DEF Trails

LEMMA RecentStep ==
  ASSUME FleetInv, Samples, Stocked, Reading, Closing, Recent,
         NEW t \in Tasks, Acts(t), phase = "running", ~Stop
  PROVE  Recent'
<1>1. /\ "router" \in Consumers /\ "router" \in Tasks /\ "router" \notin Workers /\ "router" \in Sinks
      /\ Sole(Requested, "router") /\ "request" \in Places
  BY SubsFact, WorkersAssumption, SoleReaders, SinksFact DEF Places
<1>2. cursor[Requested] \in Nat /\ Batch["router"] \in Nat \ {0} /\ buffer["router"] \in Seq(Legit)
  BY <1>1, ChannelTypes, BatchAssumption DEF FleetInv, Stocked, SP!Holds
<1>3. flushing["router"] = "no" => SP!Load["router"] = {}
  BY <1>1, SP!IdleLoad, BatchAssumption, NobodyAssumption DEF Stocked
<1>4. CASE t # "router"
  <2>1. Aside("router")
    BY <1>1, <1>4, Bystander
  <2>2. cursor'[Requested] = cursor[Requested]
    BY <1>1, <1>4, ActsAlone DEF Reading
  <2>3. Calm("router")
    BY <1>1, <1>4, ActsStock DEF Closing
  <2>4. buffer'["router"] = buffer["router"]
    <3>1. CASE t # "runner"
      <4>1. SinkOf(t) # "router"
        BY <1>4 DEF SinkOf
      <4>2. QED BY <1>1, <3>1, <4>1, ActsStock DEF Closing
    <3>2. CASE t = "runner"
      <4>1. Store \/ FlushSink \/ Stop \/ UNCHANGED sinkVars
        BY <3>2, RunnerStock DEF Closing
      <4>2. ~FlushSink
        BY DEF FlushSink
      <4>3. QED BY <4>1, <4>2, StoreStock DEF sinkVars
    <3>3. QED BY <3>1, <3>2
  <2>5. QED BY <2>1, <2>2, <2>3, <2>4 DEF Recent, Aside, Calm
<1>5. CASE t = "router"
  <2>1. RouterRest \/ RouterRequest
    BY <1>1, <1>5 DEF Acts
  <2>2. CASE RouterReceive
    <3>1. /\ B!Take("router") /\ pc["router"] = "next" /\ pc'["router"] = "request"
          /\ UNCHANGED sinkVars /\ flushing["router"] = "no"
      BY <1>1, <2>2, Receives DEF RouterReceive
    <3>2. cursor'[Requested] \in {cursor[Requested], cursor[Requested] + 1}
      BY <1>1, <3>1, AloneTakes DEF FleetInv, Reading
    <3>3. buffer' = buffer /\ SP!Load' = SP!Load
      BY <3>1, StillStock DEF sinkVars
    <3>4. Trails(buffer["router"], 0, cursor[Requested])
      BY <3>1 DEF Recent
    <3>5. Trails(buffer["router"], 1, cursor'[Requested])
      BY <1>2, <3>2, <3>4, TrailsMore
    <3>6. QED BY <1>3, <3>1, <3>3, <3>5 DEF Recent
  <2>3. CASE RouterRequest \/ RouterChampion \/ RouterShadow
    <3>1. PICK b \in {0, 1, 2}, e \in Legit :
            /\ e.seq = <<cursor[Requested], b>> /\ (UNCHANGED <<held, cursor>>) /\ pc'["router"] # "request"
            /\ S!Emit("router", "router", e) /\ Stocked'
            /\ SP!Load'["router"] \subseteq SP!Events(buffer["router"]) \union {e}
      BY <2>3, RouterFills
    <3>2. PICK a \in {0, 1} : a = IF pc["router"] = "request" THEN 1 ELSE 0
      OBVIOUS
    <3>3. Trails(buffer["router"], a, cursor[Requested]) /\ Len(buffer["router"]) < Batch["router"]
      BY <3>2 DEF Recent
    <3>4. e.seq[1] = cursor[Requested]
      BY <3>1
    <3>5. /\ Trails(Append(buffer["router"], e), 0, cursor[Requested])
          /\ \A x \in SP!Events(buffer["router"]) \union {e} : x.seq[1] + Batch["router"] > cursor[Requested]
      BY <1>2, <3>3, <3>4, TrailsOn
    <3>6. Len(buffer["router"]) \in Nat /\ Len(Append(buffer["router"], e)) = Len(buffer["router"]) + 1
      BY <1>2
    <3>7. DOMAIN buffer = Sinks
      BY DEF Stocked, SP!Holds
    <3>8. CASE Len(buffer["router"]) + 1 >= Batch["router"]
      <4>1. buffer'["router"] = <<>>
        BY <1>1, <3>1, <3>7, <3>8 DEF S!Emit
      <4>2. Trails(<<>>, 0, cursor'[Requested]) /\ Len(<<>>) = 0
        BY DEF Trails
      <4>3. QED BY <1>2, <3>1, <3>5, <4>1, <4>2 DEF Recent
    <3>9. CASE ~(Len(buffer["router"]) + 1 >= Batch["router"])
      <4>1. buffer'["router"] = Append(buffer["router"], e)
        BY <1>1, <3>1, <3>7, <3>9 DEF S!Emit
      <4>2. Len(buffer'["router"]) < Batch["router"]
        BY <1>2, <3>6, <3>9, <4>1
      <4>3. QED BY <3>1, <3>5, <4>1, <4>2 DEF Recent
    <3>10. QED BY <3>8, <3>9
  <2>4. CASE ~RouterReceive /\ ~(RouterRequest \/ RouterChampion \/ RouterShadow)
    <3>1. /\ UNCHANGED sinkVars /\ cursor' = cursor
          /\ (pc'["router"] # "request" /\ pc["router"] # "request") \/ pc' = pc
      <4>1. CASE RouterPublish
        BY <4>1, RouterPublishes
      <4>2. CASE Acknowledge("router")
        BY <1>1, <4>2, Acks DEF Acknowledge, B!Ack
      <4>3. CASE Poll("router")
        BY <4>3 DEF Poll, busVars
      <4>4. QED BY <2>1, <2>4, <4>1, <4>2, <4>3 DEF RouterRest
    <3>2. buffer' = buffer /\ SP!Load' = SP!Load
      BY <3>1, StillStock DEF sinkVars
    <3>3. QED BY <3>1, <3>2 DEF Recent
  <2>5. QED BY <2>2, <2>3, <2>4
<1>6. QED BY <1>4, <1>5

LEMMA UnderwayStep ==
  ASSUME FleetInv, FleetInv', Samples, Stocked, Reading, Closing, Underway,
         NEW t \in Tasks, Acts(t), ~Stop
  PROVE  Underway'
<1>1. /\ "router" \in Consumers /\ "router" \notin Workers /\ "router" \in Relays
      /\ Sole(Requested, "router") /\ "request" \in Places /\ \A i : BandsOf(i) \subseteq {0, 1, 2}
  BY SubsFact, WorkersAssumption, SoleReaders DEF Relays, Places, BandsOf
<1>2. cursor[Requested] \in Nat
  BY <1>1, ChannelTypes DEF FleetInv
<1>3. ASSUME NEW i, NEW b \in BandsOf(i), <<i, b>> \in SP!KeptSeqs PROVE <<i, b>> \in SP!KeptSeqs'
  <2>1. b \in {0, 1, 2}
    BY <1>1
  <2>2. QED BY ONLY <1>3, <2>1, RouterSafe, FleetInv, Samples, Stocked, Closing, t \in Tasks, Acts(t), ~Stop
<1>4. CASE t # "router"
  <2>1. Aside("router")
    BY <1>1, <1>4, Bystander
  <2>2. cursor'[Requested] = cursor[Requested]
    BY <1>1, <1>4, ActsAlone DEF Reading
  <2>3. ASSUME NEW i \in 1 .. cursor[Requested], NEW b \in BandsOf(i), <<i, b>> \notin SP!KeptSeqs'
        PROVE  held'["router"] = <<Requested, i>> /\ pc'["router"] \in Before(b)
    <3>1. held["router"] = <<Requested, i>> /\ pc["router"] \in Before(b)
      BY <1>3, <2>3 DEF Underway
    <3>2. QED BY <2>1, <3>1 DEF Aside
  <2>4. QED BY <2>2, <2>3, Zenon DEF Underway
<1>5. CASE t = "router"
  <2>1. RouterRest \/ RouterRequest
    BY <1>1, <1>5 DEF Acts
  <2>2. CASE RouterReceive
    <3>1. /\ B!Take("router") /\ pc["router"] = "next" /\ pc'["router"] = "request"
          /\ held["router"] = Nothing /\ held'["router"] # Nothing
      BY <1>1, <2>2, Receives DEF RouterReceive
    <3>2. /\ Alone(Requested, "router")'
          /\ held'["router"][1] = Requested => cursor'[Requested] = cursor[Requested] + 1
          /\ held'["router"][1] # Requested => cursor'[Requested] = cursor[Requested]
      BY <1>1, <3>1, AloneTakes DEF FleetInv, Reading
    <3>3. ASSUME NEW i \in 1 .. cursor[Requested], NEW b \in BandsOf(i) PROVE <<i, b>> \in SP!KeptSeqs'
      <4>1. pc["router"] \notin Before(b)
        BY <3>1 DEF Before
      <4>2. <<i, b>> \in SP!KeptSeqs
        BY <4>1 DEF Underway
      <4>3. QED BY <1>3, <4>2
    <3>4. CASE held'["router"][1] # Requested
      <4>1. cursor'[Requested] = cursor[Requested]
        BY <3>2, <3>4
      <4>2. QED BY <3>3, <4>1, Zenon DEF Underway
    <3>5. CASE held'["router"][1] = Requested
      <4>1. held' \in [Consumers -> {Nothing} \union (BP!Channels \X Nat)]
        BY DEF FleetInv, BP!IInv, BP!TypeOK, BP!BusTypeOK
      <4>2. held'["router"] = <<held'["router"][1], held'["router"][2]>>
        BY <1>1, <3>1, <4>1
      <4>3. held'["router"][2] = cursor[Requested] + 1
        BY <3>1, <3>2, <3>5 DEF Alone
      <4>4. held'["router"] = <<Requested, cursor[Requested] + 1>>
        BY <3>5, <4>2, <4>3
      <4>5. \A i \in 1 .. cursor'[Requested] : i \in 1 .. cursor[Requested] \/ i = cursor[Requested] + 1
        BY <1>2, <3>2, <3>5
      <4>6. ASSUME NEW i \in 1 .. cursor'[Requested], NEW b \in BandsOf(i), <<i, b>> \notin SP!KeptSeqs'
            PROVE  held'["router"] = <<Requested, i>> /\ pc'["router"] \in Before(b)
        <5>1. i = cursor[Requested] + 1
          BY <3>3, <4>5, <4>6
        <5>2. pc'["router"] \in Before(b)
          BY <3>1 DEF Before
        <5>3. QED BY <4>4, <5>1, <5>2
      <4>7. QED BY <4>6, Zenon DEF Underway
    <3>6. QED BY <3>4, <3>5
  <2>3. CASE RouterRequest \/ RouterChampion \/ RouterShadow
    <3>1. PICK b \in {0, 1, 2} :
            /\ <<cursor[Requested], b>> \in SP!KeptSeqs' /\ held["router"] = <<Requested, cursor[Requested]>>
            /\ UNCHANGED <<held, cursor>>
            /\ \A c \in BandsOf(cursor[Requested]) : pc["router"] \in Before(c) => c = b \/ pc'["router"] \in Before(c)
      BY <2>3, RouterFills
    <3>2. ASSUME NEW i \in 1 .. cursor[Requested], NEW c \in BandsOf(i), <<i, c>> \notin SP!KeptSeqs'
          PROVE  held'["router"] = <<Requested, i>> /\ pc'["router"] \in Before(c)
      <4>1. held["router"] = <<Requested, i>> /\ pc["router"] \in Before(c)
        BY <1>3, <3>2 DEF Underway
      <4>2. i = cursor[Requested]
        BY <3>1, <4>1
      <4>3. QED BY <3>1, <3>2, <4>1, <4>2
    <3>3. cursor'[Requested] = cursor[Requested]
      BY <3>1
    <3>4. QED BY <3>2, <3>3, Zenon DEF Underway
  <2>4. CASE ~RouterReceive /\ ~(RouterRequest \/ RouterChampion \/ RouterShadow)
    <3>1. /\ cursor' = cursor
          /\ (\A b : pc["router"] \notin Before(b)) \/ UNCHANGED <<held, pc>>
      <4>1. CASE RouterPublish
        BY <4>1, RouterPublishes DEF Before
      <4>2. CASE Acknowledge("router")
        BY <1>1, <4>2, Acks DEF Acknowledge, B!Ack, Before
      <4>3. CASE Poll("router")
        BY <4>3 DEF Poll, busVars
      <4>4. QED BY <2>1, <2>4, <4>1, <4>2, <4>3 DEF RouterRest
    <3>2. ASSUME NEW i \in 1 .. cursor[Requested], NEW b \in BandsOf(i), <<i, b>> \notin SP!KeptSeqs'
          PROVE  held'["router"] = <<Requested, i>> /\ pc'["router"] \in Before(b)
      <4>1. held["router"] = <<Requested, i>> /\ pc["router"] \in Before(b)
        BY <1>3, <3>2 DEF Underway
      <4>2. QED BY <3>1, <4>1
    <3>3. cursor'[Requested] = cursor[Requested]
      BY <3>1
    <3>4. QED BY <3>2, <3>3, Zenon DEF Underway
  <2>5. QED BY <2>2, <2>3, <2>4
<1>6. QED BY <1>4, <1>5

(* The runner stops: what the router drops belongs to the last requests.   *)
LEMMA StopCuts ==
  ASSUME FleetInv, Punctual, Samples, Stocked, Busy, Reading, Closing, Underway, Recent, Stop
  PROVE  Cut'
<1>1. /\ "router" \in Consumers /\ "router" \in Relays /\ Sole(Requested, "router")
      /\ "router" \in Tasks /\ "router" \in Sinks /\ \A i : BandsOf(i) \subseteq {0, 1, 2}
  BY SubsFact, SoleReaders, SinksFact DEF Relays, BandsOf
<1>2. cursor[Requested] \in Nat /\ Batch["router"] \in Nat \ {0}
  BY <1>1, ChannelTypes, BatchAssumption DEF FleetInv
<1>3. cursor' = cursor /\ processed >= Target
  BY DEF Stop, busVars
<1>4. Sampled \subseteq 1 .. cursor[Requested]
  BY <1>3, SampledDone
<1>5. ASSUME NEW i, NEW b \in {0, 1, 2}, <<i, b>> \in SP!KeptSeqs, <<i, b>> \notin SP!KeptSeqs'
      PROVE  flushing["router"] # "no" /\ \E e \in SP!Load["router"] : e.seq = <<i, b>>
  <2>1. PICK q : q = <<i, b>>
    OBVIOUS
  <2>2. PICK u \in Tasks \ {"runner"} :
          flushing[u] # "no" /\ q[2] \in Bands[SinkOf(u)] /\ \E e \in SP!Load[u] : e.seq = q
    BY <1>5, <2>1, StopLoses
  <2>3. u = "router"
    BY <2>1, <2>2 DEF SinkOf, Bands
  <2>4. QED BY <2>1, <2>2, <2>3
<1>6. ASSUME NEW i \in 1 .. cursor[Requested], NEW b \in BandsOf(i), <<i, b>> \notin SP!KeptSeqs'
      PROVE  i + Batch["router"] > cursor[Requested] /\ cursor[Requested] \notin Sampled
  <2>1. CASE <<i, b>> \in SP!KeptSeqs
    <3>0. b \in {0, 1, 2}
      BY <1>1
    <3>1. flushing["router"] # "no" /\ \E e \in SP!Load["router"] : e.seq = <<i, b>>
      BY <1>5, <1>6, <2>1, <3>0
    <3>2. PICK e \in SP!Load["router"] : e.seq = <<i, b>>
      BY <3>1
    <3>3. e.seq[1] = i
      BY <3>2
    <3>4. i + Batch["router"] > cursor[Requested]
      BY <3>2, <3>3 DEF Recent
    <3>5. QED BY <1>3, <3>1, <3>4, RouterDone
  <2>2. CASE <<i, b>> \notin SP!KeptSeqs
    <3>1. held["router"] = <<Requested, i>> /\ pc["router"] \in Before(b)
      BY <1>6, <2>2 DEF Underway
    <3>2. pc["router"] # "ack" /\ pc["router"] # "next"
      BY <3>1 DEF Before
    <3>3. held["router"] # Nothing
      BY <1>1, <3>2 DEF FleetInv, Standing, Unfed
    <3>4. held["router"][1] = Requested /\ held["router"][2] = i
      BY <3>1
    <3>5. i = cursor[Requested]
      BY <3>3, <3>4 DEF Reading, Alone
    <3>6. cursor[Requested] \notin Sampled
      BY <1>3, <3>2, <3>3, <3>4, RouterDone
    <3>7. QED BY <1>2, <3>5, <3>6
  <2>3. QED BY <2>1, <2>2
<1>7. QED BY <1>3, <1>4, <1>6 DEF Cut, Entered

LEMMA RecordedStep ==
  ASSUME FleetInv, FleetInv', Punctual, Samples, Stocked, Busy, Reading, Closing, Recorded,
         NEW t \in Tasks, Acts(t)
  PROVE  Recorded'
<1>1. ASSUME phase' = "running" PROVE Underway' /\ Recent'
  <2>1. phase = "running" /\ ~Stop
    BY <1>1, PhasesStep
  <2>2. QED BY <2>1, UnderwayStep, RecentStep DEF Recorded
<1>2. ASSUME phase' \in {"flushing", "done"} PROVE Cut'
  <2>1. CASE Stop
    <3>1. phase = "running"
      BY <2>1 DEF Stop
    <3>2. QED BY <2>1, <3>1, StopCuts DEF Recorded
  <2>2. CASE phase \in {"flushing", "done"} /\ t = "runner" /\ ~Stop
    <3>1. Cut
      BY <2>2 DEF Recorded
    <3>2. cursor' = cursor
      BY <2>2, RunnerAside
    <3>3. ASSUME NEW i, Entered(i) PROVE Entered(i)'
      <4>1. ASSUME NEW b \in BandsOf(i) PROVE <<i, b>> \in SP!KeptSeqs'
        <5>1. b \in {0, 1, 2} /\ <<i, b>> \in SP!KeptSeqs
          BY <3>3 DEF BandsOf, Entered
        <5>2. QED BY <2>2, <5>1, RouterSafe
      <4>2. QED BY <4>1 DEF Entered
    <3>4. QED BY <3>1, <3>2, <3>3 DEF Cut
  <2>3. QED BY <1>2, <2>1, <2>2, PhasesStep
<1>3. QED BY <1>1, <1>2 DEF Recorded
-----------------------------------------------------------------------------
(* The alarm and the promotion have their rows, or these are on their way: *)
(* the decision service emits two events at most, so it never flushes.     *)
Reported == (IF alarmAt = Nothing THEN 0 ELSE 1) + (IF promotedAt = Nothing THEN 0 ELSE 1)

Decided ==
  /\ flushing["decision"] = "no"
  /\ Len(buffer["decision"]) <= Reported
  /\ alarmAt # Nothing => <<alarmAt, 6>> \in SP!KeptSeqs
  /\ promotedAt # Nothing => <<promotedAt, 6>> \in SP!KeptSeqs

(* What the others do about its sink is to flush it, in the end.           *)
LEMMA SinkSpared ==
  ASSUME FleetInv, Samples, Stocked, Closing, flushing["decision"] = "no",
         NEW t \in Tasks, Acts(t), t # "decision"
  PROVE  /\ flushing'["decision"] = "no" /\ UNCHANGED <<alarmAt, promotedAt>>
         /\ buffer'["decision"] = buffer["decision"] \/ buffer'["decision"] = <<>>
<1>1. "decision" \in Tasks /\ "decision" \in Sinks
  BY SubsFact, SinksFact
<1>2. flushing'["decision"] = "no"
  BY <1>1, ActsStock DEF Closing, Calm
<1>3. UNCHANGED <<alarmAt, promotedAt>>
  BY ActsAside DEF decisionVars
<1>4. CASE t # "runner"
  <2>1. SinkOf(t) # "decision"
    BY DEF SinkOf
  <2>2. QED BY <1>1, <1>2, <1>3, <1>4, <2>1, ActsStock DEF Closing
<1>5. CASE t = "runner"
  <2>1. CASE Store
    BY <1>2, <1>3, <2>1, StoreStock
  <2>2. CASE FlushSink
    <3>1. PICK s : s = Head(toFlush)
      OBVIOUS
    <3>2. flushing["runner"] = "no" /\ S!Flush("runner", s) /\ s \in Sinks
      BY <2>2, <3>1 DEF FlushSink, Closing
    <3>3. buffer'[s] = <<>> /\ \A r \in Sinks \ {s} : buffer'[r] = buffer[r]
      BY <3>2, FlushStock
    <3>4. QED BY <1>1, <1>2, <1>3, <3>3
  <2>3. CASE Stop
    BY <1>2, <1>3, <2>3 DEF Stop, S!CancelAll
  <2>4. CASE UNCHANGED sinkVars
    BY <1>2, <1>3, <2>4 DEF sinkVars
  <2>5. QED BY <1>5, <2>1, <2>2, <2>3, <2>4, RunnerStock DEF Closing
<1>6. QED BY <1>4, <1>5

LEMMA DecidedStep ==
  ASSUME FleetInv, Samples, Stocked, Closing, Batch["decision"] > 2, Decided,
         NEW t \in Tasks, Acts(t)
  PROVE  Decided'
<1>1. /\ "decision" \in Tasks /\ "decision" \in Sinks /\ "decision" \notin Workers
      /\ Batch["decision"] \in Nat /\ buffer["decision"] \in Seq(Legit)
  BY SubsFact, SinksFact, WorkersAssumption, BatchAssumption DEF Stocked, SP!Holds
<1>2. \A i : <<i, 6>> \in SP!KeptSeqs => <<i, 6>> \in SP!KeptSeqs'
  <2>1. SUFFICES ASSUME NEW i, <<i, 6>> \in SP!KeptSeqs, <<i, 6>> \notin SP!KeptSeqs' PROVE FALSE
    OBVIOUS
  <2>2. ~Safe
    BY <2>1 DEF Safe
  <2>3. CASE Stop
    <3>1. PICK u \in Tasks \ {"runner"} : flushing[u] # "no" /\ 6 \in Bands[SinkOf(u)]
      BY <2>1, <2>3, StopLoses
    <3>2. u = "decision"
      BY <3>1 DEF SinkOf, Bands
    <3>3. QED BY <3>1, <3>2 DEF Decided
  <2>4. CASE t \in Workers /\ KillWorker(t)
    BY <2>1, <2>4, KillLoses
  <2>5. QED BY <2>2, <2>3, <2>4, ActsStock DEF Closing
<1>3. CASE t # "decision"
  <2>0. flushing["decision"] = "no"
    BY DEF Decided
  <2>1. flushing'["decision"] = "no"
    BY <1>3, <2>0, SinkSpared
  <2>2. UNCHANGED <<alarmAt, promotedAt>>
    BY <1>3, <2>0, SinkSpared
  <2>3. buffer'["decision"] = buffer["decision"] \/ buffer'["decision"] = <<>>
    BY <1>3, <2>0, SinkSpared
  <2>4. Len(buffer'["decision"]) <= Reported'
    <3>1. Reported' = Reported /\ Reported \in Nat
      BY <2>2 DEF Reported
    <3>2. Len(<<>>) = 0
      OBVIOUS
    <3>3. QED BY <2>3, <3>1, <3>2 DEF Decided
  <2>5. QED BY <1>2, <2>1, <2>2, <2>4 DEF Decided
<1>4. CASE t = "decision"
  <2>1. Decision
    <3>1. "decision" \notin {"traffic", "router", "runner"}
      OBVIOUS
    <3>2. QED BY <1>1, <1>4, <3>1 DEF Acts
  <2>2. CASE (UNCHANGED <<sinkVars, alarmAt, promotedAt>>) /\ flushing["decision"] = "no"
    BY <1>2, <2>2 DEF Decided, Reported, sinkVars
  <2>3. CASE /\ \/ alarmAt = Nothing /\ alarmAt' = Job["decision"] /\ promotedAt' = promotedAt
                \/ promotedAt = Nothing /\ promotedAt' = Job["decision"] /\ alarmAt' = alarmAt
             /\ Job["decision"] # Nothing /\ <<Job["decision"], 6>> \in SP!KeptSeqs'
             /\ Len(buffer["decision"]) + 1 < Batch["decision"] =>
                  flushing' = flushing /\ Len(buffer'["decision"]) = Len(buffer["decision"]) + 1
    <3>1. Reported \in {0, 1} /\ Reported' = Reported + 1
      BY <2>3 DEF Reported
    <3>2. Len(buffer["decision"]) \in Nat
      BY <1>1
    <3>3. Len(buffer["decision"]) + 1 < Batch["decision"]
      BY <1>1, <3>1, <3>2 DEF Decided
    <3>4. flushing'["decision"] = "no" /\ Len(buffer'["decision"]) <= Reported'
      BY <2>3, <3>1, <3>2, <3>3 DEF Decided
    <3>5. /\ alarmAt' # Nothing => <<alarmAt', 6>> \in SP!KeptSeqs'
          /\ promotedAt' # Nothing => <<promotedAt', 6>> \in SP!KeptSeqs'
      BY <1>2, <2>3 DEF Decided
    <3>6. QED BY <3>4, <3>5 DEF Decided
  <2>4. QED BY <2>1, <2>2, <2>3, DecisionStock
<1>5. QED BY <1>3, <1>4
-----------------------------------------------------------------------------
OutcomeInv == FleetInv /\ Samples /\ Stocked /\ Busy /\ Reading /\ Closing

LEMMA InitOutcome == Init => OutcomeInv /\ Backed /\ Recorded /\ Decided
<1> SUFFICES ASSUME Init PROVE OutcomeInv /\ Backed /\ Recorded /\ Decided
  OBVIOUS
<1>1. FleetInv
  BY InitInv DEF Init
<1>2. /\ B!BusInit /\ S!SinkInit /\ processed = 0 /\ alarmAt = Nothing /\ promotedAt = Nothing
      /\ phase = "running" /\ toFlush = FinalFlushes
      /\ pc = [t \in Tasks |-> IF t = "decision" THEN "next" ELSE "next"]
  BY DEF Init, InitWith
<1>3. /\ "router" \in Tasks /\ "runner" \in Tasks /\ "decision" \in Tasks /\ Workers \subseteq Tasks
      /\ "router" \in Consumers /\ "decision" \in Consumers
      /\ {"pairs", "verdicts", "alarms"} \subseteq Streams
      /\ {"router", "judge", "decision"} \subseteq Sinks
  BY SubsFact, SinksFact DEF Streams
<1>4. /\ \A s \in Streams : log[s] = <<>>
      /\ \A c \in Consumers : held[c] = Nothing
      /\ \A ch \in B!Channels : cursor[ch] = 0 /\ DOMAIN pending[ch] = {}
  BY <1>2 DEF B!BusInit
<1>5. /\ buffer = [s \in Sinks |-> <<>>] /\ flushing = [t \in Tasks |-> "no"] /\ SP!SinkInit
  BY <1>2 DEF S!SinkInit, SP!SinkInit
<1>6. B!Channels = BP!Channels
  BY DEF B!Channels, BP!Channels, B!Readers, BP!Readers, B!Range, BP!Range
<1>7. Requested \in BP!Channels /\ Verdicts \in BP!Channels
  BY SoleReaders, ChannelTypes, <1>1 DEF FleetInv
<1>8. log["pairs"] = <<>> /\ log["verdicts"] = <<>> /\ log["alarms"] = <<>>
  BY <1>3, <1>4
<1>9. \A t \in Tasks : pc[t] = "next" /\ flushing[t] = "no"
  BY <1>2, <1>5
<1>10. Samples
  BY <1>3, <1>8, <1>9 DEF Samples
<1>11. SP!Holds(Legit) /\ SP!Owned
  BY <1>5, SP!SinkInitHolds, SP!SinkInitOwned, BatchAssumption, NobodyAssumption
<1>12. (\A t \in Tasks : SP!Load[t] = {}) /\ SP!Events(<<>>) = {}
  <2>1. SP!Events(<<>>) = {}
    BY DEF SP!Events
  <2>2. QED BY <1>9, <1>11, <2>1, SP!IdleLoad, BatchAssumption, NobodyAssumption
<1>13. Stocked
  BY <1>5, <1>11, <1>12 DEF Stocked
<1>14. Busy
  BY <1>3, <1>9 DEF Busy
<1>15. Reading
  BY <1>2, <1>3, <1>4, <1>6, <1>7, <1>8 DEF Reading, Alone, Undecided
<1>16. Closing
  BY <1>2, <1>3, <1>9, FinalFact DEF Closing
<1>17. Backed
  BY <1>3, <1>5, <1>8, <1>9, <1>12 DEF Backed
<1>18. Recorded
  <2>1. cursor[Requested] = 0 /\ buffer["router"] = <<>> /\ SP!Load["router"] = {} /\ phase = "running"
    BY <1>2, <1>3, <1>4, <1>5, <1>6, <1>7, <1>12
  <2>2. Batch["router"] \in Nat \ {0}
    BY <1>3, BatchAssumption
  <2>3. Recent
    <3>1. Len(<<>>) = 0 /\ \A a, k : Trails(<<>>, a, k)
      BY DEF Trails
    <3>2. QED BY <2>1, <2>2, <3>1 DEF Recent
  <2>4. QED BY <2>1, <2>3 DEF Recorded, Underway
<1>19. Decided
  <2>1. buffer["decision"] = <<>> /\ Len(<<>>) = 0 /\ Reported = 0
    BY <1>2, <1>3, <1>5 DEF Reported
  <2>2. QED BY <1>2, <1>3, <1>9, <2>1 DEF Decided
<1>20. QED BY <1>1, <1>10, <1>13, <1>14, <1>15, <1>16, <1>17, <1>18, <1>19 DEF OutcomeInv

LEMMA NextOutcome ==
  ASSUME Punctual, "ack" \notin Suspends, OutcomeInv, [Next]_vars
  PROVE  /\ OutcomeInv'
         /\ (Batch["judge"] = 1 \/ MaxKills = 0) /\ Backed => Backed'
         /\ Recorded => Recorded'
         /\ Batch["decision"] > 2 /\ Decided => Decided'
<1>1. FleetInv'
  BY NextInv DEF OutcomeInv
<1>2. PICK t \in Tasks : Acts(t)
  BY SomebodyActs
<1>3. FleetInv /\ Samples /\ Stocked /\ Busy /\ Reading /\ Closing /\ toFlush \in Seq(Sinks)
  BY DEF OutcomeInv, Closing
<1>4. Samples' /\ Stocked' /\ Busy' /\ Reading' /\ Closing'
  BY <1>2, <1>3, SamplesStep, ActsStock, BusyStep, ReadingStep, ClosingStep
<1>5. (Batch["judge"] = 1 \/ MaxKills = 0) /\ Backed => Backed'
  BY <1>2, <1>3, BackedStep
<1>6. Recorded => Recorded'
  BY <1>1, <1>2, <1>3, <1>4, RecordedStep
<1>7. Batch["decision"] > 2 /\ Decided => Decided'
  BY <1>2, <1>3, DecidedStep
<1>8. QED BY <1>1, <1>4, <1>5, <1>6, <1>7 DEF OutcomeInv
-----------------------------------------------------------------------------
(* What the invariant says at the end.                                     *)
LEMMA KeptFact == \A q : S!Kept(q) <=> q \in SP!KeptSeqs
  BY DEF S!Kept, SP!KeptSeqs, S!InFlight, SP!InFlight, S!Events, SP!Events

LEMMA DoneStores ==
  ASSUME Stocked, Closing, phase = "done", NEW q \in SP!KeptSeqs
  PROVE  S!Stored(q)
<1>1. /\ \A t \in Tasks : flushing[t] = "no"
      /\ \A s \in Sinks : buffer[s] = <<>>
  BY DEF Closing
<1>2. SP!Owned /\ SP!Kept(q)
  BY SP!KeptIs, BatchAssumption, NobodyAssumption DEF Stocked
<1>3. SP!Stored(q)
  BY <1>1, <1>2, SP!SettledStores, BatchAssumption, NobodyAssumption
<1>4. QED BY <1>3 DEF S!Stored, SP!Stored, S!Events, SP!Events

LEMMA FingerprintIs ==
  ASSUME OutcomeInv, Backed, phase = "done"
  PROVE  Fingerprint = {<<i, Winner[i]>> : i \in Sampled}
<1>1. /\ \A q \in DOMAIN rows : \E e \in Legit : e.seq = q /\ e.body = rows[q]
      /\ \A th \in threads : \A e \in S!Events(th.todo) : e \in Legit
  <2>1. \A th \in threads : th.todo \in Seq(Legit)
    BY DEF OutcomeInv, Stocked, SP!Holds
  <2>2. QED BY <2>1 DEF OutcomeInv, Stocked, SP!Holds, S!Events
<1>2. \A e \in Legit : e.seq[2] = 5 => e.seq[1] \in Sampled /\ e.body = Winner[e.seq[1]]
  BY DEF Legit
<1>3. ASSUME NEW x \in Fingerprint PROVE x \in {<<i, Winner[i]>> : i \in Sampled}
  <2>1. CASE \E q \in DOMAIN rows : q[2] = 5 /\ x = <<q[1], rows[q]>>
    <3>1. PICK q \in DOMAIN rows : q[2] = 5 /\ x = <<q[1], rows[q]>>
      BY <2>1
    <3>2. q[1] \in Sampled /\ rows[q] = Winner[q[1]]
      BY <1>1, <1>2, <3>1
    <3>3. QED BY <3>1, <3>2
  <2>2. CASE \E th \in threads : \E e \in S!Events(th.todo) : e.seq[2] = 5 /\ x = <<e.seq[1], e.body>>
    BY <1>1, <1>2, <2>2
  <2>3. QED BY <1>3, <2>1, <2>2 DEF Fingerprint
<1>4. ASSUME NEW i \in Sampled PROVE <<i, Winner[i]>> \in Fingerprint
  <2>1. PICK k \in DOMAIN log["verdicts"] : log["verdicts"][k][2] = i
    BY AllPublished DEF OutcomeInv, Closing
  <2>2. <<i, 5>> \in SP!KeptSeqs
    BY <2>1 DEF Backed
  <2>3. S!Stored(<<i, 5>>)
    BY <2>2, DoneStores DEF OutcomeInv
  <2>4. CASE <<i, 5>> \in DOMAIN rows
    <3>1. PICK q : q = <<i, 5>>
      OBVIOUS
    <3>2. q \in DOMAIN rows /\ q[2] = 5 /\ q[1] = i
      BY <2>4, <3>1
    <3>3. rows[q] = Winner[i]
      BY <1>1, <1>2, <3>2
    <3>4. QED BY <3>2, <3>3 DEF Fingerprint
  <2>5. CASE \E th \in threads : \E e \in S!Events(th.todo) : e.seq = <<i, 5>>
    <3>1. PICK th \in threads : \E e \in S!Events(th.todo) : e.seq = <<i, 5>>
      BY <2>5
    <3>2. PICK e \in S!Events(th.todo) : e.seq = <<i, 5>>
      BY <3>1
    <3>3. e.seq[1] = i /\ e.seq[2] = 5 /\ e.body = Winner[i]
      BY <1>1, <1>2, <3>2
    <3>4. QED BY <3>2, <3>3 DEF Fingerprint
  <2>6. QED BY <2>3, <2>4, <2>5 DEF S!Stored
<1>5. QED BY <1>3, <1>4

(* Whoever is killed and when, the detectors decide on nothing that the    *)
(* log misses: a published verdict has its row, or the row is on its way.  *)
(* A worker that is killed takes its unfinished flush along, so either its *)
(* sink flushes every event by itself (JudgeWorker's emit then returns     *)
(* when the row is written) or nobody is killed: with a larger batch and a *)
(* kill the run LostVerdict shows the verdict that is lost.                *)
THEOREM VerdictsAreBacked ==
  ASSUME Punctual, "ack" \notin Suspends, Batch["judge"] = 1 \/ MaxKills = 0
  PROVE  Spec => []VerdictBacked
<1>1. Init => OutcomeInv /\ Backed
  BY InitOutcome
<1>2. OutcomeInv /\ Backed /\ [Next]_vars => OutcomeInv' /\ Backed'
  BY NextOutcome
<1>3. OutcomeInv /\ Backed => VerdictBacked
  BY KeptFact DEF Backed, VerdictBacked
<1>4. QED BY <1>1, <1>2, <1>3, PTL DEF Spec

(* Whoever is killed and when, a run that ends has in its log one verdict  *)
(* per pair, the one the pair calls for, and a row for the alarm and the   *)
(* promotion it reports: two events at most, which the decision service's  *)
(* sink keeps to the end if its batch is larger than that.                 *)
THEOREM PairsAreJudged ==
  ASSUME Punctual, "ack" \notin Suspends, Batch["judge"] = 1 \/ MaxKills = 0, Batch["decision"] > 2
  PROVE  Spec => []EveryPairJudged
<1>1. Init => OutcomeInv /\ Backed /\ Decided
  BY InitOutcome
<1>2. OutcomeInv /\ Backed /\ Decided /\ [Next]_vars => OutcomeInv' /\ Backed' /\ Decided'
  BY NextOutcome
<1>3. ASSUME OutcomeInv, Backed, Decided PROVE EveryPairJudged
  <2>1. SUFFICES ASSUME phase = "done"
                 PROVE  /\ Fingerprint = {<<i, Winner[i]>> : i \in Sampled}
                        /\ \A i \in {alarmAt, promotedAt} \ {Nothing} : S!Stored(<<i, 6>>)
    BY DEF EveryPairJudged
  <2>2. Fingerprint = {<<i, Winner[i]>> : i \in Sampled}
    BY <1>3, <2>1, FingerprintIs
  <2>3. ASSUME NEW i \in {alarmAt, promotedAt} \ {Nothing} PROVE S!Stored(<<i, 6>>)
    <3>1. <<i, 6>> \in SP!KeptSeqs
      BY <1>3 DEF Decided
    <3>2. QED BY <1>3, <2>1, <3>1, DoneStores DEF OutcomeInv
  <2>4. QED BY <2>2, <2>3
<1>4. QED BY <1>1, <1>2, <1>3, PTL DEF Spec

(* "waits until exactly that many verdicts are processed, drains, flushes  *)
(* every sink, and stops" (src/coalmine/fleet/runner.py:5-7): whoever is   *)
(* killed, a run that ends has taken up every sampled request and stored   *)
(* all events of each it took up, whatever is sampled and however the      *)
(* requests behind the last sampled one were cut off.  What the cancelled  *)
(* router drops is a batch of the last requests, behind every sampled one. *)
THEOREM RequestsAreRecorded ==
  ASSUME Punctual, "ack" \notin Suspends
  PROVE  Spec => []RequestsRecorded
<1>1. Init => OutcomeInv /\ Recorded
  BY InitOutcome
<1>2. OutcomeInv /\ Recorded /\ [Next]_vars => OutcomeInv' /\ Recorded'
  BY NextOutcome
<1>3. ASSUME OutcomeInv, Recorded PROVE RequestsRecorded
  <2>1. SUFFICES ASSUME phase = "done"
                 PROVE  /\ Sampled \subseteq 1 .. cursor[Requested]
                        /\ \A i \in 1 .. cursor[Requested] :
                             \/ RequestKept(i)
                             \/ i + Batch["router"] > cursor[Requested] /\ cursor[Requested] \notin Sampled
    BY DEF RequestsRecorded, Requested
  <2>2. Cut
    BY <1>3, <2>1 DEF Recorded
  <2>3. \A i : Entered(i) => RequestKept(i)
    BY KeptFact DEF RequestKept, BandsOf, Entered
  <2>4. QED BY <2>2, <2>3 DEF Cut
<1>4. QED BY <1>1, <1>2, <1>3, PTL DEF Spec
-----------------------------------------------------------------------------
(* The facts about numbers that come with the bus.                         *)
LEMMA Counting ==
  ASSUME NEW G, 0 \in G, \A k \in Nat : k \in G => k + 1 \in G
  PROVE  Nat \subseteq G
  BY BP!Counting, SubsFact, NothingFact, ReclaimIdleAssumption, RequestsAssumption, KillsAssumption

LEMMA Recursion ==
  ASSUME NEW D, NEW z \in D, NEW F \in [Nat -> [D -> D]], NEW i \in Nat \ {0},
         NEW I, BP!Downward(I)
  PROVE  \E f \in [I -> D] : BP!Recurs(f, I, i, z, F)
  BY BP!Recursion, SubsFact, NothingFact, ReclaimIdleAssumption, RequestsAssumption, KillsAssumption

(***************************************************************************)
(* What the detectors are made of: the verdicts the decision service has   *)
(* processed, each once and in the order of the stream.                    *)
(***************************************************************************)
DetectorStates ==
  [stat : Nat, alarmed : BOOLEAN, wins : Nat, losses : Nat, rejected : BOOLEAN]

(* One verdict more, and all those from position i to j of stream v.       *)
Weighs(d, pair) ==
  IF Winner[pair] = "tie" THEN d
  ELSE PromotionUpdate(CusumUpdate(d, Winner[pair] = "b"), Winner[pair] = "b")

Folded(v, i, j) ==
  LET fold[k \in Nat] == IF k < i THEN FreshDetectors ELSE Weighs(fold[k - 1], v[k][2])
  IN fold[j]

LEMMA FreshFact == FreshDetectors \in DetectorStates
  BY DEF FreshDetectors, DetectorStates

LEMMA CusumFacts ==
  ASSUME NEW d \in DetectorStates, NEW win \in BOOLEAN
  PROVE  /\ CusumUpdate(d, win) \in DetectorStates
         /\ d.alarmed => CusumUpdate(d, win) = d
<1>1. Most(0, d.stat - Down) \in Nat /\ d.stat + Up \in Nat
  BY CusumAssumption DEF Most, DetectorStates
<1>2. PICK stat \in Nat : stat = IF win THEN Most(0, d.stat - Down) ELSE d.stat + Up
  BY <1>1
<1>3. CusumUpdate(d, win) =
        IF d.alarmed THEN d ELSE [d EXCEPT !.stat = stat, !.alarmed = stat >= H]
  BY <1>2 DEF CusumUpdate
<1>4. (stat >= H) \in BOOLEAN
  BY CusumAssumption
<1>5. QED BY <1>3, <1>4 DEF DetectorStates

LEMMA PromotionFacts ==
  ASSUME NEW d \in DetectorStates, NEW win \in BOOLEAN
  PROVE  /\ PromotionUpdate(d, win) \in DetectorStates
         /\ PromotionUpdate(d, win).stat = d.stat
         /\ PromotionUpdate(d, win).alarmed = d.alarmed
<1> DEFINE wins == d.wins + (IF win THEN 1 ELSE 0)
           losses == d.losses + (IF win THEN 0 ELSE 1)
           e == [d EXCEPT !.wins = wins, !.losses = losses, !.rejected = <<wins, losses>> \in PromoteAt]
<1>1. wins \in Nat /\ losses \in Nat
  BY DEF DetectorStates
<1>2. (<<wins, losses>> \in PromoteAt) \in BOOLEAN
  OBVIOUS
<1>3. e \in DetectorStates /\ e.stat = d.stat /\ e.alarmed = d.alarmed
  <2> HIDE DEF wins, losses
  <2>1. QED BY <1>1, <1>2 DEF DetectorStates
<1>4. PromotionUpdate(d, win) = IF d.rejected THEN d ELSE e
  BY DEF PromotionUpdate
<1>5. QED
  <2> HIDE DEF e
  <2>1. QED BY <1>3, <1>4

LEMMA WeighsFact == ASSUME NEW d \in DetectorStates, NEW pair PROVE Weighs(d, pair) \in DetectorStates
<1>1. (Winner[pair] = "b") \in BOOLEAN
  OBVIOUS
<1>2. QED BY <1>1, CusumFacts, PromotionFacts DEF Weighs

LEMMA FoldedIs ==
  ASSUME NEW v, NEW i \in Nat \ {0}, NEW j \in Nat
  PROVE  /\ Folded(v, i, j) \in DetectorStates
         /\ j < i => Folded(v, i, j) = FreshDetectors
         /\ j >= i => Folded(v, i, j) = Weighs(Folded(v, i, j - 1), v[j][2])
<1> DEFINE body(f) == [k \in Nat |-> IF k < i THEN FreshDetectors ELSE Weighs(f[k - 1], v[k][2])]
           F == [k \in Nat |-> [d \in DetectorStates |-> Weighs(d, v[k][2])]]
           h == CHOOSE f : f = body(f)
<1>1. F \in [Nat -> [DetectorStates -> DetectorStates]]
  BY WeighsFact
<1>2. \E f : f = body(f)
  <2>1. PICK f \in [Nat -> DetectorStates] :
          \A k \in Nat : f[k] = IF k < i THEN FreshDetectors ELSE F[k][f[k - 1]]
    <3> HIDE DEF F
    <3>1. BP!Downward(Nat)
      BY DEF BP!Downward
    <3>2. \E f \in [Nat -> DetectorStates] : BP!Recurs(f, Nat, i, FreshDetectors, F)
      BY <1>1, <3>1, FreshFact, Recursion
    <3>3. QED BY <3>2 DEF BP!Recurs
  <2>2. ASSUME NEW k \in Nat PROVE f[k] = body(f)[k]
    <3>1. CASE k < i
      BY <2>1, <3>1
    <3>2. CASE k >= i
      <4>1. k - 1 \in Nat
        BY <3>2
      <4>2. f[k - 1] \in DetectorStates
        BY <4>1
      <4>3. QED BY <2>1, <3>2, <4>2
    <3>3. QED BY <3>1, <3>2
  <2>3. f = body(f)
    BY <2>2
  <2>4. QED BY <2>3
<1>3. h = body(h)
  <2> HIDE DEF body
  <2>1. QED BY <1>2
<1>4. \A k \in Nat : h[k] = IF k < i THEN FreshDetectors ELSE Weighs(h[k - 1], v[k][2])
  <2> HIDE DEF h
  <2>1. QED BY <1>3
<1>5. \A k \in Nat : Folded(v, i, k) = h[k]
  BY DEF Folded
<1> HIDE DEF h
<1>6. Nat \subseteq {k \in Nat : h[k] \in DetectorStates}
  <2> DEFINE G == {k \in Nat : h[k] \in DetectorStates}
  <2>1. 0 \in G
    BY <1>4, FreshFact
  <2>2. ASSUME NEW k \in Nat, k \in G PROVE k + 1 \in G
    <3>1. (k + 1) - 1 = k
      OBVIOUS
    <3>2. h[k + 1] = FreshDetectors \/ h[k + 1] = Weighs(h[k], v[k + 1][2])
      BY <1>4, <3>1
    <3>3. QED BY <2>2, <3>2, FreshFact, WeighsFact
  <2>3. Nat \subseteq G
    <3> HIDE DEF G
    <3>1. QED BY <2>1, <2>2, Counting
  <2>4. QED BY <2>3
<1>7. j >= i => j - 1 \in Nat
  OBVIOUS
<1>8. QED BY <1>4, <1>5, <1>6, <1>7

(* The tests of the properties are the fold the invariant speaks of.         *)
LEMMA FedIs == ASSUME NEW i, NEW j \in Nat PROVE Fed(i, j) = Folded(log["verdicts"], i, j)
<1> DEFINE body(f) == [k \in Nat |-> IF k < i THEN FreshDetectors
                                     ELSE Weighs(f[k - 1], log["verdicts"][k][2])]
           fed(f) == [k \in Nat |->
                        IF k < i THEN FreshDetectors
                        ELSE LET pair == log["verdicts"][k][2]
                                 win  == Winner[pair] = "b"
                             IN IF Winner[pair] = "tie" THEN f[k - 1]
                                ELSE PromotionUpdate(CusumUpdate(f[k - 1], win), win)]
<1>1. \A f : fed(f) = body(f)
  BY Zenon DEF Weighs
<1>2. (CHOOSE f : f = fed(f)) = (CHOOSE f : f = body(f))
  <2> HIDE DEF fed, body
  <2>1. QED BY <1>1
<1>3. Fed(i, j) = (CHOOSE f : f = fed(f))[j]
  BY Zenon DEF Fed
<1>4. Folded(log["verdicts"], i, j) = (CHOOSE f : f = body(f))[j]
  BY Zenon DEF Folded
<1>5. QED
  <2> HIDE DEF fed, body
  <2>1. QED BY <1>2, <1>3, <1>4

(* It depends on the verdicts it is made of.                               *)
LEMMA FoldedSame ==
  ASSUME NEW v, NEW u, NEW i \in Nat \ {0}, NEW j \in Nat, \A k \in i .. j : u[k][2] = v[k][2]
  PROVE  Folded(u, i, j) = Folded(v, i, j)
<1> DEFINE G == {n \in Nat : n <= j => Folded(u, i, n) = Folded(v, i, n)}
<1>1. 0 \in G
  <2>1. 0 < i
    OBVIOUS
  <2>2. QED BY <2>1, FoldedIs
<1>2. ASSUME NEW n \in Nat, n \in G PROVE n + 1 \in G
  <2>1. (n + 1) - 1 = n
    OBVIOUS
  <2>2. SUFFICES ASSUME n + 1 <= j PROVE Folded(u, i, n + 1) = Folded(v, i, n + 1)
    OBVIOUS
  <2>3. CASE n + 1 < i
    <3>1. n + 1 \in Nat
      OBVIOUS
    <3>2. QED BY <2>3, <3>1, FoldedIs
  <2>4. CASE n + 1 >= i
    <3>1. u[n + 1][2] = v[n + 1][2] /\ Folded(u, i, n) = Folded(v, i, n)
      BY <1>2, <2>2, <2>4
    <3>2. /\ Folded(u, i, n + 1) = Weighs(Folded(u, i, n), u[n + 1][2])
          /\ Folded(v, i, n + 1) = Weighs(Folded(v, i, n), v[n + 1][2])
      BY <2>1, <2>4, FoldedIs
    <3>3. QED BY <3>1, <3>2
  <2>5. QED BY <2>3, <2>4
<1>3. j \in G
  <2> HIDE DEF G
  <2>1. QED BY <1>1, <1>2, Counting
<1>4. QED BY <1>3
-----------------------------------------------------------------------------
(* All verdicts but the one in hand have been processed.                   *)
Tallied ==
  /\ \A k \in DOMAIN log["verdicts"] : log["verdicts"][k][1] = "verdict"
  /\ processed = IF Undecided THEN cursor[Verdicts] - 1 ELSE cursor[Verdicts]

(* The detectors are fed with those from the g-th on; the promotion test   *)
(* has still to take the last one while the service is at "alarm" or at    *)
(* "promote".                                                              *)
Weighing(g) ==
  /\ g \in Nat /\ g <= processed
  /\ pc["decision"] \in {"next", "decide", "ack"} =>
       detectors = Folded(log["verdicts"], g + 1, processed)
  /\ pc["decision"] \in {"alarm", "promote"} =>
       /\ g < processed /\ held["decision"] = <<Verdicts, processed>>
       /\ Winner[Job["decision"]] # "tie"
       /\ detectors = CusumUpdate(Folded(log["verdicts"], g + 1, processed - 1),
                                  Winner[Job["decision"]] = "b")

LEMMA VerdictTypes ==
  ASSUME FleetInv
  PROVE  /\ cursor[Verdicts] \in Nat /\ cursor[Verdicts] <= Len(log["verdicts"])
         /\ log["verdicts"] \in Seq(Payloads) /\ 1 .. cursor[Verdicts] \subseteq DOMAIN log["verdicts"]
<1>1. Sole(Verdicts, "decision")
  BY SoleReaders
<1>2. BP!BusTypeOK /\ Verdicts \in BP!Channels
  BY <1>1, ChannelTypes DEF FleetInv, BP!IInv, BP!TypeOK
<1>3. Verdicts[1] = "verdicts" /\ "verdicts" \in Streams
  BY DEF Verdicts, Streams
<1>4. /\ cursor[Verdicts] \in Nat /\ cursor[Verdicts] <= Len(log["verdicts"])
      /\ log["verdicts"] \in Seq(Payloads)
  BY <1>2, <1>3 DEF BP!BusTypeOK
<1>5. PICK n \in Nat : n = cursor[Verdicts]
  BY <1>4
<1>6. 1 .. n \subseteq DOMAIN log["verdicts"]
  BY <1>4, <1>5
<1>7. QED BY <1>4, <1>5, <1>6

(* The verdict in hand is the last one read.                               *)
LEMMA VerdictInHand ==
  ASSUME FleetInv, Reading, held["decision"] # Nothing, held["decision"][1] = Verdicts
  PROVE  /\ held["decision"] = <<Verdicts, cursor[Verdicts]>>
         /\ cursor[Verdicts] \in DOMAIN log["verdicts"] /\ cursor[Verdicts] > 0
         /\ Job["decision"] = log["verdicts"][cursor[Verdicts]][2]
         /\ Kind("decision") = log["verdicts"][cursor[Verdicts]][1]
<1>1. "decision" \in Consumers
  BY SubsFact
<1>2. /\ held["decision"] = <<held["decision"][1], held["decision"][2]>>
      /\ held["decision"][2] \in DOMAIN log["verdicts"]
  <2>1. BP!IInv
    BY DEF FleetInv
  <2>2. Verdicts[1] = "verdicts"
    BY DEF Verdicts
  <2>3. /\ held["decision"] = <<held["decision"][1], held["decision"][2]>>
        /\ held["decision"][2] \in DOMAIN log[held["decision"][1][1]]
    BY <1>1, <2>1, HeldFacts
  <2>4. QED BY <2>2, <2>3
<1>3. held["decision"][2] = cursor[Verdicts]
  BY DEF Reading, Alone
<1>4. cursor[Verdicts] > 0
  BY <1>2, <1>3, VerdictTypes
<1>5. Verdicts[1] = "verdicts"
  BY DEF Verdicts
<1>6. QED BY <1>1, <1>2, <1>3, <1>4, <1>5, JobIs DEF Kind, Received

LEMMA VerdictKinds ==
  ASSUME FleetInv, Tallied, NEW t \in Tasks, Acts(t)
  PROVE  \A k \in DOMAIN log'["verdicts"] : log'["verdicts"][k][1] = "verdict"
<1>1. CASE log'["verdicts"] = log["verdicts"]
  BY <1>1 DEF Tallied
<1>2. CASE t \in Workers /\ JudgePublish(t)
  <2>1. PICK p : p = <<"verdict", Job[t]>>
    OBVIOUS
  <2>2. log["verdicts"] \in Seq(Payloads) /\ log'["verdicts"] = Append(log["verdicts"], p)
    BY <1>2, <2>1, JudgePublishes
  <2>3. PICK n \in Nat : n = Len(log["verdicts"])
    BY <2>2
  <2>4. /\ DOMAIN log["verdicts"] = 1 .. n /\ DOMAIN log'["verdicts"] = 1 .. n + 1
        /\ log'["verdicts"][n + 1] = p /\ \A k \in 1 .. n : log'["verdicts"][k] = log["verdicts"][k]
    BY <2>2, <2>3
  <2>5. \A k \in 1 .. n + 1 : k \in 1 .. n \/ k = n + 1
    OBVIOUS
  <2>6. QED BY <2>1, <2>4, <2>5 DEF Tallied
<1>3. CASE t \in Workers /\ ~JudgePublish(t)
  <2>1. t \in Consumers /\ {"judge", "publish"} \subseteq Places
    BY <1>3, SubsFact DEF Places
  <2>2. Judge(t) \/ KillWorker(t)
    BY <1>3, WorkersAssumption DEF Acts
  <2>3. UNCHANGED log
    BY <1>3, <2>1, <2>2, Receives, JudgeEmits, Acks, Polls, Kills DEF Judge, JudgeReceive, busVars
  <2>4. QED BY <1>1, <2>3
<1>4. t \notin Workers => log'["verdicts"] = log["verdicts"]
  BY ActsAside
<1>5. QED BY <1>1, <1>2, <1>3, <1>4

(* What the fold is of does not change with what is published.             *)
LEMMA FoldedStays ==
  ASSUME FleetInv, Grows("verdicts"), NEW g \in Nat, NEW j \in Nat, j <= cursor[Verdicts]
  PROVE  Folded(log'["verdicts"], g + 1, j) = Folded(log["verdicts"], g + 1, j)
<1>1. PICK v, u : v = log["verdicts"] /\ u = log'["verdicts"]
  OBVIOUS
<1>2. \A k \in g + 1 .. j : k \in 1 .. cursor[Verdicts]
  <2>1. PICK m \in Nat : m = cursor[Verdicts] /\ j <= m
    BY VerdictTypes
  <2>2. \A k \in g + 1 .. j : k \in 1 .. m
    BY ONLY <2>1, g \in Nat, j \in Nat, m \in Nat
  <2>3. QED BY <2>1, <2>2
<1>3. \A k \in g + 1 .. j : k \in DOMAIN v
  <2>1. 1 .. cursor[Verdicts] \subseteq DOMAIN v
    BY <1>1, VerdictTypes
  <2>2. QED BY <1>2, <2>1
<1>4. \A k \in g + 1 .. j : u[k][2] = v[k][2]
  BY <1>1, <1>3 DEF Grows
<1>5. g + 1 \in Nat \ {0}
  OBVIOUS
<1>6. Folded(u, g + 1, j) = Folded(v, g + 1, j)
  BY <1>4, <1>5, FoldedSame
<1>7. QED BY <1>1, <1>6

LEMMA TalliedTypes ==
  ASSUME FleetInv, Reading, Tallied
  PROVE  /\ processed \in Nat /\ processed <= cursor[Verdicts]
         /\ Undecided => cursor[Verdicts] = processed + 1
         /\ ~Undecided => cursor[Verdicts] = processed
  BY VerdictTypes DEF Tallied, Reading

(* Who does not decide leaves it as it is.                                 *)
LEMMA WeighingStays ==
  ASSUME FleetInv, Reading, Tallied, NEW g, Weighing(g), Grows("verdicts"),
         Aside("decision"), UNCHANGED <<processed, detectors>>
  PROVE  Weighing(g)'
<1>1. processed \in Nat /\ processed <= cursor[Verdicts] /\ g \in Nat
  BY TalliedTypes DEF Weighing
<1>2. Folded(log'["verdicts"], g + 1, processed) = Folded(log["verdicts"], g + 1, processed)
  BY <1>1, FoldedStays
<1>3. CASE pc["decision"] \in {"alarm", "promote"}
  <2>1. processed - 1 \in Nat /\ processed - 1 <= cursor[Verdicts] /\ held["decision"] # Nothing
    <3>1. "decision" \in Relays
      BY DEF Relays
    <3>2. held["decision"] # Nothing
      BY <1>3, <3>1 DEF FleetInv, Standing, Unfed
    <3>3. cursor[Verdicts] \in Nat /\ g < processed
      BY <1>3, VerdictTypes DEF Weighing
    <3>4. QED BY <1>1, <3>2, <3>3
  <2>2. Folded(log'["verdicts"], g + 1, processed - 1) = Folded(log["verdicts"], g + 1, processed - 1)
    BY <1>1, <2>1, FoldedStays
  <2>3. pc'["decision"] = pc["decision"] /\ held'["decision"] = held["decision"]
        /\ Job'["decision"] = Job["decision"]
    BY <2>1 DEF Aside
  <2>4. QED BY <1>1, <1>3, <2>2, <2>3 DEF Weighing
<1>4. CASE pc["decision"] \notin {"alarm", "promote"}
  <2>1. pc'["decision"] = pc["decision"]
    BY DEF Aside
  <2>2. QED BY <1>1, <1>2, <1>4, <2>1 DEF Weighing
<1>5. QED BY <1>3, <1>4

(* What the service does with a message it has read.                       *)
LEMMA DecisionWeighs ==
  ASSUME FleetInv, DecisionSkip \/ DecisionCusum \/ DecisionPromote
  PROVE  \/ /\ pc["decision"] = "decide" /\ pc'["decision"] = "ack"
            /\ Kind("decision") # "verdict" /\ UNCHANGED <<processed, detectors>>
         \/ /\ pc["decision"] = "decide" /\ pc'["decision"] = "ack" /\ Kind("decision") = "verdict"
            /\ Winner[Job["decision"]] = "tie"
            /\ processed' = processed + 1 /\ detectors' = detectors
         \/ /\ pc["decision"] = "decide" /\ pc'["decision"] \in {"alarm", "promote"}
            /\ Kind("decision") = "verdict" /\ Winner[Job["decision"]] # "tie"
            /\ processed' = processed + 1
            /\ detectors' = CusumUpdate(detectors, Winner[Job["decision"]] = "b")
         \/ /\ pc["decision"] = "promote" /\ pc'["decision"] = "ack" /\ processed' = processed
            /\ detectors' = PromotionUpdate(detectors, Winner[Job["decision"]] = "b")
<1>1. "decision" \in Tasks /\ {"alarm", "promote", "ack"} \subseteq Places
  BY SubsFact DEF Places
<1>2. PICK i : i = Payload("decision") /\ i = Job["decision"]
  BY SubsFact, JobIs
<1>3. PICK win : win = Win /\ win = (Winner[i] = "b")
  BY <1>2 DEF Win
<1>4. \A q \in Places : GoTo("decision", q) => pc'["decision"] = q
  BY <1>1, GoToFacts
<1>5. CASE DecisionSkip
  <2>1. /\ pc["decision"] = "decide" /\ GoTo("decision", "ack") /\ detectors' = detectors
        /\ \/ Kind("decision") = "quality_alarm" /\ processed' = processed
           \/ Kind("decision") = "verdict" /\ Winner[i] = "tie" /\ processed' = processed + 1
    BY <1>2, <1>5 DEF DecisionSkip, At
  <2>2. QED BY <1>1, <1>2, <1>4, <2>1
<1>6. CASE DecisionCusum
  <2>1. /\ pc["decision"] = "decide" /\ processed' = processed + 1 /\ Kind("decision") = "verdict"
        /\ Winner[i] # "tie" /\ detectors' = CusumUpdate(detectors, win)
        /\ GoTo("decision", "alarm") \/ GoTo("decision", "promote")
    BY <1>2, <1>3, <1>6, Zenon DEF DecisionCusum, EmitAndGo, At
  <2>2. QED BY <1>1, <1>2, <1>3, <1>4, <2>1
<1>7. CASE DecisionPromote
  <2>1. /\ pc["decision"] = "promote" /\ processed' = processed
        /\ detectors' = PromotionUpdate(detectors, win) /\ GoTo("decision", "ack")
    BY <1>3, <1>7, Zenon DEF DecisionPromote, EmitAndGo, At
  <2>2. QED BY <1>1, <1>2, <1>3, <1>4, <2>1
<1>8. QED BY <1>5, <1>6, <1>7

LEMMA TalliedStep ==
  ASSUME FleetInv, Reading, Tallied, NEW t \in Tasks, Acts(t)
  PROVE  Tallied'
<1>1. \A k \in DOMAIN log'["verdicts"] : log'["verdicts"][k][1] = "verdict"
  BY VerdictKinds
<1>2. /\ Sole(Verdicts, "decision") /\ "decision" \notin Workers /\ "decision" \in Consumers
      /\ "decide" \in Places /\ cursor[Verdicts] \in Nat
  BY SoleReaders, WorkersAssumption, SubsFact, VerdictTypes DEF Places
<1>3. t # "decision" => cursor'[Verdicts] = cursor[Verdicts]
  BY <1>2, ActsAlone DEF Reading
<1>4. CASE t # "decision"
  <2>1. Aside("decision") /\ processed' = processed
    BY <1>2, <1>4, ActsAside, Bystander DEF decisionVars
  <2>2. Undecided' = Undecided
    BY <2>1 DEF Undecided, Aside
  <2>3. QED BY <1>1, <1>3, <1>4, <2>1, <2>2 DEF Tallied
<1>5. CASE t = "decision"
  <2>1. Decision
    <3>1. "decision" \notin {"traffic", "router", "runner"}
      OBVIOUS
    <3>2. QED BY <1>2, <1>5, <3>1 DEF Acts
  <2>2. CASE DecisionReceive
    <3>1. /\ B!Take("decision") /\ processed' = processed
          /\ pc'["decision"] = "decide" /\ held["decision"] = Nothing /\ held'["decision"] # Nothing
      BY <1>2, <2>2, Receives DEF DecisionReceive, decisionVars
    <3>2. /\ held'["decision"][1] = Verdicts => cursor'[Verdicts] = cursor[Verdicts] + 1
          /\ held'["decision"][1] # Verdicts => cursor'[Verdicts] = cursor[Verdicts]
      BY <1>2, <3>1, AloneTakes DEF FleetInv, Reading
    <3>3. processed = cursor[Verdicts]
      BY <3>1 DEF Tallied, Undecided
    <3>4. Undecided' <=> held'["decision"][1] = Verdicts
      BY <3>1 DEF Undecided
    <3>5. QED BY <1>1, <1>2, <3>1, <3>2, <3>3, <3>4 DEF Tallied
  <2>3. CASE DecisionAlarm
    <3>1. /\ UNCHANGED cursor /\ processed' = processed /\ pc["decision"] = "alarm"
          /\ pc'["decision"] = "promote"
      BY <2>3, DecisionPublishes DEF decisionVars
    <3>2. QED BY <1>1, <3>1 DEF Tallied, Undecided
  <2>4. CASE DecisionSkip \/ DecisionCusum \/ DecisionPromote
    <3>1. UNCHANGED cursor /\ pc'["decision"] # "decide"
      BY <2>4, DecisionDecides DEF busVars
    <3>2. ~Undecided'
      BY <3>1 DEF Undecided
    <3>3. pc["decision"] = "decide" => held["decision"] # Nothing
      BY <1>2 DEF FleetInv, Standing, Unfed, Relays
    <3>4. Kind("decision") = "verdict" /\ pc["decision"] = "decide" <=> Undecided
      <4>1. Undecided => Kind("decision") = "verdict" /\ pc["decision"] = "decide"
        BY VerdictInHand DEF Undecided, Tallied
      <4>2. Kind("decision") = "verdict" /\ pc["decision"] = "decide" => Undecided
        BY <3>3, VerdictDecided DEF Undecided
      <4>3. QED BY <4>1, <4>2
    <3>5. processed' = cursor[Verdicts]
      <4>1. \/ processed' = processed /\ ~Undecided
            \/ processed' = processed + 1 /\ Undecided
        BY <2>4, <3>4, DecisionWeighs
      <4>2. QED BY <1>2, <4>1, TalliedTypes
    <3>6. QED BY <1>1, <3>1, <3>2, <3>5 DEF Tallied
  <2>5. CASE Acknowledge("decision")
    <3>1. B!Ack("decision") /\ processed' = processed /\ pc'["decision"] = "next" /\ pc["decision"] = "ack"
      BY <1>2, <2>5, Acks DEF decisionVars
    <3>2. cursor' = cursor
      BY <3>1 DEF B!Ack
    <3>3. QED BY <1>1, <3>1, <3>2 DEF Tallied, Undecided
  <2>6. CASE Poll("decision")
    <3>1. UNCHANGED <<cursor, held, pc, processed>>
      BY <2>6, Polls DEF decisionVars, busVars
    <3>2. Undecided' = Undecided
      BY <3>1 DEF Undecided
    <3>3. QED BY <1>1, <3>1, <3>2 DEF Tallied
  <2>7. QED BY <2>1, <2>2, <2>3, <2>4, <2>5, <2>6 DEF Decision
<1>6. QED BY <1>4, <1>5

LEMMA WeighingStep ==
  ASSUME FleetInv, Reading, Tallied, NEW g, Weighing(g), NEW t \in Tasks, Acts(t)
  PROVE  Weighing(g)'
<1>1. /\ "decision" \notin Workers /\ "decision" \in Consumers /\ "decide" \in Places
      /\ "verdicts" \in Streams /\ cursor[Verdicts] \in Nat
      /\ processed \in Nat /\ processed <= cursor[Verdicts] /\ g \in Nat /\ g <= processed
  BY WorkersAssumption, SubsFact, VerdictTypes, TalliedTypes DEF Places, Streams, Weighing
<1>2. Others(t) /\ Grows("verdicts")
  BY <1>1, ActsAside DEF Others
<1>3. CASE t # "decision"
  <2>1. Aside("decision")
    BY <1>1, <1>3, Bystander
  <2>2. UNCHANGED <<processed, detectors>>
    BY <1>3, ActsAside DEF decisionVars
  <2>3. QED BY <1>2, <2>1, <2>2, WeighingStays
<1>4. CASE t = "decision"
  <2>1. Decision
    <3>1. "decision" \notin {"traffic", "router", "runner"}
      OBVIOUS
    <3>2. QED BY <1>1, <1>4, <3>1 DEF Acts
  <2>2. Folded(log'["verdicts"], g + 1, processed) = Folded(log["verdicts"], g + 1, processed)
    BY <1>1, <1>2, FoldedStays
  <2>3. ASSUME pc["decision"] \in {"next", "decide", "ack"}, pc'["decision"] \in {"next", "decide", "ack"},
               UNCHANGED <<processed, detectors>>
        PROVE  Weighing(g)'
    BY <1>1, <2>2, <2>3 DEF Weighing
  <2>4. CASE DecisionReceive \/ Acknowledge("decision") \/ Poll("decision")
    <3>1. /\ pc["decision"] \in {"next", "ack"} /\ pc'["decision"] \in {"next", "decide"}
          /\ UNCHANGED decisionVars
      BY <1>1, <2>4, Receives, Acks, Polls DEF DecisionReceive
    <3>2. QED BY <2>3, <3>1 DEF decisionVars
  <2>5. CASE DecisionAlarm
    <3>1. /\ UNCHANGED held /\ UNCHANGED decisionVars /\ UNCHANGED <<cursor>>
          /\ pc["decision"] = "alarm" /\ pc'["decision"] = "promote"
      BY <2>5, DecisionPublishes
    <3>2. log'["verdicts"] = log["verdicts"]
      BY <1>1, <2>5, DecisionPublishes
    <3>3. UNCHANGED <<processed, detectors>>
      BY <3>1 DEF decisionVars
    <3>4. held["decision"] = <<Verdicts, processed>>
      BY <3>1 DEF Weighing
    <3>5. Job'["decision"] = Job["decision"]
      BY <1>1, <3>1, <3>2, <3>4, JobIs DEF Verdicts
    <3>6. QED BY <3>1, <3>2, <3>3, <3>5 DEF Weighing
  <2>6. CASE DecisionSkip \/ DecisionCusum \/ DecisionPromote
    <3>1. UNCHANGED <<log, held>> /\ Job' = Job
      BY <2>6, DecisionDecides DEF busVars
    <3>2. \E j : j = Job["decision"]
      OBVIOUS
    <3>3. pc["decision"] = "decide" => held["decision"] # Nothing
      BY <1>1 DEF FleetInv, Standing, Unfed, Relays
    <3>4. CASE pc["decision"] = "decide" /\ pc'["decision"] = "ack" /\ UNCHANGED <<processed, detectors>>
      BY <2>3, <3>4
    <3>5. ASSUME pc["decision"] = "decide", Kind("decision") = "verdict"
          PROVE  /\ held["decision"] = <<Verdicts, processed + 1>>
                 /\ Job["decision"] = log["verdicts"][processed + 1][2]
      <4>1. held["decision"] # Nothing /\ held["decision"][1] = Verdicts
        BY <3>3, <3>5, VerdictDecided
      <4>2. cursor[Verdicts] = processed + 1
        BY <3>5, <4>1, TalliedTypes DEF Undecided
      <4>3. QED BY <4>1, <4>2, VerdictInHand
    <3>6. Folded(log["verdicts"], g + 1, processed + 1) =
            Weighs(Folded(log["verdicts"], g + 1, processed), log["verdicts"][processed + 1][2])
      <4>1. PICK v : v = log["verdicts"]
        OBVIOUS
      <4>2. PICK m \in Nat : m = processed + 1 /\ m - 1 = processed /\ m >= g + 1
        BY <1>1
      <4>3. g + 1 \in Nat \ {0}
        BY <1>1
      <4>4. Folded(v, g + 1, m) = Weighs(Folded(v, g + 1, m - 1), v[m][2])
        BY <4>2, <4>3, FoldedIs
      <4>5. QED BY <4>1, <4>2, <4>4
    <3>7. CASE /\ pc["decision"] = "decide" /\ pc'["decision"] = "ack" /\ Kind("decision") = "verdict"
               /\ Winner[Job["decision"]] = "tie"
               /\ processed' = processed + 1 /\ detectors' = detectors
      <4>1. detectors = Folded(log["verdicts"], g + 1, processed)
        BY <3>7 DEF Weighing
      <4>2. detectors' = Folded(log["verdicts"], g + 1, processed + 1)
        BY <3>5, <3>6, <3>7, <4>1 DEF Weighs
      <4>3. QED BY <1>1, <3>1, <3>7, <4>2 DEF Weighing
    <3>8. CASE /\ pc["decision"] = "decide" /\ pc'["decision"] \in {"alarm", "promote"}
               /\ Kind("decision") = "verdict" /\ Winner[Job["decision"]] # "tie"
               /\ processed' = processed + 1
               /\ detectors' = CusumUpdate(detectors, Winner[Job["decision"]] = "b")
      <4>1. detectors = Folded(log["verdicts"], g + 1, processed)
        BY <3>8 DEF Weighing
      <4>2. /\ held'["decision"] = <<Verdicts, processed'>> /\ g < processed' /\ g <= processed'
            /\ processed' - 1 = processed
        BY <1>1, <3>1, <3>5, <3>8
      <4>3. Winner[Job'["decision"]] # "tie"
        BY <3>1, <3>8
      <4>4. detectors' = CusumUpdate(Folded(log'["verdicts"], g + 1, processed' - 1),
                                     Winner[Job'["decision"]] = "b")
        BY <3>1, <3>8, <4>1, <4>2
      <4>5. QED BY <1>1, <3>8, <4>2, <4>3, <4>4 DEF Weighing
    <3>9. CASE /\ pc["decision"] = "promote" /\ pc'["decision"] = "ack" /\ processed' = processed
               /\ detectors' = PromotionUpdate(detectors, Winner[Job["decision"]] = "b")
      <4>1. /\ g < processed /\ held["decision"] = <<Verdicts, processed>>
            /\ Winner[Job["decision"]] # "tie"
            /\ detectors = CusumUpdate(Folded(log["verdicts"], g + 1, processed - 1),
                                       Winner[Job["decision"]] = "b")
        BY <3>9 DEF Weighing
      <4>2. Job["decision"] = log["verdicts"][processed][2]
        BY <1>1, <4>1, JobIs DEF Verdicts
      <4>3. Folded(log["verdicts"], g + 1, processed) =
              Weighs(Folded(log["verdicts"], g + 1, processed - 1), log["verdicts"][processed][2])
        <5>1. PICK v : v = log["verdicts"]
          OBVIOUS
        <5>2. PICK m \in Nat : m = processed /\ m >= g + 1
          BY <1>1, <4>1
        <5>3. g + 1 \in Nat \ {0}
          BY <1>1
        <5>4. Folded(v, g + 1, m) = Weighs(Folded(v, g + 1, m - 1), v[m][2])
          BY <5>2, <5>3, FoldedIs
        <5>5. QED BY <5>1, <5>2, <5>4
      <4>4. detectors' = Folded(log["verdicts"], g + 1, processed)
        BY <3>9, <4>1, <4>2, <4>3 DEF Weighs
      <4>5. QED BY <1>1, <3>1, <3>9, <4>4 DEF Weighing
    <3>10. QED BY <2>6, <3>4, <3>7, <3>8, <3>9, DecisionWeighs
  <2>7. QED BY <2>1, <2>4, <2>5, <2>6 DEF Decision
<1>5. QED BY <1>3, <1>4
-----------------------------------------------------------------------------
(***************************************************************************)
(* The alarm: at the first verdict, in the order of the stream, that takes *)
(* the statistic over the threshold.                                       *)
(***************************************************************************)
Sounds(j) == Folded(log["verdicts"], 1, j).alarmed

Sounded ==
  /\ alarmAt = Nothing => ~Sounds(processed)
  /\ alarmAt # Nothing =>
       \E j \in 1 .. processed : Sounds(j) /\ ~Sounds(j - 1) /\ alarmAt = log["verdicts"][j][2]

LEMMA DecisionSounds ==
  ASSUME FleetInv, DecisionSkip \/ DecisionCusum \/ DecisionPromote
  PROVE  \/ UNCHANGED <<alarmAt, processed>>
         \/ /\ pc["decision"] = "decide" /\ Kind("decision") = "verdict"
            /\ Winner[Job["decision"]] = "tie" /\ processed' = processed + 1 /\ alarmAt' = alarmAt
         \/ /\ pc["decision"] = "decide" /\ Kind("decision") = "verdict"
            /\ Winner[Job["decision"]] # "tie" /\ processed' = processed + 1
            /\ detectors' = CusumUpdate(detectors, Winner[Job["decision"]] = "b")
            /\ alarmAt' = IF detectors'.alarmed /\ alarmAt = Nothing THEN Job["decision"] ELSE alarmAt
<1>1. PICK i : i = Payload("decision") /\ i = Job["decision"]
  BY SubsFact, JobIs
<1>2. PICK win : win = Win /\ win = (Winner[i] = "b")
  BY <1>1 DEF Win
<1>3. CASE DecisionSkip
  BY <1>1, <1>3 DEF DecisionSkip, At
<1>4. CASE DecisionCusum
  <2>1. /\ pc["decision"] = "decide" /\ processed' = processed + 1 /\ Kind("decision") = "verdict"
        /\ Winner[i] # "tie" /\ detectors' = CusumUpdate(detectors, win)
        /\ alarmAt' = IF detectors'.alarmed /\ alarmAt = Nothing THEN i ELSE alarmAt
    BY <1>1, <1>2, <1>4, Zenon DEF DecisionCusum, EmitAndGo, At
  <2>2. QED BY <1>1, <1>2, <2>1
<1>5. CASE DecisionPromote
  BY <1>5 DEF DecisionPromote
<1>6. QED BY <1>3, <1>4, <1>5

LEMMA SoundedStep ==
  ASSUME FleetInv, Samples, Reading, Tallied, Weighing(0), Sounded, NEW t \in Tasks, Acts(t)
  PROVE  Sounded'
<1>1. /\ "decision" \notin Workers /\ "decision" \in Consumers /\ "decision" \in Relays
      /\ "verdicts" \in Streams /\ cursor[Verdicts] \in Nat
      /\ processed \in Nat /\ processed <= cursor[Verdicts] /\ 0 \in Nat /\ 0 + 1 = 1
      /\ log["verdicts"] \in Seq(Payloads)
  BY WorkersAssumption, SubsFact, VerdictTypes, TalliedTypes DEF Relays, Streams
<1>2. Others(t) /\ Grows("verdicts")
  BY <1>1, ActsAside DEF Others
<1>3. \A j \in 0 .. processed : Sounds(j)' = Sounds(j)
  <2>1. SUFFICES ASSUME NEW j \in 0 .. processed PROVE Sounds(j)' = Sounds(j)
    OBVIOUS
  <2>2. j \in Nat /\ j <= cursor[Verdicts]
    BY <1>1
  <2>3. Folded(log'["verdicts"], 1, j) = Folded(log["verdicts"], 1, j)
    BY <1>1, <1>2, <2>2, FoldedStays
  <2>4. QED BY <2>3 DEF Sounds
<1>4. \A j \in 1 .. processed : log'["verdicts"][j] = log["verdicts"][j]
  <2>1. 1 .. processed \subseteq DOMAIN log["verdicts"]
    BY <1>1, VerdictTypes
  <2>2. QED BY <1>2, <2>1 DEF Grows
(* An alarm stands.                                                        *)
<1>5. ASSUME alarmAt # Nothing, alarmAt' = alarmAt, NEW n \in Nat, processed' = n, processed <= n
      PROVE  Sounded'
  <2>1. PICK j \in 1 .. processed : Sounds(j) /\ ~Sounds(j - 1) /\ alarmAt = log["verdicts"][j][2]
    BY <1>5 DEF Sounded
  <2>2. j \in 0 .. processed /\ j - 1 \in 0 .. processed /\ j \in 1 .. n
    BY <1>1, <1>5
  <2>3. PICK i : i = j - 1
    OBVIOUS
  <2>4. Sounds(j)' /\ ~Sounds(i)'
    BY <1>3, <2>1, <2>2, <2>3
  <2>5. alarmAt' = log'["verdicts"][j][2]
    BY <1>4, <1>5, <2>1
  <2>6. QED BY <1>5, <2>2, <2>3, <2>4, <2>5 DEF Sounded
<1>6. ASSUME UNCHANGED <<alarmAt, processed>> PROVE Sounded'
  <2>1. CASE alarmAt # Nothing
    BY <1>1, <1>5, <1>6, <2>1
  <2>2. CASE alarmAt = Nothing
    <3>1. ~Sounds(processed)'
      BY <1>1, <1>3, <1>6, <2>2 DEF Sounded
    <3>2. QED BY <1>6, <2>2, <3>1 DEF Sounded
  <2>3. QED BY <2>1, <2>2
<1>7. CASE t # "decision"
  BY <1>6, <1>7, ActsAside DEF decisionVars
<1>8. CASE t = "decision"
  <2>1. Decision
    <3>1. "decision" \notin {"traffic", "router", "runner"}
      OBVIOUS
    <3>2. QED BY <1>1, <1>8, <3>1 DEF Acts
  <2>2. CASE DecisionReceive \/ Acknowledge("decision") \/ Poll("decision") \/ DecisionAlarm
    <3>1. UNCHANGED decisionVars
      BY <1>1, <2>2, Receives, Acks, Polls, DecisionPublishes DEF DecisionReceive, Places
    <3>2. QED BY <1>6, <3>1 DEF decisionVars
  <2>3. CASE DecisionSkip \/ DecisionCusum \/ DecisionPromote
    <3>1. UNCHANGED <<log, held>> /\ Job' = Job
      BY <2>3, DecisionDecides DEF busVars
    <3>2. PICK n \in Nat : n = processed + 1 /\ n > processed
      BY <1>1
    <3>3. ASSUME pc["decision"] = "decide", Kind("decision") = "verdict"
          PROVE  /\ Job["decision"] = log["verdicts"][n][2] /\ Job["decision"] # Nothing
                 /\ n \in DOMAIN log["verdicts"]
      <4>1. held["decision"] # Nothing
        BY <1>1, <3>3 DEF FleetInv, Standing, Unfed
      <4>2. held["decision"][1] = Verdicts
        BY <3>3, <4>1, VerdictDecided
      <4>3. cursor[Verdicts] = n
        BY <3>2, <3>3, <4>1, <4>2, TalliedTypes DEF Undecided
      <4>4. Job["decision"] = log["verdicts"][n][2] /\ n \in DOMAIN log["verdicts"]
        BY <4>1, <4>2, <4>3, VerdictInHand
      <4>5. log["verdicts"][n][2] \in 1 .. N
        BY <4>4, VerdictSampled, RequestsAssumption
      <4>6. QED BY <4>4, <4>5, NothingAssumption
    <3>4. PICK v : v = log["verdicts"]
      OBVIOUS
    <3>5. /\ Folded(v, 1, n) = Weighs(Folded(v, 1, n - 1), v[n][2]) /\ n - 1 = processed
          /\ Folded(v, 1, n - 1) \in DetectorStates
      <4>1. 1 \in Nat \ {0} /\ n >= 1 /\ n - 1 = processed
        BY <1>1, <3>2
      <4>2. QED BY <1>1, <4>1, FoldedIs
    <3>6. Sounds(n)' = Folded(v, 1, n).alarmed
      BY <3>1, <3>4 DEF Sounds
    <3>7. CASE UNCHANGED <<alarmAt, processed>>
      BY <1>6, <3>7
    <3>8. CASE /\ pc["decision"] = "decide" /\ Kind("decision") = "verdict"
               /\ Winner[Job["decision"]] = "tie" /\ processed' = processed + 1 /\ alarmAt' = alarmAt
      <4>1. CASE alarmAt # Nothing
        BY <1>1, <1>5, <3>2, <3>8, <4>1
      <4>2. CASE alarmAt = Nothing
        <5>1. Winner[v[n][2]] = "tie"
          BY <3>3, <3>4, <3>8
        <5>2. Folded(v, 1, n) = Folded(v, 1, n - 1)
          BY <3>5, <5>1 DEF Weighs
        <5>3. ~Folded(v, 1, n - 1).alarmed
          BY <3>4, <3>5, <4>2 DEF Sounded, Sounds
        <5>4. ~Sounds(n)'
          BY <3>6, <5>2, <5>3
        <5>5. QED BY <3>2, <3>8, <4>2, <5>4 DEF Sounded
      <4>3. QED BY <4>1, <4>2
    <3>9. CASE /\ pc["decision"] = "decide" /\ Kind("decision") = "verdict"
               /\ Winner[Job["decision"]] # "tie" /\ processed' = processed + 1
               /\ detectors' = CusumUpdate(detectors, Winner[Job["decision"]] = "b")
               /\ alarmAt' = IF detectors'.alarmed /\ alarmAt = Nothing THEN Job["decision"] ELSE alarmAt
      <4>1. CASE alarmAt # Nothing
        BY <1>1, <1>5, <3>2, <3>9, <4>1
      <4>2. CASE alarmAt = Nothing
        <5>1. detectors = Folded(v, 1, n - 1)
          BY <1>1, <3>4, <3>5, <3>9 DEF Weighing
        <5>2. Winner[v[n][2]] # "tie" /\ detectors' = CusumUpdate(detectors, Winner[v[n][2]] = "b")
          BY <3>3, <3>4, <3>9
        <5>3. PICK win \in BOOLEAN : win = (Winner[v[n][2]] = "b")
          OBVIOUS
        <5>4. detectors \in DetectorStates /\ detectors' = CusumUpdate(detectors, win)
          BY <3>5, <5>1, <5>2, <5>3
        <5>5. detectors' \in DetectorStates
          BY <5>4, CusumFacts
        <5>6. Folded(v, 1, n) = PromotionUpdate(detectors', win)
          BY <3>5, <5>1, <5>2, <5>3 DEF Weighs
        <5>7. Folded(v, 1, n).alarmed = detectors'.alarmed
          BY <5>5, <5>6, PromotionFacts
        <5>8. CASE ~detectors'.alarmed
          BY <3>2, <3>6, <3>9, <4>2, <5>7, <5>8 DEF Sounded
        <5>9. CASE detectors'.alarmed
          <6>1. ~Sounds(n - 1)' 
            <7>1. ~Sounds(processed)
              BY <4>2 DEF Sounded
            <7>2. PICK i : i = processed
              OBVIOUS
            <7>3. ~Sounds(i)'
              BY <1>1, <1>3, <7>1, <7>2
            <7>4. QED BY <3>5, <7>2, <7>3
          <6>2. PICK j : j = n - 1
            OBVIOUS
          <6>3. alarmAt' = log'["verdicts"][n][2] /\ alarmAt' # Nothing
            BY <3>1, <3>3, <3>9, <4>2, <5>9
          <6>4. Sounds(n)'
            BY <3>6, <5>7, <5>9
          <6>5. n \in 1 .. processed' /\ ~Sounds(j)'
            BY <1>1, <3>2, <3>9, <6>1, <6>2
          <6>6. QED BY <6>2, <6>3, <6>4, <6>5 DEF Sounded
        <5>10. QED BY <5>8, <5>9
      <4>3. QED BY <4>1, <4>2
    <3>10. QED BY <2>3, <3>7, <3>8, <3>9, DecisionSounds
  <2>4. QED BY <2>1, <2>2, <2>3 DEF Decision
<1>9. QED BY <1>7, <1>8
-----------------------------------------------------------------------------
(***************************************************************************)
(* What the verdicts call for in request order.                            *)
(***************************************************************************)
Sums(d, i) ==
  IF i \notin Sampled \/ Winner[i] = "tie" THEN d ELSE CusumUpdate(d, Winner[i] = "b")

LEMMA SumsFact == ASSUME NEW d \in DetectorStates, NEW i PROVE Sums(d, i) \in DetectorStates
<1>1. (Winner[i] = "b") \in BOOLEAN
  OBVIOUS
<1>2. QED BY <1>1, CusumFacts DEF Sums

LEMMA InOrderIs ==
  /\ InOrder[0] = FreshDetectors
  /\ \A i \in 0 .. N : InOrder[i] \in DetectorStates
  /\ \A i \in 1 .. N : InOrder[i] = Sums(InOrder[i - 1], i)
<1> DEFINE body(f) == [i \in 0 .. N |->
                         IF i = 0 THEN FreshDetectors
                         ELSE IF i \notin Sampled \/ Winner[i] = "tie" THEN f[i - 1]
                         ELSE CusumUpdate(f[i - 1], Winner[i] = "b")]
           F == [k \in Nat |-> [d \in DetectorStates |-> Sums(d, k)]]
           h == CHOOSE f : f = body(f)
<1>0. N \in Nat /\ 1 \in Nat \ {0}
  BY RequestsAssumption
<1>1. F \in [Nat -> [DetectorStates -> DetectorStates]]
  BY SumsFact
<1>2. \A f : body(f) = [i \in 0 .. N |-> IF i = 0 THEN FreshDetectors ELSE Sums(f[i - 1], i)]
  BY Zenon DEF Sums
<1>3. \E f : f = body(f)
  <2>1. BP!Downward(0 .. N)
    BY <1>0 DEF BP!Downward
  <2>2. PICK f \in [0 .. N -> DetectorStates] :
          \A k \in 0 .. N : f[k] = IF k < 1 THEN FreshDetectors ELSE F[k][f[k - 1]]
    <3> HIDE DEF F
    <3>1. \E f \in [0 .. N -> DetectorStates] : BP!Recurs(f, 0 .. N, 1, FreshDetectors, F)
      BY <1>0, <1>1, <2>1, FreshFact, Recursion
    <3>2. QED BY <3>1 DEF BP!Recurs
  <2>3. ASSUME NEW k \in 0 .. N
        PROVE  f[k] = IF k = 0 THEN FreshDetectors ELSE Sums(f[k - 1], k)
    <3>1. CASE k = 0
      <4>1. k < 1
        BY <3>1
      <4>2. f[k] = IF k < 1 THEN FreshDetectors ELSE F[k][f[k - 1]]
        BY <2>2
      <4>3. QED BY <3>1, <4>1, <4>2, Zenon
    <3>2. CASE k # 0
      <4>1. k - 1 \in 0 .. N /\ ~(k < 1) /\ k \in Nat
        BY <1>0, <3>2
      <4>2. f[k - 1] \in DetectorStates
        BY <4>1
      <4>3. F[k][f[k - 1]] = Sums(f[k - 1], k)
        BY <4>1, <4>2
      <4>4. QED BY <2>2, <3>2, <4>1, <4>3
    <3>3. QED BY <3>1, <3>2
  <2>4. f = [i \in 0 .. N |-> IF i = 0 THEN FreshDetectors ELSE Sums(f[i - 1], i)]
    BY <2>3
  <2>5. f = body(f)
    <3> HIDE DEF body
    <3>1. QED BY <1>2, <2>4
  <2>6. QED BY <2>5
<1>4. h = body(h)
  <2> HIDE DEF body
  <2>1. QED BY <1>3
<1>5. InOrder = h
  BY DEF InOrder
<1>6. \A i \in 0 .. N : InOrder[i] = IF i = 0 THEN FreshDetectors ELSE Sums(InOrder[i - 1], i)
  <2>1. InOrder = [i \in 0 .. N |-> IF i = 0 THEN FreshDetectors ELSE Sums(InOrder[i - 1], i)]
    <3> HIDE DEF body, h
    <3>1. QED BY <1>2, <1>4, <1>5
  <2>2. PICK g : g = InOrder
    OBVIOUS
  <2>3. g = [i \in 0 .. N |-> IF i = 0 THEN FreshDetectors ELSE Sums(g[i - 1], i)]
    BY <2>1, <2>2
  <2>4. \A i \in 0 .. N : g[i] = IF i = 0 THEN FreshDetectors ELSE Sums(g[i - 1], i)
    BY <2>3
  <2>5. QED BY <2>2, <2>4
<1>7. PICK g : g = InOrder
  OBVIOUS
<1>8. Nat \subseteq {k \in Nat : k <= N => g[k] \in DetectorStates}
  <2> DEFINE G == {k \in Nat : k <= N => g[k] \in DetectorStates}
  <2>1. 0 \in G
    BY <1>0, <1>6, <1>7, FreshFact
  <2>2. ASSUME NEW k \in Nat, k \in G PROVE k + 1 \in G
    <3>1. SUFFICES ASSUME k + 1 <= N PROVE g[k + 1] \in DetectorStates
      OBVIOUS
    <3>2. (k + 1) - 1 = k /\ k + 1 \in 0 .. N /\ k + 1 # 0 /\ k <= N
      BY <1>0, <3>1
    <3>3. g[k + 1] = Sums(g[k], k + 1)
      BY <1>6, <1>7, <3>2
    <3>4. g[k] \in DetectorStates
      BY <2>2, <3>2
    <3>5. QED BY <3>3, <3>4, SumsFact
  <2>3. Nat \subseteq G
    <3> HIDE DEF G
    <3>1. QED BY <2>1, <2>2, Counting
  <2>4. QED BY <2>3
<1>9. \A i \in 0 .. N : g[i] \in DetectorStates
  BY <1>0, <1>8
<1>10. \A i \in 1 .. N : i \in 0 .. N /\ i # 0
  BY <1>0
<1>11. 0 \in 0 .. N
  BY <1>0
<1>12. QED BY <1>6, <1>7, <1>9, <1>10, <1>11

(* The CUSUM's part of a pair of tests, which the promotion test does not  *)
(* touch.                                                                  *)
Alike(d, e) == d.stat = e.stat /\ d.alarmed = e.alarmed

LEMMA AlikeFacts ==
  ASSUME NEW d \in DetectorStates, NEW e \in DetectorStates, Alike(d, e), NEW win \in BOOLEAN
  PROVE  Alike(CusumUpdate(d, win), PromotionUpdate(CusumUpdate(e, win), win))
<1>1. CusumUpdate(e, win) \in DetectorStates
  BY CusumFacts
<1>2. Alike(CusumUpdate(d, win), CusumUpdate(e, win))
  <2>1. CASE d.alarmed
    BY <2>1 DEF Alike, CusumUpdate
  <2>2. CASE ~d.alarmed
    <3>1. PICK stat : stat = IF win THEN Most(0, d.stat - Down) ELSE d.stat + Up
      OBVIOUS
    <3>2. stat = IF win THEN Most(0, e.stat - Down) ELSE e.stat + Up
      BY <3>1 DEF Alike
    <3>3. /\ CusumUpdate(d, win) = [d EXCEPT !.stat = stat, !.alarmed = stat >= H]
          /\ CusumUpdate(e, win) = [e EXCEPT !.stat = stat, !.alarmed = stat >= H]
      BY <2>2, <3>1, <3>2 DEF Alike, CusumUpdate
    <3>4. QED BY <3>3 DEF Alike, DetectorStates
  <2>3. QED BY <2>1, <2>2
<1>3. QED BY <1>1, <1>2, PromotionFacts DEF Alike

LEMMA FoldedNext ==
  ASSUME NEW v, NEW m \in Nat
  PROVE  /\ Folded(v, 1, m + 1) = Weighs(Folded(v, 1, m), v[m + 1][2])
         /\ Folded(v, 1, m) \in DetectorStates
<1>1. PICK n \in Nat : n = m + 1 /\ n - 1 = m /\ n >= 1
  OBVIOUS
<1>2. 1 \in Nat \ {0}
  OBVIOUS
<1>3. Folded(v, 1, n) = Weighs(Folded(v, 1, n - 1), v[n][2]) /\ Folded(v, 1, m) \in DetectorStates
  BY <1>1, <1>2, FoldedIs
<1>4. QED BY <1>1, <1>3

LEMMA AlarmStays ==
  ASSUME NEW v, NEW j \in Nat, NEW k \in Nat, j <= k, Folded(v, 1, j).alarmed
  PROVE  Folded(v, 1, k).alarmed
<1> DEFINE G == {n \in Nat : Folded(v, 1, j + n).alarmed}
<1>1. 0 \in G
  <2>1. j + 0 = j
    OBVIOUS
  <2>2. QED BY <2>1
<1>2. ASSUME NEW n \in Nat, n \in G PROVE n + 1 \in G
  <2>1. PICK m \in Nat : m = j + n /\ m + 1 = j + (n + 1) /\ (m + 1) - 1 = m /\ m + 1 >= 1
    OBVIOUS
  <2>2. Folded(v, 1, m) \in DetectorStates /\ Folded(v, 1, m).alarmed
    <3>1. Folded(v, 1, m).alarmed
      BY <1>2, <2>1
    <3>2. 1 \in Nat \ {0} /\ m \in Nat
      OBVIOUS
    <3>3. QED BY <3>1, <3>2, FoldedIs
  <2>3. Folded(v, 1, m + 1) = Weighs(Folded(v, 1, m), v[m + 1][2])
    BY <2>1, FoldedNext
  <2>4. PICK d \in DetectorStates : d = Folded(v, 1, m) /\ d.alarmed
    BY <2>2
  <2>5. PICK win \in BOOLEAN : win = (Winner[v[m + 1][2]] = "b")
    OBVIOUS
  <2>6. PromotionUpdate(CusumUpdate(d, win), win).alarmed
    BY <2>4, CusumFacts, PromotionFacts
  <2>7. Folded(v, 1, m + 1).alarmed
    BY <2>3, <2>4, <2>5, <2>6 DEF Weighs
  <2>8. QED BY <2>1, <2>7
<1>3. k - j \in Nat /\ j + (k - j) = k
  OBVIOUS
<1>4. Nat \subseteq G
  <2> HIDE DEF G
  <2>1. QED BY <1>1, <1>2, Counting
<1>5. QED BY <1>3, <1>4

(* Position c of a stream v of n verdicts in request order is the last of  *)
(* the requests up to i.                                                   *)
UpTo(v, n, c, i) == \A k \in 1 .. n : k <= c <=> v[k][2] <= i

InRequestOrder(v, n) ==
  /\ \A k \in 1 .. n : v[k][2] \in Sampled
  /\ \A j, k \in 1 .. n : j < k => v[j][2] < v[k][2]
  /\ \A i \in Sampled : \E k \in 1 .. n : v[k][2] = i

LEMMA NextUpTo ==
  ASSUME NEW v, NEW n \in Nat, InRequestOrder(v, n), NEW i \in 0 .. N, i < N,
         NEW c \in 0 .. n, UpTo(v, n, c, i)
  PROVE  /\ i + 1 \notin Sampled => UpTo(v, n, c, i + 1)
         /\ i + 1 \in Sampled => c + 1 \in 0 .. n /\ v[c + 1][2] = i + 1 /\ UpTo(v, n, c + 1, i + 1)
<1>0. N \in Nat /\ i \in Nat /\ c \in Nat /\ \A k \in 1 .. n : v[k][2] \in 1 .. N
  <2>1. N \in Nat /\ Sampled \subseteq 1 .. N
    BY RequestsAssumption
  <2>2. \A k \in 1 .. n : v[k][2] \in Sampled
    BY DEF InRequestOrder
  <2>3. \A k \in 1 .. n : v[k][2] \in 1 .. N
    BY <2>1, <2>2
  <2>4. N \in Nat /\ i \in Nat /\ c \in Nat
    BY <2>1
  <2>5. QED BY <2>3, <2>4
<1>1. PICK r \in [1 .. n -> 1 .. N] : \A k \in 1 .. n : r[k] = v[k][2]
  <2>1. [k \in 1 .. n |-> v[k][2]] \in [1 .. n -> 1 .. N]
    BY <1>0
  <2>2. QED BY <2>1
<1>2. \A j, k \in 1 .. n : j < k => r[j] < r[k]
  BY <1>1 DEF InRequestOrder
<1>3. \A k \in 1 .. n : k <= c <=> r[k] <= i
  BY <1>1 DEF UpTo
<1>4. ASSUME i + 1 \notin Sampled PROVE UpTo(v, n, c, i + 1)
  <2>1. \A k \in 1 .. n : r[k] # i + 1
    BY <1>1, <1>4 DEF InRequestOrder
  <2>2. \A k \in 1 .. n : k <= c <=> r[k] <= i + 1
    BY <1>0, <1>3, <2>1
  <2>3. QED BY <1>1, <2>2 DEF UpTo
<1>5. ASSUME i + 1 \in Sampled
      PROVE  c + 1 \in 0 .. n /\ v[c + 1][2] = i + 1 /\ UpTo(v, n, c + 1, i + 1)
  <2>1. PICK k \in 1 .. n : r[k] = i + 1
    BY <1>1, <1>5 DEF InRequestOrder
  <2>2. k > c /\ c + 1 \in 1 .. n
    BY <1>0, <1>3, <2>1
  <2>3. k = c + 1
    <3>1. SUFFICES ASSUME c + 1 < k PROVE FALSE
      BY <2>2
    <3>2. r[c + 1] < i + 1 /\ ~(r[c + 1] <= i)
      BY <1>0, <1>2, <1>3, <2>1, <2>2, <3>1
    <3>3. r[c + 1] \in 1 .. N
      BY <2>2
    <3>4. QED BY <1>0, <3>2, <3>3
  <2>4. ASSUME NEW m \in 1 .. n PROVE m <= c + 1 <=> r[m] <= i + 1
    <3>1. r[m] \in Nat
      OBVIOUS
    <3>2. CASE m <= c
      BY <1>0, <1>3, <3>1, <3>2
    <3>3. CASE m = c + 1
      BY <1>0, <2>1, <2>3, <3>3
    <3>4. CASE m > c + 1
      <4>1. r[k] < r[m]
        BY <1>2, <2>3, <3>4
      <4>2. QED BY <1>0, <2>1, <3>1, <3>4, <4>1
    <3>5. QED BY <1>0, <3>2, <3>3, <3>4
  <2>5. \A m \in 1 .. n : m <= c + 1 <=> v[m][2] <= i + 1
    BY <1>1, <2>4
  <2>6. QED BY <1>1, <2>1, <2>2, <2>3, <2>5 DEF UpTo
<1>6. QED BY <1>4, <1>5

LEMMA FoldedInOrder ==
  ASSUME NEW v, NEW n \in Nat, InRequestOrder(v, n), NEW i \in 0 .. N
  PROVE  \E c \in 0 .. n : UpTo(v, n, c, i) /\ Alike(InOrder[i], Folded(v, 1, c))
<1> DEFINE Met(m) == \E c \in 0 .. n : UpTo(v, n, c, m) /\ Alike(InOrder[m], Folded(v, 1, c))
           G == {m \in Nat : m <= N => Met(m)}
<1>0. N \in Nat
  BY RequestsAssumption
<1>1. 0 \in G
  <2>1. UpTo(v, n, 0, 0)
    <3>1. \A k \in 1 .. n : v[k][2] \in 1 .. N
      BY RequestsAssumption DEF InRequestOrder
    <3>2. \A k \in 1 .. n : ~(k <= 0) /\ ~(v[k][2] <= 0)
      BY <1>0, <3>1
    <3>3. QED BY <3>2 DEF UpTo
  <2>2. Folded(v, 1, 0) = FreshDetectors
    <3>1. 1 \in Nat \ {0} /\ 0 \in Nat /\ 0 < 1
      OBVIOUS
    <3>2. QED BY <3>1, FoldedIs
  <2>3. Alike(InOrder[0], Folded(v, 1, 0))
    BY <2>2, InOrderIs DEF Alike
  <2>4. 0 \in 0 .. n
    OBVIOUS
  <2>5. QED BY <2>1, <2>3, <2>4
<1>2. ASSUME NEW m \in Nat, m \in G PROVE m + 1 \in G
  <2>1. SUFFICES ASSUME m + 1 <= N PROVE Met(m + 1)
    OBVIOUS
  <2>2. m <= N /\ m \in 0 .. N /\ m < N /\ m + 1 \in 1 .. N /\ m + 1 \in 0 .. N /\ (m + 1) - 1 = m
    BY <1>0, <2>1
  <2>3. PICK c \in 0 .. n : UpTo(v, n, c, m) /\ Alike(InOrder[m], Folded(v, 1, c))
    BY <1>2, <2>2
  <2>4. InOrder[m + 1] = Sums(InOrder[m], m + 1) /\ InOrder[m] \in DetectorStates
    BY <2>2, InOrderIs
  <2>5. CASE m + 1 \notin Sampled
    <3>1. UpTo(v, n, c, m + 1)
      BY <2>2, <2>3, <2>5, NextUpTo
    <3>2. InOrder[m + 1] = InOrder[m]
      BY <2>4, <2>5 DEF Sums
    <3>3. QED BY <2>3, <3>1, <3>2
  <2>6. CASE m + 1 \in Sampled
    <3>1. c + 1 \in 0 .. n /\ v[c + 1][2] = m + 1 /\ UpTo(v, n, c + 1, m + 1)
      BY <2>2, <2>3, <2>6, NextUpTo
    <3>2. c \in Nat /\ c + 1 \in Nat /\ c + 1 >= 1 /\ (c + 1) - 1 = c
      OBVIOUS
    <3>3. /\ Folded(v, 1, c + 1) = Weighs(Folded(v, 1, c), v[c + 1][2])
          /\ Folded(v, 1, c) \in DetectorStates
      BY <3>2, FoldedNext
    <3>4. PICK d \in DetectorStates : d = InOrder[m]
      BY <2>4
    <3>5. PICK e \in DetectorStates : e = Folded(v, 1, c) /\ Alike(d, e)
      BY <2>3, <3>3, <3>4
    <3>6. PICK win \in BOOLEAN : win = (Winner[m + 1] = "b")
      OBVIOUS
    <3>7. CASE Winner[m + 1] = "tie"
      <4>1. InOrder[m + 1] = d /\ Folded(v, 1, c + 1) = e
        BY <2>4, <3>1, <3>3, <3>4, <3>5, <3>7 DEF Sums, Weighs
      <4>2. QED BY <3>1, <3>5, <4>1
    <3>8. CASE Winner[m + 1] # "tie"
      <4>1. /\ InOrder[m + 1] = CusumUpdate(d, win)
            /\ Folded(v, 1, c + 1) = PromotionUpdate(CusumUpdate(e, win), win)
        BY <2>4, <2>6, <3>1, <3>3, <3>4, <3>5, <3>6, <3>8 DEF Sums, Weighs
      <4>2. Alike(InOrder[m + 1], Folded(v, 1, c + 1))
        BY <3>5, <4>1, AlikeFacts
      <4>3. QED BY <3>1, <4>2
    <3>9. QED BY <3>7, <3>8
  <2>7. QED BY <2>5, <2>6
<1>3. Nat \subseteq G
  <2> HIDE DEF G
  <2>1. QED BY <1>1, <1>2, Counting
<1>4. i \in Nat /\ i <= N
  BY <1>0
<1>5. QED BY <1>3, <1>4

LEMMA AlarmIsDue ==
  ASSUME NEW v, NEW n \in Nat, InRequestOrder(v, n)
  PROVE  /\ ~Folded(v, 1, n).alarmed => AlarmDue = {}
         /\ \A j \in 1 .. n : Folded(v, 1, j).alarmed /\ ~Folded(v, 1, j - 1).alarmed =>
              AlarmDue = {v[j][2]}
<1>0. N \in Nat
  BY RequestsAssumption
<1>1. ASSUME ~Folded(v, 1, n).alarmed, NEW i \in 1 .. N PROVE ~InOrder[i].alarmed
  <2>1. i \in 0 .. N
    OBVIOUS
  <2>2. PICK c \in 0 .. n : Alike(InOrder[i], Folded(v, 1, c))
    BY <2>1, FoldedInOrder
  <2>3. c \in Nat /\ c <= n
    OBVIOUS
  <2>4. ~Folded(v, 1, c).alarmed
    BY <1>1, <2>3, AlarmStays
  <2>5. QED BY <2>2, <2>4 DEF Alike
<1>2. ASSUME NEW j \in 1 .. n, Folded(v, 1, j).alarmed, ~Folded(v, 1, j - 1).alarmed
      PROVE  AlarmDue = {v[j][2]}
  <2>1. PICK q \in 1 .. N : q = v[j][2]
    BY RequestsAssumption DEF InRequestOrder
  <2>2. ASSUME NEW i \in 0 .. N PROVE InOrder[i].alarmed <=> q <= i
    <3>1. PICK c \in 0 .. n : UpTo(v, n, c, i) /\ Alike(InOrder[i], Folded(v, 1, c))
      BY FoldedInOrder
    <3>2. j <= c <=> q <= i
      BY <2>1, <3>1 DEF UpTo
    <3>3. c \in Nat /\ j \in Nat /\ j - 1 \in Nat
      OBVIOUS
    <3>4. CASE j <= c
      <4>1. Folded(v, 1, c).alarmed
        BY <1>2, <3>3, <3>4, AlarmStays
      <4>2. QED BY <3>1, <3>2, <3>4, <4>1 DEF Alike
    <3>5. CASE ~(j <= c)
      <4>1. c <= j - 1
        BY <3>3, <3>5
      <4>2. PICK k \in Nat : k = j - 1 /\ c <= k /\ ~Folded(v, 1, k).alarmed
        BY <1>2, <3>3, <4>1
      <4>3. ~Folded(v, 1, c).alarmed
        BY <3>3, <4>2, AlarmStays
      <4>4. InOrder[i].alarmed = Folded(v, 1, c).alarmed
        BY <3>1 DEF Alike
      <4>5. QED BY <3>2, <3>5, <4>3, <4>4
    <3>6. QED BY <3>4, <3>5
  <2>3. ASSUME NEW i \in 1 .. N PROVE InOrder[i].alarmed /\ ~InOrder[i - 1].alarmed <=> i = q
    <3>1. i \in 0 .. N /\ i - 1 \in 0 .. N
      BY <1>0
    <3>2. (InOrder[i].alarmed <=> q <= i) /\ (InOrder[i - 1].alarmed <=> q <= i - 1)
      BY <2>2, <3>1
    <3>3. q <= i /\ ~(q <= i - 1) <=> i = q
      BY <1>0
    <3>4. QED BY <3>2, <3>3
  <2>4. QED BY <2>1, <2>3 DEF AlarmDue
<1>3. QED BY <1>1, <1>2 DEF AlarmDue
-----------------------------------------------------------------------------
LEMMA InitWeighs == Init => Tallied /\ Weighing(0)
<1> SUFFICES ASSUME Init PROVE Tallied /\ Weighing(0)
  OBVIOUS
<1>1. FleetInv
  BY InitOutcome DEF OutcomeInv
<1>2. /\ B!BusInit /\ processed = 0 /\ detectors = FreshDetectors
      /\ pc = [t \in Tasks |-> IF t = "decision" THEN "next" ELSE "next"]
  BY DEF Init, InitWith
<1>3. /\ \A s \in Streams : log[s] = <<>>
      /\ \A ch \in B!Channels : cursor[ch] = 0
  BY <1>2 DEF B!BusInit
<1>4. B!Channels = BP!Channels
  BY DEF B!Channels, BP!Channels, B!Readers, BP!Readers, B!Range, BP!Range
<1>5. Verdicts \in BP!Channels /\ "verdicts" \in Streams
  BY SoleReaders, ChannelTypes, <1>1 DEF FleetInv, Streams
<1>6. cursor[Verdicts] = 0 /\ log["verdicts"] = <<>>
  BY <1>3, <1>4, <1>5
<1>7. pc["decision"] = "next"
  BY <1>2, SubsFact
<1>8. Tallied
  BY <1>2, <1>6, <1>7 DEF Tallied, Undecided
<1>9. Weighing(0)
  <2>1. PICK v : v = log["verdicts"]
    OBVIOUS
  <2>2. Folded(v, 0 + 1, 0) = FreshDetectors
    <3>1. 0 + 1 \in Nat \ {0} /\ 0 < 0 + 1 /\ 0 \in Nat
      OBVIOUS
    <3>2. QED BY <3>1, FoldedIs
  <2>3. QED BY <1>2, <1>7, <2>1, <2>2 DEF Weighing
<1>10. QED BY <1>8, <1>9
-----------------------------------------------------------------------------
AlarmInv == OutcomeInv /\ Tallied /\ Weighing(0) /\ Sounded

LEMMA InitAlarm == Init => AlarmInv
<1> SUFFICES ASSUME Init PROVE AlarmInv
  OBVIOUS
<1>1. OutcomeInv /\ Tallied /\ Weighing(0)
  BY InitOutcome, InitWeighs
<1>2. processed = 0 /\ alarmAt = Nothing
  BY DEF Init, InitWith
<1>3. Sounded
  <2>1. PICK v : v = log["verdicts"]
    OBVIOUS
  <2>2. Folded(v, 1, 0) = FreshDetectors
    <3>1. 1 \in Nat \ {0} /\ 0 < 1 /\ 0 \in Nat
      OBVIOUS
    <3>2. QED BY <3>1, FoldedIs
  <2>3. ~Sounds(0)
    BY <2>1, <2>2 DEF Sounds, FreshDetectors
  <2>4. QED BY <1>2, <2>3 DEF Sounded
<1>4. QED BY <1>1, <1>3 DEF AlarmInv

LEMMA NextAlarm ==
  ASSUME Punctual, "ack" \notin Suspends, AlarmInv, [Next]_vars
  PROVE  AlarmInv'
<1>1. /\ OutcomeInv /\ FleetInv /\ Samples /\ Reading /\ Tallied /\ Weighing(0) /\ Sounded
  BY DEF AlarmInv, OutcomeInv
<1>2. PICK t \in Tasks : Acts(t)
  BY SomebodyActs
<1>3. OutcomeInv'
  BY <1>1, NextOutcome
<1>4. Tallied' /\ Weighing(0)' /\ Sounded'
  BY <1>1, <1>2, TalliedStep, WeighingStep, SoundedStep
<1>5. QED BY <1>3, <1>4 DEF AlarmInv

(* For any requests, verdicts, workers, batches and kills: a run that ends *)
(* has raised the quality alarm at the verdict that first takes the        *)
(* statistic over its threshold in the order the decision service read     *)
(* them, every pair's verdict once, or at none if none does.  Who was      *)
(* killed, what was judged twice and how the services took turns has a     *)
(* part in it through that order alone: if it is the requests', the alarm  *)
(* is the one of every such run of the scenario                            *)
(* (src/tests/test_fleet.py:80,98-104).                                    *)
THEOREM AlarmIsReproducible ==
  ASSUME Punctual, "ack" \notin Suspends
  PROVE  Spec => []SameAlarm
<1>1. Init => AlarmInv
  BY InitAlarm
<1>2. AlarmInv /\ [Next]_vars => AlarmInv'
  BY NextAlarm
<1>3. AlarmInv => SameAlarm
  <2>1. SUFFICES ASSUME AlarmInv, phase = "done" PROVE SameAlarm
    BY DEF SameAlarm
  <2>2. /\ FleetInv /\ Samples /\ Reading /\ Tallied /\ Sounded /\ processed >= Target
    BY <2>1 DEF AlarmInv, OutcomeInv, Closing
  <2>3. PICK n \in Nat : n = Len(log["verdicts"]) /\ n = processed
    BY <2>2, TalliedTypes, AllPublished
  <2>4. PICK v : v = log["verdicts"]
    OBVIOUS
  <2>5. DOMAIN v = 1 .. n /\ n = Len(v)
    <3>1. v \in Seq(Payloads) /\ n = Len(v)
      BY <2>2, <2>3, <2>4, VerdictTypes
    <3>2. QED BY <3>1
  <2>6. ASSUME \A j, k \in 1 .. n : j < k => v[j][2] < v[k][2]
        PROVE  InRequestOrder(v, n)
    <3>1. \A k \in 1 .. n : v[k][2] \in Sampled
      BY <2>2, <2>4, <2>5, VerdictSampled
    <3>2. \A i \in Sampled : \E k \in 1 .. n : v[k][2] = i
      BY <2>2, <2>4, <2>5, AllPublished
    <3>3. QED BY <2>6, <3>1, <3>2 DEF InRequestOrder
  <2>7. ASSUME NEW j \in Nat PROVE Fed(1, j) = Folded(v, 1, j)
    BY <2>4, FedIs
  <2>8. CASE alarmAt = Nothing
    <3>1. ~Folded(v, 1, n).alarmed
      BY <2>2, <2>3, <2>4, <2>8 DEF Sounded, Sounds
    <3>2. InRequestOrder(v, n) => AlarmDue = {}
      BY <3>1, AlarmIsDue
    <3>3. ~Fed(1, n).alarmed
      BY <2>7, <3>1
    <3>4. QED BY <2>4, <2>5, <2>6, <2>8, <3>2, <3>3 DEF SameAlarm
  <2>9. CASE alarmAt # Nothing
    <3>1. PICK j \in 1 .. n : /\ Folded(v, 1, j).alarmed /\ ~Folded(v, 1, j - 1).alarmed
                              /\ alarmAt = v[j][2]
      BY <2>2, <2>3, <2>4, <2>9 DEF Sounded, Sounds
    <3>2. InRequestOrder(v, n) => AlarmDue = {v[j][2]}
      BY <3>1, AlarmIsDue
    <3>3. Fed(1, j).alarmed /\ ~Fed(1, j - 1).alarmed
      <4>1. j \in Nat /\ j - 1 \in Nat
        OBVIOUS
      <4>2. Fed(1, j) = Folded(v, 1, j) /\ Fed(1, j - 1) = Folded(v, 1, j - 1)
        BY <2>7, <4>1
      <4>3. QED BY <3>1, <4>2
    <3>4. QED BY <2>4, <2>5, <2>6, <2>9, <3>1, <3>2, <3>3 DEF SameAlarm
  <2>10. QED BY <2>8, <2>9
<1>4. QED BY <1>1, <1>2, <1>3, PTL DEF Spec
=============================================================================
