---------------------------- MODULE CanaryProofs ----------------------------
(***************************************************************************)
(* Proofs about module CanaryFleet, for any requests, verdicts, draws,     *)
(* workers, sinks, gates, rollback thresholds and number of kills: the     *)
(* router's share is the lifecycle's, a few messages late, the lifecycle's *)
(* gates are what the verdicts make them, and the rows tell the same tale. *)
(***************************************************************************)
EXTENDS CanaryFleet, FleetProofs

Ctl == <<"control", "router">>

Spots == Places \union {"start", "control"}

(* Who publishes what it reads has something in hand.                      *)
Manned ==
  /\ pc \in [Tasks -> Spots] /\ sent \in Nat
  /\ \A c \in Workers \union {"router"} : held[c] = Nothing => pc[c] = "next"
  /\ held["decision"] = Nothing => pc["decision"] \in {"next", "start"}

Requesting == \A k \in DOMAIN log["requests"] : log["requests"][k][1] = "request"

Fields == {"stage", "state", "gate", "stat", "inStage", "seen", "transitions"}

(* A rollback, and no other step, takes the share to nothing.              *)
Steps ==
  {x \in [kind : {"advanced", "promoted", "rolled_back"}, share : 0 .. 4, index : Nat, inStage : Nat] :
     x.kind = "rolled_back" <=> x.share = 0}

(* The stages are climbed one by one, and a rollback is the last step.     *)
Climbs(l) ==
  /\ DOMAIN l = Fields
  /\ l.stage \in 0 .. 4 /\ l.inStage \in Nat /\ l.transitions \in Seq(Steps)
  /\ l.state = "running" => l.stage < 4 /\ Len(l.transitions) = l.stage
  /\ \A k \in 1 .. Len(l.transitions) :
       l.transitions[k].share = IF l.state = "rolled_back" /\ k = Len(l.transitions) THEN 0 ELSE k

(* The control stream has the first share and that of every transition;    *)
(* the last one is on its way while the controller is at "control".        *)
Told(k) == <<"share_update", IF k = 1 THEN 0 ELSE lifecycle.transitions[k - 1].share>>

Announced ==
  LET n == Len(lifecycle.transitions) IN
    /\ pc["decision"] = "start" => Len(log["control"]) = 0 /\ n = 0 /\ L!Share(lifecycle) = 0
    /\ pc["decision"] = "control" => Len(log["control"]) = n /\ n > 0
    /\ pc["decision"] \notin {"start", "control"} => Len(log["control"]) = n + 1
    /\ \A k \in 1 .. Len(log["control"]) : log["control"][k] = Told(k)

ShareAt(n) == IF n = 0 THEN 0 ELSE log["control"][n][2]

(* The router has a control message in hand, and has not looked at it.     *)
OnControl == held["router"] # Nothing /\ held["router"][1] = Ctl
Unread == OnControl /\ pc["router"] = "request"

(* The router has the share it was told last: control messages are read in *)
(* order, none comes back, and the one in hand is applied before the ack.  *)
Heard ==
  /\ \A k \in DOMAIN pending[Ctl] : held["router"] = <<Ctl, k>>
  /\ OnControl => held["router"][2] = cursor[Ctl] /\ cursor[Ctl] > 0
  /\ Unread => userShare = ShareAt(cursor[Ctl] - 1)
  /\ ~Unread => userShare = ShareAt(cursor[Ctl])

CanaryInv ==
  /\ BP!IInv
  /\ Manned
  /\ Requesting
  /\ Climbs(lifecycle)
  /\ Announced
  /\ Heard
-----------------------------------------------------------------------------
(* The lifecycle, one field at a time.                                     *)
LEMMA SameClimb ==
  ASSUME NEW l, Climbs(l), NEW m, DOMAIN m = Fields, m.inStage \in Nat,
         m.stage = l.stage, m.state = l.state, m.transitions = l.transitions
  PROVE  Climbs(m)
  BY DEF Climbs

LEMMA RollBackClimbs ==
  ASSUME NEW l, Climbs(l), l.state = "running", NEW i \in Nat
  PROVE  /\ Climbs(L!RollBack(l, i))
         /\ \E x \in Steps : L!RollBack(l, i).transitions = Append(l.transitions, x)
<1> DEFINE x == L!Transition("rolled_back", 0, i, l.inStage)
           one == [l EXCEPT !.state = "rolled_back"]
           two == [one EXCEPT !.transitions = Append(@, x)]
<1>1. L!RollBack(l, i) = two
  BY DEF L!RollBack
<1>2. x \in Steps /\ x.share = 0
  BY DEF L!Transition, Steps, Climbs
<1>3. /\ DOMAIN one = Fields /\ one.state = "rolled_back" /\ one.stage = l.stage
      /\ one.inStage = l.inStage /\ one.transitions = l.transitions
  BY DEF Climbs, Fields
<1> HIDE DEF one
<1>4. /\ DOMAIN two = Fields /\ two.state = "rolled_back" /\ two.stage = l.stage
      /\ two.inStage = l.inStage /\ two.transitions = Append(l.transitions, x)
  BY <1>3 DEF Fields
<1> HIDE DEF two, x
<1>5. l.transitions \in Seq(Steps)
  BY DEF Climbs
<1>6. PICK n \in Nat : n = Len(l.transitions)
  BY <1>5
<1>7. /\ two.transitions \in Seq(Steps) /\ Len(two.transitions) = n + 1
      /\ two.transitions[n + 1] = x
      /\ \A k \in 1 .. n : two.transitions[k] = l.transitions[k]
  BY <1>2, <1>4, <1>5, <1>6
<1>8. \A k \in 1 .. n : l.transitions[k].share = k
  BY <1>6 DEF Climbs
<1>9. \A k \in 1 .. n + 1 : k \in 1 .. n \/ k = n + 1
  OBVIOUS
<1>10. Climbs(two)
  <2>1. \A k \in 1 .. Len(two.transitions) :
          two.transitions[k].share =
            IF two.state = "rolled_back" /\ k = Len(two.transitions) THEN 0 ELSE k
    BY <1>2, <1>4, <1>7, <1>8, <1>9
  <2>2. l.stage \in 0 .. 4 /\ l.inStage \in Nat
    BY DEF Climbs
  <2>3. QED BY <1>4, <1>7, <2>1, <2>2 DEF Climbs
<1>11. QED BY <1>1, <1>2, <1>4, <1>10

LEMMA AdvanceClimbs ==
  ASSUME NEW l, Climbs(l), l.state = "running", NEW i \in Nat
  PROVE  /\ Climbs(L!Advance(l, i))
         /\ \E x \in Steps : L!Advance(l, i).transitions = Append(l.transitions, x)
<1> DEFINE to == l.stage + 1
           last == to = 4
           x == L!Transition(IF last THEN "promoted" ELSE "advanced", to, i, 0)
           one == [l EXCEPT !.stage = to]
           two == [one EXCEPT !.inStage = 0]
           three == [two EXCEPT !.state = IF last THEN "promoted" ELSE @]
           four == [three EXCEPT !.gate = IF last THEN @ ELSE L!NewGate]
           five == [four EXCEPT !.transitions = Append(@, x)]
<1>1. L!Advance(l, i) = five
  BY DEF L!Advance, L!Stages
<1>2. l.stage \in 0 .. 3 /\ to \in 1 .. 4 /\ Len(l.transitions) = l.stage /\ l.transitions \in Seq(Steps)
  BY DEF Climbs
<1>3. x \in Steps /\ x.share = to
  BY <1>2 DEF L!Transition, Steps
<1>4. DOMAIN one = Fields /\ one.stage = to /\ one.state = "running" /\ one.transitions = l.transitions
  BY DEF Climbs, Fields
<1> HIDE DEF one
<1>5. /\ DOMAIN two = Fields /\ two.stage = to /\ two.state = "running" /\ two.inStage = 0
      /\ two.transitions = l.transitions
  BY <1>4 DEF Fields
<1> HIDE DEF two
<1>6. /\ DOMAIN three = Fields /\ three.stage = to /\ three.inStage = 0
      /\ three.state = IF last THEN "promoted" ELSE "running"
      /\ three.transitions = l.transitions
  BY <1>5 DEF Fields
<1> HIDE DEF three
<1>7. /\ DOMAIN four = Fields /\ four.stage = to /\ four.inStage = 0
      /\ four.state = IF last THEN "promoted" ELSE "running"
      /\ four.transitions = l.transitions
  BY <1>6 DEF Fields
<1> HIDE DEF four, x
<1>8. /\ DOMAIN five = Fields /\ five.stage = to /\ five.inStage = 0
      /\ five.state = IF last THEN "promoted" ELSE "running"
      /\ five.transitions = Append(l.transitions, x)
  BY <1>7 DEF Fields
<1> HIDE DEF five
<1>9. PICK n \in Nat : n = Len(l.transitions) /\ n + 1 = to
  BY <1>2
<1>10. /\ five.transitions \in Seq(Steps) /\ Len(five.transitions) = n + 1
       /\ five.transitions[n + 1] = x
       /\ \A k \in 1 .. n : five.transitions[k] = l.transitions[k]
  BY <1>2, <1>3, <1>8, <1>9
<1>11. \A k \in 1 .. n : l.transitions[k].share = k
  BY <1>9 DEF Climbs
<1>12. \A k \in 1 .. n + 1 : k \in 1 .. n \/ k = n + 1
  OBVIOUS
<1>13. \A k \in 1 .. Len(five.transitions) : five.transitions[k].share = k
  BY <1>3, <1>9, <1>10, <1>11, <1>12
<1>14. five.state = "running" => five.stage < 4 /\ Len(five.transitions) = five.stage
  BY <1>2, <1>8, <1>9, <1>10
<1>15. Climbs(five)
  BY <1>2, <1>8, <1>10, <1>13, <1>14 DEF Climbs
<1>16. QED BY <1>1, <1>3, <1>8, <1>15

LEMMA UpdateClimbs ==
  ASSUME NEW l, Climbs(l), NEW win, NEW i \in Nat
  PROVE  /\ Climbs(L!Update(l, win, i))
         /\ \/ L!Update(l, win, i).transitions = l.transitions
            \/ \E x \in Steps : L!Update(l, win, i).transitions = Append(l.transitions, x)
<1> DEFINE stat == IF win THEN (IF l.stat >= Down THEN l.stat - Down ELSE 0) ELSE l.stat + Up
           one == [l EXCEPT !.seen = @ + 1]
           two == [one EXCEPT !.inStage = @ + 1]
           counted == [l EXCEPT !.seen = @ + 1, !.inStage = @ + 1, !.stat = stat]
           weighed == [counted EXCEPT !.gate = L!Weigh(@, win)]
<1>1. CASE l.state # "running"
  BY <1>1 DEF L!Update
<1>2. CASE l.state = "running"
  <2>1. /\ DOMAIN counted = Fields /\ counted.stage = l.stage /\ counted.state = l.state
        /\ counted.inStage \in Nat /\ counted.transitions = l.transitions
    <3>1. /\ DOMAIN one = Fields /\ one.stage = l.stage /\ one.state = l.state
          /\ one.inStage \in Nat /\ one.transitions = l.transitions
      BY DEF Climbs, Fields
    <3>2. counted = [two EXCEPT !.stat = stat]
      OBVIOUS
    <3> HIDE DEF one
    <3>3. /\ DOMAIN two = Fields /\ two.stage = l.stage /\ two.state = l.state
          /\ two.inStage \in Nat /\ two.transitions = l.transitions
      BY <3>1 DEF Fields
    <3> HIDE DEF two, counted
    <3>4. QED BY <3>2, <3>3 DEF Fields
  <2>2. L!Update(l, win, i) = CASE stat >= H -> L!RollBack(counted, i)
                                [] stat < H /\ L!Passed(weighed.gate) -> L!Advance(weighed, i)
                                [] OTHER -> weighed
    BY <1>2 DEF L!Update
  <2> HIDE DEF stat, counted
  <2>3. /\ DOMAIN weighed = Fields /\ weighed.stage = l.stage /\ weighed.state = l.state
        /\ weighed.inStage \in Nat /\ weighed.transitions = l.transitions
    BY <2>1 DEF Fields
  <2> HIDE DEF weighed
  <2>4. L!Update(l, win, i) \in {L!RollBack(counted, i), L!Advance(weighed, i), weighed}
    BY <2>2
  <2>5. Climbs(counted) /\ Climbs(weighed)
    BY <2>1, <2>3, SameClimb
  <2>6. \E x \in Steps : L!RollBack(counted, i).transitions = Append(l.transitions, x)
    BY <1>2, <2>1, <2>5, RollBackClimbs
  <2>7. \E x \in Steps : L!Advance(weighed, i).transitions = Append(l.transitions, x)
    BY <1>2, <2>3, <2>5, AdvanceClimbs
  <2>8. Climbs(L!RollBack(counted, i)) /\ Climbs(L!Advance(weighed, i))
    BY <1>2, <2>1, <2>3, <2>5, RollBackClimbs, AdvanceClimbs
  <2>9. QED BY <2>3, <2>4, <2>5, <2>6, <2>7, <2>8
<1>3. QED BY <1>1, <1>2
-----------------------------------------------------------------------------
(* The router alone reads the control stream.                              *)
LEMMA CtlFact ==
  /\ Ctl \in BP!Readers["router"] /\ Ctl \in BP!Channels /\ Ctl # Requested
  /\ \A c \in Consumers : c # "router" => Ctl \notin BP!Readers[c]
<1>1. "router" \in Consumers /\ "router" \notin Workers
  BY SubsFact, WorkersAssumption
<1>2. \A c \in Consumers : BP!Readers[c] = {<<s, GroupOf[c]>> : s \in BP!Range(Subs[c])}
  BY DEF BP!Readers
<1>3. Subs["router"] = <<"requests", "control">>
  BY <1>1, RampedAssumption DEF Subs
<1>4. "control" \in BP!Range(Subs["router"])
  BY <1>3 DEF BP!Range
<1>5. GroupOf["router"] = "router" /\ \A c \in Consumers : c # "router" => GroupOf[c] # "router"
  BY <1>1 DEF GroupOf
<1>6. Ctl \in BP!Readers["router"] /\ \A c \in Consumers : c # "router" => Ctl \notin BP!Readers[c]
  BY <1>1, <1>2, <1>4, <1>5 DEF Ctl
<1>7. QED BY <1>1, <1>6 DEF BP!Channels, Ctl, Requested

LEMMA TableFacts ==
  ASSUME BP!IInv
  PROVE  /\ cursor[Ctl] \in Nat /\ cursor[Ctl] <= Len(log["control"])
         /\ \A s \in Streams : log[s] \in Seq(Payloads)
         /\ DOMAIN pending = BP!Channels /\ DOMAIN cursor = BP!Channels
         /\ DOMAIN pending[Ctl] \subseteq 1 .. cursor[Ctl]
         /\ DOMAIN held = Consumers
         /\ \A ch \in BP!Channels, k \in Nat : Nothing # <<ch, k>>
<1>1. BP!BusTypeOK
  BY DEF BP!IInv, BP!TypeOK
<1>2. Ctl \in BP!Channels /\ Ctl[1] = "control"
  BY CtlFact DEF Ctl
<1>3. QED BY <1>1, <1>2, NothingFact DEF BP!BusTypeOK

(* What the others take or ack is nothing of the control stream's.         *)
LEMMA OthersLeaveCtl ==
  ASSUME BP!IInv, NEW c \in Consumers, c # "router", B!Take(c) \/ B!Ack(c)
  PROVE  pending'[Ctl] = pending[Ctl] /\ cursor'[Ctl] = cursor[Ctl]
<1>1. /\ Ctl \notin BP!Readers[c] /\ Ctl \in BP!Channels
      /\ DOMAIN pending = BP!Channels /\ DOMAIN cursor = BP!Channels
  BY CtlFact, TableFacts
<1>2. CASE B!Ack(c)
  <2>1. held[c] # Nothing /\ held[c][1] # Ctl
    BY <1>1, <1>2, AckFacts DEF BP!IInv, BP!BusInv, BP!HeldWasHanded
  <2>2. QED BY <1>1, <1>2, <2>1 DEF B!Ack
<1>3. CASE B!Take(c)
  <2>1. PICK i \in DOMAIN Subs[c] :
          B!Reclaim(c, <<Subs[c][i], GroupOf[c]>>) \/ B!Deliver(c, <<Subs[c][i], GroupOf[c]>>)
    BY <1>3, Zenon DEF B!Take
  <2> DEFINE ch == <<Subs[c][i], GroupOf[c]>>
  <2>2. ch # Ctl
    <3>1. ch \in BP!Readers[c]
      BY DEF BP!Readers, BP!Range
    <3>2. QED BY <1>1, <3>1
  <2> HIDE DEF ch
  <2>3. B!Reclaim(c, ch) \/ B!Deliver(c, ch)
    BY <2>1 DEF ch
  <2>4. CASE B!Reclaim(c, ch)
    <3>1. PICK k : pending' = [pending EXCEPT ![ch][k] = [owner |-> c, idle |-> 0]]
                   /\ UNCHANGED cursor
      BY <2>4 DEF B!Reclaim
    <3>2. QED BY <1>1, <2>2, <3>1
  <2>5. CASE B!Deliver(c, ch)
    BY <1>1, <2>2, <2>5 DEF B!Deliver
  <2>6. QED BY <2>3, <2>4, <2>5
<1>4. QED BY <1>2, <1>3

(* The router, with nothing in hand and nothing of the control stream      *)
(* pending, takes the next control message or another one.                 *)
LEMMA RouterTakes ==
  ASSUME BP!IInv, B!Take("router"), DOMAIN pending[Ctl] = {}
  PROVE  \/ /\ held'["router"] # Nothing /\ held'["router"][1] # Ctl
            /\ pending'[Ctl] = pending[Ctl] /\ cursor'[Ctl] = cursor[Ctl]
         \/ /\ held'["router"] = <<Ctl, cursor[Ctl] + 1>>
            /\ cursor'[Ctl] = cursor[Ctl] + 1
            /\ DOMAIN pending'[Ctl] = {cursor[Ctl] + 1}
<1>1. /\ Ctl \in BP!Channels /\ "router" \in Consumers /\ cursor[Ctl] \in Nat
      /\ DOMAIN pending = BP!Channels /\ DOMAIN cursor = BP!Channels /\ DOMAIN held = Consumers
      /\ held'["router"] # Nothing
  BY CtlFact, TableFacts, SubsFact, TakeFacts
<1>2. PICK i \in DOMAIN Subs["router"] :
        \/ B!Reclaim("router", <<Subs["router"][i], GroupOf["router"]>>)
        \/ B!Deliver("router", <<Subs["router"][i], GroupOf["router"]>>)
  BY Zenon DEF B!Take
<1> DEFINE ch == <<Subs["router"][i], GroupOf["router"]>>
<1> HIDE DEF ch
<1>3. B!Reclaim("router", ch) \/ B!Deliver("router", ch)
  BY <1>2 DEF ch
<1>4. CASE B!Reclaim("router", ch)
  <2>1. PICK k \in DOMAIN pending[ch] :
          /\ pending' = [pending EXCEPT ![ch][k] = [owner |-> "router", idle |-> 0]]
          /\ held' = [held EXCEPT !["router"] = <<ch, k>>]
          /\ UNCHANGED cursor
    BY <1>4 DEF B!Reclaim, B!Expired
  <2>2. ch # Ctl
    BY <2>1
  <2>3. QED BY <1>1, <2>1, <2>2
<1>5. CASE B!Deliver("router", ch)
  <2> DEFINE k == cursor[ch] + 1
             fresh == [j \in DOMAIN pending[ch] \union {k} |->
                         IF j = k THEN [owner |-> "router", idle |-> 0] ELSE pending[ch][j]]
  <2>1. /\ cursor' = [cursor EXCEPT ![ch] = k]
        /\ pending' = [pending EXCEPT ![ch] = fresh]
        /\ held' = [held EXCEPT !["router"] = <<ch, k>>]
    BY <1>5 DEF B!Deliver
  <2>2. DOMAIN fresh = DOMAIN pending[ch] \union {k}
    OBVIOUS
  <2> HIDE DEF fresh
  <2>3. CASE ch = Ctl
    BY <1>1, <2>1, <2>2, <2>3
  <2>4. CASE ch # Ctl
    BY <1>1, <2>1, <2>4
  <2>5. QED BY <2>3, <2>4
<1>6. QED BY <1>3, <1>4, <1>5
-----------------------------------------------------------------------------
(* The parts of the invariant, when the parts they speak of stay.          *)
LEMMA MannedStays ==
  ASSUME Manned, NEW t \in Tasks, pc' \in [Tasks -> Spots], sent' \in Nat,
         \A u \in Tasks : u # t => pc'[u] = pc[u],
         \A c \in Consumers : c # t => held'[c] = held[c],
         t \in Workers \union {"router"} => (held'[t] = Nothing => pc'[t] = "next"),
         t = "decision" => (held'[t] = Nothing => pc'[t] \in {"next", "start"})
  PROVE  Manned'
<1>1. Workers \subseteq Consumers /\ "router" \in Consumers /\ "decision" \in Consumers
      /\ Consumers \subseteq Tasks
  BY SubsFact
<1>2. ASSUME NEW c \in Workers \union {"router"}, held'[c] = Nothing PROVE pc'[c] = "next"
  <2>1. CASE c = t
    BY <1>2, <2>1
  <2>2. CASE c # t
    BY <1>1, <1>2, <2>2 DEF Manned
  <2>3. QED BY <2>1, <2>2
<1>3. ASSUME held'["decision"] = Nothing PROVE pc'["decision"] \in {"next", "start"}
  <2>1. CASE t = "decision"
    BY <1>3, <2>1
  <2>2. CASE t # "decision"
    BY <1>1, <1>3, <2>2 DEF Manned
  <2>3. QED BY <2>1, <2>2
<1>4. QED BY <1>2, <1>3 DEF Manned

LEMMA AnnouncedStays ==
  ASSUME Announced, UNCHANGED lifecycle, log'["control"] = log["control"],
         \/ pc'["decision"] = pc["decision"]
         \/ /\ pc["decision"] \notin {"start", "control"}
            /\ pc'["decision"] \notin {"start", "control"}
  PROVE  Announced'
  BY DEF Announced, Told, L!Share

LEMMA HeardStays ==
  ASSUME Heard, cursor[Ctl] \in Nat,
         held'["router"] = held["router"], UNCHANGED userShare, cursor'[Ctl] = cursor[Ctl],
         OnControl => (pc'["router"] = "request" <=> pc["router"] = "request"),
         DOMAIN pending'[Ctl] \subseteq DOMAIN pending[Ctl],
         \A k \in 1 .. cursor[Ctl] : log'["control"][k] = log["control"][k]
  PROVE  Heard'
<1>1. OnControl' <=> OnControl
  BY DEF OnControl
<1>2. Unread' <=> Unread
  BY <1>1 DEF Unread
<1>3. OnControl => cursor[Ctl] - 1 \in 0 .. cursor[Ctl]
  BY DEF Heard
<1>4. Unread => OnControl
  BY DEF Unread
<1>5. Unread => userShare' = ShareAt(cursor[Ctl] - 1)'
  BY <1>3, <1>4 DEF Heard, ShareAt
<1>6. ~Unread => userShare' = ShareAt(cursor[Ctl])'
  BY DEF Heard, ShareAt
<1>7. OnControl => held'["router"][2] = cursor'[Ctl] /\ cursor'[Ctl] > 0
  BY DEF Heard
<1>8. \A k \in DOMAIN pending'[Ctl] : held'["router"] = <<Ctl, k>>
  BY DEF Heard
<1>9. QED BY <1>1, <1>2, <1>5, <1>6, <1>7, <1>8 DEF Heard

(* A step of t that neither the control stream nor its readers notice.     *)
LEMMA Elsewhere ==
  ASSUME CanaryInv, BP!IInv', NEW t \in Tasks, pc' \in [Tasks -> Spots], sent' \in Nat,
         \A u \in Tasks : u # t => pc'[u] = pc[u],
         \A c \in Consumers : c # t => held'[c] = held[c],
         t \in Workers \union {"router"} => (held'[t] = Nothing => pc'[t] = "next"),
         t = "decision" =>
           /\ held'[t] = Nothing => pc'[t] = "next"
           /\ pc[t] \notin {"start", "control"} /\ pc'[t] \notin {"start", "control"},
         t = "router" =>
           /\ held'[t] = held[t]
           /\ OnControl => (pc'[t] = "request" <=> pc[t] = "request"),
         log'["control"] = log["control"], Requesting',
         DOMAIN pending'[Ctl] \subseteq DOMAIN pending[Ctl], cursor'[Ctl] = cursor[Ctl],
         UNCHANGED canaryVars
  PROVE  CanaryInv'
<1>1. "router" \in Consumers /\ "decision" \in Tasks /\ "router" \in Tasks
  BY SubsFact
<1>2. UNCHANGED lifecycle /\ UNCHANGED userShare
  BY DEF canaryVars
<1>3. Manned'
  BY MannedStays DEF CanaryInv
<1>4. Climbs(lifecycle)'
  BY <1>2 DEF CanaryInv, Climbs
<1>5. Announced'
  <2>1. \/ pc'["decision"] = pc["decision"]
        \/ /\ pc["decision"] \notin {"start", "control"}
           /\ pc'["decision"] \notin {"start", "control"}
    BY <1>1
  <2>2. QED BY <1>2, <2>1, AnnouncedStays DEF CanaryInv
<1>6. Heard'
  <2>1. held'["router"] = held["router"]
    BY <1>1
  <2>2. OnControl => (pc'["router"] = "request" <=> pc["router"] = "request")
    BY <1>1
  <2>3. cursor[Ctl] \in Nat
    BY TableFacts DEF CanaryInv
  <2>4. QED BY <1>2, <2>1, <2>2, <2>3, HeardStays DEF CanaryInv
<1>7. QED BY <1>3, <1>4, <1>5, <1>6 DEF CanaryInv
-----------------------------------------------------------------------------
LEMMA Going ==
  ASSUME Manned, NEW t \in Tasks, NEW q \in Spots, GoTo(t, q)
  PROVE  /\ pc' \in [Tasks -> Spots] /\ pc'[t] = q
         /\ \A u \in Tasks : u # t => pc'[u] = pc[u]
  BY DEF GoTo, Manned

(* A step inside a handler that leaves the bus alone.                      *)
LEMMA InsideStep ==
  ASSUME CanaryInv, NEW t \in Tasks, NEW p, NEW q \in Spots, At(t, p), GoTo(t, q),
         p # "next", UNCHANGED <<busVars, chaosVars, sent>>, UNCHANGED canaryVars,
         t = "decision" => p \notin {"start", "control"} /\ q \notin {"start", "control"},
         t = "router" /\ OnControl => p # "request" /\ q # "request"
  PROVE  CanaryInv'
<1>1. BP!IInv'
  BY BusStands DEF CanaryInv, BP!IInv, BP!TypeOK, chaosVars
<1>2. /\ pc' \in [Tasks -> Spots] /\ pc'[t] = q /\ pc[t] = p
      /\ \A u \in Tasks : u # t => pc'[u] = pc[u]
  BY Going DEF CanaryInv, At
<1>3. UNCHANGED <<log, held, pending, cursor>> /\ sent' = sent
  BY DEF busVars
<1>4. Requesting' /\ sent' \in Nat
  BY <1>3 DEF CanaryInv, Requesting, Manned
<1>5. t \in Workers \union {"router"} => (held'[t] = Nothing => pc'[t] = "next")
  BY <1>2, <1>3 DEF CanaryInv, Manned
<1>6. t = "decision" => held'[t] # Nothing
  BY <1>2, <1>3 DEF CanaryInv, Manned
<1>7. t = "decision" => /\ held'[t] = Nothing => pc'[t] = "next"
                        /\ pc[t] \notin {"start", "control"} /\ pc'[t] \notin {"start", "control"}
  BY <1>2, <1>6
<1>8. t = "router" => /\ held'[t] = held[t]
                      /\ OnControl => (pc'[t] = "request" <=> pc[t] = "request")
  BY <1>2, <1>3
<1>9. QED BY <1>1, <1>2, <1>3, <1>4, <1>5, <1>7, <1>8, Elsewhere

(* A step that moves neither the services nor the streams.                 *)
LEMMA AsideMove ==
  ASSUME CanaryInv, BP!IInv', UNCHANGED <<log, cursor, held, pc, sent>>, UNCHANGED canaryVars,
         DOMAIN pending'[Ctl] \subseteq DOMAIN pending[Ctl]
  PROVE  CanaryInv'
<1>1. "runner" \in Tasks /\ "runner" \notin Workers \union {"router"}
  BY SubsFact, WorkersAssumption
<1>2. pc' \in [Tasks -> Spots] /\ sent' \in Nat /\ Requesting'
  BY DEF CanaryInv, Manned, Requesting
<1>3. QED BY <1>1, <1>2, Elsewhere
-----------------------------------------------------------------------------
(* What goes to a stream other than control.                               *)
LEMMA PublishElsewhere ==
  ASSUME CanaryInv, NEW t \in Tasks, NEW s \in Streams, s # "control", NEW p \in Payloads,
         s = "requests" => p[1] = "request",
         NEW r, NEW q \in Spots, At(t, r), t \in Workers \union {"router"} => r # "next",
         t # "decision", t = "router" => r # "request" /\ q # "request",
         B!Publish(s, p), UNCHANGED chaosVars, GoTo(t, q), sent' \in Nat, UNCHANGED canaryVars
  PROVE  CanaryInv'
<1>1. /\ BP!BusInv' /\ UNCHANGED held
      /\ log[s] \in Seq(Payloads) /\ log'[s] = Append(log[s], p)
      /\ \A u \in Streams : u # s => log'[u] = log[u]
  BY PublishFacts DEF CanaryInv
<1>2. BP!IInv'
  BY <1>1, BusMoves DEF CanaryInv
<1>3. /\ pc' \in [Tasks -> Spots] /\ pc'[t] = q /\ pc[t] = r
      /\ \A u \in Tasks : u # t => pc'[u] = pc[u]
  BY Going DEF CanaryInv, At
<1>4. UNCHANGED <<pending, cursor>>
  BY DEF B!Publish
<1>5. log'["control"] = log["control"]
  BY <1>1 DEF Streams
<1>6. Requesting'
  <2>1. CASE s = "requests"
    <3>1. \A k \in DOMAIN log'[s] : (k \in DOMAIN log[s] /\ log'[s][k] = log[s][k]) \/ log'[s][k] = p
      BY <1>1
    <3>2. QED BY <2>1, <3>1 DEF CanaryInv, Requesting
  <2>2. CASE s # "requests"
    <3>1. log'["requests"] = log["requests"]
      BY <1>1, <2>2 DEF Streams
    <3>2. QED BY <3>1 DEF CanaryInv, Requesting
  <2>3. QED BY <2>1, <2>2
<1>7. t \in Workers \union {"router"} => (held'[t] = Nothing => pc'[t] = "next")
  BY <1>1, <1>3 DEF CanaryInv, Manned
<1>8. t = "router" => /\ held'[t] = held[t]
                      /\ OnControl => (pc'[t] = "request" <=> pc[t] = "request")
  BY <1>1, <1>3
<1>9. QED BY <1>1, <1>2, <1>3, <1>4, <1>5, <1>6, <1>7, <1>8, Elsewhere

(* What consumers other than the router take and ack.                      *)
LEMMA TakeElsewhere ==
  ASSUME CanaryInv, NEW c \in Consumers, c # "router", NEW q \in Spots,
         q \notin {"start", "control"}, Receive(c, q), UNCHANGED canaryVars
  PROVE  CanaryInv'
<1>1. At(c, "next") /\ B!Take(c) /\ UNCHANGED chaosVars /\ UNCHANGED sent /\ GoTo(c, q)
  BY DEF Receive
<1>2. c \in Tasks
  BY SubsFact
<1>3. /\ BP!BusInv' /\ held'[c] # Nothing /\ (\A d \in Consumers : d # c => held'[d] = held[d])
      /\ UNCHANGED <<log, acked>>
  BY <1>1, TakeFacts DEF CanaryInv
<1>4. BP!IInv'
  BY <1>1, <1>3, BusMoves DEF CanaryInv
<1>5. /\ pc' \in [Tasks -> Spots] /\ pc'[c] = q /\ pc[c] = "next"
      /\ \A u \in Tasks : u # c => pc'[u] = pc[u]
  BY <1>1, <1>2, Going DEF CanaryInv, At
<1>6. pending'[Ctl] = pending[Ctl] /\ cursor'[Ctl] = cursor[Ctl]
  BY <1>1, OthersLeaveCtl DEF CanaryInv
<1>7. Requesting' /\ sent' \in Nat /\ log'["control"] = log["control"]
  BY <1>1, <1>3 DEF CanaryInv, Requesting, Manned
<1>8. QED BY <1>2, <1>3, <1>4, <1>5, <1>6, <1>7, Elsewhere

LEMMA AckElsewhere ==
  ASSUME CanaryInv, NEW c \in Consumers, c # "router", Acknowledge(c), UNCHANGED canaryVars
  PROVE  CanaryInv'
<1>1. At(c, "ack") /\ B!Ack(c) /\ UNCHANGED chaosVars /\ UNCHANGED sent /\ GoTo(c, "next")
  BY DEF Acknowledge
<1>2. c \in Tasks /\ "next" \in Spots
  BY SubsFact DEF Spots, Places
<1>3. /\ BP!BusInv' /\ held'[c] = Nothing /\ (\A d \in Consumers : d # c => held'[d] = held[d])
      /\ UNCHANGED log
  BY <1>1, AckFacts DEF CanaryInv
<1>4. BP!IInv'
  BY <1>1, <1>3, BusMoves DEF CanaryInv
<1>5. /\ pc' \in [Tasks -> Spots] /\ pc'[c] = "next" /\ pc[c] = "ack"
      /\ \A u \in Tasks : u # c => pc'[u] = pc[u]
  BY <1>1, <1>2, Going DEF CanaryInv, At
<1>6. pending'[Ctl] = pending[Ctl] /\ cursor'[Ctl] = cursor[Ctl]
  BY <1>1, OthersLeaveCtl DEF CanaryInv
<1>7. Requesting' /\ sent' \in Nat /\ log'["control"] = log["control"]
  BY <1>1, <1>3 DEF CanaryInv, Requesting, Manned
<1>8. QED BY <1>2, <1>3, <1>4, <1>5, <1>6, <1>7, Elsewhere

LEMMA PollElsewhere ==
  ASSUME CanaryInv, NEW c \in Consumers, Poll(c), UNCHANGED canaryVars
  PROVE  CanaryInv'
<1>1. BP!IInv'
  BY BusStands DEF Poll, CanaryInv, BP!IInv, BP!TypeOK, chaosVars
<1>2. UNCHANGED <<log, cursor, pending, held, pc, sent>>
  BY DEF Poll, busVars
<1>3. QED BY <1>1, <1>2, AsideMove
-----------------------------------------------------------------------------
(* A killed worker leaves what it held in the table.                       *)
LEMMA KillElsewhere ==
  ASSUME CanaryInv, NEW w \in Workers, KillWorker(w), UNCHANGED canaryVars
  PROVE  CanaryInv'
<1>1. B!Crash(w) /\ pc' = [pc EXCEPT ![w] = "next"] /\ UNCHANGED sent
  BY DEF KillWorker
<1>2. w \in Tasks /\ w \in Consumers /\ w \notin {"router", "decision"}
  BY SubsFact, WorkersAssumption
<1>3. BP!Drop(w) /\ crashes < MaxKills /\ crashes' = crashes + 1 /\ live' = live \ {w}
  BY <1>1 DEF B!Crash, B!Drop, BP!Drop
<1>4. BP!BusInv'
  BY <1>2, <1>3, BP!DropKeeps, SubsFact, NothingFact, ReclaimIdleAssumption,
     RequestsAssumption, KillsAssumption DEF CanaryInv, BP!IInv
<1>5. BP!IInv'
  <2>1. live' \subseteq Consumers
    BY <1>3 DEF CanaryInv, BP!IInv, BP!TypeOK
  <2>2. crashes' \in 0 .. MaxKills
    BY <1>3, KillsAssumption DEF CanaryInv, BP!IInv, BP!TypeOK
  <2>3. QED BY <1>4, <2>1, <2>2 DEF BP!IInv, BP!TypeOK, BP!BusInv
<1>6. /\ \A c \in Consumers : c # w => held'[c] = held[c]
      /\ UNCHANGED <<log, cursor, pending>>
  BY <1>2, <1>3, TableFacts DEF CanaryInv, BP!Drop
<1>7. /\ pc' \in [Tasks -> Spots] /\ pc'[w] = "next" /\ \A u \in Tasks : u # w => pc'[u] = pc[u]
  BY <1>1, <1>2 DEF CanaryInv, Manned, Spots, Places
<1>8. Requesting' /\ sent' \in Nat
  BY <1>1, <1>6 DEF CanaryInv, Requesting, Manned
<1>9. QED BY <1>2, <1>5, <1>6, <1>7, <1>8, Elsewhere

LEMMA RestartElsewhere ==
  ASSUME CanaryInv, NEW w \in Workers, RestartWorker(w), UNCHANGED canaryVars
  PROVE  CanaryInv'
<1>1. live' = live \union {w} /\ UNCHANGED busVars /\ UNCHANGED crashes /\ UNCHANGED <<pc, sent>>
  BY DEF RestartWorker, B!Restart, B!busVars, busVars
<1>2. live' \subseteq Consumers
  BY <1>1, SubsFact DEF CanaryInv, BP!IInv, BP!TypeOK
<1>3. BP!IInv'
  BY <1>1, <1>2, BusStands DEF CanaryInv
<1>4. QED BY <1>1, <1>3, AsideMove DEF busVars

LEMMA TickElsewhere ==
  ASSUME CanaryInv, Tick, UNCHANGED canaryVars
  PROVE  CanaryInv'
<1>1. BP!Tick
  BY DEF Tick, B!Tick, BP!Tick, B!Older, BP!Older, B!Channels, BP!Channels, B!Readers, BP!Readers,
         B!Range, BP!Range
<1>2. BP!IInv'
  <2>1. BP!BusInv'
    BY <1>1, BP!TickKeeps, SubsFact, NothingFact, ReclaimIdleAssumption,
       RequestsAssumption, KillsAssumption DEF CanaryInv, BP!IInv
  <2>2. QED BY <2>1, BusMoves DEF CanaryInv, Tick
<1>3. DOMAIN pending'[Ctl] = DOMAIN pending[Ctl]
  BY <1>1, CtlFact DEF BP!Tick
<1>4. QED BY <1>1, <1>2, <1>3, AsideMove DEF Tick, BP!Tick

LEMMA AsideElsewhere ==
  ASSUME CanaryInv, UNCHANGED <<busVars, chaosVars, pc, sent>>, UNCHANGED canaryVars
  PROVE  CanaryInv'
<1>1. BP!IInv'
  BY BusStands DEF CanaryInv, BP!IInv, BP!TypeOK, chaosVars
<1>2. QED BY <1>1, AsideMove DEF busVars
-----------------------------------------------------------------------------
(* The router and the control stream.                                      *)
LEMMA RouterReceives ==
  ASSUME CanaryInv, RouterReceive, UNCHANGED canaryVars
  PROVE  CanaryInv'
<1> DEFINE n == cursor[Ctl]
<1>1. /\ At("router", "next") /\ B!Take("router") /\ UNCHANGED chaosVars /\ UNCHANGED sent
      /\ GoTo("router", "request")
  BY DEF RouterReceive, Receive
<1>2. /\ "router" \in Consumers /\ "router" \in Tasks /\ "request" \in Spots
      /\ "router" \notin Workers /\ n \in Nat
  BY SubsFact, WorkersAssumption, TableFacts DEF Spots, Places, CanaryInv
<1>3. /\ BP!BusInv' /\ held["router"] = Nothing /\ held'["router"] # Nothing
      /\ \A d \in Consumers : d # "router" => held'[d] = held[d]
      /\ UNCHANGED log
  BY <1>1, <1>2, TakeFacts DEF CanaryInv
<1>4. BP!IInv'
  BY <1>1, <1>3, BusMoves DEF CanaryInv
<1>5. /\ pc' \in [Tasks -> Spots] /\ pc'["router"] = "request"
      /\ \A u \in Tasks : u # "router" => pc'[u] = pc[u]
  BY <1>1, <1>2, Going DEF CanaryInv
<1>6. Manned' /\ Requesting' /\ Climbs(lifecycle)' /\ UNCHANGED lifecycle /\ UNCHANGED userShare
  <2>1. sent' \in Nat /\ Manned
    BY <1>1 DEF CanaryInv, Manned
  <2>2. Manned'
    BY <1>2, <1>3, <1>5, <2>1, MannedStays
  <2>3. QED BY <1>3, <2>2 DEF CanaryInv, Requesting, Climbs, canaryVars
<1>7. Announced'
  <2>1. pc'["decision"] = pc["decision"]
    BY <1>5, SubsFact
  <2>2. QED BY <1>3, <1>6, <2>1, AnnouncedStays DEF CanaryInv
<1>8. DOMAIN pending[Ctl] = {}
  <2>1. SUFFICES ASSUME NEW k \in DOMAIN pending[Ctl] PROVE FALSE
    OBVIOUS
  <2>2. k \in Nat /\ Ctl \in BP!Channels
    BY TableFacts, CtlFact DEF CanaryInv
  <2>3. held["router"] = <<Ctl, k>>
    BY DEF CanaryInv, Heard
  <2>4. QED BY <1>3, <2>2, <2>3, TableFacts DEF CanaryInv
<1>9. userShare = ShareAt(n)
  BY <1>3 DEF CanaryInv, Heard, Unread, OnControl
<1>10. Heard'
  <2>1. CASE /\ held'["router"][1] # Ctl
             /\ pending'[Ctl] = pending[Ctl] /\ cursor'[Ctl] = n
    <3>1. ~OnControl' /\ ~Unread'
      BY <2>1 DEF OnControl, Unread
    <3>2. userShare' = ShareAt(cursor[Ctl])'
      BY <1>3, <1>6, <1>9, <2>1 DEF ShareAt
    <3>3. QED BY <1>8, <2>1, <3>1, <3>2 DEF Heard
  <2>2. CASE /\ held'["router"] = <<Ctl, n + 1>> /\ cursor'[Ctl] = n + 1
             /\ DOMAIN pending'[Ctl] = {n + 1}
    <3>1. OnControl' /\ Unread'
      BY <1>3, <1>5, <2>2 DEF OnControl, Unread
    <3>2. userShare' = ShareAt(cursor[Ctl] - 1)'
      <4>1. cursor'[Ctl] - 1 = n
        BY <1>2, <2>2
      <4>2. QED BY <1>3, <1>6, <1>9, <4>1 DEF ShareAt
    <3>3. held'["router"][2] = cursor'[Ctl] /\ cursor'[Ctl] > 0
      BY <1>2, <2>2
    <3>4. \A k \in DOMAIN pending'[Ctl] : held'["router"] = <<Ctl, k>>
      BY <2>2
    <3>5. QED BY <3>1, <3>2, <3>3, <3>4 DEF Heard
  <2>3. QED BY <1>1, <1>8, <2>1, <2>2, RouterTakes DEF CanaryInv
<1>11. QED BY <1>4, <1>6, <1>7, <1>10 DEF CanaryInv

LEMMA RouterAcks ==
  ASSUME CanaryInv, Acknowledge("router"), UNCHANGED canaryVars
  PROVE  CanaryInv'
<1>1. /\ At("router", "ack") /\ B!Ack("router") /\ UNCHANGED chaosVars /\ UNCHANGED sent
      /\ GoTo("router", "next")
  BY DEF Acknowledge
<1>2. /\ "router" \in Consumers /\ "router" \in Tasks /\ "next" \in Spots
      /\ "router" \notin Workers /\ Ctl \in BP!Channels
  BY SubsFact, WorkersAssumption, CtlFact DEF Spots, Places
<1>3. /\ BP!BusInv' /\ held'["router"] = Nothing
      /\ \A d \in Consumers : d # "router" => held'[d] = held[d]
      /\ UNCHANGED log
  BY <1>1, <1>2, AckFacts DEF CanaryInv
<1>4. BP!IInv'
  BY <1>1, <1>3, BusMoves DEF CanaryInv
<1>5. /\ pc' \in [Tasks -> Spots] /\ pc'["router"] = "next" /\ pc["router"] = "ack"
      /\ \A u \in Tasks : u # "router" => pc'[u] = pc[u]
  BY <1>1, <1>2, Going DEF CanaryInv, At
<1>6. Manned' /\ Requesting' /\ Climbs(lifecycle)' /\ UNCHANGED lifecycle /\ UNCHANGED userShare
  <2>1. sent' \in Nat /\ Manned
    BY <1>1 DEF CanaryInv, Manned
  <2>2. Manned'
    BY <1>2, <1>3, <1>5, <2>1, MannedStays
  <2>3. QED BY <1>3, <2>2 DEF CanaryInv, Requesting, Climbs, canaryVars
<1>7. Announced'
  <2>1. pc'["decision"] = pc["decision"]
    BY <1>5, SubsFact
  <2>2. QED BY <1>3, <1>6, <2>1, AnnouncedStays DEF CanaryInv
<1>8. DOMAIN pending'[Ctl] = {} /\ UNCHANGED cursor
  <2>1. PICK ch, k : ch = held["router"][1] /\ k = held["router"][2]
    OBVIOUS
  <2>2. pending' = [pending EXCEPT ![ch] = [j \in DOMAIN pending[ch] \ {k} |-> pending[ch][j]]]
        /\ UNCHANGED cursor
    BY <1>1, <2>1 DEF B!Ack
  <2>3. DOMAIN pending = BP!Channels
    BY TableFacts DEF CanaryInv
  <2>4. \A j \in DOMAIN pending[Ctl] : ch = Ctl /\ k = j
    BY <2>1 DEF CanaryInv, Heard
  <2>5. CASE ch = Ctl
    BY <1>2, <2>2, <2>3, <2>4, <2>5
  <2>6. CASE ch # Ctl
    BY <1>2, <2>2, <2>3, <2>4, <2>6
  <2>7. QED BY <2>2, <2>5, <2>6
<1>9. Heard'
  <2>1. ~OnControl' /\ ~Unread' /\ ~Unread
    BY <1>3, <1>5 DEF OnControl, Unread
  <2>2. userShare' = ShareAt(cursor[Ctl])'
    BY <1>3, <1>6, <1>8, <2>1 DEF CanaryInv, Heard, ShareAt
  <2>3. QED BY <1>8, <2>1, <2>2 DEF Heard
<1>10. QED BY <1>4, <1>6, <1>7, <1>9 DEF CanaryInv

(* What the router has in hand when it is told a share.                    *)
LEMMA ControlFacts ==
  ASSUME CanaryInv, pc["router"] = "request"
  PROVE  /\ Kind("router") = "request" => ~OnControl
         /\ Kind("router") = "share_update" =>
              /\ Unread /\ cursor[Ctl] \in Nat /\ cursor[Ctl] > 0
              /\ cursor[Ctl] <= Len(log["control"])
              /\ Payload("router") = ShareAt(cursor[Ctl])
<1>1. "router" \in Consumers /\ held["router"] # Nothing
  BY SubsFact DEF CanaryInv, Manned
<1>2. PICK ch, k : ch = held["router"][1] /\ k = held["router"][2]
  OBVIOUS
<1>3. /\ ch \in {Requested, Ctl} /\ k \in DOMAIN log[ch[1]]
      /\ Kind("router") = log[ch[1]][k][1] /\ Payload("router") = log[ch[1]][k][2]
  BY <1>1, <1>2, HeldFacts, ReadersFact DEF CanaryInv, Kind, Payload, Received, Ctl
<1>4. cursor[Ctl] \in Nat /\ cursor[Ctl] <= Len(log["control"]) /\ log["control"] \in Seq(Payloads)
  BY TableFacts DEF CanaryInv, Streams
<1>5. CASE ch = Requested
  <2>1. Kind("router") = "request"
    BY <1>3, <1>5 DEF Requested, CanaryInv, Requesting
  <2>2. QED BY <1>2, <1>5, <2>1, CtlFact DEF OnControl
<1>6. CASE ch = Ctl
  <2>1. OnControl /\ Unread
    BY <1>1, <1>2, <1>6 DEF OnControl, Unread
  <2>2. k = cursor[Ctl] /\ cursor[Ctl] > 0
    BY <1>2, <2>1 DEF CanaryInv, Heard
  <2>3. k \in 1 .. Len(log["control"])
    BY <1>4, <2>2
  <2>4. Kind("router") = "share_update"
    <3>1. log["control"][k] = Told(k)
      BY <2>3 DEF CanaryInv, Announced
    <3>2. QED BY <1>3, <1>6, <3>1 DEF Ctl, Told
  <2>5. Payload("router") = ShareAt(cursor[Ctl])
    BY <1>3, <1>6, <2>2 DEF Ctl, ShareAt
  <2>6. QED BY <1>4, <2>1, <2>2, <2>4, <2>5
<1>7. QED BY <1>3, <1>5, <1>6

LEMMA RouterControls ==
  ASSUME CanaryInv, RouterControl
  PROVE  CanaryInv'
<1>1. /\ At("router", "request") /\ Kind("router") = "share_update" /\ GoTo("router", "ack")
      /\ userShare' = Payload("router") /\ UNCHANGED <<busVars, chaosVars, sent, lifecycle>>
  BY DEF RouterControl
<1>2. /\ "router" \in Consumers /\ "router" \in Tasks /\ "ack" \in Spots /\ "router" \notin Workers
  BY SubsFact, WorkersAssumption DEF Spots, Places
<1>3. BP!IInv' /\ UNCHANGED <<log, held, pending, cursor>>
  <2>1. BP!IInv'
    BY <1>1, BusStands DEF CanaryInv, BP!IInv, BP!TypeOK, chaosVars
  <2>2. QED BY <1>1, <2>1 DEF busVars
<1>4. /\ pc' \in [Tasks -> Spots] /\ pc'["router"] = "ack" /\ pc["router"] = "request"
      /\ \A u \in Tasks : u # "router" => pc'[u] = pc[u]
  BY <1>1, <1>2, Going DEF CanaryInv, At
<1>5. Unread /\ Payload("router") = ShareAt(cursor[Ctl])
  BY <1>1, <1>4, ControlFacts
<1>6. Manned'
  <2>1. sent' \in Nat /\ Manned /\ held'["router"] # Nothing
    BY <1>1, <1>3, <1>5 DEF CanaryInv, Manned, Unread, OnControl
  <2>2. QED BY <1>2, <1>3, <1>4, <2>1, MannedStays
<1>7. Requesting' /\ Climbs(lifecycle)'
  BY <1>1, <1>3 DEF CanaryInv, Requesting, Climbs
<1>8. Announced'
  <2>1. pc'["decision"] = pc["decision"]
    BY <1>4, SubsFact
  <2>2. QED BY <1>1, <1>3, <2>1, AnnouncedStays DEF CanaryInv
<1>9. Heard'
  <2>1. ~Unread'
    BY <1>4 DEF Unread
  <2>2. userShare' = ShareAt(cursor[Ctl])'
    BY <1>1, <1>3, <1>5 DEF ShareAt
  <2>3. OnControl => held["router"][2] = cursor[Ctl] /\ cursor[Ctl] > 0
    BY DEF CanaryInv, Heard
  <2>4. OnControl' => OnControl
    BY <1>3 DEF OnControl
  <2>5. \A k \in DOMAIN pending'[Ctl] : held'["router"] = <<Ctl, k>>
    BY <1>3 DEF CanaryInv, Heard
  <2>6. QED BY <1>3, <2>1, <2>2, <2>3, <2>4, <2>5 DEF Heard
<1>10. QED BY <1>3, <1>6, <1>7, <1>8, <1>9 DEF CanaryInv
-----------------------------------------------------------------------------
(* The controller tells the router a share.                                *)
LEMMA ControllerTells ==
  ASSUME CanaryInv, NEW p \in {"start", "control"}, NEW q \in {"next", "ack"}, NEW x \in Shares,
         At("decision", p), GoTo("decision", q), B!Publish("control", <<"share_update", x>>),
         UNCHANGED <<chaosVars, canaryVars, sent>>,
         p = "start" => q = "next" /\ x = 0,
         p = "control" => q = "ack" /\ x = lifecycle.transitions[Len(lifecycle.transitions)].share
  PROVE  CanaryInv'
<1>1. /\ "decision" \in Tasks /\ "decision" \in Consumers /\ "router" \in Tasks
      /\ "decision" \notin Workers /\ q \in Spots
      /\ "control" \in Streams /\ "requests" \in Streams /\ <<"share_update", x>> \in Payloads
  BY SubsFact, WorkersAssumption DEF Spots, Places, Streams, Payloads, Kinds
<1> DEFINE e == <<"share_update", x>>
<1>2. /\ BP!BusInv' /\ UNCHANGED held
      /\ log["control"] \in Seq(Payloads) /\ log'["control"] = Append(log["control"], e)
      /\ log'["requests"] = log["requests"]
  BY <1>1, PublishFacts DEF CanaryInv
<1>3. BP!IInv' /\ UNCHANGED <<pending, cursor>>
  <2>1. BP!IInv'
    BY <1>2, BusMoves DEF CanaryInv
  <2>2. QED BY <2>1 DEF B!Publish
<1>4. /\ pc' \in [Tasks -> Spots] /\ pc'["decision"] = q /\ pc["decision"] = p
      /\ \A u \in Tasks : u # "decision" => pc'[u] = pc[u]
  BY <1>1, Going DEF CanaryInv, At
<1>5. Manned'
  <2>1. sent' \in Nat /\ Manned
    BY DEF CanaryInv, Manned
  <2>2. held'["decision"] = Nothing => pc'["decision"] \in {"next", "start"}
    BY <1>2, <1>4, <2>1 DEF Manned
  <2>3. QED BY <1>1, <1>2, <1>4, <2>1, <2>2, MannedStays
<1>6. Requesting' /\ Climbs(lifecycle)' /\ UNCHANGED lifecycle /\ UNCHANGED userShare
  BY <1>2 DEF CanaryInv, Requesting, Climbs, canaryVars
<1>7. PICK n \in Nat : n = Len(lifecycle.transitions)
  BY DEF CanaryInv, Climbs
<1>8. Len(log["control"]) = n /\ (p = "start" => n = 0) /\ (p = "control" => n > 0)
  BY <1>4, <1>7 DEF CanaryInv, Announced
<1>9. /\ Len(log'["control"]) = n + 1 /\ log'["control"][n + 1] = e
      /\ \A k \in 1 .. n : log'["control"][k] = log["control"][k]
  BY <1>2, <1>8
<1>10. e = Told(n + 1)
  <2>1. CASE p = "start"
    BY <1>8, <2>1 DEF Told
  <2>2. CASE p = "control"
    <3>1. n + 1 # 1 /\ (n + 1) - 1 = n
      BY <1>8, <2>2
    <3>2. QED BY <1>7, <2>2, <3>1 DEF Told
  <2>3. QED BY <2>1, <2>2
<1>11. Announced'
  <2>1. \A k \in 1 .. n + 1 : k \in 1 .. n \/ k = n + 1
    OBVIOUS
  <2>2. \A k \in 1 .. n : log["control"][k] = Told(k)
    BY <1>8 DEF CanaryInv, Announced
  <2>3. \A k \in 1 .. n + 1 : log'["control"][k] = Told(k)
    BY <1>9, <1>10, <2>1, <2>2
  <2>4. \A k \in 1 .. n + 1 : log'["control"][k] = Told(k)'
    BY <1>6, <2>3 DEF Told
  <2>5. pc'["decision"] \notin {"start", "control"}
    BY <1>4
  <2>6. QED BY <1>6, <1>7, <1>9, <2>4, <2>5 DEF Announced
<1>12. Heard'
  <2>1. cursor[Ctl] \in Nat /\ cursor[Ctl] <= n
    BY <1>8, TableFacts DEF CanaryInv
  <2>2. \A k \in 1 .. cursor[Ctl] : log'["control"][k] = log["control"][k]
    BY <1>7, <1>9, <2>1
  <2>3. pc'["router"] = pc["router"] /\ held'["router"] = held["router"]
    BY <1>1, <1>2, <1>4
  <2>4. QED BY <1>3, <1>6, <2>1, <2>2, <2>3, HeardStays DEF CanaryInv
<1>13. QED BY <1>3, <1>5, <1>6, <1>11, <1>12 DEF CanaryInv

LEMMA ControllerStarts ==
  ASSUME CanaryInv, ControllerStart
  PROVE  CanaryInv'
<1>1. /\ At("decision", "start") /\ B!Publish("control", <<"share_update", L!Share(lifecycle)>>)
      /\ UNCHANGED <<chaosVars, canaryVars, sent>> /\ GoTo("decision", "next")
  BY DEF ControllerStart, PublishAndGo
<1>2. L!Share(lifecycle) = 0
  BY <1>1 DEF At, CanaryInv, Announced
<1>3. 0 \in Shares
  BY DEF Shares
<1>4. QED BY <1>1, <1>2, <1>3, ControllerTells

LEMMA ControllerPublishes ==
  ASSUME CanaryInv, ControllerPublish
  PROVE  CanaryInv'
<1>1. PICK x : x = lifecycle.transitions[Len(lifecycle.transitions)].share
  OBVIOUS
<1>2. /\ At("decision", "control") /\ B!Publish("control", <<"share_update", x>>)
      /\ UNCHANGED <<chaosVars, canaryVars, sent>> /\ GoTo("decision", "ack")
  BY <1>1 DEF ControllerPublish, PublishAndGo
<1>3. Len(lifecycle.transitions) > 0
  BY <1>2 DEF At, CanaryInv, Announced
<1>4. lifecycle.transitions[Len(lifecycle.transitions)] \in Steps
  BY <1>3 DEF CanaryInv, Climbs
<1>5. x \in Shares
  BY <1>1, <1>4 DEF Steps, Shares
<1>6. QED BY <1>1, <1>2, <1>5, ControllerTells

(* The controller counts a verdict, and may have a share to tell.          *)
LEMMA ControllerUpdates ==
  ASSUME CanaryInv, ControllerUpdate
  PROVE  CanaryInv'
<1>1. PICK i : i = Payload("decision")
  OBVIOUS
<1>2. PICK l : l = lifecycle'
  OBVIOUS
<1>3. /\ At("decision", "decide") /\ UNCHANGED <<busVars, chaosVars, sent>> /\ UNCHANGED userShare
      /\ l = IF Winner[i] = "tie" THEN lifecycle ELSE L!Update(lifecycle, Winner[i] = "b", i)
      /\ GoTo("decision", IF l.transitions # lifecycle.transitions THEN "control" ELSE "ack")
  BY <1>1, <1>2, Zenon DEF ControllerUpdate, EmitAndGo
<1>4. /\ "decision" \in Tasks /\ "decision" \in Consumers /\ "router" \in Tasks
      /\ "decision" \notin Workers /\ "decision" # "router" /\ {"control", "ack"} \subseteq Spots
  BY SubsFact, WorkersAssumption DEF Spots, Places
<1>5. held["decision"] # Nothing
  BY <1>3 DEF At, CanaryInv, Manned
<1>6. i \in Nat
  <2>1. i \in (1 .. N) \union Shares
    BY <1>1, <1>4, <1>5, HeldFacts DEF CanaryInv
  <2>2. QED BY <2>1, RequestsAssumption DEF Shares
<1>7. /\ Climbs(l)
      /\ \/ l.transitions = lifecycle.transitions
         \/ \E x \in Steps : l.transitions = Append(lifecycle.transitions, x)
  <2>1. CASE Winner[i] = "tie"
    BY <1>3, <2>1 DEF CanaryInv
  <2>2. CASE Winner[i] # "tie"
    BY <1>3, <1>6, <2>2, UpdateClimbs DEF CanaryInv
  <2>3. QED BY <2>1, <2>2
<1>8. BP!IInv' /\ UNCHANGED <<log, held, pending, cursor>>
  <2>1. BP!IInv'
    BY <1>3, BusStands DEF CanaryInv, BP!IInv, BP!TypeOK, chaosVars
  <2>2. QED BY <1>3, <2>1 DEF busVars
<1>9. PICK q \in {"control", "ack"} :
        /\ q = IF l.transitions # lifecycle.transitions THEN "control" ELSE "ack"
        /\ GoTo("decision", q)
  BY <1>3
<1>10. /\ pc' \in [Tasks -> Spots] /\ pc'["decision"] = q /\ pc["decision"] = "decide"
       /\ \A u \in Tasks : u # "decision" => pc'[u] = pc[u]
  BY <1>3, <1>4, <1>9, Going DEF CanaryInv, At
<1>11. Manned'
  <2>1. sent' \in Nat /\ Manned
    BY <1>3 DEF CanaryInv, Manned
  <2>2. held'["decision"] # Nothing
    BY <1>5, <1>8
  <2>3. QED BY <1>4, <1>8, <1>10, <2>1, <2>2, MannedStays
<1>12. Requesting' /\ Climbs(lifecycle)'
  BY <1>2, <1>7, <1>8 DEF CanaryInv, Requesting, Climbs
<1>13. PICK n \in Nat : n = Len(lifecycle.transitions)
  BY DEF CanaryInv, Climbs
<1>14. /\ Len(log["control"]) = n + 1
       /\ \A k \in 1 .. n + 1 : log["control"][k] = Told(k)
  BY <1>10, <1>13 DEF CanaryInv, Announced
<1>15. Announced'
  <2>1. CASE l.transitions = lifecycle.transitions
    <3>1. q = "ack"
      BY <1>9, <2>1
    <3>2. \A k \in 1 .. n + 1 : log'["control"][k] = Told(k)'
      BY <1>2, <1>8, <1>14, <2>1 DEF Told
    <3>3. QED BY <1>2, <1>8, <1>10, <1>13, <1>14, <2>1, <3>1, <3>2 DEF Announced
  <2>2. CASE \E x \in Steps : l.transitions = Append(lifecycle.transitions, x)
    <3>1. PICK x \in Steps : l.transitions = Append(lifecycle.transitions, x)
      BY <2>2
    <3>2. lifecycle.transitions \in Seq(Steps)
      BY DEF CanaryInv, Climbs
    <3>3. /\ Len(l.transitions) = n + 1
          /\ \A k \in 1 .. n : l.transitions[k] = lifecycle.transitions[k]
      BY <1>13, <3>1, <3>2
    <3>4. q = "control"
      BY <1>9, <1>13, <3>3
    <3>5. \A k \in 1 .. n + 1 : log'["control"][k] = Told(k)'
      <4>1. SUFFICES ASSUME NEW k \in 1 .. n + 1 PROVE log'["control"][k] = Told(k)'
        OBVIOUS
      <4>2. CASE k = 1
        BY <1>8, <1>14, <4>2 DEF Told
      <4>3. CASE k # 1
        <5>1. k - 1 \in 1 .. n
          BY <4>3
        <5>2. l.transitions[k - 1] = lifecycle.transitions[k - 1]
          BY <3>3, <5>1
        <5>3. QED BY <1>2, <1>8, <1>14, <4>3, <5>2 DEF Told
      <4>4. QED BY <4>2, <4>3
    <3>6. QED BY <1>2, <1>8, <1>10, <1>14, <3>3, <3>4, <3>5 DEF Announced
  <2>3. QED BY <1>7, <2>1, <2>2
<1>16. Heard'
  <2>1. cursor[Ctl] \in Nat
    BY TableFacts DEF CanaryInv
  <2>2. pc'["router"] = pc["router"]
    BY <1>4, <1>10
  <2>3. QED BY <1>3, <1>8, <2>1, <2>2, HeardStays DEF CanaryInv
<1>17. QED BY <1>8, <1>11, <1>12, <1>15, <1>16 DEF CanaryInv
-----------------------------------------------------------------------------
LEMMA CanaryInitInv == CanaryInit => CanaryInv
<1> SUFFICES ASSUME CanaryInit PROVE CanaryInv
  OBVIOUS
<1>1. /\ B!BusInit /\ live = Consumers /\ crashes = 0 /\ sent = 0
      /\ pc = [t \in Tasks |-> IF t = "decision" THEN "start" ELSE "next"]
      /\ lifecycle = L!NewLifecycle /\ userShare = 0
  BY DEF CanaryInit, InitWith
<1>2. BP!Init
  BY <1>1 DEF BP!Init, BP!BusInit, B!BusInit, B!Channels, BP!Channels, B!Readers, BP!Readers,
              B!Range, BP!Range
<1>3. BP!IInv
  BY <1>2, BP!InitIInv, SubsFact, NothingFact, ReclaimIdleAssumption, RequestsAssumption,
     KillsAssumption
<1>4. /\ log["control"] = <<>> /\ log["requests"] = <<>> /\ \A c \in Consumers : held[c] = Nothing
      /\ cursor[Ctl] = 0 /\ pending[Ctl] = <<>>
  <2>1. Ctl \in B!Channels
    BY CtlFact DEF B!Channels, BP!Channels, B!Readers, BP!Readers, B!Range, BP!Range
  <2>2. QED BY <1>1, <2>1 DEF B!BusInit, Streams
<1>5. Manned
  <2>1. pc \in [Tasks -> Spots]
    BY <1>1 DEF Spots, Places
  <2>2. \A c \in Workers \union {"router"} : pc[c] = "next"
    BY <1>1, SubsFact, WorkersAssumption
  <2>3. pc["decision"] = "start"
    BY <1>1, SubsFact
  <2>4. QED BY <1>1, <2>1, <2>2, <2>3 DEF Manned
<1>6. Requesting
  BY <1>4 DEF Requesting
<1>7. /\ lifecycle.transitions = <<>> /\ lifecycle.state = "running" /\ lifecycle.stage = 0
      /\ lifecycle.inStage = 0 /\ DOMAIN lifecycle = Fields
  BY <1>1 DEF L!NewLifecycle, Fields
<1>8. Climbs(lifecycle)
  BY <1>7 DEF Climbs
<1>9. Announced
  <2>1. pc["decision"] = "start" /\ L!Share(lifecycle) = 0
    BY <1>1, <1>7, SubsFact DEF L!Share
  <2>2. QED BY <1>4, <1>7, <2>1 DEF Announced
<1>10. Heard
  <2>1. ~OnControl /\ ~Unread
    BY <1>4, SubsFact DEF OnControl, Unread
  <2>2. QED BY <1>1, <1>4, <2>1 DEF Heard, ShareAt
<1>11. QED BY <1>3, <1>5, <1>6, <1>8, <1>9, <1>10 DEF CanaryInv

(* The fleet's own actions.                                                *)
LEMMA RestSteps ==
  ASSUME CanaryInv, Rest, UNCHANGED canaryVars
  PROVE  CanaryInv'
<1>1. /\ "traffic" \in Tasks /\ "router" \in Tasks /\ "router" \in Consumers
      /\ "traffic" \notin {"router", "decision"} \union Workers
      /\ "router" # "decision" /\ "router" \notin Workers /\ "decision" \notin Workers
      /\ Workers \subseteq Consumers /\ Workers \subseteq Tasks
  BY SubsFact, WorkersAssumption
<1>2. /\ {"next", "end", "champion", "shadow", "publish", "ack", "judge"} \subseteq Spots
      /\ "requests" \in Streams /\ "pairs" \in Streams /\ "verdicts" \in Streams
      /\ sent \in Nat
  BY DEF Spots, Places, Streams, CanaryInv, Manned
<1>3. CASE TrafficPublish
  <2>1. PICK n : n = sent + 1
    OBVIOUS
  <2>2. PICK q \in {"end", "next"} :
          /\ At("traffic", "next") /\ sent < N /\ sent' = n /\ GoTo("traffic", q)
          /\ B!Publish("requests", <<"request", n>>) /\ UNCHANGED chaosVars
    BY <1>3, <2>1 DEF TrafficPublish, PublishAndGo
  <2>3. n \in 1 .. N /\ n \in Nat
    BY <1>2, <2>1, <2>2, RequestsAssumption
  <2>4. <<"request", n>> \in Payloads
    BY <2>3 DEF Payloads, Kinds
  <2>5. QED BY <1>1, <1>2, <2>2, <2>3, <2>4, PublishElsewhere
<1>4. CASE RouterRest
  <2>1. CASE RouterChampion
    <3>1. PICK q \in {"shadow", "ack"} :
            /\ At("router", "champion") /\ GoTo("router", q) /\ UNCHANGED <<busVars, chaosVars, sent>>
      BY <2>1, Zenon DEF RouterChampion, EmitAndGo
    <3>2. QED BY <1>1, <1>2, <3>1, InsideStep
  <2>2. CASE RouterShadow
    <3>1. /\ At("router", "shadow") /\ GoTo("router", "publish")
          /\ UNCHANGED <<busVars, chaosVars, sent>>
      BY <2>2 DEF RouterShadow, EmitAndGo
    <3>2. QED BY <1>1, <1>2, <3>1, InsideStep
  <2>3. CASE RouterPublish
    <3>1. PICK i : i = Payload("router")
      OBVIOUS
    <3>2. /\ At("router", "publish") /\ GoTo("router", "ack") /\ sent' = sent
          /\ B!Publish("pairs", <<"pair", i>>) /\ UNCHANGED chaosVars
      BY <2>3, <3>1 DEF RouterPublish, PublishAndGo
    <3>3. held["router"] # Nothing
      BY <1>1, <3>2 DEF At, CanaryInv, Manned
    <3>4. <<"pair", i>> \in Payloads
      BY <1>1, <3>1, <3>3, HeldFacts DEF CanaryInv, Payloads, Kinds
    <3>5. QED BY <1>1, <1>2, <3>2, <3>4, PublishElsewhere
  <2>4. QED BY <1>1, <1>4, <2>1, <2>2, <2>3, RouterReceives, RouterAcks, PollElsewhere DEF RouterRest
<1>5. ASSUME NEW w \in Workers, Judge(w) PROVE CanaryInv'
  <2>1. w \in Tasks /\ w \in Consumers /\ w \notin {"router", "decision"}
    BY <1>1
  <2>2. CASE JudgeReceive(w)
    BY <1>2, <2>1, <2>2, TakeElsewhere DEF JudgeReceive
  <2>3. CASE JudgeEmit(w)
    <3>1. /\ At(w, "judge") /\ GoTo(w, "publish") /\ UNCHANGED <<busVars, chaosVars, sent>>
      BY <2>3 DEF JudgeEmit, EmitAndGo
    <3>2. QED BY <1>2, <2>1, <3>1, InsideStep
  <2>4. CASE JudgePublish(w)
    <3>1. PICK i : i = Payload(w)
      OBVIOUS
    <3>2. /\ At(w, "publish") /\ GoTo(w, "ack") /\ sent' = sent
          /\ B!Publish("verdicts", <<"verdict", i>>) /\ UNCHANGED chaosVars
      BY <2>4, <3>1 DEF JudgePublish, PublishAndGo
    <3>3. held[w] # Nothing
      BY <3>2 DEF At, CanaryInv, Manned
    <3>4. <<"verdict", i>> \in Payloads
      BY <2>1, <3>1, <3>3, HeldFacts DEF CanaryInv, Payloads, Kinds
    <3>5. QED BY <1>2, <2>1, <3>2, <3>4, PublishElsewhere
  <2>5. QED BY <1>5, <2>1, <2>2, <2>3, <2>4, AckElsewhere, PollElsewhere DEF Judge
<1>6. CASE Store \/ Runner
  <2>1. UNCHANGED <<busVars, chaosVars, pc, sent>>
    BY <1>6 DEF Store, Runner, Stop, TimeOut, FlushSink, Finish
  <2>2. QED BY <2>1, AsideElsewhere
<1>7. CASE Tick
  BY <1>7, TickElsewhere
<1>8. QED BY <1>3, <1>4, <1>5, <1>6, <1>7, KillElsewhere, RestartElsewhere DEF Rest

(* One case per action of the canary fleet.                                *)
LEMMA CanaryNextInv == CanaryInv /\ [CanaryNext]_allVars => CanaryInv'
<1> SUFFICES ASSUME CanaryInv, [CanaryNext]_allVars PROVE CanaryInv'
  OBVIOUS
<1>1. /\ "decision" \in Consumers /\ "decision" # "router" /\ "router" \in Tasks
      /\ "decide" \in Spots /\ "champion" \in Spots
  BY SubsFact DEF Spots, Places
<1>2. CASE CanaryRouterRequest
  <2>1. /\ At("router", "request") /\ Kind("router") = "request" /\ GoTo("router", "champion")
        /\ UNCHANGED <<busVars, chaosVars, sent>> /\ UNCHANGED canaryVars
    BY <1>2 DEF CanaryRouterRequest, RouterServe, EmitAndGo
  <2>2. ~OnControl
    BY <2>1, ControlFacts DEF At
  <2>3. QED BY <1>1, <2>1, <2>2, InsideStep
<1>3. CASE Controller
  <2>1. CASE ControllerReceive
    BY <1>1, <2>1, TakeElsewhere DEF ControllerReceive, DecisionReceive
  <2>2. CASE ControllerAcknowledge
    BY <1>1, <2>2, AckElsewhere DEF ControllerAcknowledge
  <2>3. CASE ControllerPoll
    BY <1>1, <2>3, PollElsewhere DEF ControllerPoll
  <2>4. QED BY <1>3, <2>1, <2>2, <2>3, ControllerStarts, ControllerUpdates, ControllerPublishes
            DEF Controller
<1>4. CASE UNCHANGED allVars
  <2>1. UNCHANGED <<busVars, chaosVars, pc, sent>> /\ UNCHANGED canaryVars
    BY <1>4 DEF allVars, vars
  <2>2. QED BY <2>1, AsideElsewhere
<1>5. QED BY <1>2, <1>3, <1>4, RestSteps, RouterControls DEF CanaryNext

(* The router moves from one share to the next one it was told.            *)
LEMMA ShareMoves ==
  ASSUME CanaryInv, [CanaryNext]_allVars, userShare' # userShare
  PROVE  userShare' = IF RollbackTold THEN 0 ELSE userShare + 1
<1>1. RouterControl
  <2>1. ASSUME UNCHANGED canaryVars PROVE FALSE
    BY <2>1 DEF canaryVars
  <2>2. ~(UNCHANGED allVars) /\ ~ControllerUpdate
    BY <2>1 DEF allVars, ControllerUpdate
  <2>3. QED
    BY <2>1, <2>2 DEF CanaryNext, CanaryRouterRequest, Controller, ControllerStart, ControllerReceive,
                      ControllerPublish, ControllerAcknowledge, ControllerPoll
<1>2. PICK k : k = cursor[Ctl]
  OBVIOUS
<1>3. /\ k \in Nat /\ k > 0 /\ k <= Len(log["control"])
      /\ userShare = ShareAt(k - 1) /\ userShare' = ShareAt(k)
  BY <1>1, <1>2, ControlFacts DEF RouterControl, At, CanaryInv, Heard
<1>4. PICK n \in Nat : n = Len(lifecycle.transitions)
  BY DEF CanaryInv, Climbs
<1>5. /\ k <= n + 1
      /\ \A j \in 1 .. k : log["control"][j] = Told(j)
  <2>1. Len(log["control"]) \in {0, n, n + 1}
    BY <1>4 DEF CanaryInv, Announced
  <2>2. \A j \in 1 .. Len(log["control"]) : log["control"][j] = Told(j)
    BY DEF CanaryInv, Announced
  <2>3. QED BY <1>3, <2>1, <2>2
<1>6. \A j \in 1 .. n :
        lifecycle.transitions[j].share = IF lifecycle.state = "rolled_back" /\ j = n THEN 0 ELSE j
  BY <1>4 DEF CanaryInv, Climbs
<1>7. k # 1
  <2>1. ASSUME k = 1 PROVE ShareAt(k) = 0 /\ ShareAt(k - 1) = 0
    BY <1>5, <2>1 DEF ShareAt, Told
  <2>2. QED BY <1>3, <2>1
<1>8. k - 1 \in 1 .. n
  BY <1>3, <1>5, <1>7
<1>9. userShare' = lifecycle.transitions[k - 1].share
  <2>1. log["control"][k] = Told(k)
    BY <1>3, <1>5
  <2>2. QED BY <1>3, <1>7, <2>1 DEF ShareAt, Told
<1>10. userShare = k - 2
  <2>1. log["control"][k - 1] = Told(k - 1) /\ k - 1 # 0
    BY <1>3, <1>5, <1>8
  <2>2. CASE k - 1 = 1
    BY <1>3, <2>1, <2>2 DEF ShareAt, Told
  <2>3. CASE k - 1 # 1
    <3>1. (k - 1) - 1 = k - 2 /\ k - 2 \in 1 .. n /\ k - 2 # n
      BY <1>3, <1>8, <2>3
    <3>2. lifecycle.transitions[k - 2].share = k - 2
      BY <1>6, <3>1
    <3>3. QED BY <1>3, <2>1, <2>3, <3>1, <3>2 DEF ShareAt, Told
  <2>4. QED BY <2>2, <2>3
<1>11. (k - 2) + 1 = k - 1 /\ (k - 1 = n <=> k = n + 1)
  BY <1>3
<1>12. RollbackTold <=> lifecycle.state = "rolled_back" /\ k - 1 = n
  BY <1>2, <1>4, <1>11 DEF RollbackTold, Ctl
<1>13. QED BY <1>6, <1>8, <1>9, <1>10, <1>11, <1>12
-----------------------------------------------------------------------------
(* The gates, as functions of the verdicts read.  Of v, a stream with one  *)
(* verdict per request, the first d were decided on.                       *)
Apart(v) == \A j, k \in DOMAIN v : v[j][2] = v[k][2] => j = k

PositionIn(v, i) == CHOOSE k \in DOMAIN v : v[k][2] = i

Cast(v, from, to, w) == {k \in from + 1 .. to : Winner[v[k][2]] = w}

Tally(v, from, to) ==
  [wins |-> Cardinality(Cast(v, from, to, "b")), losses |-> Cardinality(Cast(v, from, to, "a"))]

Since(v, t, k) == IF k = 1 THEN 0 ELSE PositionIn(v, t[k - 1].index)

(* Each transition is on a verdict that was decided on; the gate counted   *)
(* what came after the last one; and what passed a gate was counted so.    *)
Gated(v, l, d) ==
  LET t == l.transitions IN
    /\ \A k \in 1 .. Len(t) : \E j \in 1 .. d : v[j][2] = t[k].index
    /\ l.state = "running" => l.gate = Tally(v, Since(v, t, Len(t) + 1), d)
    /\ \A k \in 1 .. Len(t) : t[k].kind # "rolled_back" =>
         L!Passed(Tally(v, Since(v, t, k), PositionIn(v, t[k].index)))

LEMMA PositionIs ==
  ASSUME NEW v, Apart(v), NEW j \in DOMAIN v
  PROVE  PositionIn(v, v[j][2]) = j
<1>1. \E k \in DOMAIN v : v[k][2] = v[j][2]
  OBVIOUS
<1>2. PositionIn(v, v[j][2]) \in DOMAIN v /\ v[PositionIn(v, v[j][2])][2] = v[j][2]
  BY <1>1 DEF PositionIn
<1>3. QED BY <1>2 DEF Apart

LEMMA CastNext ==
  ASSUME NEW v, NEW f \in Nat, NEW d \in Nat, f <= d, NEW w
  PROVE  /\ Cardinality(Cast(v, f, d, w)) \in Nat
         /\ Cardinality(Cast(v, f, d + 1, w)) =
              Cardinality(Cast(v, f, d, w)) + (IF Winner[v[d + 1][2]] = w THEN 1 ELSE 0)
<1>1. IsFiniteSet(Cast(v, f, d, w))
  <2>1. IsFiniteSet(f + 1 .. d)
    BY FS_Interval
  <2>2. Cast(v, f, d, w) \subseteq f + 1 .. d
    BY DEF Cast
  <2>3. QED BY <2>1, <2>2, FS_Subset
<1>2. Cardinality(Cast(v, f, d, w)) \in Nat
  BY <1>1, FS_CardinalityType
<1>3. d + 1 \notin Cast(v, f, d, w)
  BY DEF Cast
<1>4. CASE Winner[v[d + 1][2]] = w
  <2>1. Cast(v, f, d + 1, w) = Cast(v, f, d, w) \union {d + 1}
    BY <1>4 DEF Cast
  <2>2. QED BY <1>1, <1>2, <1>3, <1>4, <2>1, FS_AddElement
<1>5. CASE Winner[v[d + 1][2]] # w
  <2>1. Cast(v, f, d + 1, w) = Cast(v, f, d, w)
    BY <1>5 DEF Cast
  <2>2. QED BY <1>2, <1>5, <2>1
<1>6. QED BY <1>2, <1>4, <1>5

LEMMA TallyNext ==
  ASSUME NEW v, NEW f \in Nat, NEW d \in Nat, f <= d, NEW w \in {"a", "b", "tie"},
         w = Winner[v[d + 1][2]]
  PROVE  Tally(v, f, d + 1) =
           IF w = "tie" THEN Tally(v, f, d) ELSE L!Weigh(Tally(v, f, d), w = "b")
<1>1. PICK p \in Nat : p = Cardinality(Cast(v, f, d, "b"))
  BY CastNext
<1>2. PICK q \in Nat : q = Cardinality(Cast(v, f, d, "a"))
  BY CastNext
<1>3. /\ Cardinality(Cast(v, f, d + 1, "b")) = p + (IF w = "b" THEN 1 ELSE 0)
      /\ Cardinality(Cast(v, f, d + 1, "a")) = q + (IF w = "a" THEN 1 ELSE 0)
  BY <1>1, <1>2, CastNext
<1>4. Tally(v, f, d) = [wins |-> p, losses |-> q]
  BY <1>1, <1>2 DEF Tally
<1>5. CASE w = "b"
  <2>1. Tally(v, f, d + 1) = [wins |-> p + 1, losses |-> q]
    BY <1>3, <1>5 DEF Tally
  <2>2. QED BY <1>4, <1>5, <2>1 DEF L!Weigh
<1>6. CASE w = "a"
  <2>1. Tally(v, f, d + 1) = [wins |-> p, losses |-> q + 1]
    BY <1>3, <1>6 DEF Tally
  <2>2. QED BY <1>4, <1>6, <2>1 DEF L!Weigh
<1>7. CASE w = "tie"
  <2>1. Tally(v, f, d + 1) = [wins |-> p, losses |-> q]
    BY <1>3, <1>7 DEF Tally
  <2>2. QED BY <1>4, <1>7, <2>1
<1>8. QED BY <1>5, <1>6, <1>7

LEMMA TallyNone ==
  ASSUME NEW v, NEW d \in Nat
  PROVE  Tally(v, d, d) = L!NewGate
<1>1. \A w : Cast(v, d, d, w) = {}
  BY DEF Cast
<1>2. QED BY <1>1, FS_EmptySet DEF Tally, L!NewGate

LEMMA TallySame ==
  ASSUME NEW v, NEW u, NEW f \in Nat, NEW d \in Nat, \A k \in 1 .. d : u[k] = v[k]
  PROVE  Tally(u, f, d) = Tally(v, f, d)
<1>1. \A w : Cast(u, f, d, w) = Cast(v, f, d, w)
  <2>1. SUFFICES ASSUME NEW w PROVE Cast(u, f, d, w) = Cast(v, f, d, w)
    OBVIOUS
  <2>2. \A k \in f + 1 .. d : u[k] = v[k]
    OBVIOUS
  <2>3. QED BY <2>2 DEF Cast
<1>2. QED BY <1>1 DEF Tally

(* Where the transitions are, and that it stays so when the stream grows.  *)
LEMMA SinceIs ==
  ASSUME NEW v, Apart(v), NEW d \in Nat, 1 .. d \subseteq DOMAIN v, NEW t \in Seq(Steps),
         \A k \in 1 .. Len(t) : \E j \in 1 .. d : v[j][2] = t[k].index,
         NEW u, Apart(u), 1 .. d \subseteq DOMAIN u, \A k \in 1 .. d : u[k] = v[k]
  PROVE  /\ \A k \in 1 .. Len(t) : /\ PositionIn(v, t[k].index) \in 1 .. d
                                   /\ PositionIn(u, t[k].index) = PositionIn(v, t[k].index)
         /\ \A k \in 1 .. Len(t) + 1 : Since(v, t, k) \in 0 .. d /\ Since(u, t, k) = Since(v, t, k)
<1>1. ASSUME NEW k \in 1 .. Len(t)
      PROVE  /\ PositionIn(v, t[k].index) \in 1 .. d
             /\ PositionIn(u, t[k].index) = PositionIn(v, t[k].index)
  <2>1. PICK j \in 1 .. d : v[j][2] = t[k].index
    BY <1>1
  <2>2. PositionIn(v, t[k].index) = j
    BY <2>1, PositionIs
  <2>3. PositionIn(u, t[k].index) = j
    <3>1. j \in DOMAIN u /\ u[j][2] = t[k].index
      BY <2>1
    <3>2. QED BY <3>1, PositionIs
  <2>4. QED BY <2>2, <2>3
<1>2. ASSUME NEW k \in 1 .. Len(t) + 1
      PROVE  Since(v, t, k) \in 0 .. d /\ Since(u, t, k) = Since(v, t, k)
  <2>1. CASE k = 1
    BY <2>1 DEF Since
  <2>2. CASE k # 1
    <3>1. k - 1 \in 1 .. Len(t)
      BY <2>2
    <3>2. /\ PositionIn(v, t[k - 1].index) \in 1 .. d
          /\ PositionIn(u, t[k - 1].index) = PositionIn(v, t[k - 1].index)
      BY <1>1, <3>1
    <3>3. QED BY <2>2, <3>2 DEF Since
  <2>3. QED BY <2>1, <2>2
<1>3. \A k \in 1 .. Len(t) : /\ PositionIn(v, t[k].index) \in 1 .. d
                            /\ PositionIn(u, t[k].index) = PositionIn(v, t[k].index)
  BY ONLY <1>1
<1>4. \A k \in 1 .. Len(t) + 1 : Since(v, t, k) \in 0 .. d /\ Since(u, t, k) = Since(v, t, k)
  BY ONLY <1>2
<1>5. QED BY ONLY <1>3, <1>4

LEMMA GatedGrows ==
  ASSUME NEW v, Apart(v), NEW d \in Nat, 1 .. d \subseteq DOMAIN v, NEW l, l.transitions \in Seq(Steps),
         Gated(v, l, d),
         NEW u, Apart(u), 1 .. d \subseteq DOMAIN u, \A k \in 1 .. d : u[k] = v[k]
  PROVE  Gated(u, l, d)
<1>1. PICK t \in Seq(Steps) : t = l.transitions
  OBVIOUS
<1>2. \A k \in 1 .. Len(t) : \E j \in 1 .. d : v[j][2] = t[k].index
  BY <1>1 DEF Gated
<1>3. /\ \A k \in 1 .. Len(t) : /\ PositionIn(v, t[k].index) \in 1 .. d
                                /\ PositionIn(u, t[k].index) = PositionIn(v, t[k].index)
      /\ \A k \in 1 .. Len(t) + 1 : Since(v, t, k) \in 0 .. d /\ Since(u, t, k) = Since(v, t, k)
  <2>1. t \in Seq(Steps)
    BY <1>1
  <2>2. 1 .. d \subseteq DOMAIN v
    OBVIOUS
  <2>3. 1 .. d \subseteq DOMAIN u
    OBVIOUS
  <2>4. \A k \in 1 .. d : u[k] = v[k]
    OBVIOUS
  <2>5. d \in Nat
    OBVIOUS
  <2>6. Apart(v)
    OBVIOUS
  <2>7. Apart(u)
    OBVIOUS
  <2>8. QED BY ONLY <1>2, <2>1, <2>2, <2>3, <2>4, <2>5, <2>6, <2>7, SinceIs
<1>4. \A k \in 1 .. Len(t) : \E j \in 1 .. d : u[j][2] = t[k].index
  <2>1. SUFFICES ASSUME NEW k \in 1 .. Len(t) PROVE \E j \in 1 .. d : u[j][2] = t[k].index
    OBVIOUS
  <2>2. PICK j \in 1 .. d : v[j][2] = t[k].index
    BY <1>2
  <2>3. u[j][2] = t[k].index
    BY <2>2
  <2>4. QED BY <2>3
<1>5. Len(t) \in Nat /\ Len(t) + 1 \in 1 .. Len(t) + 1
  OBVIOUS
<1>6. \A f \in 0 .. d, e \in 0 .. d : Tally(u, f, e) = Tally(v, f, e)
  <2>1. SUFFICES ASSUME NEW f \in 0 .. d, NEW e \in 0 .. d PROVE Tally(u, f, e) = Tally(v, f, e)
    OBVIOUS
  <2>2. f \in Nat /\ e \in Nat /\ \A k \in 1 .. e : u[k] = v[k]
    OBVIOUS
  <2>3. QED BY <2>2, TallySame
<1>7. l.state = "running" => l.gate = Tally(u, Since(u, t, Len(t) + 1), d)
  <2>1. l.state = "running" => l.gate = Tally(v, Since(v, t, Len(t) + 1), d)
    BY <1>1 DEF Gated
  <2>2. d \in 0 .. d
    OBVIOUS
  <2>3. Tally(u, Since(u, t, Len(t) + 1), d) = Tally(v, Since(v, t, Len(t) + 1), d)
    BY <1>3, <1>5, <1>6, <2>2
  <2>4. QED BY <2>1, <2>3
<1>8. ASSUME NEW k \in 1 .. Len(t), t[k].kind # "rolled_back"
      PROVE  L!Passed(Tally(u, Since(u, t, k), PositionIn(u, t[k].index)))
  <2>1. L!Passed(Tally(v, Since(v, t, k), PositionIn(v, t[k].index)))
    BY <1>1, <1>8 DEF Gated
  <2>2. k \in 1 .. Len(t) + 1 /\ \A p \in 1 .. d : p \in 0 .. d
    BY <1>5
  <2>3. Tally(u, Since(u, t, k), PositionIn(u, t[k].index)) =
          Tally(v, Since(v, t, k), PositionIn(v, t[k].index))
    BY <1>3, <1>6, <2>2
  <2>4. QED BY <2>1, <2>3
<1>9. QED BY <1>1, <1>4, <1>7, <1>8 DEF Gated
-----------------------------------------------------------------------------
(* What one decisive verdict makes of the lifecycle.                       *)
Counted(l, win, i, m) ==
  \/ /\ m.state = l.state /\ m.transitions = l.transitions
     /\ m.gate = L!Weigh(l.gate, win)
  \/ /\ m.state # "running"
     /\ \E x \in Steps : x.kind = "rolled_back" /\ x.index = i /\ m.transitions = Append(l.transitions, x)
  \/ /\ L!Passed(L!Weigh(l.gate, win))
     /\ m.state = "running" => m.gate = L!NewGate
     /\ \E x \in Steps : x.index = i /\ m.transitions = Append(l.transitions, x)

LEMMA UpdateCounts ==
  ASSUME NEW l, Climbs(l), l.state = "running", NEW win, NEW i \in Nat
  PROVE  Counted(l, win, i, L!Update(l, win, i))
<1> DEFINE stat == IF win THEN (IF l.stat >= Down THEN l.stat - Down ELSE 0) ELSE l.stat + Up
           one == [l EXCEPT !.seen = @ + 1]
           two == [one EXCEPT !.inStage = @ + 1]
           counted == [l EXCEPT !.seen = @ + 1, !.inStage = @ + 1, !.stat = stat]
           weighed == [counted EXCEPT !.gate = L!Weigh(@, win)]
<1>1. L!Update(l, win, i) = CASE stat >= H -> L!RollBack(counted, i)
                              [] stat < H /\ L!Passed(weighed.gate) -> L!Advance(weighed, i)
                              [] OTHER -> weighed
  BY DEF L!Update
<1>2. /\ DOMAIN counted = Fields /\ counted.stage = l.stage /\ counted.state = l.state
      /\ counted.inStage \in Nat /\ counted.transitions = l.transitions /\ counted.gate = l.gate
  <2>1. /\ DOMAIN one = Fields /\ one.stage = l.stage /\ one.state = l.state
        /\ one.inStage \in Nat /\ one.transitions = l.transitions /\ one.gate = l.gate
    BY DEF Climbs, Fields
  <2>2. counted = [two EXCEPT !.stat = stat]
    OBVIOUS
  <2> HIDE DEF one
  <2>3. /\ DOMAIN two = Fields /\ two.stage = l.stage /\ two.state = l.state
        /\ two.inStage \in Nat /\ two.transitions = l.transitions /\ two.gate = l.gate
    BY <2>1 DEF Fields
  <2> HIDE DEF two, counted
  <2>4. QED BY <2>2, <2>3 DEF Fields
<1> HIDE DEF stat, counted
<1>3. /\ DOMAIN weighed = Fields /\ weighed.stage = l.stage /\ weighed.state = l.state
      /\ weighed.inStage \in Nat /\ weighed.transitions = l.transitions
      /\ weighed.gate = L!Weigh(l.gate, win)
  BY <1>2 DEF Fields
<1> HIDE DEF weighed
<1>4. Climbs(counted) /\ Climbs(weighed)
  BY <1>2, <1>3, SameClimb
<1>5. \/ L!Update(l, win, i) = L!RollBack(counted, i)
      \/ L!Passed(weighed.gate) /\ L!Update(l, win, i) = L!Advance(weighed, i)
      \/ L!Update(l, win, i) = weighed
  BY <1>1
<1>6. CASE L!Update(l, win, i) = L!RollBack(counted, i)
  <2> DEFINE x == L!Transition("rolled_back", 0, i, counted.inStage)
             three == [counted EXCEPT !.state = "rolled_back"]
             four == [three EXCEPT !.transitions = Append(@, x)]
  <2>2. L!RollBack(counted, i) = four
    BY DEF L!RollBack
  <2>3. x \in Steps /\ x.kind = "rolled_back" /\ x.index = i
    BY <1>2 DEF L!Transition, Steps
  <2>4. DOMAIN three = Fields /\ three.state = "rolled_back" /\ three.transitions = l.transitions
    BY <1>2 DEF Fields
  <2> HIDE DEF three, x
  <2>5. four.state = "rolled_back" /\ four.transitions = Append(l.transitions, x)
    BY <2>4 DEF Fields
  <2> HIDE DEF four
  <2>6. QED BY <1>6, <2>2, <2>3, <2>5 DEF Counted
<1>7. CASE L!Passed(weighed.gate) /\ L!Update(l, win, i) = L!Advance(weighed, i)
  <2> DEFINE to == weighed.stage + 1
             last == to = 4
             x == L!Transition(IF last THEN "promoted" ELSE "advanced", to, i, 0)
             m1 == [weighed EXCEPT !.stage = to]
             m2 == [m1 EXCEPT !.inStage = 0]
             m3 == [m2 EXCEPT !.state = IF last THEN "promoted" ELSE @]
             m4 == [m3 EXCEPT !.gate = IF last THEN @ ELSE L!NewGate]
             m5 == [m4 EXCEPT !.transitions = Append(@, x)]
  <2>2. L!Advance(weighed, i) = m5
    BY DEF L!Advance, L!Stages
  <2>3. to \in 1 .. 4
    BY <1>3, <1>4 DEF Climbs
  <2>4. x \in Steps /\ x.index = i
    BY <2>3 DEF L!Transition, Steps
  <2>5. DOMAIN m1 = Fields /\ m1.transitions = l.transitions
    BY <1>3 DEF Fields
  <2> HIDE DEF m1
  <2>6. DOMAIN m2 = Fields /\ m2.transitions = l.transitions
    BY <2>5 DEF Fields
  <2> HIDE DEF m2
  <2>7. DOMAIN m3 = Fields /\ m3.transitions = l.transitions /\ (last => m3.state = "promoted")
    BY <2>6 DEF Fields
  <2> HIDE DEF m3, x
  <2>8. /\ DOMAIN m4 = Fields /\ m4.transitions = l.transitions /\ (last => m4.state = "promoted")
        /\ (~last => m4.gate = L!NewGate)
    BY <2>7 DEF Fields
  <2> HIDE DEF m4, last
  <2>9. /\ m5.transitions = Append(l.transitions, x) /\ (last => m5.state = "promoted")
        /\ (~last => m5.gate = L!NewGate)
    BY <2>8 DEF Fields
  <2> HIDE DEF m5
  <2>10. QED BY <1>3, <1>7, <2>2, <2>4, <2>9 DEF Counted
<1>8. CASE L!Update(l, win, i) = weighed
  BY <1>3, <1>8 DEF Counted
<1>9. QED BY <1>5, <1>6, <1>7, <1>8

(* A lifecycle that took one more verdict is gated on the verdicts up to   *)
(* that one.                                                               *)
LEMMA GatedCounts ==
  ASSUME NEW v, Apart(v), NEW d \in Nat, 1 .. d + 1 \subseteq DOMAIN v,
         NEW l, Climbs(l), Gated(v, l, d), NEW w \in {"a", "b", "tie"}, NEW i \in Nat,
         i = v[d + 1][2], w = Winner[i],
         NEW m, m = IF w = "tie" THEN l ELSE L!Update(l, w = "b", i)
  PROVE  Gated(v, m, d + 1)
<1>1. PICK t \in Seq(Steps) : t = l.transitions
  BY DEF Climbs
<1>2. PICK n \in Nat : n = Len(t)
  BY <1>1
<1>3. /\ \A k \in 1 .. n : \E j \in 1 .. d : v[j][2] = t[k].index
      /\ l.state = "running" => l.gate = Tally(v, Since(v, t, n + 1), d)
      /\ \A k \in 1 .. n : t[k].kind # "rolled_back" =>
           L!Passed(Tally(v, Since(v, t, k), PositionIn(v, t[k].index)))
  BY <1>1, <1>2 DEF Gated
<1>4. /\ \A k \in 1 .. n : PositionIn(v, t[k].index) \in 1 .. d
      /\ \A k \in 1 .. n + 1 : Since(v, t, k) \in 0 .. d
  <2>1. 1 .. d \subseteq DOMAIN v
    OBVIOUS
  <2>2. QED BY <1>2, <1>3, <2>1, SinceIs
<1>5. PositionIn(v, i) = d + 1
  <2>1. d + 1 \in DOMAIN v
    OBVIOUS
  <2>2. QED BY <2>1, PositionIs
<1>6. PICK f \in Nat : f = Since(v, t, n + 1) /\ f <= d
  <2>1. n + 1 \in 1 .. n + 1
    OBVIOUS
  <2>2. Since(v, t, n + 1) \in 0 .. d
    BY <1>4, <2>1
  <2>3. QED BY <2>2
<1>7. l.state = "running" =>
        Tally(v, f, d + 1) = IF w = "tie" THEN l.gate ELSE L!Weigh(l.gate, w = "b")
  BY <1>3, <1>6, TallyNext
<1>8. \A j \in 1 .. d : j \in 1 .. d + 1
  OBVIOUS
<1>9. CASE /\ m.transitions = t /\ m.state = l.state
           /\ l.state = "running" => m.gate = IF w = "tie" THEN l.gate ELSE L!Weigh(l.gate, w = "b")
  <2>1. \A k \in 1 .. n : \E j \in 1 .. d + 1 : v[j][2] = t[k].index
    BY <1>3, <1>8
  <2>2. m.state = "running" => m.gate = Tally(v, Since(v, t, n + 1), d + 1)
    BY <1>6, <1>7, <1>9
  <2>3. \A k \in 1 .. n : t[k].kind # "rolled_back" =>
          L!Passed(Tally(v, Since(v, t, k), PositionIn(v, t[k].index)))
    BY <1>3
  <2>4. m.transitions = t /\ Len(m.transitions) = n
    BY <1>2, <1>9
  <2>5. Gated(v, m, d + 1) <=>
          /\ \A k \in 1 .. n : \E j \in 1 .. d + 1 : v[j][2] = t[k].index
          /\ m.state = "running" => m.gate = Tally(v, Since(v, t, n + 1), d + 1)
          /\ \A k \in 1 .. n : t[k].kind # "rolled_back" =>
               L!Passed(Tally(v, Since(v, t, k), PositionIn(v, t[k].index)))
    BY ONLY <2>4 DEF Gated
  <2>6. QED BY ONLY <2>1, <2>2, <2>3, <2>5
<1>10. CASE /\ w # "tie" /\ l.state = "running"
            /\ m.state = "running" => m.gate = L!NewGate
            /\ \E x \in Steps : /\ x.index = i /\ m.transitions = Append(t, x)
                                /\ x.kind # "rolled_back" => L!Passed(L!Weigh(l.gate, w = "b"))
  <2>1. PICK x \in Steps : /\ x.index = i /\ m.transitions = Append(t, x)
                           /\ x.kind # "rolled_back" => L!Passed(L!Weigh(l.gate, w = "b"))
    BY <1>10
  <2>2. PICK s : s = Append(t, x)
    OBVIOUS
  <2>3. /\ Len(s) = n + 1 /\ s[n + 1] = x /\ \A k \in 1 .. n : s[k] = t[k]
    BY <1>2, <2>2
  <2>4. \A k \in 1 .. n + 1 : k \in 1 .. n \/ k = n + 1
    OBVIOUS
  <2>5. \A k \in 1 .. n + 1 : Since(v, s, k) = Since(v, t, k)
    <3>1. SUFFICES ASSUME NEW k \in 1 .. n + 1 PROVE Since(v, s, k) = Since(v, t, k)
      OBVIOUS
    <3>2. CASE k = 1
      BY <3>2 DEF Since
    <3>3. CASE k # 1
      <4>1. k - 1 \in 1 .. n
        BY <3>3
      <4>2. s[k - 1] = t[k - 1]
        BY <2>3, <4>1
      <4>3. QED BY <3>3, <4>2 DEF Since
    <3>4. QED BY <3>2, <3>3
  <2>6. Since(v, s, (n + 1) + 1) = d + 1
    <3>1. (n + 1) + 1 # 1 /\ ((n + 1) + 1) - 1 = n + 1
      OBVIOUS
    <3>2. s[((n + 1) + 1) - 1].index = i
      BY <2>1, <2>3, <3>1
    <3>3. QED BY <1>5, <3>1, <3>2 DEF Since
  <2>7. \A k \in 1 .. n + 1 : \E j \in 1 .. d + 1 : v[j][2] = s[k].index
    <3>1. SUFFICES ASSUME NEW k \in 1 .. n + 1 PROVE \E j \in 1 .. d + 1 : v[j][2] = s[k].index
      OBVIOUS
    <3>2. CASE k \in 1 .. n
      BY <1>3, <1>8, <2>3, <3>2
    <3>3. CASE k = n + 1
      <4>1. v[d + 1][2] = s[k].index /\ d + 1 \in 1 .. d + 1
        BY <2>1, <2>3, <3>3
      <4>2. QED BY <4>1
    <3>4. QED BY <2>4, <3>2, <3>3
  <2>8. m.state = "running" => m.gate = Tally(v, Since(v, s, (n + 1) + 1), d + 1)
    <3>1. Tally(v, d + 1, d + 1) = L!NewGate
      BY TallyNone
    <3>2. QED BY <1>10, <2>6, <3>1
  <2>9. ASSUME NEW k \in 1 .. n + 1, s[k].kind # "rolled_back"
        PROVE  L!Passed(Tally(v, Since(v, s, k), PositionIn(v, s[k].index)))
    <3>1. CASE k \in 1 .. n
      <4>1. s[k] = t[k] /\ Since(v, s, k) = Since(v, t, k)
        BY <2>3, <2>5, <3>1
      <4>2. QED BY <1>3, <2>9, <3>1, <4>1
    <3>2. CASE k = n + 1
      <4>1. s[k] = x /\ Since(v, s, k) = f /\ PositionIn(v, s[k].index) = d + 1
        BY <1>5, <1>6, <2>1, <2>3, <2>5, <3>2
      <4>2. L!Passed(Tally(v, f, d + 1))
        BY <1>7, <1>10, <2>1, <2>9, <4>1
      <4>3. QED BY <4>1, <4>2
    <3>3. QED BY <2>4, <3>1, <3>2
  <2>10. s = m.transitions /\ n + 1 = Len(s)
    BY <2>1, <2>2, <2>3
  <2>11. Gated(v, m, d + 1) <=>
          /\ \A k \in 1 .. n + 1 : \E j \in 1 .. d + 1 : v[j][2] = s[k].index
          /\ m.state = "running" => m.gate = Tally(v, Since(v, s, (n + 1) + 1), d + 1)
          /\ \A k \in 1 .. n + 1 : s[k].kind # "rolled_back" =>
               L!Passed(Tally(v, Since(v, s, k), PositionIn(v, s[k].index)))
    BY ONLY <2>10 DEF Gated
  <2>12. QED BY ONLY <2>7, <2>8, <2>9, <2>11
<1>11. QED
  <2>1. CASE w = "tie" \/ l.state # "running"
    <3>1. m = l
      BY <2>1 DEF L!Update
    <3>2. l.state = "running" => w = "tie"
      BY <2>1
    <3>3. QED BY <1>1, <1>9, <3>1, <3>2
  <2>2. CASE w # "tie" /\ l.state = "running"
    <3>1. Counted(l, w = "b", i, m)
      BY <2>2, UpdateCounts
    <3>2. CASE /\ m.state = l.state /\ m.transitions = l.transitions
               /\ m.gate = L!Weigh(l.gate, w = "b")
      BY <1>1, <1>9, <2>2, <3>2
    <3>3. CASE /\ m.state # "running"
               /\ \E x \in Steps : x.kind = "rolled_back" /\ x.index = i
                                   /\ m.transitions = Append(l.transitions, x)
      BY <1>1, <1>10, <2>2, <3>3
    <3>4. CASE /\ L!Passed(L!Weigh(l.gate, w = "b"))
               /\ m.state = "running" => m.gate = L!NewGate
               /\ \E x \in Steps : x.index = i /\ m.transitions = Append(l.transitions, x)
      BY <1>1, <1>10, <2>2, <3>4
    <3>5. QED BY <3>1, <3>2, <3>3, <3>4 DEF Counted
  <2>3. QED BY <2>1, <2>2
-----------------------------------------------------------------------------
(* The verdicts the lifecycle took: those read, but for the one in hand.   *)
Weighed == IF pc["decision"] = "decide" THEN cursor[Verdicts] - 1 ELSE cursor[Verdicts]

GateInv ==
  /\ FleetInv /\ CanaryInv
  /\ Alone(Verdicts, "decision")
  /\ Gated(log["verdicts"], lifecycle, Weighed)

LEMMA VerdictsRead ==
  ASSUME FleetInv, Alone(Verdicts, "decision")
  PROVE  /\ Weighed \in Nat /\ 1 .. Weighed \subseteq DOMAIN log["verdicts"]
         /\ Apart(log["verdicts"]) /\ log["verdicts"] \in Seq(Payloads)
         /\ pc["decision"] = "decide" =>
              /\ cursor[Verdicts] = Weighed + 1 /\ 1 .. Weighed + 1 \subseteq DOMAIN log["verdicts"]
              /\ Payload("decision") = log["verdicts"][Weighed + 1][2]
              /\ Payload("decision") \in 1 .. N
<1>1. /\ "decision" \in Consumers /\ "decision" \in Relays /\ Sole(Verdicts, "decision")
      /\ "decision" \notin Workers
  BY SubsFact, SoleReaders, WorkersAssumption DEF Relays
<1>2. /\ cursor[Verdicts] \in Nat /\ cursor[Verdicts] <= Len(log["verdicts"])
      /\ log["verdicts"] \in Seq(Payloads)
  <2>1. BP!BusTypeOK /\ Verdicts \in BP!Channels
    BY <1>1, ChannelTypes DEF FleetInv, BP!IInv, BP!TypeOK
  <2>2. Verdicts[1] = "verdicts" /\ "verdicts" \in Streams
    BY DEF Verdicts, Streams
  <2>3. QED BY <2>1, <2>2 DEF BP!BusTypeOK
<1>3. PICK n \in Nat : n = cursor[Verdicts]
  BY <1>2
<1>4. Apart(log["verdicts"])
  <2>1. CASE Workers = {}
    BY <2>1 DEF FleetInv, Judged, Apart
  <2>2. CASE Workers # {}
    BY <2>2 DEF FleetInv, Judged, Relayed, Distinct, Apart
  <2>3. QED BY <2>1, <2>2
<1>5. CASE pc["decision"] # "decide"
  BY <1>2, <1>3, <1>4, <1>5 DEF Weighed
<1>6. CASE pc["decision"] = "decide"
  <2>1. held["decision"] # Nothing
    BY <1>1, <1>6 DEF FleetInv, Standing, Unfed
  <2>2. BP!Readers["decision"] = {Verdicts}
    <3>1. Subs["decision"] = <<"verdicts">> /\ GroupOf["decision"] = "decision"
      BY <1>1, RampedAssumption DEF Subs, GroupOf
    <3>2. BP!Range(Subs["decision"]) = {"verdicts"}
      BY <3>1 DEF BP!Range
    <3>3. QED BY <1>1, <3>1, <3>2 DEF BP!Readers, Verdicts
  <2>3. /\ held["decision"][1] = Verdicts /\ held["decision"][2] \in DOMAIN log["verdicts"]
    BY <1>1, <2>1, <2>2, HeldFacts DEF FleetInv, Verdicts
  <2>4. held["decision"][2] = n
    BY <1>3, <2>1, <2>3 DEF Alone
  <2>5. n \in DOMAIN log["verdicts"] /\ n > 0
    BY <1>2, <2>3, <2>4
  <2>6. Weighed = n - 1 /\ Weighed \in Nat /\ Weighed + 1 = n
    BY <1>3, <1>6, <2>5 DEF Weighed
  <2>7. Payload("decision") = log["verdicts"][n][2]
    BY <2>3, <2>4 DEF Payload, Received, Verdicts
  <2>8. log["verdicts"][n][2] \in 1 .. N
    <3>1. Workers # {}
      BY <2>5 DEF FleetInv, Judged
    <3>2. PICK j \in DOMAIN log["pairs"] : log["pairs"][j][2] = log["verdicts"][n][2]
      BY <2>5, <3>1 DEF FleetInv, Judged, Relayed, Paired
    <3>3. PICK k \in DOMAIN log["requests"] : log["requests"][k][2] = log["pairs"][j][2]
      BY DEF FleetInv, Relayed, Requested
    <3>4. k \in 1 .. sent /\ sent \in 0 .. N /\ log["requests"][k] = <<"request", k>>
      <4>1. sent \in 0 .. N /\ Len(log["requests"]) = sent
        BY DEF FleetInv, Published
      <4>2. log["requests"] \in Seq(Payloads)
        BY DEF FleetInv, BP!IInv, BP!TypeOK, BP!BusTypeOK, Streams
      <4>3. k \in 1 .. sent
        BY <4>1, <4>2
      <4>4. QED BY <4>1, <4>3 DEF FleetInv, Published
    <3>5. QED BY <3>2, <3>3, <3>4, RequestsAssumption
  <2>9. 1 .. n \subseteq DOMAIN log["verdicts"]
    BY <1>2, <1>3
  <2>10. 1 .. Weighed \subseteq DOMAIN log["verdicts"]
    BY <2>6, <2>9
  <2>11. QED BY <1>2, <1>3, <1>4, <1>6, <2>6, <2>7, <2>8, <2>9, <2>10
<1>7. QED BY <1>5, <1>6

(* A step that takes no verdict in hand, or no other way.                  *)
LEMMA GateStays ==
  ASSUME GateInv, FleetInv', CanaryInv', Alone(Verdicts, "decision")',
         Weighed' = Weighed, Grows("verdicts"), lifecycle' = lifecycle
  PROVE  GateInv'
<1>1. PICK v, u : v = log["verdicts"] /\ u = log'["verdicts"]
  OBVIOUS
<1>2. PICK d \in Nat : d = Weighed
  BY VerdictsRead DEF GateInv
<1>3. Apart(v) /\ 1 .. d \subseteq DOMAIN v
  BY <1>1, <1>2, VerdictsRead DEF GateInv
<1>4. Apart(u)
  <2>1. CASE Workers = {}
    BY <1>1, <2>1 DEF FleetInv, Judged, Apart
  <2>2. CASE Workers # {}
    BY <1>1, <2>2 DEF FleetInv, Judged, Relayed, Distinct, Apart
  <2>3. QED BY <2>1, <2>2
<1>5. 1 .. d \subseteq DOMAIN u /\ \A k \in 1 .. d : u[k] = v[k]
  BY <1>1, <1>3 DEF Grows
<1>6. lifecycle.transitions \in Seq(Steps)
  BY DEF GateInv, CanaryInv, Climbs
<1>7. Gated(v, lifecycle, d)
  BY <1>1, <1>2 DEF GateInv
<1>8. Gated(u, lifecycle, d)
  BY <1>3, <1>4, <1>5, <1>6, <1>7, GatedGrows
<1>9. Gated(log["verdicts"], lifecycle, Weighed)'
  BY <1>1, <1>2, <1>8
<1>10. QED BY <1>9 DEF GateInv

(* The controller counts the verdict in hand.                              *)
LEMMA GateCounts ==
  ASSUME GateInv, FleetInv', CanaryInv', Alone(Verdicts, "decision")', UNCHANGED <<log, cursor>>,
         pc["decision"] = "decide", pc'["decision"] # "decide",
         lifecycle' = IF Winner[Payload("decision")] = "tie" THEN lifecycle
                      ELSE L!Update(lifecycle, Winner[Payload("decision")] = "b", Payload("decision"))
  PROVE  GateInv'
<1>1. PICK v, i, m : v = log["verdicts"] /\ i = Payload("decision") /\ m = lifecycle'
  OBVIOUS
<1>2. PICK w : w = Winner[i]
  OBVIOUS
<1>3. PICK d \in Nat : d = Weighed
  BY VerdictsRead DEF GateInv
<1>4. /\ Apart(v) /\ 1 .. d + 1 \subseteq DOMAIN v /\ i = v[d + 1][2] /\ i \in 1 .. N
      /\ cursor[Verdicts] = d + 1
  BY <1>1, <1>3, VerdictsRead DEF GateInv
<1>5. w \in {"a", "b", "tie"} /\ i \in Nat
  BY <1>2, <1>4, WinnerAssumption, RequestsAssumption
<1>6. Climbs(lifecycle) /\ Gated(v, lifecycle, d)
  BY <1>1, <1>3 DEF GateInv, CanaryInv
<1>7. m = IF w = "tie" THEN lifecycle ELSE L!Update(lifecycle, w = "b", i)
  BY <1>1, <1>2
<1>8. Gated(v, m, d + 1)
  BY <1>2, <1>4, <1>5, <1>6, <1>7, GatedCounts
<1>9. Weighed' = d + 1
  BY <1>4 DEF Weighed
<1>10. Gated(log["verdicts"], lifecycle, Weighed)'
  BY <1>1, <1>8, <1>9
<1>11. QED BY <1>10 DEF GateInv
-----------------------------------------------------------------------------
(* What every fleet does takes no verdict.                                 *)
LEMMA GateRests ==
  ASSUME Punctual, "ack" \notin Suspends, GateInv, Rest \/ UNCHANGED vars, UNCHANGED canaryVars
  PROVE  GateInv'
<1>1. "decision" \in Consumers /\ "decision" \in Tasks /\ "decision" \notin Workers /\ "verdicts" \in Streams
  BY SubsFact, WorkersAssumption DEF Streams
<1>2. FleetInv /\ CanaryInv /\ Alone(Verdicts, "decision") /\ Sole(Verdicts, "decision")
  BY SoleReaders DEF GateInv
<1>3. FleetInv' /\ CanaryInv'
  <2>1. CASE Rest
    BY <1>2, <2>1, RestInv, RestSteps
  <2>2. CASE UNCHANGED vars
    <3>1. UNCHANGED <<busVars, chaosVars, pc, loop, sent>>
      BY <2>2 DEF vars
    <3>2. QED BY <1>2, <3>1, AsideStep, AsideElsewhere
  <2>3. QED BY <2>1, <2>2
<1>4. PICK t \in Tasks \ {"decision"} : Acts(t)
  BY <1>1, SubsFact, WorkersAssumption DEF Rest, Acts
<1>5. /\ Alone(Verdicts, "decision")' /\ cursor'[Verdicts] = cursor[Verdicts]
      /\ Grows("verdicts") /\ pc'["decision"] = pc["decision"]
  BY <1>1, <1>2, <1>4, ActsAlone, ActsAside DEF Others
<1>6. Weighed' = Weighed /\ lifecycle' = lifecycle
  BY <1>5 DEF Weighed, canaryVars
<1>7. QED BY <1>2, <1>3, <1>5, <1>6, GateStays

(* Nor does the router when it looks at what it took.                      *)
LEMMA GateRoutes ==
  ASSUME GateInv, CanaryInv', CanaryRouterRequest \/ RouterControl
  PROVE  GateInv'
<1>1. /\ "router" \in Tasks /\ "decision" \in Tasks /\ "router" # "decision" /\ "router" \notin Workers
      /\ "ack" \in Places /\ "champion" \in Places
  BY SubsFact, WorkersAssumption DEF Places
<1>2. FleetInv /\ Alone(Verdicts, "decision")
  BY DEF GateInv
<1>3. PICK q \in {"champion", "ack"} :
        /\ At("router", "request") /\ GoTo("router", q) /\ UNCHANGED <<busVars, chaosVars, sent>>
        /\ lifecycle' = lifecycle
  BY DEF CanaryRouterRequest, RouterServe, EmitAndGo, RouterControl, canaryVars
<1>4. FleetInv'
  <2>1. CASE CanaryRouterRequest
    BY <1>2, <2>1, RouterInnerStep DEF CanaryRouterRequest
  <2>2. CASE RouterControl
    <3>1. At("router", "request") /\ GoTo("router", "ack") /\ UNCHANGED <<busVars, chaosVars, sent>>
      BY <2>2 DEF RouterControl
    <3>2. QED BY <1>1, <1>2, <3>1, InnerStep DEF Onward
  <2>3. QED BY <2>1, <2>2
<1>5. UNCHANGED <<log, cursor, pending, held>> /\ pc'["decision"] = pc["decision"]
  <2>1. \A u \in Tasks : u # "router" => pc'[u] = pc[u]
    BY <1>1, <1>2, <1>3, GoToFacts
  <2>2. QED BY <1>1, <1>3, <2>1 DEF busVars
<1>6. /\ Alone(Verdicts, "decision")' /\ Weighed' = Weighed /\ Grows("verdicts")
  BY <1>2, <1>5 DEF Alone, Weighed, Grows
<1>7. QED BY <1>3, <1>4, <1>6, GateStays

(* The controller takes the next verdict, counts it, tells and acks.       *)
LEMMA GateControls ==
  ASSUME GateInv, CanaryInv', Controller
  PROVE  GateInv'
<1>1. /\ "decision" \in Consumers /\ "decision" \in Tasks /\ "decision" \in Relays
      /\ "decision" \notin Workers /\ "decision" # "router"
      /\ {"next", "ack", "control", "decide"} \subseteq Places
      /\ "verdicts" \in Streams /\ "control" \in Streams /\ "control" # "verdicts"
      /\ "share_update" \in Kinds
  BY SubsFact, WorkersAssumption DEF Relays, Places, Streams, Kinds
<1>2. /\ FleetInv /\ CanaryInv /\ BP!IInv
      /\ Alone(Verdicts, "decision") /\ Sole(Verdicts, "decision") /\ cursor[Verdicts] \in Nat
  BY SoleReaders, ChannelTypes DEF GateInv, FleetInv
<1>3. ASSUME NEW x \in Shares, NEW r, NEW q \in Places, Emission("decision", r, q),
             r # "decide", q # "decide",
             At("decision", r), PublishAndGo("decision", "control", "share_update", x, q),
             UNCHANGED <<canaryVars, sent>>
      PROVE  GateInv'
  <2>1. B!Publish("control", <<"share_update", x>>) /\ GoTo("decision", q) /\ UNCHANGED chaosVars
    BY <1>3 DEF PublishAndGo
  <2>2. FleetInv'
    BY <1>1, <1>2, <1>3, <2>1, AsidePublishStep
  <2>3. /\ UNCHANGED <<held, cursor, pending>> /\ log'["verdicts"] = log["verdicts"]
        /\ pc["decision"] = r /\ pc'["decision"] = q
    <3>1. x \in (1 .. N) \union Shares
      OBVIOUS
    <3>2. At("decision", r) /\ PublishAndGo("decision", "control", "share_update", x, q)
      BY <1>3
    <3>3. /\ UNCHANGED <<held, cursor, pending>> /\ \A u \in Streams : u # "control" => log'[u] = log[u]
          /\ pc["decision"] = r /\ pc'["decision"] = q
      <4>1. FleetInv /\ "decision" \in Tasks /\ "control" \in Streams /\ "share_update" \in Kinds
        BY <1>1, <1>2
      <4>2. QED BY ONLY <3>1, <3>2, <4>1, Publishes, q \in Places
    <3>4. QED BY <1>1, <3>3
  <2>4. /\ Alone(Verdicts, "decision")' /\ Weighed' = Weighed /\ Grows("verdicts")
    BY <1>2, <1>3, <2>3 DEF Alone, Weighed, Grows
  <2>5. QED BY <1>3, <2>2, <2>4, GateStays DEF canaryVars
<1>4. CASE ControllerStart
  <2>1. PICK x : x = L!Share(lifecycle)
    OBVIOUS
  <2>2. /\ At("decision", "start") /\ PublishAndGo("decision", "control", "share_update", x, "next")
        /\ UNCHANGED <<canaryVars, sent>>
    BY <1>4, <2>1 DEF ControllerStart
  <2>3. pc["decision"] = "start"
    BY <2>2 DEF At
  <2>4. x \in Shares
    BY <1>2, <2>1, <2>3 DEF CanaryInv, Announced, Shares
  <2>5. Emission("decision", "start", "next")
    BY <1>1 DEF Emission, Onward
  <2>6. QED BY <1>1, <1>3, <2>2, <2>4, <2>5
<1>5. CASE ControllerReceive
  <2>1. Receive("decision", "decide") /\ lifecycle' = lifecycle
    BY <1>5 DEF ControllerReceive, DecisionReceive, canaryVars
  <2>2. FleetInv'
    BY <1>1, <1>2, <2>1, ReceiveStep
  <2>3. B!Take("decision") /\ UNCHANGED log /\ pc["decision"] = "next" /\ pc'["decision"] = "decide"
    BY <1>1, <1>2, <2>1, Receives
  <2>4. /\ Alone(Verdicts, "decision")' /\ held'["decision"] # Nothing
        /\ held'["decision"][1] = Verdicts => cursor'[Verdicts] = cursor[Verdicts] + 1
    BY <1>2, <2>3, AloneTakes
  <2>5. held'["decision"][1] = Verdicts
    <3>1. BP!Readers["decision"] = {Verdicts}
      <4>1. Subs["decision"] = <<"verdicts">> /\ GroupOf["decision"] = "decision"
        BY <1>1, RampedAssumption DEF Subs, GroupOf
      <4>2. BP!Range(Subs["decision"]) = {"verdicts"}
        BY <4>1 DEF BP!Range
      <4>3. QED BY <1>1, <4>1, <4>2 DEF BP!Readers, Verdicts
    <3>2. held'["decision"][1] \in BP!Readers["decision"]
      BY <1>1, <2>2, <2>4 DEF FleetInv, BP!IInv, BP!BusInv, BP!HeldWasHanded
    <3>3. QED BY <3>1, <3>2
  <2>6. Weighed' = Weighed /\ Grows("verdicts")
    BY <1>2, <2>3, <2>4, <2>5 DEF Weighed, Grows
  <2>7. QED BY <2>1, <2>2, <2>4, <2>6, GateStays
<1>6. CASE ControllerUpdate
  <2>1. PICK q \in {"control", "ack"} :
          /\ At("decision", "decide") /\ GoTo("decision", q) /\ UNCHANGED <<busVars, chaosVars, sent>>
    BY <1>6, Zenon DEF ControllerUpdate, EmitAndGo
  <2>2. lifecycle' = IF Winner[Payload("decision")] = "tie" THEN lifecycle
                     ELSE L!Update(lifecycle, Winner[Payload("decision")] = "b", Payload("decision"))
    BY <1>6, Zenon DEF ControllerUpdate
  <2>3. FleetInv'
    BY <1>1, <1>2, <2>1, InnerStep
  <2>4. pc["decision"] = "decide" /\ pc'["decision"] # "decide"
    BY <1>1, <1>2, <2>1, AtFacts, GoToFacts
  <2>5. UNCHANGED <<log, cursor, pending, held>>
    BY <2>1 DEF busVars
  <2>6. Alone(Verdicts, "decision")'
    BY <1>2, <2>5 DEF Alone
  <2>7. QED BY <2>2, <2>3, <2>4, <2>5, <2>6, GateCounts
<1>7. CASE ControllerPublish
  <2>1. PICK x : x = lifecycle.transitions[Len(lifecycle.transitions)].share
    OBVIOUS
  <2>2. /\ At("decision", "control") /\ PublishAndGo("decision", "control", "share_update", x, "ack")
        /\ UNCHANGED <<canaryVars, sent>>
    BY <1>7, <2>1 DEF ControllerPublish
  <2>3. Len(lifecycle.transitions) > 0
    BY <1>2, <2>2 DEF At, CanaryInv, Announced
  <2>4. lifecycle.transitions[Len(lifecycle.transitions)] \in Steps
    BY <1>2, <2>3 DEF CanaryInv, Climbs
  <2>5. x \in Shares
    BY <2>1, <2>4 DEF Steps, Shares
  <2>6. Emission("decision", "control", "ack")
    BY DEF Emission, Onward
  <2>7. QED BY <1>1, <1>3, <2>2, <2>5, <2>6
<1>8. CASE ControllerAcknowledge
  <2>1. Acknowledge("decision") /\ lifecycle' = lifecycle
    BY <1>8 DEF ControllerAcknowledge, canaryVars
  <2>2. FleetInv'
    BY <1>1, <1>2, <2>1, AckStep
  <2>3. B!Ack("decision") /\ UNCHANGED log /\ pc["decision"] = "ack" /\ pc'["decision"] = "next"
    BY <1>1, <1>2, <2>1, Acks
  <2>4. Alone(Verdicts, "decision")' /\ cursor'[Verdicts] = cursor[Verdicts]
    BY <1>2, <2>3, AloneAcks
  <2>5. Weighed' = Weighed /\ Grows("verdicts")
    BY <2>3, <2>4 DEF Weighed, Grows
  <2>6. QED BY <2>1, <2>2, <2>4, <2>5, GateStays
<1>9. CASE ControllerPoll
  <2>1. Poll("decision") /\ lifecycle' = lifecycle
    BY <1>9 DEF ControllerPoll, canaryVars
  <2>2. FleetInv'
    BY <1>1, <1>2, <2>1, PollStep
  <2>3. UNCHANGED <<log, cursor, pending, held, pc>>
    BY <2>1 DEF Poll, busVars
  <2>4. Alone(Verdicts, "decision")' /\ Weighed' = Weighed /\ Grows("verdicts")
    BY <1>2, <2>3 DEF Alone, Weighed, Grows
  <2>5. QED BY <2>1, <2>2, <2>4, GateStays
<1>10. QED BY <1>4, <1>5, <1>6, <1>7, <1>8, <1>9 DEF Controller

LEMMA GateNext ==
  ASSUME Punctual, "ack" \notin Suspends
  PROVE  GateInv /\ [CanaryNext]_allVars => GateInv'
<1> SUFFICES ASSUME GateInv, [CanaryNext]_allVars PROVE GateInv'
  OBVIOUS
<1>1. CanaryInv'
  BY CanaryNextInv DEF GateInv
<1>2. CASE (Rest /\ UNCHANGED canaryVars) \/ UNCHANGED allVars
  BY <1>2, GateRests DEF allVars
<1>3. CASE CanaryRouterRequest \/ RouterControl
  BY <1>1, <1>3, GateRoutes
<1>4. CASE Controller
  BY <1>1, <1>4, GateControls
<1>5. QED BY <1>2, <1>3, <1>4 DEF CanaryNext

LEMMA GateInit == CanaryInit => GateInv
<1> SUFFICES ASSUME CanaryInit PROVE GateInv
  OBVIOUS
<1>1. FleetInv /\ CanaryInv
  BY InitInv, CanaryInitInv DEF CanaryInit
<1>2. /\ B!BusInit /\ lifecycle = L!NewLifecycle /\ pc["decision"] = "start"
  BY SubsFact DEF CanaryInit, InitWith
<1>3. /\ Verdicts \in BP!Channels /\ B!Channels = BP!Channels /\ "decision" \in Consumers
  BY SubsFact, SoleReaders
     DEF Sole, BP!Channels, B!Channels, B!Readers, BP!Readers, B!Range, BP!Range
<1>4. cursor[Verdicts] = 0 /\ pending[Verdicts] = <<>> /\ held["decision"] = Nothing
  BY <1>2, <1>3 DEF B!BusInit
<1>5. Weighed = 0 /\ Alone(Verdicts, "decision")
  BY <1>2, <1>4 DEF Weighed, Alone
<1>6. lifecycle.transitions = <<>> /\ lifecycle.gate = L!NewGate
  BY <1>2 DEF L!NewLifecycle
<1>7. PICK v : v = log["verdicts"]
  OBVIOUS
<1>8. Tally(v, 0, 0) = L!NewGate
  BY TallyNone
<1>9. Gated(v, lifecycle, 0)
  BY <1>6, <1>8 DEF Gated, Since
<1>10. QED BY <1>1, <1>5, <1>7, <1>9 DEF GateInv

LEMMA GatesHold == GateInv => FreshGates
<1> SUFFICES ASSUME GateInv PROVE FreshGates
  OBVIOUS
<1>1. PICK v, t : v = log["verdicts"] /\ t = lifecycle.transitions
  OBVIOUS
<1>2. t \in Seq(Steps)
  BY <1>1 DEF GateInv, CanaryInv, Climbs
<1>3. SUFFICES ASSUME NEW k \in 1 .. Len(t), t[k].kind # "rolled_back"
               PROVE  Evidence(Since(v, t, k), PositionIn(v, t[k].index)) \in GateAt
  <2>1. \A i : Position(i) = PositionIn(v, i)
    BY <1>1 DEF Position, PositionIn
  <2>2. \A k \in DOMAIN t : Since(v, t, k) = IF k = 1 THEN 0 ELSE Position(t[k - 1].index)
    BY <2>1 DEF Since
  <2>3. DOMAIN t = 1 .. Len(t)
    BY <1>2
  <2>4. QED BY <1>1, <1>3, <2>1, <2>2, <2>3 DEF FreshGates
<1>4. L!Passed(Tally(v, Since(v, t, k), PositionIn(v, t[k].index)))
  BY <1>1, <1>3 DEF GateInv, Gated
<1>5. \A f, d : Evidence(f, d) = <<Tally(v, f, d).wins, Tally(v, f, d).losses>>
  BY <1>1 DEF Evidence, Tally, Cast
<1>6. QED BY <1>4, <1>5 DEF L!Passed

(* For any requests, verdicts, draws, workers, sinks, gates, thresholds    *)
(* and number of kills: a stage is left on exactly the decisive verdicts   *)
(* that came since it was entered (CanaryLifecycle.update and _advance),   *)
(* each counted once, under the assumptions of OneVerdictPerPair.          *)
THEOREM GatesAreFresh ==
  ASSUME Punctual, "ack" \notin Suspends
  PROVE  CanarySpec => []FreshGates
<1>1. CanaryInit => GateInv
  BY GateInit
<1>2. GateInv /\ [CanaryNext]_allVars => GateInv'
  BY GateNext
<1>3. GateInv => FreshGates
  BY GatesHold
<1>4. QED BY <1>1, <1>2, <1>3, PTL DEF CanarySpec
-----------------------------------------------------------------------------
(***************************************************************************)
(* The audit trail.  The store and the sinks are as in FleetProofs; what   *)
(* is added is which rows tell of the transitions, and what the chart of   *)
(* the ramp makes of them.                                                 *)
(***************************************************************************)
(* The facts about sorted numbers that come with the bus.                  *)
LEMMA BusFacts ==
  /\ \A c \in Consumers : Subs[c] \in Seq(Streams)
  /\ Nothing \notin BP!Channels \X Nat
  /\ ReclaimIdle \in Nat \ {0} /\ Punctual \in BOOLEAN /\ N \in Nat /\ MaxKills \in Nat
  BY SubsFact, NothingFact, ReclaimIdleAssumption, RequestsAssumption, KillsAssumption

LEMMA Sortable ==
  ASSUME NEW n \in Nat, NEW a \in [1 .. n -> Nat],
         \A j, k \in 1 .. n : a[j] = a[k] => j = k
  PROVE  \E f \in [1 .. n -> Nat] :
           /\ BP!Rising(f)
           /\ \A k \in 1 .. n : \E j \in 1 .. n : f[k] = a[j]
           /\ \A k \in 1 .. n : \E j \in 1 .. n : f[j] = a[k]
  BY BP!Sortable, BusFacts, Zenon

LEMMA SortedOnce ==
  ASSUME NEW n \in Nat, NEW f \in [1 .. n -> Nat], BP!Rising(f), NEW g \in [1 .. n -> Nat], BP!Rising(g),
         BP!Covers(f, g, n), BP!Covers(g, f, n)
  PROVE  \A i \in 1 .. n : f[i] = g[i]
  BY BP!SortedOnce, BusFacts, ZenonT(60)
-----------------------------------------------------------------------------
(* The rows that tell of the transitions t, read back in order.            *)
Row(x) == [index |-> x.index, stage |-> StageName(x)]

Singly(t) == \A j, k \in 1 .. Len(t) : t[j].index = t[k].index => j = k

(* The rows read back are those of the transitions, by request, and g has  *)
(* the requests.                                                           *)
Charts(t, n, g) ==
  /\ DOMAIN ReadBack = 1 .. n
  /\ \A k \in 1 .. n : \E j \in 1 .. n : ReadBack[k] = Row(t[j])
  /\ g \in [1 .. n -> Nat] /\ BP!Rising(g)
  /\ \A k \in 1 .. n : \E j \in 1 .. n : g[j] = t[k].index

LEMMA ReadBackIs ==
  ASSUME NEW t \in Seq(Steps), Singly(t), NEW n \in Nat, n = Len(t),
         TransitionRows = {Row(t[k]) : k \in 1 .. n},
         NEW g, g = [k \in 1 .. n |-> ReadBack[k].index]
  PROVE  Charts(t, n, g)
<1>1. n = Len(t)
  OBVIOUS
<1> DEFINE R == {Row(t[k]) : k \in 1 .. n}
           a == [k \in 1 .. n |-> t[k].index]
           b == [k \in 1 .. n |-> Row(t[k])]
<1>2. /\ \A k \in 1 .. n : t[k].index \in Nat /\ Row(t[k]).index = t[k].index
      /\ \A j, k \in 1 .. n : t[j].index = t[k].index => j = k
  <2>1. \A k \in 1 .. n : t[k] \in Steps
    BY <1>1
  <2>2. QED BY <1>1, <2>1 DEF Steps, Row, Singly
<1>3. IsFiniteSet(1 .. n) /\ Cardinality(1 .. n) = n
  BY ONLY n \in Nat, FS_Interval
<1>4. a \in [1 .. n -> Nat] /\ \A j, k \in 1 .. n : a[j] = a[k] => j = k
  BY <1>2
<1>5. b \in Bijection(1 .. n, R)
  <2>1. b \in [1 .. n -> R] /\ \A i \in R : \E k \in 1 .. n : b[k] = i
    OBVIOUS
  <2>2. \A j, k \in 1 .. n : b[j] = b[k] => j = k
    BY <1>2
  <2> HIDE DEF b, R
  <2>3. QED BY <2>1, <2>2 DEF Bijection, Injection, IsInjective, Surjection
<1> HIDE DEF b
<1>6. IsFiniteSet(R) /\ Cardinality(R) = n
  <2> HIDE DEF R
  <2>1. ExistsBijection(1 .. n, R)
    BY <1>5 DEF ExistsBijection
  <2>2. QED BY <1>3, <2>1, FS_Bijection
<1>7. PICK f \in [1 .. n -> Nat] :
        BP!Rising(f) /\ \A k \in 1 .. n : \E j \in 1 .. n : f[k] = a[j]
  <2> HIDE DEF a
  <2>1. QED BY ONLY n \in Nat, <1>4, Sortable
<1>8. \A k \in 1 .. n : \E r \in R : r.index = f[k]
  <2>1. SUFFICES ASSUME NEW k \in 1 .. n PROVE \E r \in R : r.index = f[k]
    OBVIOUS
  <2>2. PICK j \in 1 .. n : f[k] = t[j].index
    BY <1>7
  <2>3. QED BY <1>2, <2>2
<1> DEFINE s == [k \in 1 .. n |-> CHOOSE r \in R : r.index = f[k]]
<1>9. s \in [1 .. n -> R] /\ \A j, k \in 1 .. n : j < k => s[j].index < s[k].index
  <2>1. \A j, k \in 1 .. n : j < k => f[j] < f[k]
    BY <1>7 DEF BP!Rising
  <2> HIDE DEF R
  <2>2. \A k \in 1 .. n : s[k] \in R /\ s[k].index = f[k]
    BY <1>8
  <2>3. s \in [1 .. n -> R]
    BY <2>2
  <2> HIDE DEF s
  <2>4. QED BY <2>1, <2>2, <2>3
<1> HIDE DEF s
<1>10. PICK q : q = ReadBack
  OBVIOUS
<1>11. q \in [1 .. n -> R] /\ \A j, k \in 1 .. n : j < k => q[j].index < q[k].index
  <2> DEFINE P(x) == \A j, k \in DOMAIN x : j < k => x[j].index < x[k].index
  <2>1. TransitionRows = R /\ Cardinality(TransitionRows) = n
    BY <1>1, <1>6
  <2> HIDE DEF R
  <2>2. q = CHOOSE x \in [1 .. n -> R] : P(x)
    BY <1>10, <2>1 DEF ReadBack
  <2>3. \E x \in [1 .. n -> R] : P(x)
    BY <1>9
  <2>4. q \in [1 .. n -> R] /\ P(q)
    <3> HIDE DEF P
    <3>1. QED BY <2>2, <2>3
  <2>5. QED BY <2>4
<1>12. \A r \in R : r.index \in Nat
  BY <1>2
<1>13. \A r \in R : \E j \in 1 .. n : q[j] = r
  <2> HIDE DEF R
  <2>1. \A j, k \in 1 .. n : q[j] = q[k] => j = k
    <3>1. SUFFICES ASSUME NEW j \in 1 .. n, NEW k \in 1 .. n, q[j] = q[k], j # k PROVE FALSE
      OBVIOUS
    <3>2. q[j].index < q[k].index \/ q[k].index < q[j].index
      BY <1>11, <3>1
    <3>3. q[j].index \in Nat
      BY <1>11, <1>12
    <3>4. QED BY <3>1, <3>2, <3>3
  <2>2. q \in Injection(1 .. n, R)
    BY <1>11, <2>1 DEF Injection, IsInjective
  <2>3. q \in Surjection(1 .. n, R)
    BY <1>3, <1>6, <2>2, FS_Injection
  <2>4. QED BY <2>3 DEF Surjection
<1> DEFINE h == [k \in 1 .. n |-> q[k].index]
<1>14. h \in [1 .. n -> Nat] /\ BP!Rising(h)
  <2> HIDE DEF R
  <2>1. \A k \in 1 .. n : q[k].index \in Nat
    BY <1>11, <1>12
  <2>2. QED BY <1>11, <2>1 DEF BP!Rising
<1>15. \A k \in 1 .. n : \E j \in 1 .. n : h[j] = t[k].index
  <2>1. SUFFICES ASSUME NEW k \in 1 .. n PROVE \E j \in 1 .. n : h[j] = t[k].index
    OBVIOUS
  <2>2. PICK j \in 1 .. n : q[j] = Row(t[k])
    BY <1>13
  <2>3. QED BY <1>2, <2>2
<1>16. DOMAIN q = 1 .. n /\ \A k \in 1 .. n : \E j \in 1 .. n : q[k] = Row(t[j])
  <2>1. \A k \in 1 .. n : q[k] \in R
    BY <1>11
  <2>2. DOMAIN q = 1 .. n
    <3> HIDE DEF R
    <3>1. QED BY <1>11
  <2>3. QED BY <2>1, <2>2
<1>17. h = g
  BY <1>10
<1> HIDE DEF R, a, h
<1>18. QED BY <1>10, <1>14, <1>15, <1>16, <1>17 DEF Charts
-----------------------------------------------------------------------------
(* A transition is on a request of its own, and the event that tells of it.*)
Listed(t) ==
  /\ t \in Seq(Steps) /\ Singly(t)
  /\ \A k \in 1 .. Len(t) : t[k].index \in 1 .. N

Telling(x) == Event(x.index, 9, StageName(x))

Filed(t) == {e \in AllEvents : e.seq[2] = 9 => \E k \in 1 .. Len(t) : e = Telling(t[k])}

(* Only what the transitions call for is written at band 9, by a task that *)
(* is not cancelled, and all of it is under way or stored.                 *)
Claimed == \A e \in SP!Strays : e.seq[2] # 9

Filing(t) ==
  /\ SP!Holds(Filed(t)) /\ Claimed
  /\ \A k \in 1 .. Len(t) : <<t[k].index, 9>> \in SP!KeptSeqs
  /\ flushing["decision"] = "no"
  /\ Len(buffer["decision"]) <= Len(t)

AuditInv ==
  /\ GateInv /\ Samples /\ Stocked /\ Closing
  /\ \E t \in {lifecycle.transitions} : Listed(t) /\ Filing(t)
-----------------------------------------------------------------------------
(* Every share is drawn once, and read off the name of its stage.          *)
LEMMA SharesApart ==
  ASSUME NEW l, Climbs(l)
  PROVE  \A j, k \in 1 .. Len(l.transitions) :
           l.transitions[j].share = l.transitions[k].share => j = k
<1>1. PICK t \in Seq(Steps) : t = l.transitions
  BY DEF Climbs
<1>2. PICK n \in Nat : n = Len(t)
  BY <1>1
<1>3. \A k \in 1 .. n : t[k].share = k \/ (k = n /\ t[k].share = 0)
  BY <1>1, <1>2 DEF Climbs
<1>4. SUFFICES ASSUME NEW j \in 1 .. n, NEW k \in 1 .. n, t[j].share = t[k].share PROVE j = k
  BY <1>1, <1>2
<1>5. QED BY <1>3, <1>4

LEMMA LevelIs ==
  ASSUME NEW x \in Steps
  PROVE  StageLevel(StageName(x)) = x.share /\ StageName(x) \in Bodies
<1>1. CASE x.kind = "rolled_back"
  <2>1. StageName(x) = "rolled-back"
    BY <1>1 DEF StageName
  <2>2. StageLevel("rolled-back") = 0
    BY DEF StageLevel
  <2>3. QED BY <1>1, <2>1, <2>2 DEF Bodies, Steps
<1>2. CASE x.kind # "rolled_back"
  <2>1. x.share \in {1, 2, 3, 4}
    BY <1>2 DEF Steps
  <2>2. PICK n \in {1, 2, 3, 4} : n = x.share
    BY <2>1
  <2>3. StageName(x) = <<"canary-1", "canary-5", "canary-25", "full">>[n]
    BY <1>2, <2>2 DEF StageName
  <2>4. /\ StageLevel("canary-1") = 1 /\ StageLevel("canary-5") = 2
        /\ StageLevel("canary-25") = 3 /\ StageLevel("full") = 4
    BY DEF StageLevel
  <2>5. StageName(x) = IF n = 1 THEN "canary-1" ELSE IF n = 2 THEN "canary-5"
                       ELSE IF n = 3 THEN "canary-25" ELSE "full"
    BY <2>3
  <2>6. QED BY <2>2, <2>4, <2>5 DEF Bodies
<1>3. QED BY <1>1, <1>2

(* The chart of the ramp is the ramp if and only if it is in order.        *)
LEMMA StaircaseIs ==
  ASSUME NEW t \in Seq(Steps), Singly(t), TransitionRows = {Row(t[k]) : k \in 1 .. Len(t)},
         \A j, k \in 1 .. Len(t) : t[j].share = t[k].share => j = k,
         \A k \in 1 .. Len(t) : StageLevel(StageName(t[k])) = t[k].share
  PROVE  ShareSteps = [k \in DOMAIN t |-> t[k].share]
           <=> \A j, k \in DOMAIN t : j < k => t[j].index < t[k].index
<1>1. PICK n \in Nat : n = Len(t) /\ DOMAIN t = 1 .. n
  OBVIOUS
<1> DEFINE Level(k) == StageLevel(ReadBack[k].stage)
<1>0. PICK g, a : g = [k \in 1 .. n |-> ReadBack[k].index] /\ a = [k \in 1 .. n |-> t[k].index]
  OBVIOUS
<1>2. /\ DOMAIN ReadBack = 1 .. n
      /\ \A k \in 1 .. n : \E j \in 1 .. n : ReadBack[k] = Row(t[j])
      /\ g \in [1 .. n -> Nat] /\ BP!Rising(g)
      /\ \A k \in 1 .. n : \E j \in 1 .. n : g[j] = t[k].index
  <2>1. TransitionRows = {Row(t[k]) : k \in 1 .. n}
    BY <1>1
  <2>2. t \in Seq(Steps) /\ Singly(t) /\ n = Len(t) /\ g = [k \in 1 .. n |-> ReadBack[k].index]
    BY <1>0, <1>1
  <2>3. Charts(t, n, g)
    BY ONLY n \in Nat, <2>1, <2>2, ReadBackIs
  <2>4. QED BY <2>3 DEF Charts
<1>3. /\ a \in [1 .. n -> Nat] /\ DOMAIN a = 1 .. n /\ DOMAIN g = 1 .. n
      /\ \A k \in 1 .. n : a[k] = t[k].index /\ g[k] = ReadBack[k].index
  <2>1. \A k \in 1 .. n : t[k] \in Steps
    BY <1>1
  <2>2. \A k \in 1 .. n : t[k].index \in Nat
    BY <2>1 DEF Steps
  <2>3. QED BY <1>0, <2>2
<1>4. \A k \in 1 .. n : \E j \in 1 .. n :
        ReadBack[k] = Row(t[j]) /\ g[k] = t[j].index /\ Level(k) = t[j].share
  <2>1. SUFFICES ASSUME NEW k \in 1 .. n
                 PROVE  \E j \in 1 .. n :
                          ReadBack[k] = Row(t[j]) /\ g[k] = t[j].index /\ Level(k) = t[j].share
    OBVIOUS
  <2>2. PICK j \in 1 .. n : ReadBack[k] = Row(t[j])
    BY <1>2
  <2>3. ReadBack[k].index = t[j].index /\ ReadBack[k].stage = StageName(t[j])
    BY <2>2 DEF Row
  <2>4. QED BY <1>1, <1>3, <2>2, <2>3
<1>5. ShareSteps = [k \in 1 .. n |-> Level(k)]
  BY <1>2 DEF ShareSteps
<1> HIDE DEF Level
<1>6. ShareSteps = [k \in DOMAIN t |-> t[k].share] <=> \A k \in 1 .. n : Level(k) = t[k].share
  BY <1>1, <1>5
<1>7. ASSUME \A k \in 1 .. n : Level(k) = t[k].share
      PROVE  \A j, k \in 1 .. n : j < k => t[j].index < t[k].index
  <2>1. \A k \in 1 .. n : g[k] = t[k].index
    <3>1. SUFFICES ASSUME NEW k \in 1 .. n PROVE g[k] = t[k].index
      OBVIOUS
    <3>2. PICK j \in 1 .. n : g[k] = t[j].index /\ Level(k) = t[j].share
      BY <1>4
    <3>3. j = k
      BY <1>1, <1>7, <3>2
    <3>4. QED BY <3>2, <3>3
  <2>2. \A j, k \in 1 .. n : j < k => g[j] < g[k]
    BY <1>2, <1>3 DEF BP!Rising
  <2>3. QED BY <2>1, <2>2
<1>8. ASSUME \A j, k \in 1 .. n : j < k => t[j].index < t[k].index
      PROVE  \A k \in 1 .. n : Level(k) = t[k].share
  <2>1. BP!Rising(a)
    BY <1>3, <1>8 DEF BP!Rising
  <2>2. BP!Covers(a, g, n) /\ BP!Covers(g, a, n)
    <3>1. \A k \in 1 .. n : \E j \in 1 .. n : a[j] = g[k]
      <4>1. SUFFICES ASSUME NEW k \in 1 .. n PROVE \E j \in 1 .. n : a[j] = g[k]
        OBVIOUS
      <4>2. PICK j \in 1 .. n : g[k] = t[j].index
        BY <1>4
      <4>3. QED BY <1>3, <4>2
    <3>2. \A k \in 1 .. n : \E j \in 1 .. n : g[j] = a[k]
      <4>1. SUFFICES ASSUME NEW k \in 1 .. n PROVE \E j \in 1 .. n : g[j] = a[k]
        OBVIOUS
      <4>2. PICK j \in 1 .. n : g[j] = t[k].index
        BY <1>2
      <4>3. QED BY <1>3, <4>2
    <3>3. QED BY <3>1, <3>2 DEF BP!Covers
  <2>3. \A k \in 1 .. n : a[k] = g[k]
    BY <1>2, <1>3, <2>1, <2>2, SortedOnce
  <2>4. SUFFICES ASSUME NEW k \in 1 .. n PROVE Level(k) = t[k].share
    OBVIOUS
  <2>5. PICK j \in 1 .. n : g[k] = t[j].index /\ Level(k) = t[j].share
    BY <1>4
  <2>6. j = k
    BY <1>1, <1>3, <2>3, <2>5 DEF Singly
  <2>7. QED BY <2>5, <2>6
<1>9. QED BY <1>1, <1>6, <1>7, <1>8
-----------------------------------------------------------------------------
(* What an emission, a flush or the store's own step leaves in the sinks.  *)
LEMMA EmitFiles ==
  ASSUME NEW E, SP!Holds(E), NEW t \in Tasks, NEW s \in Sinks, NEW e \in E, S!Emit(t, s, e)
  PROVE  SP!Holds(E)' /\ SP!Strays' = SP!Strays
<1>1. SP!Emit(t, s, e)
  BY DEF S!Emit, SP!Emit, S!EnterLock, SP!EnterLock, S!Thread, SP!Thread
<1>2. SP!Holds(E)'
  BY <1>1, SP!EmitHolds, BatchAssumption, NobodyAssumption
<1>3. SP!Strays' = SP!Strays
  BY <1>1, SP!EmitStrays, BatchAssumption, NobodyAssumption
<1>4. QED BY <1>2, <1>3

LEMMA FlushFiles ==
  ASSUME NEW E, SP!Holds(E), NEW s \in Sinks, S!Flush("runner", s)
  PROVE  SP!Holds(E)' /\ SP!Strays' = SP!Strays
<1>1. SP!Flush("runner", s) /\ "runner" \in Tasks
  BY SubsFact DEF S!Flush, SP!Flush, S!EnterLock, SP!EnterLock, S!Thread, SP!Thread, S!sinkVars, SP!sinkVars
<1>2. SP!Holds(E)'
  BY <1>1, SP!FlushHolds, BatchAssumption, NobodyAssumption
<1>3. SP!Strays' = SP!Strays
  BY <1>1, SP!FlushStrays, BatchAssumption, NobodyAssumption
<1>4. QED BY <1>2, <1>3

LEMMA StoreFiles ==
  ASSUME NEW E, SP!Holds(E), Store
  PROVE  SP!Holds(E)' /\ SP!Strays' \subseteq SP!Strays
<1>1. CASE \E th \in threads : S!Insert(th)
  <2>1. PICK th \in threads : S!Insert(th)
    BY <1>1
  <2>2. SP!Insert(th)
    BY <2>1 DEF S!Insert, SP!Insert, S!InsertOrIgnore, SP!InsertOrIgnore
  <2>3. SP!Holds(E)'
    BY <2>2, SP!InsertHolds, BatchAssumption, NobodyAssumption
  <2>4. SP!Strays' \subseteq SP!Strays
    BY <2>2, SP!InsertStrays, BatchAssumption, NobodyAssumption
  <2>5. QED BY <2>3, <2>4
<1>2. CASE \E t \in Tasks : S!Acquire(t)
  <2>1. PICK t \in Tasks : S!Acquire(t)
    BY <1>2
  <2>2. SP!Acquire(t)
    BY <2>1 DEF S!Acquire, SP!Acquire, S!Thread, SP!Thread
  <2>3. SP!Holds(E)'
    BY <2>2, SP!AcquireHolds, BatchAssumption, NobodyAssumption
  <2>4. SP!Strays' = SP!Strays
    BY <2>2, SP!AcquireStrays, BatchAssumption, NobodyAssumption
  <2>5. QED BY <2>3, <2>4
<1>3. QED BY <1>1, <1>2 DEF Store

(* What an update adds to the transitions.                                 *)
LEMMA UpdateFiles ==
  ASSUME NEW l, Climbs(l), NEW win, NEW i \in Nat, NEW m, m = L!Update(l, win, i)
  PROVE  \/ m.transitions = l.transitions
         \/ /\ l.state = "running"
            /\ \E x \in Steps : x.index = i /\ m.transitions = Append(l.transitions, x)
<1>1. CASE l.state # "running"
  BY <1>1 DEF L!Update
<1>2. CASE l.state = "running"
  <2>1. Counted(l, win, i, m)
    BY <1>2, UpdateCounts
  <2>2. QED BY <1>2, <2>1 DEF Counted
<1>3. QED BY <1>1, <1>2
-----------------------------------------------------------------------------
(* Who serves a request, as the log has it or is to have it: only the      *)
(* router names the challenger, and only for one of V.                     *)
Items == (1 .. N) \union Shares

Marked(V) ==
  {e \in [seq : Items \X {0, 1, 2, 5, 6, 7, 8, 9}, body : Bodies \union {Winner[i] : i \in Items}] :
     e.seq[1] \in 1 .. N /\ e.seq[2] = 0 /\ e.body = "challenger" => e.seq[1] \in V}

LEMMA MarkedEvent ==
  ASSUME NEW V, NEW i \in Items, NEW b \in {0, 1, 2, 5, 6, 7, 8, 9},
         NEW body \in Bodies \union {Winner[j] : j \in Items},
         i \in 1 .. N /\ b = 0 /\ body = "challenger" => i \in V
  PROVE  Event(i, b, body) \in Marked(V)
  BY DEF Event, Marked

(* The router's own events, and the judges'.                               *)
LEMMA FleetMarks ==
  ASSUME CanaryInv, Rest, NEW V, NEW E, E = Marked(V), SP!Holds(E), toFlush \in Seq(Sinks)
  PROVE  SP!Holds(E)' /\ toFlush' \in Seq(Sinks)
<1>1. /\ {"router", "judge"} \subseteq Sinks /\ {"router", "runner"} \subseteq Tasks
      /\ Workers \subseteq Consumers /\ Consumers \subseteq Tasks /\ "router" \in Consumers
  BY SinksFact, SubsFact DEF Tasks
<1>2. ASSUME NEW c \in Workers \union {"router"}, pc[c] # "next" PROVE Payload(c) \in Items
  BY <1>1, <1>2, HeldFacts DEF CanaryInv, Manned, Items
<1>3. ASSUME UNCHANGED sinkVars PROVE SP!Holds(E)'
  BY <1>3 DEF sinkVars, SP!Holds
<1>4. CASE TrafficPublish
  BY <1>3, <1>4 DEF TrafficPublish, PublishAndGo, runnerVars
<1>5. CASE RouterChampion \/ RouterShadow
  <2>1. PICK i : i = Payload("router")
    OBVIOUS
  <2>2. PICK b \in {1, 2}, body \in {"champion", "shadow"} :
          /\ S!Emit("router", "router", Event(i, b, body))
          /\ pc["router"] \in {"champion", "shadow"} /\ UNCHANGED runnerVars
    BY <1>5, <2>1, Zenon DEF RouterChampion, RouterShadow, At, EmitAndGo
  <2>3. i \in Items
    BY <1>2, <2>1, <2>2
  <2>4. body \in Bodies
    BY DEF Bodies
  <2>5. PICK e : e = Event(i, b, body)
    OBVIOUS
  <2>6. e \in E
    BY <2>2, <2>3, <2>4, <2>5, MarkedEvent
  <2>7. S!Emit("router", "router", e)
    BY <2>2, <2>5
  <2>8. QED BY <1>1, <2>2, <2>6, <2>7, EmitFiles DEF runnerVars
<1>6. CASE RouterRest /\ ~(RouterChampion \/ RouterShadow)
  <2>1. UNCHANGED <<sinkVars, runnerVars>>
    BY <1>6 DEF RouterRest, RouterReceive, Receive, RouterPublish, PublishAndGo, Acknowledge, Poll
  <2>2. QED BY <1>3, <2>1 DEF runnerVars
<1>7. ASSUME NEW w \in Workers, Judge(w) \/ KillWorker(w) \/ RestartWorker(w)
      PROVE  SP!Holds(E)' /\ toFlush' \in Seq(Sinks)
  <2>1. CASE JudgeEmit(w)
    <3>1. PICK i : i = Payload(w)
      OBVIOUS
    <3>2. /\ S!Emit(w, "judge", Event(i, 5, Winner[i])) /\ pc[w] = "judge" /\ UNCHANGED runnerVars
      BY <2>1, <3>1 DEF JudgeEmit, EmitAndGo, At
    <3>3. i \in Items
      BY <1>2, <3>1, <3>2
    <3>4. PICK e : e = Event(i, 5, Winner[i])
      OBVIOUS
    <3>5. e \in E
      <4>1. Winner[i] \in Bodies \union {Winner[j] : j \in Items}
        BY <3>3
      <4>2. 5 \in {0, 1, 2, 5, 6, 7, 8, 9} /\ 5 # 0
        OBVIOUS
      <4>3. Event(i, 5, Winner[i]) \in Marked(V)
        BY <3>3, <4>1, <4>2, MarkedEvent
      <4>4. QED BY <3>4, <4>3
    <3>6. S!Emit(w, "judge", e) /\ w \in Tasks
      BY <1>1, <3>2, <3>4
    <3>7. QED BY <1>1, <3>2, <3>5, <3>6, EmitFiles DEF runnerVars
  <2>2. CASE KillWorker(w)
    <3>1. SP!CancelAll({w}) /\ {w} \in SUBSET Tasks /\ UNCHANGED runnerVars
      BY <1>1, <2>2 DEF KillWorker, S!CancelAll, SP!CancelAll
    <3>2. QED BY <3>1, SP!CancelHolds, BatchAssumption, NobodyAssumption DEF runnerVars
  <2>3. CASE ~(JudgeEmit(w) \/ KillWorker(w))
    <3>1. UNCHANGED <<sinkVars, runnerVars>>
      BY <1>7, <2>3 DEF Judge, JudgeReceive, Receive, JudgePublish, PublishAndGo, Acknowledge, Poll,
                        RestartWorker
    <3>2. QED BY <1>3, <3>1 DEF runnerVars
  <2>4. QED BY <2>1, <2>2, <2>3
<1>8. CASE Store
  BY <1>8, StoreFiles DEF Store, runnerVars
<1>9. CASE Tick \/ TimeOut \/ Finish
  <2>1. UNCHANGED <<sinkVars, toFlush>>
    BY <1>9 DEF Tick, TimeOut, Finish, runnerVars
  <2>2. QED BY <1>3, <2>1
<1>10. CASE Stop
  <2>1. SP!CancelAll(Tasks) /\ UNCHANGED toFlush
    BY <1>10 DEF Stop, S!CancelAll, SP!CancelAll
  <2>2. QED BY <2>1, SP!CancelHolds, BatchAssumption, NobodyAssumption
<1>11. CASE FlushSink
  <2>1. PICK s : s = Head(toFlush)
    OBVIOUS
  <2>2. toFlush # <<>> /\ S!Flush("runner", s) /\ toFlush' = Tail(toFlush)
    BY <1>11, <2>1 DEF FlushSink
  <2>3. s \in Sinks /\ toFlush' \in Seq(Sinks)
    BY <2>1, <2>2
  <2>4. QED BY <2>2, <2>3, FlushFiles
<1>12. QED
  BY <1>4, <1>5, <1>6, <1>7, <1>8, <1>9, <1>10, <1>11 DEF Rest, Runner

(* The controller's rows are of its transitions.                           *)
LEMMA ControllerMarks ==
  ASSUME CanaryInv, CanaryInv', Controller, NEW V, NEW E, E = Marked(V), SP!Holds(E),
         toFlush \in Seq(Sinks)
  PROVE  SP!Holds(E)' /\ toFlush' \in Seq(Sinks)
<1>1. ASSUME UNCHANGED sinkVars PROVE SP!Holds(E)'
  BY <1>1 DEF sinkVars, SP!Holds
<1>2. CASE ~ControllerUpdate
  <2>1. UNCHANGED <<sinkVars, runnerVars>>
    BY <1>2 DEF Controller, ControllerStart, ControllerReceive, ControllerPublish, ControllerAcknowledge,
                ControllerPoll, DecisionReceive, Receive, PublishAndGo, Acknowledge, Poll
  <2>2. QED BY <1>1, <2>1 DEF runnerVars
<1>3. CASE ControllerUpdate
  <2>1. PICK i, m : i = Payload("decision") /\ m = lifecycle'.transitions
    OBVIOUS
  <2>2. /\ pc["decision"] = "decide" /\ UNCHANGED runnerVars
        /\ IF m # lifecycle.transitions
           THEN S!Emit("decision", "decision", Event(i, 9, StageName(m[Len(m)])))
           ELSE UNCHANGED sinkVars
    BY <1>3, <2>1, Zenon DEF ControllerUpdate, EmitAndGo, At
  <2>3. i \in Items
    <3>1. "decision" \in Consumers /\ held["decision"] # Nothing
      BY <2>2, SubsFact DEF CanaryInv, Manned
    <3>2. QED BY <2>1, <3>1, HeldFacts DEF CanaryInv, Items
  <2>4. CASE m # lifecycle.transitions
    <3>1. m \in Seq(Steps) /\ m # <<>>
      <4>1. m \in Seq(Steps)
        BY <2>1 DEF CanaryInv, Climbs
      <4>2. ASSUME m = <<>> PROVE FALSE
        <5>1. PICK w, l : w = (Winner[i] = "b") /\ l = lifecycle
          OBVIOUS
        <5>2. lifecycle' = l \/ lifecycle' = L!Update(l, w, i)
          BY <1>3, <2>1, <5>1, Zenon DEF ControllerUpdate
        <5>3. lifecycle' = L!Update(l, w, i)
          BY <2>1, <2>4, <5>1, <5>2
        <5>4. Climbs(l) /\ i \in Nat
          BY <2>3, <5>1, RequestsAssumption DEF CanaryInv, Items, Shares
        <5>5. PICK n : n = lifecycle'
          OBVIOUS
        <5>6. \/ n.transitions = l.transitions
              \/ \E x \in Steps : n.transitions = Append(l.transitions, x)
          BY <5>3, <5>4, <5>5, UpdateFiles
        <5>7. PICK x \in Steps : m = Append(l.transitions, x)
          BY <2>1, <2>4, <5>1, <5>5, <5>6
        <5>8. l.transitions \in Seq(Steps)
          BY <5>4 DEF Climbs
        <5>9. QED BY <4>2, <5>7, <5>8
      <4>3. QED BY <4>1, <4>2
    <3>2. m[Len(m)] \in Steps
      BY <3>1
    <3>3. StageName(m[Len(m)]) \in Bodies
      BY <3>2 DEF StageName, Steps, Bodies
    <3>4. PICK e : e = Event(i, 9, StageName(m[Len(m)]))
      OBVIOUS
    <3>5. e \in E
      <4>1. PICK c : c = StageName(m[Len(m)])
        OBVIOUS
      <4>2. c \in Bodies \union {Winner[j] : j \in Items}
        BY <3>3, <4>1
      <4>3. 9 \in {0, 1, 2, 5, 6, 7, 8, 9} /\ 9 # 0
        OBVIOUS
      <4>4. Event(i, 9, c) \in Marked(V)
        BY <2>3, <4>2, <4>3, MarkedEvent
      <4>5. QED BY <3>4, <4>1, <4>4
    <3>6. S!Emit("decision", "decision", e) /\ "decision" \in Tasks /\ "decision" \in Sinks
      BY <2>2, <2>4, <3>4, SubsFact, SinksFact
    <3>7. QED BY <2>2, <3>5, <3>6, EmitFiles DEF runnerVars
  <2>5. CASE m = lifecycle.transitions
    BY <1>1, <2>2, <2>5 DEF runnerVars
  <2>6. QED BY <2>4, <2>5
<1>4. QED BY <1>2, <1>3

(* One more request is marked only when the router serves it so.           *)
LEMMA MarksStay ==
  ASSUME CanaryInv, CanaryInv', [CanaryNext]_allVars, NEW V, NEW E, E = Marked(V), SP!Holds(E),
         toFlush \in Seq(Sinks),
         CanaryRouterRequest /\ Payload("router") \in 1 .. N =>
           ServedBy(Payload("router")) = "champion" \/ Payload("router") \in V
  PROVE  SP!Holds(E)' /\ toFlush' \in Seq(Sinks)
<1>1. ASSUME UNCHANGED sinkVars PROVE SP!Holds(E)'
  BY <1>1 DEF sinkVars, SP!Holds
<1>2. CASE CanaryRouterRequest
  <2>1. PICK i, c : i = Payload("router") /\ c = ServedBy(i)
    OBVIOUS
  <2>2. PICK e : e = Event(i, 0, c)
    OBVIOUS
  <2>3. S!Emit("router", "router", e) /\ pc["router"] = "request" /\ UNCHANGED runnerVars
    BY <1>2, <2>1, <2>2 DEF CanaryRouterRequest, RouterServe, EmitAndGo, At
  <2>4. i \in Items
    <3>1. "router" \in Consumers /\ held["router"] # Nothing
      BY <2>3, SubsFact DEF CanaryInv, Manned
    <3>2. QED BY <2>1, <3>1, HeldFacts DEF CanaryInv, Items
  <2>5. c \in Bodies /\ (i \in 1 .. N /\ c = "challenger" => i \in V)
    BY <1>2, <2>1 DEF ServedBy, Bodies
  <2>6. e \in E
    BY <2>2, <2>4, <2>5, MarkedEvent
  <2>7. "router" \in Tasks /\ "router" \in Sinks
    BY SubsFact, SinksFact
  <2>8. QED BY <2>3, <2>6, <2>7, EmitFiles DEF runnerVars
<1>3. CASE RouterControl \/ UNCHANGED allVars
  <2>1. UNCHANGED <<sinkVars, runnerVars>>
    BY <1>3 DEF RouterControl, allVars, vars
  <2>2. QED BY <1>1, <2>1 DEF runnerVars
<1>4. QED BY <1>2, <1>3, FleetMarks, ControllerMarks DEF CanaryNext

(* With every share told, the router has the last one; after a rollback    *)
(* that is nothing, and no draw is below it.                               *)
LEMMA ToldServes ==
  ASSUME CanaryInv, RollbackTold, CanaryRouterRequest, Payload("router") \in 1 .. N
  PROVE  ServedBy(Payload("router")) = "champion"
<1>1. pc["router"] = "request" /\ Kind("router") = "request"
  BY DEF CanaryRouterRequest, RouterServe, At
<1>2. ~OnControl
  BY <1>1, ControlFacts
<1>3. PICK n \in Nat : n = Len(lifecycle.transitions)
  BY DEF CanaryInv, Climbs
<1>4. userShare = ShareAt(n + 1) /\ lifecycle.state = "rolled_back" /\ cursor[Ctl] = n + 1
  BY <1>2, <1>3 DEF RollbackTold, CanaryInv, Heard, Unread, Ctl
<1>5. n + 1 \in 1 .. Len(log["control"])
  BY <1>3, <1>4, TableFacts DEF CanaryInv
<1>6. log["control"][n + 1] = Told(n + 1)
  BY <1>5 DEF CanaryInv, Announced
<1>7. userShare = 0
  <2>1. CASE n = 0
    BY <1>4, <1>6, <2>1 DEF ShareAt, Told
  <2>2. CASE n # 0
    <3>1. n \in 1 .. n /\ n + 1 # 0 /\ n + 1 # 1 /\ (n + 1) - 1 = n
      BY <2>2
    <3>2. lifecycle.transitions[n].share = 0
      BY <1>3, <1>4, <3>1 DEF CanaryInv, Climbs
    <3>3. QED BY <1>4, <1>6, <3>1, <3>2 DEF ShareAt, Told
  <2>3. QED BY <2>1, <2>2
<1>8. Draw[Payload("router")] \in 1 .. 4
  BY DrawAssumption
<1>9. QED BY <1>7, <1>8 DEF ServedBy

(* The requests served by the challenger are those that bear its mark.     *)
LEMMA VictimsMarked ==
  ASSUME NEW D, D = Marked(Items), SP!Holds(D), NEW V, V = Victims, NEW E, E = Marked(V)
  PROVE  SP!Holds(E)
<1>1. ASSUME NEW e \in S!InFlight, e \in D PROVE e \in E
  BY <1>1 DEF Marked, Victims, Event
<1>2. ASSUME NEW g \in Seq(D), S!Events(g) \subseteq S!InFlight PROVE g \in Seq(E)
  <2>1. \A k \in 1 .. Len(g) : g[k] \in E
    BY <1>1, <1>2 DEF S!Events
  <2>2. QED BY <2>1
<1>3. /\ \A s \in Sinks : S!Events(buffer[s]) \subseteq S!InFlight
      /\ \A t \in Tasks : S!Events(batch[t]) \subseteq S!InFlight
      /\ \A th \in threads : S!Events(th.todo) \subseteq S!InFlight
  BY DEF S!InFlight
<1>4. buffer \in [Sinks -> Seq(E)] /\ batch \in [Tasks -> Seq(E)]
  BY <1>2, <1>3 DEF SP!Holds
<1>5. threads \subseteq [owner : Tasks \union {Nobody}, todo : Seq(E) \ {<<>>}, begun : BOOLEAN]
  <2>1. SUFFICES ASSUME NEW th \in threads
                 PROVE  th \in [owner : Tasks \union {Nobody}, todo : Seq(E) \ {<<>>}, begun : BOOLEAN]
    OBVIOUS
  <2>2. th \in [owner : Tasks \union {Nobody}, todo : Seq(D) \ {<<>>}, begun : BOOLEAN]
    BY DEF SP!Holds
  <2>3. th.todo \in Seq(E)
    BY <1>2, <1>3, <2>2
  <2>4. QED BY <2>2, <2>3
<1>6. ASSUME NEW q \in DOMAIN rows PROVE \E e \in E : e.seq = q /\ e.body = rows[q]
  <2>1. PICK e \in D : e.seq = q /\ e.body = rows[q]
    BY <1>6 DEF SP!Holds
  <2>2. e \in E
    BY <1>6, <2>1 DEF Marked, Victims
  <2>3. QED BY <2>1, <2>2
<1>7. QED BY <1>4, <1>5, <1>6 DEF SP!Holds

LEMMA VictimsKept ==
  ASSUME CanaryInv, CanaryInv', [CanaryNext]_allVars, NEW D, D = Marked(Items), SP!Holds(D),
         toFlush \in Seq(Sinks), RollbackTold
  PROVE  Victims' \subseteq Victims
<1>1. PICK V : V = Victims
  OBVIOUS
<1>2. PICK E : E = Marked(V)
  OBVIOUS
<1>3. SP!Holds(E)
  BY <1>1, <1>2, VictimsMarked
<1>4. SP!Holds(E)'
  BY <1>2, <1>3, MarksStay, ToldServes
<1>5. ASSUME NEW e \in S!InFlight' PROVE e \in E
  BY <1>4, <1>5 DEF S!InFlight, S!Events, SP!Holds
<1>6. \A q \in DOMAIN rows' : \E e \in E : e.seq = q /\ e.body = rows'[q]
  BY <1>4, Zenon DEF SP!Holds
<1>7. ASSUME NEW i \in Victims' PROVE i \in V
  <2>1. i \in 1 .. N
    BY <1>7 DEF Victims
  <2>2. CASE <<i, 0>> \in DOMAIN rows' /\ rows'[<<i, 0>>] = "challenger"
    <3>1. PICK e \in E : e.seq = <<i, 0>> /\ e.body = "challenger"
      BY <1>6, <2>2
    <3>2. QED BY <1>2, <2>1, <3>1 DEF Marked
  <2>3. CASE \E e \in S!InFlight' : e.seq = <<i, 0>> /\ e.body = "challenger"
    <3>1. PICK e \in S!InFlight' : e.seq = <<i, 0>> /\ e.body = "challenger"
      BY <2>3
    <3>2. e \in E
      BY <1>5
    <3>3. QED BY <1>2, <2>1, <3>1, <3>2 DEF Marked
  <2>4. QED BY <1>7, <2>2, <2>3 DEF Victims
<1>8. QED BY <1>1, <1>7

(* What is said of the sinks, and of those the runner has still to flush.  *)
MarkedInv == CanaryInv /\ SP!Holds(Marked(Items)) /\ toFlush \in Seq(Sinks)

LEMMA MarkedInitInv == CanaryInit => MarkedInv
<1> SUFFICES ASSUME CanaryInit PROVE MarkedInv
  OBVIOUS
<1>1. SP!SinkInit /\ toFlush = FinalFlushes
  BY DEF CanaryInit, InitWith, S!SinkInit, SP!SinkInit
<1>2. toFlush \in Seq(Sinks)
  BY <1>1, FinalFact
<1>3. PICK D : D = Marked(Items)
  OBVIOUS
<1>4. SP!Holds(D)
  BY <1>1, SP!SinkInitHolds, BatchAssumption, NobodyAssumption
<1>5. QED BY <1>2, <1>3, <1>4, CanaryInitInv DEF MarkedInv

LEMMA MarkedNextInv == MarkedInv /\ [CanaryNext]_allVars => MarkedInv'
<1> SUFFICES ASSUME MarkedInv, [CanaryNext]_allVars PROVE MarkedInv'
  OBVIOUS
<1>1. CanaryInv /\ CanaryInv' /\ toFlush \in Seq(Sinks)
  BY CanaryNextInv DEF MarkedInv
<1>2. PICK W, D : W = Items /\ D = Marked(W)
  OBVIOUS
<1>3. SP!Holds(D)
  BY <1>2 DEF MarkedInv
<1>4. CanaryRouterRequest /\ Payload("router") \in 1 .. N => Payload("router") \in W
  BY <1>2 DEF Items
<1>5. SP!Holds(D)' /\ toFlush' \in Seq(Sinks)
  BY <1>1, <1>2, <1>3, <1>4, MarksStay
<1>6. QED BY <1>1, <1>2, <1>5 DEF MarkedInv

(* For any requests, verdicts, draws, workers, sinks, batches, gates,      *)
(* thresholds and number of kills: the router raises the challenger's      *)
(* share one stage at a time until it is told of the rollback, then drops  *)
(* it for good, and from then on the log gains no request served by the    *)
(* challenger (CanaryController.run publishes each transition,             *)
(* RouterService.run applies them in the stream's order and serves by the  *)
(* share it has).                                                          *)
THEOREM RollbackIsFinal == CanarySpec => NeverServesAgain
<1>1. MarkedInv /\ [CanaryNext]_allVars =>
        [/\ userShare' # userShare =>
              userShare' = IF RollbackTold THEN 0 ELSE userShare + 1
         /\ RollbackTold => Victims' \subseteq Victims]_allVars
  <2> SUFFICES ASSUME MarkedInv, [CanaryNext]_allVars
               PROVE  /\ userShare' # userShare =>
                           userShare' = IF RollbackTold THEN 0 ELSE userShare + 1
                      /\ RollbackTold => Victims' \subseteq Victims
    OBVIOUS
  <2>1. CanaryInv /\ CanaryInv' /\ toFlush \in Seq(Sinks)
    BY CanaryNextInv DEF MarkedInv
  <2>2. PICK D : D = Marked(Items) /\ SP!Holds(D)
    BY DEF MarkedInv
  <2>3. QED BY <2>1, <2>2, ShareMoves, VictimsKept
<1>2. QED BY <1>1, MarkedInitInv, MarkedNextInv, PTL DEF CanarySpec, NeverServesAgain
-----------------------------------------------------------------------------
(* What tells of no transition, and what nobody writes but the controller. *)
Plain == {e \in Legit : e.seq[2] # 9}

LEMMA CancelFiles ==
  ASSUME NEW E, SP!Holds(E), NEW T \in SUBSET Tasks, S!CancelAll(T), Claimed,
         \A u \in T : \A e \in SP!Load[u] : e.seq[2] # 9
  PROVE  SP!Holds(E)' /\ Claimed'
<1>1. SP!CancelAll(T)
  BY DEF S!CancelAll, SP!CancelAll
<1>2. SP!Holds(E)'
  BY <1>1, SP!CancelHolds, BatchAssumption, NobodyAssumption
<1>3. ASSUME NEW e \in SP!Strays' PROVE e.seq[2] # 9
  <2>1. e \in SP!Strays \/ \E u \in T : e \in SP!Load[u]
    BY <1>1, SP!CancelStrays, BatchAssumption, NobodyAssumption
  <2>2. QED BY <2>1 DEF Claimed
<1>4. QED BY <1>2, <1>3 DEF Claimed

LEMMA StillFiles ==
  ASSUME NEW E, SP!Holds(E), Claimed, UNCHANGED sinkVars
  PROVE  SP!Holds(E)' /\ Claimed'
  BY DEF sinkVars, SP!Holds, Claimed, SP!Strays

(* What the others write is plain, and what they drop too.                 *)
LEMMA ActsFile ==
  ASSUME FleetInv, Samples, Stocked, Closing, flushing["decision"] = "no", Claimed,
         NEW E, Plain \subseteq E, SP!Holds(E), NEW t \in Tasks, t # "decision", Acts(t)
  PROVE  SP!Holds(E)' /\ Claimed'
<1>1. /\ {"router", "judge", "decision"} \subseteq Sinks /\ {"router", "runner"} \subseteq Tasks
      /\ Workers \subseteq Consumers /\ Consumers \subseteq Tasks
      /\ "router" \in Consumers /\ "router" \in Relays /\ "runner" \notin Workers
      /\ "request" \in Places /\ "judge" \in Places
  BY SinksFact, SubsFact, WorkersAssumption DEF Relays, Places, Tasks
<1>2. ASSUME NEW u \in Tasks, NEW s \in Sinks, NEW e \in Plain, S!Emit(u, s, e)
      PROVE  SP!Holds(E)' /\ Claimed'
  BY <1>2, EmitFiles DEF Claimed
<1>3. ASSUME UNCHANGED sinkVars PROVE SP!Holds(E)' /\ Claimed'
  BY <1>3, StillFiles
<1>4. CASE t = "traffic" /\ TrafficPublish
  BY <1>3, <1>4, TrafficPublishes
<1>5. CASE t = "router" /\ (RouterRest \/ RouterRequest)
  <2>1. CASE ~(RouterRequest \/ RouterChampion \/ RouterShadow)
    <3>1. UNCHANGED sinkVars
      BY <1>5, <2>1, RouterPublishes, Polls DEF RouterRest, Acknowledge, RouterReceive, Receive
    <3>2. QED BY <1>3, <3>1
  <2>2. CASE RouterRequest \/ RouterChampion \/ RouterShadow
    <3>1. PICK b \in {0, 1, 2}, body \in {"champion", "shadow"} :
             /\ S!Emit("router", "router", Event(Job["router"], b, body))
             /\ flushing["router"] = "no" /\ pc["router"] \in {"request", "champion", "shadow"}
      BY <2>2, RouterEmits
    <3>2. held["router"] # Nothing
      BY <1>1, <3>1 DEF FleetInv, Standing, Unfed
    <3>3. Job["router"] \in 1 .. N
      <4>1. pc["router"] \in Onward \/ (pc["router"] = "request" /\ Kind("router") = "request")
        BY <2>2, <3>1 DEF RouterRequest, RouterServe, RouterChampion, RouterShadow, At, Onward
      <4>2. held["router"][1] = Requested
        BY <4>1, RequestInHand DEF FleetInv, Serving
      <4>3. QED BY <3>2, <4>2, RouterWork
    <3>4. PICK e : e = Event(Job["router"], b, body)
      OBVIOUS
    <3>5. e \in Plain
      BY <3>3, <3>4 DEF Event, Legit, AllEvents, Bodies, Plain
    <3>6. S!Emit("router", "router", e)
      BY <3>1, <3>4
    <3>7. QED BY <1>1, <1>2, <3>5, <3>6
  <2>3. QED BY <2>1, <2>2
<1>6. CASE t \in Workers /\ (Judge(t) \/ KillWorker(t))
  <2>1. t \in Tasks /\ t \in Consumers /\ t # "runner" /\ SinkOf(t) = "judge" /\ Bands["judge"] = {5}
    BY <1>1, <1>6, WorkersAssumption DEF SinkOf, Bands
  <2>2. CASE KillWorker(t)
    <3>1. S!CancelAll({t}) /\ {t} \in SUBSET Tasks
      BY <1>6, <2>2, Kills, SubsFact
    <3>2. \A u \in {t} : \A e \in SP!Load[u] : e.seq[2] # 9
      BY <2>1 DEF Stocked
    <3>3. QED BY <3>1, <3>2, CancelFiles
  <2>3. CASE JudgeEmit(t)
    <3>1. S!Emit(t, "judge", Event(Job[t], 5, Winner[Job[t]])) /\ pc[t] = "judge"
      BY <1>6, <2>3, JudgeEmits
    <3>2. held[t] # Nothing
      BY <1>6, <3>1 DEF FleetInv, Standing, Unfed, Relays
    <3>3. Job[t] \in Sampled
      BY <1>6, <3>2, WorkerSampled
    <3>4. PICK e : e = Event(Job[t], 5, Winner[Job[t]])
      OBVIOUS
    <3>5. e \in Plain
      <4>1. Job[t] \in 1 .. N /\ Winner[Job[t]] \in {"a", "b", "tie"}
        BY <3>3, RequestsAssumption, WinnerAssumption
      <4>2. QED BY <3>3, <3>4, <4>1 DEF Event, Legit, AllEvents, Bodies, Plain
    <3>6. S!Emit(t, "judge", e)
      BY <3>1, <3>4
    <3>7. QED BY <1>1, <1>2, <2>1, <3>5, <3>6
  <2>4. CASE ~(KillWorker(t) \/ JudgeEmit(t))
    <3>1. UNCHANGED sinkVars
      BY <1>6, <2>4, JudgePublishes, Polls DEF Judge, Acknowledge, JudgeReceive, Receive
    <3>2. QED BY <1>3, <3>1
  <2>5. QED BY <2>2, <2>3, <2>4
<1>7. CASE t = "runner"
  <2>1. CASE Store
    BY <2>1, StoreFiles DEF Claimed
  <2>2. CASE FlushSink
    <3>1. PICK s : s = Head(toFlush)
      OBVIOUS
    <3>2. S!Flush("runner", s) /\ s \in Sinks
      BY <2>2, <3>1 DEF FlushSink, Closing
    <3>3. QED BY <3>2, FlushFiles DEF Claimed
  <2>3. CASE Stop
    <3>1. S!CancelAll(Tasks) /\ phase = "running"
      BY <2>3 DEF Stop
    <3>2. ASSUME NEW u \in Tasks, NEW e \in SP!Load[u] PROVE e.seq[2] # 9
      <4>1. flushing[u] # "no"
        BY <3>2, SP!IdleLoad, BatchAssumption, NobodyAssumption DEF Stocked
      <4>2. u # "decision" /\ u # "runner"
        BY <3>1, <4>1 DEF Closing
      <4>3. e.seq[2] \in Bands[SinkOf(u)]
        BY <4>2 DEF Stocked
      <4>4. QED BY <4>2, <4>3 DEF SinkOf, Bands
    <3>3. QED BY <3>1, <3>2, CancelFiles
  <2>4. CASE UNCHANGED sinkVars
    BY <1>3, <2>4
  <2>5. QED BY <1>7, <2>1, <2>2, <2>3, <2>4, RunnerStock DEF Closing
<1>8. QED BY <1>4, <1>5, <1>6, <1>7 DEF Acts
-----------------------------------------------------------------------------
LEMMA PlainFiled == ASSUME NEW t PROVE Plain \subseteq Filed(t)
  BY DEF Plain, Filed, Legit

(* The rows of the transitions stay, or stay under way.                    *)
LEMMA TellingKept ==
  ASSUME FleetInv, Samples, Stocked, Closing, flushing["decision"] = "no",
         NEW t \in Tasks, Acts(t), NEW i, <<i, 9>> \in SP!KeptSeqs
  PROVE  <<i, 9>> \in SP!KeptSeqs'
<1>1. SUFFICES ASSUME <<i, 9>> \notin SP!KeptSeqs' PROVE FALSE
  OBVIOUS
<1>2. ~Safe
  BY <1>1 DEF Safe
<1>3. CASE Stop
  <2>1. PICK u \in Tasks \ {"runner"} : flushing[u] # "no" /\ 9 \in Bands[SinkOf(u)]
    BY <1>1, <1>3, StopLoses
  <2>2. u = "decision"
    BY <2>1 DEF SinkOf, Bands
  <2>3. QED BY <2>1, <2>2
<1>4. CASE t \in Workers /\ KillWorker(t)
  BY <1>1, <1>4, KillLoses
<1>5. QED BY <1>2, <1>3, <1>4, ActsStock DEF Closing

(* What every fleet does is no transition.                                 *)
LEMMA AuditActs ==
  ASSUME AuditInv, GateInv', NEW t \in Tasks, t # "decision", Acts(t), lifecycle' = lifecycle
  PROVE  AuditInv'
<1>1. PICK l : l = lifecycle.transitions /\ Listed(l) /\ Filing(l)
  BY DEF AuditInv
<1>2. /\ FleetInv /\ Samples /\ Stocked /\ Closing /\ toFlush \in Seq(Sinks)
      /\ flushing["decision"] = "no" /\ Claimed /\ SP!Holds(Filed(l))
  BY <1>1 DEF AuditInv, GateInv, Closing, Filing
<1>3. Samples' /\ Closing' /\ Stocked'
  BY <1>2, SamplesStep, ClosingStep, ActsStock
<1>4. SP!Holds(Filed(l))' /\ Claimed'
  <2>1. PICK E : E = Filed(l)
    OBVIOUS
  <2>2. Plain \subseteq E /\ SP!Holds(E)
    BY <1>2, <2>1, PlainFiled
  <2>3. SP!Holds(E)' /\ Claimed'
    BY <1>2, <2>2, ActsFile
  <2>4. QED BY <2>1, <2>3
<1>5. /\ flushing'["decision"] = "no"
      /\ buffer'["decision"] = buffer["decision"] \/ buffer'["decision"] = <<>>
  BY <1>2, SinkSpared
<1>6. Len(buffer'["decision"]) <= Len(l)
  <2>1. Len(<<>>) = 0 /\ Len(l) \in Nat
    BY <1>1 DEF Listed
  <2>2. QED BY <1>1, <1>5, <2>1 DEF Filing
<1>7. \A k \in 1 .. Len(l) : <<l[k].index, 9>> \in SP!KeptSeqs'
  BY <1>1, <1>2, TellingKept DEF Filing
<1>8. Filing(l)'
  BY <1>4, <1>5, <1>6, <1>7 DEF Filing
<1>9. l = lifecycle'.transitions /\ Listed(l)
  BY <1>1
<1>10. QED BY <1>3, <1>8, <1>9 DEF AuditInv

LEMMA AuditRests ==
  ASSUME AuditInv, GateInv', Rest \/ UNCHANGED vars, UNCHANGED canaryVars
  PROVE  AuditInv'
<1>1. PICK t \in Tasks \ {"decision"} : Acts(t)
  BY SubsFact, WorkersAssumption DEF Rest, Acts
<1>2. lifecycle' = lifecycle
  BY DEF canaryVars
<1>3. QED BY <1>1, <1>2, AuditActs
-----------------------------------------------------------------------------
(* While the fleet runs, and the runner flushes nothing.                   *)
LEMMA ClosingStays ==
  ASSUME Closing, phase = "running", UNCHANGED runnerVars, flushing'["runner"] = flushing["runner"]
  PROVE  Closing'
  BY DEF Closing, runnerVars

(* The samples are the router's business.                                  *)
LEMMA SamplesStay ==
  ASSUME FleetInv, Samples, Others("decision"), log'["pairs"] = log["pairs"]
  PROVE  Samples'
<1>1. "router" \in Consumers /\ "router" \in Tasks /\ "router" \in Relays /\ "router" # "decision"
  BY SubsFact DEF Relays
<1>2. Aside("router")
  BY <1>1, AsideHolds DEF Others
<1>3. pc["router"] # "next" => held["router"] # Nothing
  BY <1>1 DEF FleetInv, Standing, Unfed
<1>4. QED BY <1>2, <1>3 DEF Samples, Aside

(* Who does nothing about the sinks leaves the trail as it is.             *)
LEMMA AuditStays ==
  ASSUME AuditInv, GateInv', Samples', phase = "running", UNCHANGED <<sinkVars, runnerVars>>,
         lifecycle' = lifecycle
  PROVE  AuditInv'
<1>1. PICK l : l = lifecycle.transitions /\ Listed(l) /\ Filing(l)
  BY DEF AuditInv
<1>2. Stocked'
  BY StillStock DEF AuditInv
<1>3. Closing'
  BY ClosingStays DEF AuditInv, sinkVars
<1>4. SP!Holds(Filed(l))' /\ Claimed'
  <2>1. PICK E : E = Filed(l)
    OBVIOUS
  <2>2. SP!Holds(E)' /\ Claimed'
    BY <1>1, <2>1, StillFiles DEF Filing
  <2>3. QED BY <2>1, <2>2
<1>5. SP!KeptSeqs' = SP!KeptSeqs
  BY DEF sinkVars, SP!KeptSeqs, SP!InFlight
<1>6. Filing(l)'
  BY <1>1, <1>4, <1>5 DEF Filing, sinkVars
<1>7. l = lifecycle'.transitions
  BY <1>1
<1>8. QED BY <1>1, <1>2, <1>3, <1>6, <1>7 DEF AuditInv

(* The router says who serves a request, or hears of a share.              *)
LEMMA AuditRoutes ==
  ASSUME AuditInv, GateInv', CanaryRouterRequest \/ RouterControl
  PROVE  AuditInv'
<1>1. /\ "router" \in Consumers /\ "router" \in Tasks /\ "router" # "runner" /\ "runner" \in Tasks
      /\ "router" \in Tasks \ {"runner"} /\ "decision" \in Tasks /\ "router" \in Relays
      /\ "router" \in Sinks /\ "decision" \in Sinks /\ SinkOf("router") = "router"
      /\ {"ack", "champion"} \subseteq Places
  BY SubsFact, SinksFact, WorkersAssumption DEF Relays, Places, SinkOf
<1>2. /\ FleetInv /\ Samples /\ Stocked /\ Closing
  BY DEF AuditInv, GateInv
<1>3. PICK q \in {"champion", "ack"} :
        /\ At("router", "request") /\ GoTo("router", q) /\ UNCHANGED <<busVars, chaosVars, sent, runnerVars>>
        /\ lifecycle' = lifecycle
  BY DEF CanaryRouterRequest, RouterServe, EmitAndGo, RouterControl, canaryVars
<1>4. phase = "running" /\ flushing["router"] = "no" /\ pc["router"] = "request"
  BY <1>3 DEF At
<1>5. Samples'
  <2>1. pc'["router"] = q
    BY <1>1, <1>2, <1>3, GoToFacts
  <2>2. log' = log
    BY <1>3 DEF busVars
  <2>3. QED BY <1>2, <2>1, <2>2 DEF Samples
<1>6. CASE RouterControl
  <2>1. UNCHANGED sinkVars
    BY <1>6 DEF RouterControl
  <2>2. QED BY <1>3, <1>4, <1>5, <2>1, AuditStays
<1>7. CASE CanaryRouterRequest
  <2>1. PICK i, c : i = Payload("router") /\ c = ServedBy(i)
    OBVIOUS
  <2>2. PICK e : e = Event(i, 0, c)
    OBVIOUS
  <2>3. S!Emit("router", "router", e) /\ Kind("router") = "request"
    BY <1>7, <2>1, <2>2 DEF CanaryRouterRequest, RouterServe, EmitAndGo
  <2>4. i \in 1 .. N /\ c \in {"champion", "challenger"}
    <3>1. held["router"] # Nothing
      BY <1>1, <1>2, <1>4 DEF FleetInv, Standing, Unfed
    <3>2. held["router"][1] = Requested
      BY <1>2, <1>4, <2>3, RequestInHand
    <3>3. Job["router"] \in 1 .. N
      BY <1>2, <3>1, <3>2, RouterWork
    <3>4. QED BY <1>1, <2>1, <3>3, JobIs DEF ServedBy
  <2>5. e \in Legit /\ e \in Plain /\ e.seq[2] \in Bands["router"]
    BY <2>2, <2>4 DEF Event, Legit, AllEvents, Bodies, Bands, Plain
  <2>6. /\ Stocked' /\ Safe
        /\ \A u \in Tasks : u # "router" => flushing'[u] = flushing[u]
        /\ \A r \in Sinks \ {"router"} : buffer'[r] = buffer[r]
    BY <1>1, <1>2, <1>4, <2>3, <2>5, EmitStock
  <2>7. PICK l : l = lifecycle.transitions /\ Listed(l) /\ Filing(l)
    BY DEF AuditInv
  <2>8. SP!Holds(Filed(l))' /\ Claimed'
    <3>1. PICK E : E = Filed(l)
      OBVIOUS
    <3>2. e \in E /\ SP!Holds(E)
      BY <2>5, <2>7, <3>1, PlainFiled DEF Filing
    <3>3. SP!Holds(E)' /\ SP!Strays' = SP!Strays
      BY <1>1, <2>3, <3>2, EmitFiles
    <3>4. QED BY <2>7, <3>1, <3>3 DEF Filing, Claimed
  <2>9. Closing'
    BY <1>1, <1>2, <1>3, <1>4, <2>6, ClosingStays
  <2>10. Filing(l)'
    <3>1. flushing'["decision"] = flushing["decision"] /\ buffer'["decision"] = buffer["decision"]
      BY <1>1, <2>6
    <3>2. QED BY <2>6, <2>7, <2>8, <3>1 DEF Filing, Safe
  <2>11. l = lifecycle'.transitions /\ Listed(l)
    BY <1>3, <2>7
  <2>12. QED BY <1>5, <2>6, <2>9, <2>10, <2>11 DEF AuditInv
<1>8. QED BY <1>6, <1>7
-----------------------------------------------------------------------------
(* One more transition, on a request that none was on.                     *)
LEMMA ListedNext ==
  ASSUME NEW t, Listed(t), NEW x \in Steps, x.index \in 1 .. N,
         \A k \in 1 .. Len(t) : t[k].index # x.index
  PROVE  /\ Listed(Append(t, x)) /\ Len(Append(t, x)) = Len(t) + 1 /\ Len(t) \in Nat
         /\ Append(t, x)[Len(t) + 1] = x /\ Append(t, x) # t
         /\ \A k \in 1 .. Len(t) : Append(t, x)[k] = t[k]
         /\ Filed(t) \subseteq Filed(Append(t, x))
<1>1. t \in Seq(Steps)
  BY DEF Listed
<1>2. PICK n \in Nat : n = Len(t)
  BY <1>1
<1>3. PICK u : u = Append(t, x)
  OBVIOUS
<1>4. /\ u \in Seq(Steps) /\ Len(u) = n + 1 /\ u[n + 1] = x
      /\ \A k \in 1 .. n : u[k] = t[k]
  BY <1>1, <1>2, <1>3
<1>5. \A k \in 1 .. n + 1 : k \in 1 .. n \/ k = n + 1
  OBVIOUS
<1>6. \A k \in 1 .. n + 1 : u[k].index \in 1 .. N
  BY <1>2, <1>4, <1>5 DEF Listed
<1>7. ASSUME NEW j \in 1 .. n + 1, NEW k \in 1 .. n + 1, u[j].index = u[k].index PROVE j = k
  BY <1>2, <1>4, <1>5, <1>7 DEF Listed, Singly
<1>8. Listed(u)
  BY <1>4, <1>6, <1>7 DEF Listed, Singly
<1>9. Filed(t) \subseteq Filed(u)
  <2>1. ASSUME NEW e, \E k \in 1 .. n : e = Telling(t[k]) PROVE \E k \in 1 .. n + 1 : e = Telling(u[k])
    <3>1. PICK k \in 1 .. n : e = Telling(t[k])
      BY <2>1
    <3>2. k \in 1 .. n + 1 /\ e = Telling(u[k])
      BY <1>4, <3>1
    <3>3. QED BY <3>2
  <2>2. QED BY <1>2, <1>4, <2>1 DEF Filed
<1>10. Len(u) # Len(t)
  BY <1>2, <1>4
<1>11. QED BY <1>2, <1>3, <1>4, <1>8, <1>9, <1>10

(* The verdict in hand is on a request that no transition is on.           *)
LEMMA VerdictNew ==
  ASSUME GateInv, pc["decision"] = "decide"
  PROVE  /\ Payload("decision") \in 1 .. N
         /\ \A k \in 1 .. Len(lifecycle.transitions) :
              lifecycle.transitions[k].index # Payload("decision")
<1>1. PICK v, t : v = log["verdicts"] /\ t = lifecycle.transitions
  OBVIOUS
<1>2. PICK d \in Nat : d = Weighed
  BY VerdictsRead DEF GateInv
<1>3. PICK i : i = Payload("decision")
  OBVIOUS
<1>4. Apart(v) /\ 1 .. d + 1 \subseteq DOMAIN v /\ i = v[d + 1][2] /\ i \in 1 .. N
  BY <1>1, <1>2, <1>3, VerdictsRead DEF GateInv
<1>5. \A k \in 1 .. Len(t) : \E j \in 1 .. d : v[j][2] = t[k].index
  BY <1>1, <1>2 DEF GateInv, Gated
<1>6. ASSUME NEW k \in 1 .. Len(t), t[k].index = i PROVE FALSE
  <2>1. PICK j \in 1 .. d : v[j][2] = i
    BY <1>5, <1>6
  <2>2. j \in DOMAIN v /\ d + 1 \in DOMAIN v /\ j # d + 1
    BY <1>4
  <2>3. QED BY <1>4, <2>1, <2>2 DEF Apart
<1>7. QED BY <1>1, <1>3, <1>4, <1>6

(* The controller's row of a transition.                                   *)
LEMMA AuditTells ==
  ASSUME AuditInv, GateInv', Samples', Batch["decision"] > 4, phase = "running", UNCHANGED runnerVars,
         lifecycle.state = "running", NEW x \in Steps, x.index = Payload("decision"),
         pc["decision"] = "decide",
         lifecycle'.transitions = Append(lifecycle.transitions, x),
         S!Emit("decision", "decision", Telling(x))
  PROVE  AuditInv'
<1>1. /\ "decision" \in Tasks \ {"runner"} /\ "runner" \in Tasks /\ "decision" \in Sinks
      /\ SinkOf("decision") = "decision" /\ Batch["decision"] \in Nat /\ "decision" # "runner"
  BY SubsFact, SinksFact, WorkersAssumption, BatchAssumption DEF SinkOf
<1>2. FleetInv /\ Samples /\ Stocked /\ Closing /\ GateInv /\ Climbs(lifecycle)
  BY DEF AuditInv, GateInv, CanaryInv
<1>3. PICK l, u : /\ l = lifecycle.transitions /\ u = lifecycle'.transitions
                  /\ u = Append(l, x) /\ Listed(l) /\ Filing(l)
  BY DEF AuditInv
<1>4. /\ x.index \in 1 .. N /\ \A k \in 1 .. Len(l) : l[k].index # x.index
  BY <1>2, <1>3, VerdictNew
<1>5. /\ Listed(u) /\ Len(u) = Len(l) + 1 /\ Len(l) \in Nat /\ u[Len(l) + 1] = x
      /\ \A k \in 1 .. Len(l) : u[k] = l[k]
      /\ Filed(l) \subseteq Filed(u)
  BY <1>3, <1>4, ListedNext
<1>6. PICK e : e = Telling(x)
  OBVIOUS
<1>7. e \in Legit /\ e.seq[2] \in Bands["decision"] /\ e \in AllEvents /\ e.seq = <<x.index, 9>>
  <2>1. StageName(x) \in Bodies
    BY LevelIs
  <2>2. QED BY <1>4, <1>6, <2>1 DEF Telling, Event, Legit, AllEvents, Bands
<1>8. e \in Filed(u)
  <2>1. Len(l) + 1 \in 1 .. Len(u) /\ e = Telling(u[Len(l) + 1])
    BY <1>5, <1>6
  <2>2. \E k \in 1 .. Len(u) : e = Telling(u[k])
    BY <2>1
  <2>3. QED BY <1>7, <2>2 DEF Filed
<1>9. S!Emit("decision", "decision", e) /\ flushing["decision"] = "no"
  BY <1>3, <1>6 DEF Filing
<1>10. /\ Stocked' /\ Safe /\ e.seq \in SP!KeptSeqs'
       /\ \A w \in Tasks : w # "decision" => flushing'[w] = flushing[w]
       /\ Len(buffer["decision"]) + 1 < Batch["decision"] =>
            flushing' = flushing /\ Len(buffer'["decision"]) = Len(buffer["decision"]) + 1
  BY <1>1, <1>2, <1>7, <1>9, EmitStock
<1>11. flushing'["decision"] = "no" /\ Len(buffer'["decision"]) <= Len(u)
  <2>1. Len(buffer["decision"]) <= Len(l) /\ Len(buffer["decision"]) \in Nat
    BY <1>1, <1>2, <1>3 DEF Filing, Stocked, SP!Holds
  <2>2. Len(l) < 4
    BY <1>2, <1>3 DEF Climbs
  <2>3. Len(buffer["decision"]) + 1 < Batch["decision"]
    BY <1>1, <1>5, <2>1, <2>2
  <2>4. QED BY <1>5, <1>9, <1>10, <2>1, <2>3
<1>12. SP!Holds(Filed(u))' /\ Claimed'
  <2>1. PICK D, E : D = Filed(l) /\ E = Filed(u)
    OBVIOUS
  <2>2. D \subseteq E /\ e \in E /\ SP!Holds(D)
    BY <1>3, <1>5, <1>8, <2>1 DEF Filing
  <2>3. SP!Holds(E)
    BY <2>2, SP!HoldsMonotone, BatchAssumption, NobodyAssumption
  <2>4. SP!Holds(E)' /\ SP!Strays' = SP!Strays
    BY <1>1, <1>9, <2>2, <2>3, EmitFiles
  <2>5. QED BY <1>3, <2>1, <2>4 DEF Filing, Claimed
<1>13. \A k \in 1 .. Len(u) : <<u[k].index, 9>> \in SP!KeptSeqs'
  <2>1. \A k \in 1 .. Len(u) : k \in 1 .. Len(l) \/ k = Len(l) + 1
    BY <1>5
  <2>2. \A k \in 1 .. Len(l) : <<l[k].index, 9>> \in SP!KeptSeqs'
    BY <1>3, <1>10 DEF Filing, Safe
  <2>3. QED BY <1>5, <1>7, <1>10, <2>1, <2>2
<1>14. Filing(u)'
  BY <1>11, <1>12, <1>13 DEF Filing
<1>15. Closing'
  BY <1>1, <1>2, <1>10, ClosingStays
<1>16. QED BY <1>3, <1>5, <1>10, <1>14, <1>15 DEF AuditInv
-----------------------------------------------------------------------------
(* What the controller publishes is on the control stream alone.           *)
LEMMA AuditPublishes ==
  ASSUME AuditInv, GateInv', NEW r, NEW x \in Shares, NEW q \in {"next", "ack"}, At("decision", r),
         PublishAndGo("decision", "control", "share_update", x, q), lifecycle' = lifecycle
  PROVE  AuditInv'
<1>1. /\ "decision" \in Tasks /\ {"next", "ack"} \subseteq Places
      /\ "control" \in Streams /\ "pairs" \in Streams /\ "share_update" \in Kinds
      /\ x \in (1 .. N) \union Shares
  BY SubsFact DEF Places, Streams, Kinds
<1>2. FleetInv /\ Samples
  BY DEF AuditInv, GateInv
<1>3. /\ Others("decision") /\ log'["pairs"] = log["pairs"]
      /\ UNCHANGED <<sinkVars, runnerVars>> /\ phase = "running"
  BY <1>1, <1>2, Publishes
<1>4. Samples'
  BY <1>2, <1>3, SamplesStay
<1>5. QED BY <1>3, <1>4, AuditStays

LEMMA AuditControls ==
  ASSUME AuditInv, GateInv', Controller, Batch["decision"] > 4
  PROVE  AuditInv'
<1>1. /\ "decision" \in Consumers /\ "decision" \in Tasks /\ "decision" \notin Workers
      /\ {"next", "ack", "control", "decide"} \subseteq Places
  BY SubsFact, WorkersAssumption DEF Places
<1>2. FleetInv /\ Samples /\ CanaryInv /\ GateInv
  BY DEF AuditInv, GateInv
<1>3. CASE ControllerStart
  <2>1. PICK x : x = L!Share(lifecycle)
    OBVIOUS
  <2>2. /\ At("decision", "start") /\ PublishAndGo("decision", "control", "share_update", x, "next")
        /\ lifecycle' = lifecycle
    BY <1>3, <2>1 DEF ControllerStart, canaryVars
  <2>3. x \in Shares
    BY <1>2, <2>1, <2>2 DEF At, CanaryInv, Announced, Shares
  <2>4. QED BY <2>2, <2>3, AuditPublishes
<1>4. CASE ControllerPublish
  <2>1. PICK x : x = lifecycle.transitions[Len(lifecycle.transitions)].share
    OBVIOUS
  <2>2. /\ At("decision", "control") /\ PublishAndGo("decision", "control", "share_update", x, "ack")
        /\ lifecycle' = lifecycle
    BY <1>4, <2>1 DEF ControllerPublish, canaryVars
  <2>3. Len(lifecycle.transitions) > 0
    BY <1>2, <2>2 DEF At, CanaryInv, Announced
  <2>4. lifecycle.transitions[Len(lifecycle.transitions)] \in Steps
    BY <1>2, <2>3 DEF CanaryInv, Climbs
  <2>5. x \in Shares
    BY <2>1, <2>4 DEF Steps, Shares
  <2>6. QED BY <2>2, <2>5, AuditPublishes
<1>5. CASE ControllerReceive \/ ControllerAcknowledge \/ ControllerPoll
  <2>1. /\ Others("decision") /\ log' = log
        /\ UNCHANGED <<sinkVars, runnerVars>> /\ phase = "running" /\ lifecycle' = lifecycle
    <3>1. CASE ControllerReceive
      BY <1>1, <1>2, <3>1, Receives DEF ControllerReceive, DecisionReceive, canaryVars
    <3>2. CASE ControllerAcknowledge
      BY <1>1, <1>2, <3>2, Acks DEF ControllerAcknowledge, canaryVars
    <3>3. CASE ControllerPoll
      BY <3>3, Polls DEF ControllerPoll, canaryVars, busVars
    <3>4. QED BY <1>5, <3>1, <3>2, <3>3
  <2>2. Samples'
    BY <1>2, <2>1, SamplesStay
  <2>3. QED BY <2>1, <2>2, AuditStays
<1>6. CASE ControllerUpdate
  <2>1. PICK i, w, m : i = Payload("decision") /\ w = Winner[i] /\ m = lifecycle'
    OBVIOUS
  <2>2. PICK q \in {"control", "ack"} :
          /\ At("decision", "decide") /\ GoTo("decision", q)
          /\ UNCHANGED <<busVars, chaosVars, sent, runnerVars>>
    BY <1>6, Zenon DEF ControllerUpdate, EmitAndGo
  <2>3. m = IF w = "tie" THEN lifecycle ELSE L!Update(lifecycle, w = "b", i)
    BY <1>6, <2>1, Zenon DEF ControllerUpdate
  <2>4. IF m.transitions # lifecycle.transitions
        THEN S!Emit("decision", "decision", Event(i, 9, StageName(m.transitions[Len(m.transitions)])))
        ELSE UNCHANGED sinkVars
    BY <1>6, <2>1, Zenon DEF ControllerUpdate, EmitAndGo
  <2>5. phase = "running" /\ pc["decision"] = "decide"
    BY <2>2 DEF At
  <2>6. Others("decision") /\ log' = log
    BY <1>1, <1>2, <2>2, Inner DEF busVars
  <2>7. Samples'
    BY <1>2, <2>6, SamplesStay
  <2>8. i \in Nat /\ Climbs(lifecycle)
    <3>1. i \in 1 .. N
      BY <1>2, <2>1, <2>5, VerdictNew
    <3>2. QED BY <1>2, <3>1, RequestsAssumption DEF CanaryInv
  <2>9. CASE m.transitions = lifecycle.transitions
    <3>1. UNCHANGED sinkVars
      BY <2>4, <2>9
    <3>2. PICK l : l = lifecycle.transitions /\ Listed(l) /\ Filing(l)
      BY DEF AuditInv
    <3>3. Stocked'
      BY <3>1, StillStock DEF AuditInv
    <3>4. Closing'
      BY <2>2, <2>5, <3>1, ClosingStays DEF AuditInv, sinkVars
    <3>5. SP!Holds(Filed(l))' /\ Claimed'
      <4>1. PICK E : E = Filed(l)
        OBVIOUS
      <4>2. SP!Holds(E)' /\ Claimed'
        BY <3>1, <3>2, <4>1, StillFiles DEF Filing
      <4>3. QED BY <4>1, <4>2
    <3>6. SP!KeptSeqs' = SP!KeptSeqs
      BY <3>1 DEF sinkVars, SP!KeptSeqs, SP!InFlight
    <3>7. Filing(l)'
      BY <3>1, <3>2, <3>5, <3>6 DEF Filing, sinkVars
    <3>8. l = lifecycle'.transitions
      BY <2>1, <2>9, <3>2
    <3>9. QED BY <2>7, <3>2, <3>3, <3>4, <3>7, <3>8 DEF AuditInv
  <2>10. CASE m.transitions # lifecycle.transitions
    <3>1. w # "tie" /\ m = L!Update(lifecycle, w = "b", i)
      BY <2>3, <2>10
    <3>2. /\ lifecycle.state = "running"
          /\ \E x \in Steps : x.index = i /\ m.transitions = Append(lifecycle.transitions, x)
      BY <2>8, <2>10, <3>1, UpdateFiles
    <3>3. PICK x \in Steps : x.index = i /\ m.transitions = Append(lifecycle.transitions, x)
      BY <3>2
    <3>4. m.transitions[Len(m.transitions)] = x
      <4>1. lifecycle.transitions \in Seq(Steps)
        BY <2>8 DEF Climbs
      <4>2. QED BY <3>3, <4>1
    <3>5. S!Emit("decision", "decision", Telling(x))
      BY <2>4, <2>10, <3>3, <3>4 DEF Telling
    <3>6. QED BY <2>1, <2>2, <2>5, <2>7, <3>2, <3>3, <3>5, AuditTells
  <2>11. QED BY <2>9, <2>10
<1>7. QED BY <1>3, <1>4, <1>5, <1>6 DEF Controller

LEMMA AuditNext ==
  ASSUME Punctual, "ack" \notin Suspends, Batch["decision"] > 4
  PROVE  AuditInv /\ [CanaryNext]_allVars => AuditInv'
<1> SUFFICES ASSUME AuditInv, [CanaryNext]_allVars PROVE AuditInv'
  OBVIOUS
<1>1. GateInv'
  BY GateNext DEF AuditInv
<1>2. CASE (Rest /\ UNCHANGED canaryVars) \/ UNCHANGED allVars
  BY <1>1, <1>2, AuditRests DEF allVars
<1>3. CASE CanaryRouterRequest \/ RouterControl
  BY <1>1, <1>3, AuditRoutes
<1>4. CASE Controller
  BY <1>1, <1>4, AuditControls
<1>5. QED BY <1>2, <1>3, <1>4 DEF CanaryNext

LEMMA AuditInit == CanaryInit => AuditInv
<1> SUFFICES ASSUME CanaryInit PROVE AuditInv
  OBVIOUS
<1>1. GateInv
  BY GateInit
<1>2. /\ S!SinkInit /\ phase = "running" /\ toFlush = FinalFlushes /\ B!BusInit
      /\ pc = [t \in Tasks |-> IF t = "decision" THEN "start" ELSE "next"]
      /\ lifecycle = L!NewLifecycle
  BY DEF CanaryInit, InitWith
<1>3. /\ "router" \in Tasks /\ "runner" \in Tasks /\ "decision" \in Tasks /\ "decision" \in Sinks
      /\ "pairs" \in Streams
  BY SubsFact, SinksFact DEF Streams
<1>4. /\ buffer = [s \in Sinks |-> <<>>] /\ flushing = [t \in Tasks |-> "no"] /\ threads = {}
      /\ SP!SinkInit
  BY <1>2 DEF S!SinkInit, SP!SinkInit
<1>5. \A s \in Streams : log[s] = <<>>
  BY <1>2 DEF B!BusInit
<1>6. Samples
  BY <1>2, <1>3, <1>5 DEF Samples
<1>7. SP!Holds(Legit) /\ SP!Owned
  BY <1>4, SP!SinkInitHolds, SP!SinkInitOwned, BatchAssumption, NobodyAssumption
<1>8. (\A t \in Tasks : SP!Load[t] = {}) /\ SP!Events(<<>>) = {}
  <2>1. SP!Events(<<>>) = {}
    BY DEF SP!Events
  <2>2. QED BY <1>4, <1>7, <2>1, SP!IdleLoad, BatchAssumption, NobodyAssumption
<1>9. Stocked
  BY <1>4, <1>7, <1>8 DEF Stocked
<1>10. Closing
  BY <1>2, <1>3, <1>4, FinalFact DEF Closing
<1>11. lifecycle.transitions = <<>> /\ Len(<<>>) = 0 /\ <<>> \in Seq(Steps)
  BY <1>2 DEF L!NewLifecycle
<1>12. PICK l : l = lifecycle.transitions /\ l = <<>> /\ Len(l) = 0 /\ l \in Seq(Steps)
  BY <1>11
<1>13. Listed(l)
  BY <1>12 DEF Listed, Singly
<1>14. SP!Holds(Filed(l))
  <2>1. PICK E : E = Filed(l)
    OBVIOUS
  <2>2. SP!Holds(E)
    BY <1>4, SP!SinkInitHolds, BatchAssumption, NobodyAssumption
  <2>3. QED BY <2>1, <2>2
<1>15. Claimed
  BY <1>4 DEF Claimed, SP!Strays
<1>16. Filing(l)
  BY <1>3, <1>4, <1>12, <1>14, <1>15 DEF Filing
<1>17. QED BY <1>1, <1>6, <1>9, <1>10, <1>12, <1>13, <1>16 DEF AuditInv
-----------------------------------------------------------------------------
(* A finished run has a row of each transition, and no other at band 9.    *)
LEMMA RowsTell ==
  ASSUME AuditInv, phase = "done", NEW t, t = lifecycle.transitions
  PROVE  TransitionRows = {Row(t[k]) : k \in 1 .. Len(t)}
<1>1. /\ Listed(t) /\ SP!Holds(Filed(t)) /\ Claimed /\ Stocked /\ Closing
      /\ \A k \in 1 .. Len(t) : <<t[k].index, 9>> \in SP!KeptSeqs
  BY DEF AuditInv, Filing
<1>2. PICK n \in Nat : n = Len(t)
  BY <1>1 DEF Listed
<1>3. \A u \in Tasks : flushing[u] = "no"
  BY <1>1 DEF Closing
<1>4. ASSUME NEW q \in DOMAIN rows, q[2] = 9
      PROVE  \E k \in 1 .. n : q[1] = t[k].index /\ rows[q] = StageName(t[k])
  <2>1. PICK e \in Filed(t) : e.seq = q /\ e.body = rows[q]
    BY <1>1 DEF SP!Holds
  <2>2. PICK k \in 1 .. n : e = Telling(t[k])
    BY <1>2, <1>4, <2>1 DEF Filed
  <2>3. e.seq[1] = t[k].index /\ e.body = StageName(t[k])
    BY <2>2 DEF Telling, Event
  <2>4. QED BY <2>1, <2>3
<1>5. ASSUME NEW k \in 1 .. n
      PROVE  \E q \in DOMAIN rows : q[2] = 9 /\ q[1] = t[k].index /\ rows[q] = StageName(t[k])
  <2>1. PICK q : q = <<t[k].index, 9>>
    OBVIOUS
  <2>2. S!Stored(q)
    BY <1>1, <1>2, <2>1, DoneStores
  <2>3. q \in DOMAIN rows
    <3>1. SUFFICES ASSUME q \notin DOMAIN rows PROVE FALSE
      OBVIOUS
    <3>2. PICK th \in threads : \E e \in SP!Events(th.todo) : e.seq = q
      BY <2>2, <3>1 DEF S!Stored, S!Events, SP!Events
    <3>3. PICK e \in SP!Events(th.todo) : e.seq = q
      BY <3>2
    <3>4. th.owner = Nobody
      <4>1. th.owner \in Tasks \union {Nobody}
        BY <1>1 DEF SP!Holds
      <4>2. th.owner # Nobody => flushing[th.owner] = "write"
        BY <1>1 DEF Stocked, SP!Owned
      <4>3. QED BY <1>3, <4>1, <4>2
    <3>5. e \in SP!Strays
      BY <3>3, <3>4 DEF SP!Strays
    <3>6. QED BY <1>1, <2>1, <3>3, <3>5 DEF Claimed
  <2>4. q[2] = 9 /\ q[1] = t[k].index
    BY <2>1
  <2>5. PICK j \in 1 .. n : q[1] = t[j].index /\ rows[q] = StageName(t[j])
    BY <1>4, <2>3, <2>4
  <2>6. j = k
    BY <1>1, <1>2, <2>4, <2>5 DEF Listed, Singly
  <2>7. QED BY <2>3, <2>4, <2>5, <2>6
<1>6. ASSUME NEW r \in TransitionRows PROVE r \in {Row(t[k]) : k \in 1 .. n}
  <2>1. PICK q \in DOMAIN rows : q[2] = 9 /\ r = [index |-> q[1], stage |-> rows[q]]
    BY <1>6 DEF TransitionRows
  <2>2. PICK k \in 1 .. n : q[1] = t[k].index /\ rows[q] = StageName(t[k])
    BY <1>4, <2>1
  <2>3. r = Row(t[k])
    BY <2>1, <2>2 DEF Row
  <2>4. QED BY <2>3
<1>7. ASSUME NEW k \in 1 .. n PROVE Row(t[k]) \in TransitionRows
  <2>1. PICK q \in DOMAIN rows : q[2] = 9 /\ q[1] = t[k].index /\ rows[q] = StageName(t[k])
    BY <1>5
  <2>2. Row(t[k]) = [index |-> q[1], stage |-> rows[q]]
    BY <2>1 DEF Row
  <2>3. QED BY <2>1, <2>2 DEF TransitionRows
<1>8. QED BY <1>2, <1>6, <1>7

(* What the invariant says of the trail.                                   *)
LEMMA TrailIs == AuditInv => Audited
<1> SUFFICES ASSUME AuditInv PROVE Audited
  OBVIOUS
<1>1. PICK t : t = lifecycle.transitions /\ Listed(t) /\ Filing(t)
  BY DEF AuditInv
<1>2. PICK n \in Nat : n = Len(t) /\ DOMAIN t = 1 .. n
  BY <1>1 DEF Listed
<1>3. Climbs(lifecycle) /\ Announced /\ BP!IInv
  BY DEF AuditInv, GateInv, CanaryInv
<1>4. \A k \in 1 .. n : S!Kept(<<t[k].index, 9>>)
  BY <1>1, <1>2, KeptFact DEF Filing
<1>5. ASSUME phase = "done" PROVE TransitionRows = {Row(t[k]) : k \in 1 .. n}
  BY <1>1, <1>2, <1>5, RowsTell
<1>6. ASSUME phase = "done"
      PROVE  ShareSteps = [k \in DOMAIN t |-> t[k].share]
               <=> \A j, k \in DOMAIN t : j < k => t[j].index < t[k].index
  <2>1. t \in Seq(Steps) /\ Singly(t)
    BY <1>1 DEF Listed
  <2>2. TransitionRows = {Row(t[k]) : k \in 1 .. Len(t)}
    BY <1>2, <1>5, <1>6
  <2>3. \A j, k \in 1 .. Len(t) : t[j].share = t[k].share => j = k
    BY <1>1, <1>3, SharesApart
  <2>4. \A k \in 1 .. Len(t) : StageLevel(StageName(t[k])) = t[k].share
    <3>1. \A k \in 1 .. Len(t) : t[k] \in Steps
      BY <2>1
    <3>2. QED BY <3>1, LevelIs
  <2>5. QED BY <2>1, <2>2, <2>3, <2>4, StaircaseIs
<1>7. \A k \in DOMAIN log["control"] \ {1} : log["control"][k][2] = t[k - 1].share
  <2>1. log["control"] \in Seq(Payloads)
    BY <1>3, TableFacts DEF Streams
  <2>2. SUFFICES ASSUME NEW k \in 1 .. Len(log["control"]), k # 1
                 PROVE  log["control"][k][2] = t[k - 1].share
    BY <2>1
  <2>3. log["control"][k] = Told(k)
    BY <1>3 DEF Announced
  <2>4. QED BY <1>1, <2>2, <2>3 DEF Told
<1>8. {Row(t[k]) : k \in 1 .. n} = {[index |-> t[k].index, stage |-> StageName(t[k])] : k \in DOMAIN t}
  BY <1>2 DEF Row
<1>9. QED BY <1>1, <1>2, <1>4, <1>5, <1>6, <1>7, <1>8 DEF Audited

(* For any requests, verdicts, draws, workers, gates, thresholds and       *)
(* number of kills: the audit trail of the ramp is complete.  Every        *)
(* transition has a row of its own, on its way while the fleet runs and    *)
(* stored when the run is over, with no row that tells of no transition;   *)
(* the control stream has the share of each in turn; and the staircase of  *)
(* shares read back from the rows (_share_steps) is the one that was       *)
(* driven if and only if the verdicts that moved it came in request order. *)
(* It is assumed that a worker acks a pair before it can be reclaimed, and *)
(* that the controller's sink takes more events than a ramp has stages, as *)
(* its 128 do: its rows are then flushed by the runner alone.              *)
THEOREM AuditTrail ==
  ASSUME Punctual, "ack" \notin Suspends, Batch["decision"] > 4
  PROVE  CanarySpec => []Audited
<1>1. CanaryInit => AuditInv
  BY AuditInit
<1>2. AuditInv /\ [CanaryNext]_allVars => AuditInv'
  BY AuditNext
<1>3. AuditInv => Audited
  BY TrailIs
<1>4. QED BY <1>1, <1>2, <1>3, PTL DEF CanarySpec
=============================================================================
