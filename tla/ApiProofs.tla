----------------------------- MODULE ApiProofs -----------------------------
(***************************************************************************)
(* What module Api checks on three requests, for any number of requests    *)
(* and judges, any buffer sizes, any verdicts and any gate; and, at the    *)
(* end, what SinkSystem checks of the sinks below it on a small instance,  *)
(* for any tasks, sinks and batch sizes, and any number of emissions and   *)
(* cancellations.                                                          *)
(***************************************************************************)
EXTENDS Api, SinkSystem, SinkProofs, FiniteSetTheorems

Configs == {"champion", "challenger"}

Kinds == {"advanced", "promoted", "rolled_back"}

Bodies == Configs \union Kinds \union {"champion_response", "shadow_response", "verdict"}

Places ==
  {"start", "champion", "shadow", "publish", "respond", "done", "api", "judge", "canary",
   "close", "closed", "cancelled"}

(* A request's first event names the configuration that serves its user.   *)
HonestEvents ==
  {e \in [seq : (1 .. N) \X Nat, body : Bodies] :
     e.seq[2] = 0 => e.seq[1] \in DOMAIN served /\ e.body = ServedBy(served[e.seq[1]])}

Routed ==
  /\ served \in Seq([canary : BOOLEAN, shadow : BOOLEAN]) /\ Len(served) <= N
  /\ \A i \in DOMAIN served : served[i].canary => served[i].shadow
  /\ pc \in [Tasks -> Places]
  /\ answer \in [1 .. N -> {Nobody} \union [servedBy : Configs, text : Configs]]

(* Only requests that were served are judged and decided on.               *)
Streamed ==
  /\ pairs \in Seq(DOMAIN served) /\ verdicts \in Seq(DOMAIN served)
  /\ judged \in 0 .. Len(pairs) /\ decided \in 0 .. Len(verdicts)
  /\ holds \in [Judges -> {0} \union DOMAIN served]
  /\ \A j \in Judges : pc[j] = "publish" => holds[j] # 0

(* A handler that answers has served its request, and has handed its pair  *)
(* to the judges if there is one.                                          *)
Handled ==
  \A i \in 1 .. N :
    /\ pc[Handlers[i]] # "start" => i \in DOMAIN served
    /\ answer[i] # Nobody =>
         /\ answer[i] = [servedBy |-> ServedBy(served[i]), text |-> UserResponse(served[i])]
         /\ pc[Handlers[i]] = "done"
    /\ pc[Handlers[i]] \in {"respond", "done"} /\ served[i].shadow
         => \E k \in DOMAIN pairs : pairs[k] = i

(* A share above 0 was granted by a transition, due to a served request.   *)
Transitions ==
  [kind : Kinds, share : 0 .. 4, index : DOMAIN served,
   inStage : Nat]

Lifecycles ==
  [stage : 0 .. 4, state : {"running", "promoted", "rolled_back"},
   gate : [wins : Nat, losses : Nat], stat : Int, inStage : Nat, seen : Nat,
   transitions : Seq(Transitions)]

Granted(l) ==
  /\ l \in Lifecycles
  /\ l.state = "running" => l.stage < 4
  /\ l.stage > 0 \/ l.state = "promoted"
       => \E k \in DOMAIN l.transitions : l.transitions[k].kind = "advanced"

(* What was logged is still there.                                         *)
NoneLost(l, next) == next.transitions = <<>> => l.transitions = <<>>

Inv == Routed /\ Streamed /\ Handled /\ Granted(lifecycle) /\ Holds(HonestEvents)
-----------------------------------------------------------------------------
LEMMA Names ==
  /\ N \in Nat /\ DOMAIN Handlers = 1 .. N
  /\ \A i \in 1 .. N : Handlers[i] \in Tasks
  /\ Background \subseteq Tasks /\ "stop" \in Tasks /\ Judges \subseteq Background
  /\ {"controller", "flusher"} \subseteq Background
  /\ \A k \in 1 .. 3 : FlushOrder[k] \in Sinks
<1>1. N \in Nat /\ DOMAIN Handlers = 1 .. N /\ \A i \in 1 .. N : Handlers[i] \in Tasks
  BY NamesAssumption DEF N
<1>2. \A k \in 1 .. 3 : FlushOrder[k] \in Sinks
  BY TasksAssumption DEF FlushOrder
<1>3. QED BY <1>1, <1>2, TasksAssumption DEF Background

LEMMA Configurations ==
  ASSUME NEW r
  PROVE  ServedBy(r) \in Configs /\ UserResponse(r) \in Configs
  BY DEF ServedBy, UserResponse, Configs

(* One field of a lifecycle changed.                                       *)
LEMMA OneField ==
  ASSUME NEW l \in Lifecycles
  PROVE  /\ \A v \in 0 .. 4 : [l EXCEPT !.stage = v] \in Lifecycles
         /\ \A v \in {"running", "promoted", "rolled_back"} : [l EXCEPT !.state = v] \in Lifecycles
         /\ \A v \in [wins : Nat, losses : Nat] : [l EXCEPT !.gate = v] \in Lifecycles
         /\ \A v \in Int : [l EXCEPT !.stat = v] \in Lifecycles
         /\ \A v \in Nat : [l EXCEPT !.inStage = v] \in Lifecycles
         /\ \A v \in Nat : [l EXCEPT !.seen = v] \in Lifecycles
         /\ \A v \in Seq(Transitions) : [l EXCEPT !.transitions = v] \in Lifecycles
  BY DEF Lifecycles

(* Its fields.                                                             *)
LEMMA Fields ==
  ASSUME NEW l \in Lifecycles
  PROVE  /\ l.stage \in 0 .. 4 /\ l.state \in {"running", "promoted", "rolled_back"}
         /\ l.gate \in [wins : Nat, losses : Nat] /\ l.stat \in Int
         /\ l.inStage \in Nat /\ l.seen \in Nat /\ l.transitions \in Seq(Transitions)
  BY DEF Lifecycles

LEMMA RollBackGranted ==
  ASSUME NEW l, Granted(l), NEW i \in DOMAIN served
  PROVE  Granted(L!RollBack(l, i)) /\ NoneLost(l, L!RollBack(l, i))
<1> DEFINE t == L!Transition("rolled_back", 0, i, l.inStage)
           one == [l EXCEPT !.state = "rolled_back"]
           two == [one EXCEPT !.transitions = Append(@, t)]
<1>1. l \in Lifecycles
  BY DEF Granted
<1>2. t \in Transitions
  BY <1>1, Fields DEF Transitions, L!Transition, Kinds
<1>3. one \in Lifecycles
  BY <1>1, OneField
<1>4. two \in Lifecycles
  <2>1. one.transitions \in Seq(Transitions)
    BY <1>3, Fields
  <2> HIDE DEF one, t
  <2>2. Append(one.transitions, t) \in Seq(Transitions)
    BY <1>2, <2>1
  <2>3. QED BY <1>3, <2>2, OneField
<1>5. two.state = "rolled_back" /\ two.stage = l.stage /\ two.transitions = Append(l.transitions, t)
  BY <1>1 DEF Lifecycles
<1>6. L!RollBack(l, i) = two
  BY DEF L!RollBack
<1> HIDE DEF two, t
<1>7. \A k \in DOMAIN l.transitions :
        k \in DOMAIN two.transitions /\ two.transitions[k] = l.transitions[k]
  <2>1. l.transitions \in Seq(Transitions)
    BY <1>1, Fields
  <2>2. QED BY <1>2, <1>5, <2>1
<1>8. two.transitions # <<>>
  BY <1>1, <1>2, <1>5, Fields
<1>9. QED BY <1>4, <1>5, <1>6, <1>7, <1>8 DEF Granted, NoneLost

LEMMA CountedGranted ==
  ASSUME NEW l, Granted(l), NEW stat \in Int
  PROVE  LET counted == [l EXCEPT !.seen = @ + 1, !.inStage = @ + 1, !.stat = stat] IN
           Granted(counted) /\ counted.state = l.state /\ counted.transitions = l.transitions
<1> DEFINE one == [l EXCEPT !.seen = @ + 1]
           two == [one EXCEPT !.inStage = @ + 1]
           three == [two EXCEPT !.stat = stat]
<1>1. l \in Lifecycles /\ l.seen + 1 \in Nat
  BY Fields DEF Granted
<1>2. one \in Lifecycles
  BY <1>1, OneField
<1>3. two \in Lifecycles
  <2> HIDE DEF one
  <2>1. one.inStage + 1 \in Nat
    BY <1>2, Fields
  <2>2. QED BY <1>2, <2>1, OneField
<1>4. three \in Lifecycles
  <2> HIDE DEF two
  <2>1. QED BY <1>3, OneField
<1>5. three.state = l.state /\ three.stage = l.stage /\ three.transitions = l.transitions
  BY <1>1 DEF Lifecycles
<1>6. Granted(three)
  <2> HIDE DEF three
  <2>1. QED BY <1>4, <1>5 DEF Granted
<1>7. QED BY <1>5, <1>6

LEMMA WeighedGranted ==
  ASSUME NEW l, Granted(l), NEW win \in BOOLEAN
  PROVE  LET weighed == [l EXCEPT !.gate = L!Weigh(@, win)] IN
           Granted(weighed) /\ weighed.state = l.state /\ weighed.transitions = l.transitions
<1> DEFINE weighed == [l EXCEPT !.gate = L!Weigh(@, win)]
<1>1. l \in Lifecycles
  BY DEF Granted
<1>2. L!Weigh(l.gate, win) \in [wins : Nat, losses : Nat]
  <2>1. l.gate \in [wins : Nat, losses : Nat]
    BY <1>1, Fields
  <2>2. [l.gate EXCEPT !.wins = l.gate.wins + 1] \in [wins : Nat, losses : Nat]
    BY <2>1
  <2>3. [l.gate EXCEPT !.losses = l.gate.losses + 1] \in [wins : Nat, losses : Nat]
    BY <2>1
  <2>4. QED BY <2>2, <2>3 DEF L!Weigh
<1>3. weighed \in Lifecycles
  BY <1>1, <1>2, OneField
<1>4. weighed.state = l.state /\ weighed.stage = l.stage /\ weighed.transitions = l.transitions
  BY <1>1 DEF Lifecycles
<1>5. Granted(weighed)
  <2> HIDE DEF weighed
  <2>1. QED BY <1>3, <1>4 DEF Granted
<1>6. QED BY <1>4, <1>5

(* The first step up is an advance, and the promotion is the fourth.       *)
LEMMA AdvanceGranted ==
  ASSUME NEW l, Granted(l), l.state = "running", NEW i \in DOMAIN served
  PROVE  Granted(L!Advance(l, i)) /\ NoneLost(l, L!Advance(l, i))
<1> DEFINE to == l.stage + 1
           last == to = 4
           t == L!Transition(IF last THEN "promoted" ELSE "advanced", to, i, 0)
           one == [l EXCEPT !.stage = to]
           two == [one EXCEPT !.inStage = 0]
           three == [two EXCEPT !.state = IF last THEN "promoted" ELSE @]
           four == [three EXCEPT !.gate = IF last THEN @ ELSE L!NewGate]
           five == [four EXCEPT !.transitions = Append(@, t)]
<1>1. l \in Lifecycles /\ l.stage \in 0 .. 3 /\ to \in 0 .. 4
  BY Fields DEF Granted
<1>2. t \in Transitions /\ t.kind = IF last THEN "promoted" ELSE "advanced"
  BY <1>1 DEF Transitions, L!Transition, Kinds
<1>3. one \in Lifecycles
  BY <1>1, OneField
<1>4. two \in Lifecycles
  <2> HIDE DEF one
  <2>1. QED BY <1>3, OneField
<1>5. three \in Lifecycles
  <2> HIDE DEF two
  <2>1. two.state \in {"running", "promoted", "rolled_back"}
    BY <1>4, Fields
  <2>2. QED BY <1>4, <2>1, OneField
<1>6. four \in Lifecycles
  <2> HIDE DEF three
  <2>1. three.gate \in [wins : Nat, losses : Nat] /\ L!NewGate \in [wins : Nat, losses : Nat]
    BY <1>5, Fields DEF L!NewGate
  <2>2. QED BY <1>5, <2>1, OneField
<1>7. five \in Lifecycles
  <2> HIDE DEF four, t
  <2>1. Append(four.transitions, t) \in Seq(Transitions)
    BY <1>2, <1>6, Fields
  <2>2. QED BY <1>6, <2>1, OneField
<1>8. /\ five.stage = to /\ five.state = (IF last THEN "promoted" ELSE "running")
      /\ five.transitions = Append(l.transitions, t)
  BY <1>1 DEF Lifecycles
<1>9. L!Advance(l, i) = five
  BY DEF L!Advance, L!Stages
<1> HIDE DEF five, t
<1>10. /\ \A k \in DOMAIN l.transitions :
             k \in DOMAIN five.transitions /\ five.transitions[k] = l.transitions[k]
       /\ \E k \in DOMAIN five.transitions : five.transitions[k] = t
  <2>1. l.transitions \in Seq(Transitions)
    BY <1>1, Fields
  <2>2. QED BY <1>2, <1>8, <2>1
<1>11. \E k \in DOMAIN five.transitions : five.transitions[k].kind = "advanced"
  <2>1. CASE last
    <3>1. l.stage > 0
      BY <1>1, <2>1
    <3>2. QED BY <1>10, <3>1 DEF Granted
  <2>2. CASE ~last
    BY <1>2, <1>10, <2>2
  <2>3. QED BY <2>1, <2>2
<1>12. five.state = "running" => five.stage < 4
  BY <1>1, <1>8
<1>13. five.transitions # <<>>
  BY <1>1, <1>2, <1>8, Fields
<1>14. QED BY <1>7, <1>9, <1>11, <1>12, <1>13 DEF Granted, NoneLost

(* The lifecycle after a verdict on a served request.                      *)
LEMMA UpdateGranted ==
  ASSUME NEW l, Granted(l), NEW win \in BOOLEAN, NEW i \in DOMAIN served
  PROVE  Granted(L!Update(l, win, i)) /\ NoneLost(l, L!Update(l, win, i))
<1> DEFINE stat == IF win THEN (IF l.stat >= Down THEN l.stat - Down ELSE 0) ELSE l.stat + Up
           counted == [l EXCEPT !.seen = @ + 1, !.inStage = @ + 1, !.stat = stat]
           weighed == [counted EXCEPT !.gate = L!Weigh(@, win)]
<1>1. CASE l.state # "running"
  BY <1>1 DEF L!Update, NoneLost
<1>2. CASE l.state = "running"
  <2>1. stat \in Int
    BY CusumAssumption, Fields DEF Granted
  <2>2. Granted(counted) /\ counted.state = "running" /\ counted.transitions = l.transitions
    <3> HIDE DEF stat
    <3>1. QED BY <1>2, <2>1, CountedGranted
  <2>3. Granted(weighed) /\ weighed.state = "running" /\ weighed.transitions = l.transitions
    <3> HIDE DEF counted
    <3>1. QED BY <2>2, WeighedGranted
  <2>4. L!Update(l, win, i) = CASE stat >= H -> L!RollBack(counted, i)
                                [] stat < H /\ L!Passed(weighed.gate) -> L!Advance(weighed, i)
                                [] OTHER -> weighed
    BY <1>2 DEF L!Update
  <2> HIDE DEF stat, counted, weighed
  <2>5. L!Update(l, win, i) \in {L!RollBack(counted, i), L!Advance(weighed, i), weighed}
    BY <2>1, <2>4, CusumAssumption
  <2>6. QED BY <2>2, <2>3, <2>5, RollBackGranted, AdvanceGranted DEF NoneLost
<1>3. QED BY <1>1, <1>2
-----------------------------------------------------------------------------
(* What depends on the requests served only, as long as none comes.        *)
LEMMA SameServed ==
  ASSUME served' = served
  PROVE  HonestEvents' = HonestEvents /\ Lifecycles' = Lifecycles /\ Transitions' = Transitions
  BY DEF HonestEvents, Lifecycles, Transitions

(* A step of a task that serves nobody and emits an event with a seq that  *)
(* is no request's first.                                                  *)
LEMMA LogOf ==
  ASSUME Inv, served' = served, NEW t \in Tasks, NEW s \in Sinks, NEW i \in DOMAIN served,
         NEW band \in Nat \ {0}, NEW body \in Bodies, EmitAs(t, s, <<i, band>>, body)
  PROVE  Holds(HonestEvents)'
<1>1. PICK E : E = HonestEvents
  OBVIOUS
<1>2. i \in 1 .. N
  BY Names DEF Inv, Routed
<1>3. [seq |-> <<i, band>>, body |-> body] \in E
  BY <1>1, <1>2 DEF HonestEvents
<1>4. Holds(E)
  BY <1>1 DEF Inv
<1>5. Holds(E)'
  BY <1>3, <1>4, EmitHolds DEF EmitAs
<1>6. E = HonestEvents'
  BY <1>1, SameServed
<1>7. QED BY <1>5, <1>6 DEF Holds

(* The log is as it was.                                                   *)
LEMMA QuietLog ==
  ASSUME Inv, served' = served, UNCHANGED sinkVars
  PROVE  Holds(HonestEvents)'
  BY SameServed DEF Inv, Holds, sinkVars

(* Nothing the handlers' part of the invariant is about has changed.       *)
LEMMA HandledStays ==
  ASSUME Inv, UNCHANGED <<served, answer, pairs>>,
         \A i \in 1 .. N : pc'[Handlers[i]] = pc[Handlers[i]]
  PROVE  Handled'
<1>1. Handled
  BY DEF Inv
<1>2. QED BY <1>1 DEF Handled, ServedBy, UserResponse
-----------------------------------------------------------------------------
(* A request is taken up: the challenger only at a share above 0, and then *)
(* it is judged on it.                                                     *)
LEMMA ServeKeeps ==
  ASSUME Inv, Serve
  PROVE  Inv'
<1> DEFINE i == Len(served) + 1
           h == Handlers[i]
<1>1. PICK canary \in BOOLEAN :
        LET r == [canary |-> canary, shadow |-> CallsChallenger(i \in Sampled, canary)] IN
          /\ served' = Append(served, r)
          /\ EmitAs(h, "api", <<i, 0>>, ServedBy(r))
  BY DEF Serve
<1> DEFINE r == [canary |-> canary, shadow |-> CallsChallenger(i \in Sampled, canary)]
<1>2. /\ i <= N /\ pc[h] = "start" /\ pc' = [pc EXCEPT ![h] = "champion"]
      /\ UNCHANGED <<answer, streams, lifecycle>>
  BY DEF Serve, At, GoTo
<1>3. /\ served \in Seq([canary : BOOLEAN, shadow : BOOLEAN]) /\ Len(served) \in Nat
      /\ DOMAIN served = 1 .. Len(served) /\ i \in 1 .. N /\ h \in Tasks
  BY <1>2, Names DEF Inv, Routed
<1>4. /\ r \in [canary : BOOLEAN, shadow : BOOLEAN] /\ (r.canary => r.shadow)
      /\ ServedBy(r) \in Configs
  <2> DEFINE shadow == CallsChallenger(i \in Sampled, canary)
  <2>1. shadow \in BOOLEAN /\ (canary => shadow)
    BY DEF CallsChallenger
  <2>2. r = [canary |-> canary, shadow |-> shadow]
    OBVIOUS
  <2> HIDE DEF shadow, r
  <2>3. r \in [canary : BOOLEAN, shadow : BOOLEAN] /\ (r.canary => r.shadow)
    BY <2>1, <2>2
  <2>4. ServedBy(r) \in Configs
    BY Configurations
  <2>5. QED BY <2>3, <2>4
<1>5. /\ served' \in Seq([canary : BOOLEAN, shadow : BOOLEAN]) /\ Len(served') = i
      /\ DOMAIN served' = 1 .. i /\ served'[i] = r
      /\ \A k \in DOMAIN served : served'[k] = served[k]
      /\ DOMAIN served \subseteq DOMAIN served'
  <2>1. served' = Append(served, r)
    BY <1>1
  <2> HIDE DEF r
  <2>2. QED BY <2>1, <1>3, <1>4, Appended
<1> HIDE DEF r
<1>6. Routed'
  <2>1. \A k \in DOMAIN served' : served'[k].canary => served'[k].shadow
    <3>1. SUFFICES ASSUME NEW k \in DOMAIN served' PROVE served'[k].canary => served'[k].shadow
      OBVIOUS
    <3>2. CASE k = i
      BY <1>4, <1>5, <3>2
    <3>3. CASE k \in DOMAIN served
      BY <1>5, <3>3 DEF Inv, Routed
    <3>4. QED BY <1>3, <1>5, <3>2, <3>3
  <2>2. pc' \in [Tasks -> Places]
    <3>1. pc \in [Tasks -> Places]
      BY DEF Inv, Routed
    <3>2. pc' = [pc EXCEPT ![h] = "champion"]
      BY <1>2
    <3> HIDE DEF h
    <3>3. QED BY <3>1, <3>2 DEF Places
  <2>3. answer' \in [1 .. N -> {Nobody} \union [servedBy : Configs, text : Configs]]
    BY <1>2 DEF Inv, Routed
  <2>4. QED BY <1>2, <1>5, <2>1, <2>2, <2>3 DEF Routed
<1>7. Streamed'
  <2>1. \A j \in Judges : j # h
    BY <1>3, Names, NamesAssumption
  <2>2. \A j \in Judges : pc'[j] = pc[j]
    BY <1>2, <2>1, Names DEF Inv, Routed
  <2>3. UNCHANGED <<pairs, verdicts, judged, decided, holds>>
    BY <1>2 DEF streams
  <2>4. Streamed
    BY DEF Inv
  <2>5. Seq(DOMAIN served) \subseteq Seq(DOMAIN served')
    BY <1>5
  <2>6. QED BY <1>5, <2>2, <2>3, <2>4, <2>5 DEF Streamed
<1>8. Handled'
  <2>1. SUFFICES ASSUME NEW k \in 1 .. N
                 PROVE  /\ pc'[Handlers[k]] # "start" => k \in DOMAIN served'
                        /\ answer'[k] # Nobody =>
                             /\ answer'[k] = [servedBy |-> ServedBy(served'[k]),
                                             text |-> UserResponse(served'[k])]
                             /\ pc'[Handlers[k]] = "done"
                        /\ pc'[Handlers[k]] \in {"respond", "done"} /\ served'[k].shadow
                             => \E n \in DOMAIN pairs' : pairs'[n] = k
    BY DEF Handled, ServedBy, UserResponse
  <2>2. /\ pc[Handlers[k]] # "start" => k \in DOMAIN served
        /\ answer[k] # Nobody =>
             /\ answer[k] = [servedBy |-> ServedBy(served[k]), text |-> UserResponse(served[k])]
             /\ pc[Handlers[k]] = "done"
        /\ pc[Handlers[k]] \in {"respond", "done"} /\ served[k].shadow
             => \E n \in DOMAIN pairs : pairs[n] = k
    BY DEF Inv, Handled
  <2>3. pairs' = pairs /\ answer' = answer
    BY <1>2 DEF streams
  <2>4. CASE k = i
    <3>1. pc'[h] = "champion" /\ pc[h] = "start"
      BY <1>2, <1>3 DEF Inv, Routed
    <3>2. QED BY <1>5, <2>2, <2>3, <2>4, <3>1
  <2>5. CASE k # i
    <3>1. Handlers[k] # h
      BY <1>3, <2>5, NamesAssumption
    <3>2. pc'[Handlers[k]] = pc[Handlers[k]]
      BY <1>2, <3>1, Names DEF Inv, Routed
    <3>3. pc[Handlers[k]] # "start" => served'[k] = served[k] /\ k \in DOMAIN served'
      BY <1>5, <2>2
    <3>4. QED BY <2>2, <2>3, <3>2, <3>3
  <2>6. QED BY <2>4, <2>5
<1>9. Granted(lifecycle)'
  <2>1. Transitions \subseteq Transitions'
    BY <1>5 DEF Transitions
  <2>2. Seq(Transitions) \subseteq Seq(Transitions')
    BY <2>1
  <2>3. Lifecycles \subseteq Lifecycles'
    BY <2>2 DEF Lifecycles
  <2>4. Granted(lifecycle) /\ lifecycle' = lifecycle
    BY <1>2 DEF Inv
  <2>5. QED BY <2>3, <2>4 DEF Granted
<1>10. Holds(HonestEvents)'
  <2>1. PICK E : E = HonestEvents'
    OBVIOUS
  <2>2. HonestEvents \subseteq HonestEvents'
    <3>1. SUFFICES ASSUME NEW e \in HonestEvents PROVE e \in HonestEvents'
      OBVIOUS
    <3>2. /\ e \in [seq : (1 .. N) \X Nat, body : Bodies]
          /\ e.seq[2] = 0 => e.seq[1] \in DOMAIN served /\ e.body = ServedBy(served[e.seq[1]])
      BY DEF HonestEvents
    <3>3. e.seq[2] = 0 => e.seq[1] \in DOMAIN served' /\ e.body = ServedBy(served'[e.seq[1]])
      BY <1>5, <3>2 DEF ServedBy
    <3>4. QED BY <3>2, <3>3 DEF HonestEvents
  <2>3. Holds(E)
    BY <2>1, <2>2, HoldsMonotone DEF Inv
  <2>4. [seq |-> <<i, 0>>, body |-> ServedBy(r)] \in E
    <3>1. [seq |-> <<i, 0>>, body |-> ServedBy(r)] \in [seq : (1 .. N) \X Nat, body : Bodies]
      BY <1>3, <1>4 DEF Bodies
    <3>2. i \in DOMAIN served' /\ ServedBy(r) = ServedBy(served'[i])
      BY <1>3, <1>5 DEF ServedBy
    <3>3. QED BY <2>1, <3>1, <3>2 DEF HonestEvents
  <2>5. "api" \in Sinks
    BY TasksAssumption
  <2>6. Holds(E)'
    BY <1>1, <1>3, <2>3, <2>4, <2>5, EmitHolds DEF EmitAs, r
  <2>7. QED BY <2>1, <2>6 DEF Holds
<1>11. QED BY <1>6, <1>7, <1>8, <1>9, <1>10 DEF Inv
-----------------------------------------------------------------------------
(* One task moves.                                                         *)
LEMMA Moves ==
  ASSUME Inv, NEW t \in Tasks, NEW place \in Places, NEW suspends, GoTo(t, place, suspends)
  PROVE  /\ pc' \in [Tasks -> Places] /\ pc'[t] = place
         /\ \A u \in Tasks \ {t} : pc'[u] = pc[u]
  BY DEF GoTo, Inv, Routed

(* Handlers and the tasks of the background are not the same.              *)
LEMMA Apart ==
  ASSUME NEW i \in 1 .. N
  PROVE  /\ Handlers[i] \in Tasks \ (Background \union {"stop"})
         /\ \A k \in (1 .. N) \ {i} : Handlers[k] # Handlers[i]
  BY Names, NamesAssumption

LEMMA RoutedStays ==
  ASSUME Inv, UNCHANGED serving, pc' \in [Tasks -> Places]
  PROVE  Routed'
  BY DEF Inv, Routed, serving

LEMMA StreamedStays ==
  ASSUME Inv, UNCHANGED <<served, streams>>, \A j \in Judges : pc'[j] = pc[j]
  PROVE  Streamed'
  BY DEF Inv, Streamed, streams

LEMMA GrantedStays ==
  ASSUME Inv, UNCHANGED <<served, lifecycle>>
  PROVE  Granted(lifecycle)'
  BY SameServed DEF Inv, Granted

(* The handler of request i moves on, and what it answers and publishes is *)
(* as the invariant wants it.                                              *)
LEMMA HandlerMoves ==
  ASSUME Inv, served' = served, NEW i \in DOMAIN served, i \in 1 .. N,
         NEW place \in Places, NEW suspends, GoTo(Handlers[i], place, suspends),
         \A k \in (1 .. N) \ {i} : answer'[k] = answer[k],
         \A k \in DOMAIN pairs : k \in DOMAIN pairs' /\ pairs'[k] = pairs[k],
         answer'[i] # Nobody =>
           /\ answer'[i] = [servedBy |-> ServedBy(served[i]), text |-> UserResponse(served[i])]
           /\ place = "done",
         place \in {"respond", "done"} /\ served[i].shadow
           => \E k \in DOMAIN pairs' : pairs'[k] = i
  PROVE  Handled' /\ pc' \in [Tasks -> Places] /\ \A j \in Judges : pc'[j] = pc[j]
<1>1. /\ pc' \in [Tasks -> Places] /\ pc'[Handlers[i]] = place
      /\ \A u \in Tasks \ {Handlers[i]} : pc'[u] = pc[u]
  BY Apart, Moves
<1>2. \A k \in (1 .. N) \ {i} : pc'[Handlers[k]] = pc[Handlers[k]]
  BY <1>1, Apart, Names
<1>3. \A j \in Judges : pc'[j] = pc[j]
  BY <1>1, Apart, Names
<1>4. Handled
  BY DEF Inv
<1>5. SUFFICES ASSUME NEW k \in 1 .. N
               PROVE  /\ pc'[Handlers[k]] # "start" => k \in DOMAIN served
                      /\ answer'[k] # Nobody =>
                           /\ answer'[k] = [servedBy |-> ServedBy(served[k]),
                                           text |-> UserResponse(served[k])]
                           /\ pc'[Handlers[k]] = "done"
                      /\ pc'[Handlers[k]] \in {"respond", "done"} /\ served[k].shadow
                           => \E n \in DOMAIN pairs' : pairs'[n] = k
  BY <1>1, <1>3 DEF Handled, ServedBy, UserResponse
<1>6. CASE k = i
  BY <1>1, <1>6
<1>7. CASE k # i
  <2>1. pc'[Handlers[k]] = pc[Handlers[k]] /\ answer'[k] = answer[k]
    BY <1>2, <1>7
  <2>2. QED BY <1>4, <2>1 DEF Handled
<1>8. QED BY <1>6, <1>7

(* A handler that is under way has a request that was served.              *)
LEMMA UnderWay ==
  ASSUME Inv, NEW i \in 1 .. N, pc[Handlers[i]] \notin {"start", "done"}
  PROVE  i \in DOMAIN served /\ answer[i] = Nobody
  BY DEF Inv, Handled

LEMMA EmitChampionKeeps ==
  ASSUME Inv, NEW i \in 1 .. N, EmitChampion(i)
  PROVE  Inv'
<1> DEFINE place == IF served[i].shadow THEN "shadow" ELSE "respond"
<1>1. /\ pc[Handlers[i]] = "champion" /\ GoTo(Handlers[i], place, FALSE)
      /\ EmitAs(Handlers[i], "api", <<i, 1>>, "champion_response")
      /\ UNCHANGED <<serving, streams, lifecycle>>
  BY DEF EmitChampion, At
<1>2. i \in DOMAIN served /\ answer[i] = Nobody /\ served' = served
  BY <1>1, UnderWay DEF serving
<1>3. Handled' /\ pc' \in [Tasks -> Places] /\ \A j \in Judges : pc'[j] = pc[j]
  <2>1. place \in Places /\ (place \in {"respond", "done"} => ~served[i].shadow)
    BY DEF Places
  <2> HIDE DEF place
  <2>2. QED BY <1>1, <1>2, <2>1, HandlerMoves DEF serving, streams
<1>4. Holds(HonestEvents)'
  BY <1>1, <1>2, LogOf, Apart, TasksAssumption DEF Bodies
<1>5. Routed' /\ Streamed' /\ Granted(lifecycle)'
  BY <1>1, <1>3, RoutedStays, StreamedStays, GrantedStays DEF serving
<1>6. QED BY <1>3, <1>4, <1>5 DEF Inv

LEMMA EmitShadowKeeps ==
  ASSUME Inv, NEW i \in 1 .. N, EmitShadow(i)
  PROVE  Inv'
<1>1. /\ pc[Handlers[i]] = "shadow" /\ GoTo(Handlers[i], "publish", FALSE)
      /\ EmitAs(Handlers[i], "api", <<i, 2>>, "shadow_response")
      /\ UNCHANGED <<serving, streams, lifecycle>>
  BY DEF EmitShadow, At
<1>2. i \in DOMAIN served /\ answer[i] = Nobody /\ served' = served
  BY <1>1, UnderWay DEF serving
<1>3. Handled' /\ pc' \in [Tasks -> Places] /\ \A j \in Judges : pc'[j] = pc[j]
  <2>1. "publish" \in Places
    BY DEF Places
  <2>2. QED BY <1>1, <1>2, <2>1, HandlerMoves DEF serving, streams
<1>4. Holds(HonestEvents)'
  BY <1>1, <1>2, LogOf, Apart, TasksAssumption DEF Bodies
<1>5. Routed' /\ Streamed' /\ Granted(lifecycle)'
  BY <1>1, <1>3, RoutedStays, StreamedStays, GrantedStays DEF serving
<1>6. QED BY <1>3, <1>4, <1>5 DEF Inv

(* The pair of a request is the last of the stream.                        *)
LEMMA PublishPairKeeps ==
  ASSUME Inv, NEW i \in 1 .. N, PublishPair(i)
  PROVE  Inv'
<1>1. /\ pc[Handlers[i]] = "publish" /\ GoTo(Handlers[i], "respond", FALSE)
      /\ pairs' = Append(pairs, i)
      /\ UNCHANGED <<sinkVars, serving, judged, holds, verdicts, decided, lifecycle>>
  BY DEF PublishPair, At, Quiet
<1>2. i \in DOMAIN served /\ answer[i] = Nobody /\ served' = served
  BY <1>1, UnderWay DEF serving
<1>3. /\ pairs' \in Seq(DOMAIN served) /\ Len(pairs') = Len(pairs) + 1 /\ Len(pairs) \in Nat
      /\ \A k \in DOMAIN pairs : k \in DOMAIN pairs' /\ pairs'[k] = pairs[k]
      /\ \E k \in DOMAIN pairs' : pairs'[k] = i
  <2>1. pairs \in Seq(DOMAIN served)
    BY DEF Inv, Streamed
  <2>2. QED BY <1>1, <1>2, <2>1
<1>4. Handled' /\ pc' \in [Tasks -> Places] /\ \A j \in Judges : pc'[j] = pc[j]
  <2>1. "respond" \in Places
    BY DEF Places
  <2>2. QED BY <1>1, <1>2, <1>3, <2>1, HandlerMoves DEF serving
<1>5. Streamed'
  <2>1. judged' \in 0 .. Len(pairs')
    BY <1>1, <1>3 DEF Inv, Streamed
  <2>2. QED BY <1>1, <1>2, <1>3, <1>4, <2>1 DEF Inv, Streamed
<1>6. Routed' /\ Granted(lifecycle)' /\ Holds(HonestEvents)'
  BY <1>1, <1>2, <1>4, RoutedStays, GrantedStays, QuietLog
<1>7. QED BY <1>4, <1>5, <1>6 DEF Inv

LEMMA RespondKeeps ==
  ASSUME Inv, NEW i \in 1 .. N, Respond(i)
  PROVE  Inv'
<1> DEFINE a == [servedBy |-> ServedBy(served[i]), text |-> UserResponse(served[i])]
<1>1. /\ pc[Handlers[i]] = "respond" /\ GoTo(Handlers[i], "done", TRUE)
      /\ answer' = [answer EXCEPT ![i] = a]
      /\ UNCHANGED <<sinkVars, served, streams, lifecycle>>
  BY DEF Respond, At, Quiet
<1>2. /\ i \in DOMAIN served /\ pairs' = pairs
      /\ answer \in [1 .. N -> {Nobody} \union [servedBy : Configs, text : Configs]]
      /\ served[i].shadow => \E k \in DOMAIN pairs : pairs[k] = i
  <2>1. i \in DOMAIN served
    BY <1>1, UnderWay
  <2>2. served[i].shadow => \E k \in DOMAIN pairs : pairs[k] = i
    BY <1>1 DEF Inv, Handled
  <2>3. QED BY <1>1, <2>1, <2>2 DEF Inv, Routed, streams
<1>3. a \in [servedBy : Configs, text : Configs]
  BY Configurations
<1>4. /\ answer' \in [1 .. N -> {Nobody} \union [servedBy : Configs, text : Configs]]
      /\ answer'[i] = a /\ \A k \in (1 .. N) \ {i} : answer'[k] = answer[k]
  <2> HIDE DEF a
  <2>1. QED BY <1>1, <1>2, <1>3
<1>5. Handled' /\ pc' \in [Tasks -> Places] /\ \A j \in Judges : pc'[j] = pc[j]
  <2>1. "done" \in Places
    BY DEF Places
  <2>2. QED BY <1>1, <1>2, <1>4, <2>1, HandlerMoves
<1>6. Routed'
  BY <1>1, <1>4, <1>5 DEF Inv, Routed
<1>7. Streamed' /\ Granted(lifecycle)' /\ Holds(HonestEvents)'
  BY <1>1, <1>5, StreamedStays, GrantedStays, QuietLog
<1>8. QED BY <1>5, <1>6, <1>7 DEF Inv
-----------------------------------------------------------------------------
(* Somebody moves who is no handler, and no judge is left with a pair.     *)
LEMMA OtherMoves ==
  ASSUME Inv, NEW t \in Background \union {"stop"}, NEW place \in Places, NEW suspends,
         GoTo(t, place, suspends), UNCHANGED <<serving, pairs>>
  PROVE  /\ Routed' /\ Handled' /\ pc'[t] = place
         /\ \A u \in Tasks \ {t} : pc'[u] = pc[u]
<1>1. t \in Tasks /\ \A i \in 1 .. N : Handlers[i] \in Tasks \ {t}
  BY Names, Apart
<1>2. /\ pc' \in [Tasks -> Places] /\ pc'[t] = place
      /\ \A u \in Tasks \ {t} : pc'[u] = pc[u]
  BY <1>1, Moves
<1>3. Routed' /\ Handled'
  BY <1>1, <1>2, RoutedStays, HandledStays DEF serving
<1>4. QED BY <1>2, <1>3

LEMMA JudgePairKeeps ==
  ASSUME Inv, NEW j \in Judges, JudgePair(j)
  PROVE  Inv'
<1>1. /\ GoTo(j, "publish", FALSE) /\ judged < Len(pairs) /\ judged' = judged + 1
      /\ holds' = [holds EXCEPT ![j] = pairs[judged + 1]]
      /\ EmitAs(j, "judge", <<pairs[judged + 1], 5>>, "verdict")
      /\ UNCHANGED <<serving, pairs, verdicts, decided, lifecycle>>
  BY DEF JudgePair, At
<1>2. j \in Tasks /\ j \in Background
  BY Names
<1>3. Routed' /\ Handled' /\ \A u \in Tasks \ {j} : pc'[u] = pc[u]
  <2>1. "publish" \in Places
    BY DEF Places
  <2>2. QED BY <1>1, <1>2, <2>1, OtherMoves
<1>4. /\ pairs \in Seq(DOMAIN served) /\ judged' \in 0 .. Len(pairs)
      /\ pairs[judged + 1] \in DOMAIN served /\ served' = served
  <2>1. pairs \in Seq(DOMAIN served) /\ judged \in 0 .. Len(pairs)
    BY DEF Inv, Streamed
  <2>2. QED BY <1>1, <2>1 DEF serving
<1>5. pairs[judged + 1] # 0
  BY <1>4 DEF Inv, Routed
<1>6. Streamed'
  <2>1. Streamed
    BY DEF Inv
  <2>2. /\ holds' \in [Judges -> {0} \union DOMAIN served] /\ holds'[j] # 0
        /\ \A u \in Judges \ {j} : holds'[u] = holds[u]
    BY <1>1, <1>4, <1>5, <2>1 DEF Streamed
  <2>3. \A u \in Judges : pc'[u] = "publish" => holds'[u] # 0
    BY <1>3, <2>1, <2>2, Names DEF Streamed
  <2>4. QED BY <1>1, <1>4, <2>1, <2>2, <2>3 DEF Streamed
<1>7. Holds(HonestEvents)'
  BY <1>1, <1>2, <1>4, LogOf, TasksAssumption DEF Bodies
<1>8. QED BY <1>1, <1>3, <1>4, <1>6, <1>7, GrantedStays DEF Inv

LEMMA PublishVerdictKeeps ==
  ASSUME Inv, NEW j \in Judges, PublishVerdict(j)
  PROVE  Inv'
<1>1. /\ GoTo(j, "start", judged = Len(pairs)) /\ pc[j] = "publish"
      /\ verdicts' = Append(verdicts, holds[j])
      /\ UNCHANGED <<sinkVars, serving, pairs, judged, holds, decided, lifecycle>>
  BY DEF PublishVerdict, At, Quiet
<1>2. j \in Tasks /\ j \in Background
  BY Names
<1>3. Routed' /\ Handled' /\ pc'[j] = "start" /\ \A u \in Tasks \ {j} : pc'[u] = pc[u]
  <2>1. "start" \in Places
    BY DEF Places
  <2>2. QED BY <1>1, <1>2, <2>1, OtherMoves
<1>4. Streamed'
  <2>1. Streamed /\ holds[j] \in DOMAIN served
    BY <1>1 DEF Inv, Streamed
  <2>2. verdicts' \in Seq(DOMAIN served) /\ Len(verdicts') = Len(verdicts) + 1
    BY <1>1, <2>1 DEF Streamed
  <2>3. decided' \in 0 .. Len(verdicts')
    BY <1>1, <2>1, <2>2 DEF Streamed
  <2>4. \A u \in Judges : pc'[u] = "publish" => holds'[u] # 0
    BY <1>1, <1>3, <2>1, Names DEF Streamed
  <2>5. QED BY <1>1, <2>1, <2>2, <2>3, <2>4 DEF Streamed, serving
<1>5. QED BY <1>1, <1>3, <1>4, GrantedStays, QuietLog DEF Inv, serving

(* The controller: what it emits, if anything, is a transition's kind.     *)
LEMMA DecideEmits ==
  ASSUME Inv, Decide
  PROVE  \/ Quiet
         \/ \E i \in DOMAIN served, kind \in Bodies : EmitAs("controller", "canary", <<i, 9>>, kind)
<1> DEFINE i == verdicts[decided + 1]
           next == IF Winner[i] = "tie" THEN lifecycle ELSE L!Update(lifecycle, Winner[i] = "b", i)
           last == next.transitions[Len(next.transitions)]
<1>1. /\ decided < Len(verdicts)
      /\ IF next.transitions # lifecycle.transitions
         THEN EmitAs("controller", "canary", <<i, 9>>, last.kind)
         ELSE Quiet
  BY Zenon DEF Decide
<1>2. i \in DOMAIN served
  <2>1. verdicts \in Seq(DOMAIN served) /\ decided \in 0 .. Len(verdicts)
    BY DEF Inv, Streamed
  <2>2. QED BY <1>1, <2>1
<1>3. Granted(next) /\ NoneLost(lifecycle, next)
  <2>1. Granted(lifecycle)
    BY DEF Inv
  <2> HIDE DEF i
  <2>2. /\ Granted(L!Update(lifecycle, Winner[i] = "b", i))
        /\ NoneLost(lifecycle, L!Update(lifecycle, Winner[i] = "b", i))
    BY <1>2, <2>1, UpdateGranted
  <2>3. QED BY <2>1, <2>2 DEF NoneLost
<1> HIDE DEF next, i
<1>4. CASE next.transitions # lifecycle.transitions
  <2>1. next.transitions \in Seq(Transitions) /\ lifecycle.transitions \in Seq(Transitions)
    BY <1>3, Fields DEF Inv, Granted
  <2>2. last \in Transitions
    BY <1>3, <1>4, <2>1 DEF NoneLost
  <2>3. last.kind \in Bodies
    BY <2>2 DEF Transitions, Bodies
  <2>4. EmitAs("controller", "canary", <<i, 9>>, last.kind)
    BY <1>1, <1>4
  <2> HIDE DEF last
  <2>5. QED BY <1>2, <2>3, <2>4
<1>5. QED BY <1>1, <1>4

LEMMA DecideKeeps ==
  ASSUME Inv, Decide
  PROVE  Inv'
<1> DEFINE i == verdicts[decided + 1]
           next == IF Winner[i] = "tie" THEN lifecycle ELSE L!Update(lifecycle, Winner[i] = "b", i)
<1>1. /\ decided < Len(verdicts) /\ decided' = decided + 1 /\ lifecycle' = next
      /\ GoTo("controller", "start", decided' = Len(verdicts))
      /\ UNCHANGED <<serving, pairs, judged, holds, verdicts>>
      /\ IF next.transitions # lifecycle.transitions
         THEN EmitAs("controller", "canary", <<i, 9>>, next.transitions[Len(next.transitions)].kind)
         ELSE Quiet
  BY Zenon DEF Decide
<1>2. "controller" \in Background /\ "controller" \in Tasks /\ "controller" \notin Judges
  BY Names, NamesAssumption
<1>3. /\ Routed' /\ Handled' /\ served' = served
      /\ \A u \in Tasks \ {"controller"} : pc'[u] = pc[u]
  <2>1. "start" \in Places
    BY DEF Places
  <2>2. QED BY <1>1, <1>2, <2>1, OtherMoves DEF serving
<1>4. Streamed /\ i \in DOMAIN served /\ decided' \in 0 .. Len(verdicts)
  <2>1. verdicts \in Seq(DOMAIN served) /\ decided \in 0 .. Len(verdicts)
    BY DEF Inv, Streamed
  <2>2. QED BY <1>1, <2>1 DEF Inv
<1>5. Streamed'
  <2>1. \A j \in Judges : pc'[j] = pc[j]
    BY <1>2, <1>3, Names
  <2>2. QED BY <1>1, <1>3, <1>4, <2>1 DEF Streamed
<1>6. Granted(next) /\ NoneLost(lifecycle, next)
  <2>1. Granted(lifecycle)
    BY DEF Inv
  <2> HIDE DEF i
  <2>2. /\ Granted(L!Update(lifecycle, Winner[i] = "b", i))
        /\ NoneLost(lifecycle, L!Update(lifecycle, Winner[i] = "b", i))
    BY <1>4, <2>1, UpdateGranted
  <2>3. QED BY <2>1, <2>2 DEF NoneLost
<1> HIDE DEF next, i
<1>7. Granted(lifecycle)'
  BY <1>1, <1>3, <1>6, SameServed DEF Granted
<1>8. Holds(HonestEvents)'
  <2>1. CASE Quiet
    BY <1>3, <2>1, QuietLog DEF Quiet
  <2>2. ASSUME NEW n \in DOMAIN served, NEW kind \in Bodies,
               EmitAs("controller", "canary", <<n, 9>>, kind)
        PROVE  Holds(HonestEvents)'
    BY <1>2, <1>3, <2>2, LogOf, TasksAssumption
  <2>3. QED BY <2>1, <2>2, DecideEmits
<1>9. QED BY <1>3, <1>5, <1>7, <1>8 DEF Inv
-----------------------------------------------------------------------------
(* The flusher and stop flush one sink after the other.                    *)
LEMMA FlushNextKeeps ==
  ASSUME Inv, NEW t \in {"flusher", "stop"}, NEW k \in 1 .. 3, NEW after \in {"start", "close"},
         FlushNext(t, k, after)
  PROVE  Inv'
<1> DEFINE place == IF k < 3 THEN FlushOrder[k + 1] ELSE after
           suspends == k = 3 /\ after = "start"
<1>1. /\ Flush(t, FlushOrder[k]) /\ GoTo(t, place, suspends)
      /\ UNCHANGED <<serving, streams, lifecycle>>
  BY DEF FlushNext
<1>2. /\ t \in Background \union {"stop"} /\ t \in Tasks /\ FlushOrder[k] \in Sinks
      /\ \A j \in Judges : j # t
  BY Names, NamesAssumption
<1>3. place \in Places
  BY DEF FlushOrder, Places
<1> HIDE DEF place, suspends
<1>4. Routed' /\ Handled' /\ \A u \in Tasks \ {t} : pc'[u] = pc[u]
  BY <1>1, <1>2, <1>3, OtherMoves DEF streams
<1>5. Streamed' /\ Granted(lifecycle)'
  BY <1>1, <1>2, <1>4, Names, StreamedStays, GrantedStays DEF serving
<1>6. Holds(HonestEvents)'
  <2>1. PICK E : E = HonestEvents
    OBVIOUS
  <2>2. Holds(E)'
    BY <1>1, <1>2, <2>1, FlushHolds DEF Inv
  <2>3. QED BY <1>1, <2>1, <2>2, SameServed DEF serving, Holds
<1>7. QED BY <1>4, <1>5, <1>6 DEF Inv

LEMMA StopKeeps ==
  ASSUME Inv, Stop
  PROVE  Inv'
<1>1. /\ CancelAll(Background) /\ UNCHANGED <<serving, streams, lifecycle>>
      /\ pc' = [t \in Tasks |-> IF t \in Background THEN "cancelled"
                                ELSE IF t = "stop" THEN "api" ELSE pc[t]]
  BY DEF Stop
<1>2. /\ pc' \in [Tasks -> Places] /\ \A i \in 1 .. N : pc'[Handlers[i]] = pc[Handlers[i]]
      /\ \A j \in Judges : pc'[j] = "cancelled"
  BY <1>1, Apart, Names DEF Places, Inv, Routed
<1>3. Routed' /\ Handled' /\ Granted(lifecycle)'
  BY <1>1, <1>2, RoutedStays, HandledStays, GrantedStays DEF serving, streams
<1>4. Streamed'
  BY <1>1, <1>2 DEF Inv, Streamed, serving, streams
<1>5. Holds(HonestEvents)'
  <2>1. PICK E : E = HonestEvents
    OBVIOUS
  <2>2. Holds(E)'
    BY <1>1, <2>1, Names, CancelHolds DEF Inv
  <2>3. QED BY <1>1, <2>1, <2>2, SameServed DEF serving, Holds
<1>6. QED BY <1>3, <1>4, <1>5 DEF Inv

LEMMA CloseStoreKeeps ==
  ASSUME Inv, CloseStore
  PROVE  Inv'
<1>1. /\ GoTo("stop", "closed", TRUE) /\ UNCHANGED <<serving, streams, lifecycle>>
      /\ UNCHANGED <<buffer, flushing, batch>> /\ threads' = {}
      /\ rows' = [q \in DOMAIN rows \ uncommitted |-> rows[q]]
  BY DEF CloseStore
<1>2. Routed' /\ Handled' /\ \A u \in Tasks \ {"stop"} : pc'[u] = pc[u]
  <2>1. "closed" \in Places
    BY DEF Places
  <2>2. QED BY <1>1, <2>1, OtherMoves DEF streams
<1>3. Streamed' /\ Granted(lifecycle)'
  BY <1>1, <1>2, Names, NamesAssumption, StreamedStays, GrantedStays DEF serving
<1>4. Holds(HonestEvents)'
  <2>1. PICK E : E = HonestEvents
    OBVIOUS
  <2>2. Holds(E)
    BY <2>1 DEF Inv
  <2>3. Holds(E)'
    BY <1>1, <2>2 DEF Holds
  <2>4. QED BY <1>1, <2>1, <2>3, SameServed DEF serving, Holds
<1>5. QED BY <1>2, <1>3, <1>4 DEF Inv

(* The store's threads and the lock.                                       *)
LEMMA StoreKeeps ==
  ASSUME Inv, Store
  PROVE  Inv'
<1>1. UNCHANGED <<control, serving, streams, lifecycle>>
  BY DEF Store, InsertRow, TakeLock
<1>2. Routed' /\ Handled' /\ Granted(lifecycle)' /\ Streamed'
  <2>1. pc' = pc /\ served' = served /\ answer' = answer /\ pairs' = pairs
    BY <1>1 DEF control, serving, streams
  <2>2. QED BY <1>1, <2>1, RoutedStays, HandledStays, GrantedStays, StreamedStays DEF Inv, Routed
<1>3. Holds(HonestEvents)'
  <2>1. PICK E : E = HonestEvents
    OBVIOUS
  <2>2. Holds(E)
    BY <2>1 DEF Inv
  <2>3. Holds(E)'
    <3>1. ASSUME NEW th \in threads, InsertRow(th) PROVE Holds(E)'
      BY <2>2, <3>1, InsertHolds DEF InsertRow
    <3>2. ASSUME NEW t \in Tasks, TakeLock(t) PROVE Holds(E)'
      BY <2>2, <3>2, AcquireHolds DEF TakeLock
    <3>3. QED BY <3>1, <3>2 DEF Store
  <2>4. QED BY <1>1, <2>1, <2>3, SameServed DEF serving, Holds
<1>4. QED BY <1>2, <1>3 DEF Inv
-----------------------------------------------------------------------------
LEMMA Starts == Init => Inv
<1>1. SUFFICES ASSUME Init PROVE Inv
  OBVIOUS
<1>2. /\ SinkInit /\ pc = [t \in Tasks |-> "start"] /\ served = <<>> /\ pairs = <<>>
      /\ verdicts = <<>> /\ judged = 0 /\ decided = 0 /\ holds = [j \in Judges |-> 0]
      /\ answer = [i \in 1 .. N |-> Nobody] /\ lifecycle = L!NewLifecycle
  BY <1>1 DEF Init
<1>3. Routed
  BY <1>2, Names DEF Routed, Places
<1>4. Streamed
  BY <1>2, Names DEF Streamed
<1>5. Handled
  BY <1>2, Names DEF Handled
<1>6. Granted(lifecycle)
  BY <1>2 DEF Granted, Lifecycles, L!NewLifecycle, L!NewGate
<1>7. Holds(HonestEvents)
  BY <1>2, SinkInitHolds
<1>8. QED BY <1>3, <1>4, <1>5, <1>6, <1>7 DEF Inv

LEMMA Steps == Inv /\ [Next]_apiVars => Inv'
<1>1. SUFFICES ASSUME Inv, [Next]_apiVars PROVE Inv'
  OBVIOUS
<1>2. CASE Serve
  BY <1>1, <1>2, ServeKeeps
<1>3. CASE Handle
  BY <1>1, <1>3, EmitChampionKeeps, EmitShadowKeeps, PublishPairKeeps, RespondKeeps DEF Handle
<1>4. CASE Judge
  BY <1>1, <1>4, JudgePairKeeps, PublishVerdictKeeps DEF Judge
<1>5. CASE Decide
  BY <1>1, <1>5, DecideKeeps
<1>6. CASE Wake
  BY <1>1, <1>6, FlushNextKeeps DEF Wake
<1>7. CASE FlusherGoesOn
  BY <1>1, <1>7, FlushNextKeeps DEF FlusherGoesOn
<1>8. CASE Shutdown
  BY <1>1, <1>8, FlushNextKeeps, CloseStoreKeeps DEF Shutdown, StopFlushes
<1>9. CASE Store
  BY <1>1, <1>9, StoreKeeps
<1>10. CASE Stop
  BY <1>1, <1>10, StopKeeps
<1>11. CASE UNCHANGED apiVars
  <2>1. UNCHANGED <<sinkVars, serving, streams, lifecycle, pc>>
    BY <1>11 DEF apiVars, control
  <2>2. Holds(HonestEvents)' /\ Granted(lifecycle)'
    BY <1>1, <2>1, QuietLog, GrantedStays DEF serving
  <2>3. QED BY <1>1, <2>1, <2>2, RoutedStays, StreamedStays, HandledStays
            DEF Inv, Routed, serving, streams
<1>12. QED BY <1>1, <1>2, <1>3, <1>4, <1>5, <1>6, <1>7, <1>8, <1>9, <1>10, <1>11 DEF Next, Progress

(* In every behaviour: what the user is told, what he is given and what    *)
(* the log says of him agree, and a user of the challenger is judged on.   *)
THEOREM HonestServing == Spec => []ServedHonestly
<1>1. Inv => ServedHonestly
  <2>1. ASSUME Inv, NEW i \in DOMAIN served, answer[i] # Nobody
        PROVE  /\ answer[i].servedBy = ServedBy(served[i])
               /\ answer[i].text = answer[i].servedBy
               /\ answer[i].servedBy = "challenger" => \E k \in DOMAIN pairs : pairs[k] = i
    <3>1. i \in 1 .. N /\ (served[i].canary => served[i].shadow)
      BY <2>1, Names DEF Inv, Routed
    <3>2. /\ answer[i].servedBy = ServedBy(served[i]) /\ answer[i].text = UserResponse(served[i])
          /\ pc[Handlers[i]] = "done"
      <4>1. Handled
        BY <2>1 DEF Inv
      <4>2. /\ answer[i] = [servedBy |-> ServedBy(served[i]), text |-> UserResponse(served[i])]
            /\ pc[Handlers[i]] = "done"
        BY <2>1, <3>1, <4>1, Zenon DEF Handled
      <4>3. QED BY <4>2
    <3>3. answer[i].text = answer[i].servedBy
      BY <3>1, <3>2 DEF ServedBy, UserResponse
    <3>4. answer[i].servedBy = "challenger" => \E k \in DOMAIN pairs : pairs[k] = i
      BY <2>1, <3>1, <3>2 DEF ServedBy, Inv, Handled
    <3>5. QED BY <3>2, <3>3, <3>4
  <2>2. ASSUME Inv, NEW i \in DOMAIN served, <<i, 0>> \in DOMAIN rows
        PROVE  rows[<<i, 0>>] = ServedBy(served[i])
    <3>1. PICK e \in HonestEvents : e.seq = <<i, 0>> /\ e.body = rows[<<i, 0>>]
      BY <2>2 DEF Inv, Holds
    <3>2. QED BY <3>1 DEF HonestEvents
  <2>3. QED BY <2>1, <2>2, Zenon DEF ServedHonestly
<1>2. QED BY <1>1, Starts, Steps, PTL DEF Spec

(* In every behaviour: nobody meets the challenger at a share the state    *)
(* does not show, nor before an advance that an earlier request earned.    *)
THEOREM ShareIsCurrent == Spec => NoNewVictims
<1>1. Inv /\ [Next]_apiVars =>
        \A i \in DOMAIN served' \ DOMAIN served :
          served'[i].canary =>
            /\ Reported.state # "rolled_back" /\ Reported.share > 0
            /\ \E k \in DOMAIN Reported.transitions :
                 Reported.transitions[k].kind = "advanced" /\ Reported.transitions[k].index < i
  <2> SUFFICES ASSUME Inv, [Next]_apiVars, NEW i \in DOMAIN served' \ DOMAIN served,
                      served'[i].canary
               PROVE  /\ Reported.state # "rolled_back" /\ Reported.share > 0
                      /\ \E k \in DOMAIN Reported.transitions :
                           /\ Reported.transitions[k].kind = "advanced"
                           /\ Reported.transitions[k].index < i
    OBVIOUS
  <2>1. /\ Reported.state = lifecycle.state /\ Reported.share = ShareNow
        /\ Reported.transitions = lifecycle.transitions
    BY DEF Reported, ShareNow
  <2>2. Serve
    BY <2>1 DEF Next, Progress, Handle, EmitChampion, EmitShadow, PublishPair, Respond, Judge,
         JudgePair, PublishVerdict, Decide, Wake, FlusherGoesOn, Shutdown, StopFlushes, FlushNext,
         CloseStore, Store, InsertRow, TakeLock, Stop, apiVars, serving
  <2>3. PICK canary \in BOOLEAN :
          /\ canary => ShareNow > 0
          /\ served' = Append(served, [canary |-> canary,
               shadow |-> CallsChallenger(Len(served) + 1 \in Sampled, canary)])
    BY <2>2 DEF Serve
  <2>4. served \in Seq([canary : BOOLEAN, shadow : BOOLEAN])
    BY <2>1 DEF Inv, Routed
  <2>5. i = Len(served) + 1 /\ canary
    BY <2>1, <2>3, <2>4
  <2>6. /\ lifecycle.state # "rolled_back" /\ ShareNow > 0
        /\ lifecycle.stage > 0 \/ lifecycle.state = "promoted"
    BY <2>3, <2>5 DEF ShareNow, L!Share
  <2>7. PICK k \in DOMAIN lifecycle.transitions : lifecycle.transitions[k].kind = "advanced"
    BY <2>1, <2>6 DEF Inv, Granted
  <2>8. lifecycle.transitions[k].index \in DOMAIN served
    <3>1. lifecycle.transitions \in Seq(Transitions)
      BY <2>1, Fields DEF Inv, Granted
    <3>2. lifecycle.transitions[k] \in Transitions
      BY <2>7, <3>1
    <3>3. QED BY <3>2 DEF Transitions
  <2>9. lifecycle.transitions[k].index < i
    BY <2>4, <2>5, <2>8
  <2>10. QED BY <2>1, <2>6, <2>7, <2>9
<1>2. QED BY <1>1, Starts, Steps, PTL DEF Spec, NoNewVictims
-----------------------------------------------------------------------------
(* What a shutdown loses.  MostEvents is the largest batch; a set of seqs  *)
(* fits if one batch may have them all.                                    *)
MostEvents == CHOOSE n \in {Batch[s] : s \in Sinks} : \A s \in Sinks : Batch[s] <= n

Seqs == (1 .. N) \X Nat
Log == [seq : Seqs, body : Bodies]

SeqsOf(g) == {e.seq : e \in Events(g)}

Fits(S) == \E g \in Seq(Seqs) : Len(g) <= MostEvents /\ \A q \in S : \E k \in 1 .. Len(g) : g[k] = q

Orderly == Holds(Log) /\ Owned /\ Small(MostEvents)

(* Up to the shutdown the lock lets one thread write at a time, so that    *)
(* what is not committed is of its batch.                                  *)
Locked ==
  /\ lockq \in Seq(Tasks)
  /\ \A t \in Tasks : flushing[t] = "write" => lockq # <<>> /\ Head(lockq) = t

Sole ==
  /\ \A th \in threads : th.owner # Nobody /\ Fits(uncommitted \union SeqsOf(th.todo))
  /\ threads = {} => uncommitted = {}

(* Nothing is lost, and a handler is not flushing when it has answered.    *)
Working ==
  pc["stop"] = "start" =>
    /\ Locked /\ Sole
    /\ emitted \subseteq KeptSeqs
    /\ \A i \in 1 .. N : pc[Handlers[i]] \in {"start", "done"} => flushing[Handlers[i]] = "no"

(* From then on the seqs of D are at risk, and no others: those that the   *)
(* cancelled tasks had in their batches, committed or not.                 *)
AtRisk(D) ==
  /\ IsFiniteSet(D) /\ Cardinality(D) <= cutOff * MostEvents
  /\ \A q \in emitted : q \in D \/ q \in KeptSeqs
  /\ \A th \in threads : th.owner = Nobody => SeqsOf(th.todo) \subseteq D
  /\ flushing["stop"] = "no" => uncommitted \subseteq D

Flushed ==
  /\ pc["stop"] \in {"api", "judge", "canary", "close", "closed"}
  /\ pc["stop"] # "api" => buffer["api"] = <<>>
  /\ pc["stop"] \notin {"api", "judge"} => buffer["judge"] = <<>>
  /\ pc["stop"] \in {"close", "closed"} => buffer["canary"] = <<>>
  /\ pc["stop"] = "closed" => threads = {} /\ flushing["stop"] = "no"

Stopping ==
  pc["stop"] # "start" =>
    /\ \A i \in 1 .. N : pc[Handlers[i]] \in {"start", "done"}
    /\ \A t \in Background : pc[t] = "cancelled"
    /\ \A t \in Tasks \ {"stop"} : flushing[t] = "no"
    /\ Flushed
    /\ \E D : AtRisk(D)

ShutInv == Inv /\ Orderly /\ Working /\ Stopping
-----------------------------------------------------------------------------
LEMMA MostIs == MostEvents \in Nat /\ Limit(MostEvents)
<1> DEFINE Sizes == {Batch[s] : s \in Sinks}
           IsMost(n) == \A s \in Sinks : Batch[s] <= n
<1>1. /\ Sinks = {"api", "judge", "canary"} /\ \A s \in Sinks : Batch[s] \in Nat
  BY TasksAssumption, BatchAssumption
<1>2. \E n \in Sizes : IsMost(n)
  <2>1. \/ IsMost(Batch["api"]) \/ IsMost(Batch["judge"]) \/ IsMost(Batch["canary"])
    BY <1>1
  <2>2. QED BY <1>1, <2>1
<1>3. MostEvents \in Sizes /\ IsMost(MostEvents)
  BY <1>2 DEF MostEvents
<1>4. QED BY <1>1, <1>3 DEF Limit

LEMMA FitsLess ==
  ASSUME NEW S, NEW T, T \subseteq S, Fits(S)
  PROVE  Fits(T)
  BY DEF Fits

LEMMA FitsBatch ==
  ASSUME NEW g \in Seq(Log), Len(g) <= MostEvents
  PROVE  Fits(SeqsOf(g))
<1> DEFINE h == [k \in 1 .. Len(g) |-> g[k].seq]
<1>1. Len(g) \in Nat /\ DOMAIN g = 1 .. Len(g) /\ \A k \in 1 .. Len(g) : g[k] \in Log
  OBVIOUS
<1>2. \A k \in 1 .. Len(g) : g[k].seq \in Seqs
  BY <1>1 DEF Log
<1>3. h \in Seq(Seqs) /\ Len(h) = Len(g)
  BY <1>1, <1>2
<1>4. \A q \in SeqsOf(g) : \E k \in 1 .. Len(h) : h[k] = q
  BY <1>1, <1>3 DEF SeqsOf, Events
<1> HIDE DEF h
<1>5. QED BY <1>3, <1>4 DEF Fits

(* What k batches have is no more than k times MostEvents.                 *)
LEMMA ManyFit ==
  ASSUME NEW F, IsFiniteSet(F), NEW h \in [F -> Seq(Seqs)], \A t \in F : Len(h[t]) <= MostEvents
  PROVE  LET D == {q \in Seqs : \E t \in F : \E k \in 1 .. Len(h[t]) : h[t][k] = q} IN
           IsFiniteSet(D) /\ Cardinality(D) <= Cardinality(F) * MostEvents
<1> DEFINE D == {q \in Seqs : \E t \in F : \E k \in 1 .. Len(h[t]) : h[t][k] = q}
           A == F \X (1 .. MostEvents)
           P == {p \in A : p[2] <= Len(h[p[1]])}
           f == [p \in P |-> h[p[1]][p[2]]]
<1>1. IsFiniteSet(1 .. MostEvents) /\ Cardinality(1 .. MostEvents) = MostEvents
  <2>1. MostEvents \in Nat
    BY MostIs
  <2>2. QED BY <2>1, FS_Interval
<1>2. IsFiniteSet(A) /\ Cardinality(A) = Cardinality(F) * MostEvents
  BY <1>1, FS_Product
<1>3. /\ IsFiniteSet(P) /\ Cardinality(P) <= Cardinality(A)
      /\ Cardinality(P) \in Nat /\ Cardinality(A) \in Nat
  BY <1>2, FS_Subset, FS_CardinalityType
<1>4. f \in [P -> D]
  <2>1. SUFFICES ASSUME NEW p \in P PROVE h[p[1]][p[2]] \in D
    OBVIOUS
  <2>2. p[1] \in F /\ p[2] \in 1 .. Len(h[p[1]]) /\ h[p[1]] \in Seq(Seqs)
    BY MostIs
  <2>3. h[p[1]][p[2]] \in Seqs
    BY <2>2
  <2>4. QED BY <2>2, <2>3
<1>5. \A q \in D : \E p \in P : f[p] = q
  <2>1. SUFFICES ASSUME NEW q \in D PROVE \E p \in P : f[p] = q
    OBVIOUS
  <2>2. PICK t \in F : \E k \in 1 .. Len(h[t]) : h[t][k] = q
    OBVIOUS
  <2>3. PICK k \in 1 .. Len(h[t]) : h[t][k] = q
    BY <2>2
  <2>4. k \in 1 .. MostEvents
    <3>1. Len(h[t]) \in Nat /\ Len(h[t]) <= MostEvents /\ MostEvents \in Nat
      BY MostIs
    <3>2. QED BY <2>3, <3>1
  <2>5. PICK p : p = <<t, k>>
    OBVIOUS
  <2>6. p \in A /\ p[1] = t /\ p[2] = k
    BY <2>4, <2>5
  <2>7. p \in P /\ f[p] = q
    BY <2>3, <2>6
  <2>8. QED BY <2>7
<1> HIDE DEF f, P, D, A
<1>6. f \in Surjection(P, D)
  BY <1>4, <1>5 DEF Surjection
<1>7. IsFiniteSet(D) /\ Cardinality(D) <= Cardinality(P)
  BY <1>3, <1>6, FS_Surjection
<1>8. Cardinality(D) \in Nat
  BY <1>7, FS_CardinalityType
<1>9. IsFiniteSet(D) /\ Cardinality(D) <= Cardinality(F) * MostEvents
  BY <1>2, <1>3, <1>7, <1>8
<1>10. QED BY <1>9 DEF D
-----------------------------------------------------------------------------
(* A free lock has no thread at work.                                      *)
LEMMA NoThread ==
  ASSUME Holds(Log), Owned, Sole, \A t \in Tasks : flushing[t] # "write"
  PROVE  threads = {} /\ uncommitted = {}
<1>1. \A th \in threads : th.owner \in Tasks \union {Nobody}
  BY DEF Holds
<1>2. \A th \in threads : th.owner # Nobody /\ flushing[th.owner] = "write"
  BY DEF Owned, Sole
<1>3. QED BY <1>1, <1>2 DEF Sole

LEMMA EnterLockSole ==
  ASSUME Holds(Log), Owned, Locked, Sole, NEW t \in Tasks, flushing[t] = "no",
         NEW g \in Seq(Log), Len(g) <= MostEvents, EnterLock(t, g), UNCHANGED uncommitted
  PROVE  Locked' /\ Sole'
<1>1. flushing \in [Tasks -> {"no", "wait", "write"}] /\ lockq \in Seq(Tasks)
  BY DEF Holds, Locked
<1>2. lockq' = Append(lockq, t)
  BY DEF EnterLock
<1>3. CASE lockq = <<>>
  <2>1. /\ threads' = threads \union {Thread(t, g)}
        /\ flushing' = [flushing EXCEPT ![t] = "write"]
    BY <1>3 DEF EnterLock
  <2>2. \A u \in Tasks : flushing[u] # "write"
    BY <1>3 DEF Locked
  <2>3. threads = {} /\ uncommitted = {}
    BY <2>2, NoThread
  <2>4. Thread(t, g).owner = t /\ Thread(t, g).todo = g /\ t # Nobody
    BY NobodyAssumption DEF Thread
  <2>5. Fits(uncommitted' \union SeqsOf(g))
    <3>1. uncommitted' \union SeqsOf(g) = SeqsOf(g)
      BY <2>3
    <3>2. QED BY <3>1, FitsBatch
  <2>6. threads' = {Thread(t, g)}
    BY <2>1, <2>3
  <2>7. Sole'
    BY <2>4, <2>5, <2>6 DEF Sole
  <2>8. lockq' \in Seq(Tasks) /\ lockq' # <<>> /\ Head(lockq') = t
    BY <1>2, <1>3
  <2>9. Locked'
    BY <1>1, <2>1, <2>2, <2>8 DEF Locked
  <2>10. QED BY <2>7, <2>9
<1>4. CASE lockq # <<>>
  <2>1. threads' = threads /\ flushing' = [flushing EXCEPT ![t] = "wait"]
    BY <1>4 DEF EnterLock
  <2>2. lockq' \in Seq(Tasks) /\ lockq' # <<>> /\ Head(lockq') = Head(lockq)
    BY <1>1, <1>2, <1>4
  <2>3. Locked'
    BY <1>1, <2>1, <2>2 DEF Locked
  <2>4. QED BY <2>1, <2>3 DEF Sole
<1>5. QED BY <1>3, <1>4

LEMMA EmitSole ==
  ASSUME Orderly, Locked, Sole, NEW t \in Tasks, flushing[t] = "no", NEW s \in Sinks, NEW e \in Log,
         Emit(t, s, e), UNCHANGED uncommitted
  PROVE  Locked' /\ Sole'
<1>1. /\ Holds(Log) /\ Owned /\ buffer[s] \in Seq(Log) /\ Append(buffer[s], e) \in Seq(Log)
      /\ Len(Append(buffer[s], e)) = Len(buffer[s]) + 1 /\ Len(buffer[s]) \in Nat
  BY DEF Orderly, Holds
<1>2. Len(buffer[s]) + 1 <= MostEvents /\ Batch[s] \in Nat
  BY <1>1, MostIs, BatchAssumption DEF Orderly, Small, Limit
<1>3. CASE Len(buffer[s]) + 1 >= Batch[s]
  <2>1. EnterLock(t, Append(buffer[s], e))
    BY <1>3 DEF Emit
  <2>2. QED BY <1>1, <1>2, <2>1, EnterLockSole
<1>4. CASE ~(Len(buffer[s]) + 1 >= Batch[s])
  <2>1. UNCHANGED <<flushing, batch, lockq, threads, rows>>
    BY <1>4 DEF Emit
  <2>2. QED BY <2>1 DEF Locked, Sole
<1>5. QED BY <1>3, <1>4

LEMMA FlushSole ==
  ASSUME Orderly, Locked, Sole, NEW t \in Tasks, flushing[t] = "no", NEW s \in Sinks,
         Flush(t, s), UNCHANGED uncommitted
  PROVE  Locked' /\ Sole'
<1>1. /\ Holds(Log) /\ Owned /\ buffer[s] \in Seq(Log) /\ Len(buffer[s]) \in Nat
  BY DEF Orderly, Holds
<1>2. Len(buffer[s]) <= MostEvents
  BY <1>1, MostIs, BatchAssumption DEF Orderly, Small, Limit
<1>3. CASE buffer[s] = <<>>
  BY <1>3 DEF Flush, sinkVars, Locked, Sole
<1>4. CASE buffer[s] # <<>>
  <2>1. EnterLock(t, buffer[s])
    BY <1>4 DEF Flush
  <2>2. QED BY <1>1, <1>2, <2>1, EnterLockSole
<1>5. QED BY <1>3, <1>4

LEMMA AcquireSole ==
  ASSUME Orderly, Locked, Sole, NEW t \in Tasks, Acquire(t), UNCHANGED uncommitted
  PROVE  Locked' /\ Sole'
<1>1. /\ lockq # <<>> /\ Head(lockq) = t /\ flushing[t] = "wait" /\ lockq' = lockq
      /\ threads' = threads \union {Thread(t, batch[t])}
      /\ flushing' = [flushing EXCEPT ![t] = "write"]
  BY DEF Acquire
<1>2. /\ Holds(Log) /\ Owned /\ flushing \in [Tasks -> {"no", "wait", "write"}]
      /\ batch[t] \in Seq(Log) /\ Len(batch[t]) <= MostEvents
  BY DEF Orderly, Holds, Small
<1>3. \A u \in Tasks : flushing[u] # "write"
  BY <1>1 DEF Locked
<1>4. threads = {} /\ uncommitted = {}
  BY <1>2, <1>3, NoThread
<1>5. Thread(t, batch[t]).owner = t /\ Thread(t, batch[t]).todo = batch[t] /\ t # Nobody
  BY NobodyAssumption DEF Thread
<1>6. Fits(uncommitted' \union SeqsOf(batch[t]))
  <2>1. uncommitted' \union SeqsOf(batch[t]) = SeqsOf(batch[t])
    BY <1>4
  <2>2. QED BY <1>2, <2>1, FitsBatch
<1>7. threads' = {Thread(t, batch[t])}
  BY <1>1, <1>4
<1>8. Sole'
  BY <1>5, <1>6, <1>7 DEF Sole
<1>9. Locked'
  BY <1>1, <1>2, <1>3 DEF Locked
<1>10. QED BY <1>8, <1>9

(* An event that is inserted is one of its thread's batch, and the last    *)
(* one commits them all.                                                   *)
LEMMA InsertSole ==
  ASSUME Orderly, Locked, Sole, NEW th \in threads, InsertRow(th)
  PROVE  Locked' /\ Sole'
<1> DEFINE rest == Tail(th.todo)
           after == [th EXCEPT !.todo = rest, !.begun = TRUE]
<1>1. /\ threads' = (threads \ {th}) \union (IF rest = <<>> THEN {} ELSE {after})
      /\ IF rest = <<>> /\ th.owner # Nobody
         THEN flushing' = [flushing EXCEPT ![th.owner] = "no"] /\ lockq' = Tail(lockq)
         ELSE UNCHANGED <<flushing, lockq>>
      /\ uncommitted' = IF Len(th.todo) = 1 THEN {} ELSE uncommitted \union {Head(th.todo).seq}
  BY Zenon DEF InsertRow, Insert
<1>2. /\ th \in [owner : Tasks \union {Nobody}, todo : Seq(Log) \ {<<>>}, begun : BOOLEAN]
      /\ flushing \in [Tasks -> {"no", "wait", "write"}]
      /\ \A u \in threads : u.owner \in Tasks \union {Nobody}
  BY DEF Orderly, Holds
<1>3. th.todo \in Seq(Log) /\ th.todo # <<>> /\ th.owner \in Tasks
  BY <1>2 DEF Sole
<1>4. /\ th.owner # Nobody /\ flushing[th.owner] = "write"
      /\ lockq \in Seq(Tasks) /\ lockq # <<>> /\ Head(lockq) = th.owner
  BY <1>3 DEF Orderly, Owned, Sole, Locked
<1>5. \A u \in threads : u = th
  <2>1. SUFFICES ASSUME NEW u \in threads PROVE u = th
    OBVIOUS
  <2>2. u.owner \in Tasks /\ flushing[u.owner] = "write"
    BY <1>2 DEF Orderly, Owned, Sole
  <2>3. u.owner = th.owner
    BY <1>4, <2>2 DEF Locked
  <2>4. QED BY <1>4, <2>3 DEF Orderly, Owned
<1>6. rest \in Seq(Log) /\ (rest = <<>> <=> Len(th.todo) = 1)
  <2>1. rest \in Seq(Log) /\ Len(rest) = Len(th.todo) - 1 /\ Len(th.todo) \in Nat
    BY <1>3, HeadTailProperties, LenProperties
  <2> HIDE DEF rest
  <2>2. rest = <<>> <=> Len(rest) = 0
    BY <2>1, EmptySeq
  <2>3. QED BY <2>1, <2>2
<1>7. Events(th.todo) = Events(rest) \union {Head(th.todo)}
  BY <1>3, EventsOfTail
<1>8. after.owner = th.owner /\ after.todo = rest
  BY <1>2, <1>6, ThreadFields
<1> HIDE DEF after, rest
<1>9. CASE rest = <<>>
  <2>1. threads' = {} /\ uncommitted' = {}
    BY <1>1, <1>5, <1>6, <1>9
  <2>2. flushing' = [flushing EXCEPT ![th.owner] = "no"] /\ lockq' = Tail(lockq)
    BY <1>1, <1>4, <1>9
  <2>3. \A u \in Tasks : flushing'[u] # "write"
    BY <1>2, <1>3, <1>4, <2>2 DEF Locked
  <2>4. lockq' \in Seq(Tasks)
    BY <1>4, <2>2, HeadTailProperties
  <2>5. QED BY <2>1, <2>3, <2>4 DEF Locked, Sole
<1>10. CASE rest # <<>>
  <2>1. threads' = {after} /\ uncommitted' = uncommitted \union {Head(th.todo).seq}
    BY <1>1, <1>5, <1>6, <1>10
  <2>2. uncommitted' \union SeqsOf(rest) \subseteq uncommitted \union SeqsOf(th.todo)
    BY <1>7, <2>1 DEF SeqsOf
  <2>3. Fits(uncommitted' \union SeqsOf(rest))
    BY <2>2, FitsLess DEF Sole
  <2>4. Sole'
    BY <1>4, <1>8, <2>1, <2>3 DEF Sole
  <2>5. UNCHANGED <<flushing, lockq>>
    BY <1>1, <1>10
  <2>6. QED BY <2>4, <2>5 DEF Locked
<1>11. QED BY <1>9, <1>10
-----------------------------------------------------------------------------
(* A step of task t that may touch its sink.                               *)
Emits(t) == \E s \in Sinks, e \in Log : Emit(t, s, e) /\ emitted' = emitted \union {e.seq}

Flushes(t) == \E s \in Sinks : Flush(t, s) /\ emitted' = emitted

Rests == UNCHANGED <<sinkVars, emitted>>

Turn(t) ==
  /\ flushing[t] = "no" /\ UNCHANGED <<uncommitted, cutOff>>
  /\ \A u \in Tasks \ {t} : pc'[u] = pc[u]
  /\ Emits(t) \/ Flushes(t) \/ Rests

(* Such a step of a task that the shutdown has not cancelled; a handler    *)
(* starts only before it, and one that answers does nothing more.          *)
Works(t) ==
  /\ t \in Tasks \ {"stop"} /\ Turn(t)
  /\ pc[t] # "cancelled" /\ (pc[t] \in {"start", "done"} /\ t \notin Background => pc["stop"] = "start")
  /\ \A i \in 1 .. N : t = Handlers[i] => pc'[t] # "start" /\ (pc'[t] = "done" => Rests)

LEMMA TurnOf ==
  ASSUME NEW t \in Tasks, NEW s \in Sinks, NEW q \in Seqs, NEW body \in Bodies,
         flushing[t] = "no", EmitAs(t, s, q, body), \A u \in Tasks \ {t} : pc'[u] = pc[u]
  PROVE  Turn(t)
<1>1. [seq |-> q, body |-> body] \in Log
  BY DEF Log
<1>2. QED BY <1>1 DEF EmitAs, Turn, Emits

LEMMA QuietTurn ==
  ASSUME NEW t \in Tasks, flushing[t] = "no", Quiet, \A u \in Tasks \ {t} : pc'[u] = pc[u]
  PROVE  Turn(t) /\ Rests
  BY DEF Quiet, Turn, Rests

LEMMA FlushTurn ==
  ASSUME Inv, NEW t \in {"flusher", "stop"}, NEW k \in 1 .. 3, NEW after \in {"start", "close"},
         FlushNext(t, k, after), flushing[t] = "no"
  PROVE  /\ t \in Tasks /\ Turn(t) /\ Flush(t, FlushOrder[k]) /\ FlushOrder[k] \in Sinks
         /\ pc'[t] = IF k < 3 THEN FlushOrder[k + 1] ELSE after
         /\ UNCHANGED <<served, emitted>>
<1> DEFINE place == IF k < 3 THEN FlushOrder[k + 1] ELSE after
<1>1. /\ Flush(t, FlushOrder[k]) /\ GoTo(t, place, k = 3 /\ after = "start")
      /\ UNCHANGED <<serving, uncommitted, emitted, cutOff>>
  BY DEF FlushNext
<1>2. t \in Tasks /\ FlushOrder[k] \in Sinks /\ place \in Places
  BY Names, TasksAssumption DEF FlushOrder, Places, Background
<1> HIDE DEF place
<1>3. pc'[t] = place /\ \A u \in Tasks \ {t} : pc'[u] = pc[u]
  BY <1>1, <1>2, Moves
<1>4. QED BY <1>1, <1>2, <1>3 DEF Turn, Flushes, serving, place

(* The steps of the server at work.                                        *)
LEMMA WhoWorks ==
  ASSUME Inv, Serve \/ Handle \/ Judge \/ Decide \/ Wake \/ FlusherGoesOn
  PROVE  \E t \in Tasks : Works(t)
<1>1. CASE Serve
  <2> DEFINE i == Len(served) + 1
             h == Handlers[i]
  <2>1. PICK canary \in BOOLEAN :
          EmitAs(h, "api", <<i, 0>>, ServedBy([canary |-> canary,
                                               shadow |-> CallsChallenger(i \in Sampled, canary)]))
    BY <1>1 DEF Serve
  <2>2. i <= N /\ At(h, "start") /\ GoTo(h, "champion", FALSE) /\ pc["stop"] = "start"
    BY <1>1 DEF Serve
  <2>3. i \in 1 .. N /\ <<i, 0>> \in Seqs
    BY <2>2, Names DEF Inv, Routed, Seqs
  <2>4. h \in Tasks \ {"stop"} /\ "champion" \in Places /\ "api" \in Sinks
    BY <2>3, Apart, TasksAssumption DEF Places
  <2> HIDE DEF h, i
  <2>5. pc'[h] = "champion" /\ \A u \in Tasks \ {h} : pc'[u] = pc[u]
    BY <2>2, <2>4, Moves
  <2>6. Turn(h)
    BY <2>1, <2>2, <2>3, <2>4, <2>5, Configurations, TurnOf DEF At, Bodies
  <2>7. QED BY <2>2, <2>4, <2>5, <2>6 DEF Works, At
<1>2. ASSUME NEW i \in 1 .. N, EmitChampion(i) \/ EmitShadow(i) \/ PublishPair(i) \/ Respond(i)
      PROVE  Works(Handlers[i])
  <2> DEFINE h == Handlers[i]
  <2>1. h \in Tasks \ {"stop"} /\ "api" \in Sinks /\ <<i, 1>> \in Seqs /\ <<i, 2>> \in Seqs
    BY Apart, TasksAssumption DEF Seqs
  <2>2. {"champion_response", "shadow_response"} \subseteq Bodies
    BY DEF Bodies
  <2>3. flushing[h] = "no" /\ pc[h] \notin {"start", "done", "cancelled"}
    BY <1>2 DEF EmitChampion, EmitShadow, PublishPair, Respond, At
  <2>4. \E place \in {"shadow", "respond", "publish", "done"}, suspends \in BOOLEAN :
          /\ GoTo(h, place, suspends)
          /\ \/ EmitAs(h, "api", <<i, 1>>, "champion_response") /\ place # "done"
             \/ EmitAs(h, "api", <<i, 2>>, "shadow_response") /\ place # "done"
             \/ Quiet
    BY <1>2 DEF EmitChampion, EmitShadow, PublishPair, Respond
  <2>5. PICK place \in {"shadow", "respond", "publish", "done"}, suspends \in BOOLEAN :
          /\ GoTo(h, place, suspends)
          /\ \/ EmitAs(h, "api", <<i, 1>>, "champion_response") /\ place # "done"
             \/ EmitAs(h, "api", <<i, 2>>, "shadow_response") /\ place # "done"
             \/ Quiet
    BY <2>4
  <2> HIDE DEF h
  <2>6. pc'[h] = place /\ \A u \in Tasks \ {h} : pc'[u] = pc[u]
    <3>1. place \in Places
      BY DEF Places
    <3>2. QED BY <2>1, <2>5, <3>1, Moves
  <2>7. Turn(h) /\ (place = "done" => Rests)
    BY <2>1, <2>2, <2>3, <2>5, <2>6, TurnOf, QuietTurn
  <2>8. QED BY <2>1, <2>3, <2>6, <2>7 DEF Works, h
<1>3. ASSUME NEW j \in Judges, JudgePair(j) \/ PublishVerdict(j)
      PROVE  Works(j)
  <2>1. /\ j \in Tasks \ {"stop"} /\ j \in Background
        /\ "judge" \in Sinks /\ \A i \in 1 .. N : j # Handlers[i]
    BY Names, NamesAssumption, Apart, TasksAssumption
  <2>2. flushing[j] = "no" /\ pc[j] # "cancelled"
    BY <1>3 DEF JudgePair, PublishVerdict, At
  <2>3. CASE JudgePair(j)
    <3>1. /\ EmitAs(j, "judge", <<pairs[judged + 1], 5>>, "verdict") /\ GoTo(j, "publish", FALSE)
          /\ judged < Len(pairs)
      BY <2>3 DEF JudgePair
    <3>2. pairs[judged + 1] \in 1 .. N
      <4>1. pairs \in Seq(DOMAIN served) /\ judged \in 0 .. Len(pairs)
        BY DEF Inv, Streamed
      <4>2. pairs[judged + 1] \in DOMAIN served
        BY <3>1, <4>1
      <4>3. QED BY <4>2, Names DEF Inv, Routed
    <3>3. <<pairs[judged + 1], 5>> \in Seqs /\ "verdict" \in Bodies /\ "publish" \in Places
      BY <3>2 DEF Seqs, Bodies, Places
    <3>4. \A u \in Tasks \ {j} : pc'[u] = pc[u]
      BY <2>1, <3>1, <3>3, Moves
    <3>5. QED BY <2>1, <2>2, <3>1, <3>3, <3>4, TurnOf DEF Works
  <2>4. CASE PublishVerdict(j)
    <3>1. Quiet /\ GoTo(j, "start", judged = Len(pairs)) /\ "start" \in Places
      BY <2>4 DEF PublishVerdict, Places
    <3>2. \A u \in Tasks \ {j} : pc'[u] = pc[u]
      BY <2>1, <3>1, Moves
    <3>3. QED BY <2>1, <2>2, <3>1, <3>2, QuietTurn DEF Works
  <2>5. QED BY <1>3, <2>3, <2>4
<1>4. CASE Decide
  <2>1. /\ "controller" \in Tasks \ {"stop"} /\ "canary" \in Sinks
        /\ \A i \in 1 .. N : "controller" # Handlers[i]
    BY Names, NamesAssumption, Apart, TasksAssumption
  <2>2. /\ flushing["controller"] = "no" /\ pc["controller"] # "cancelled"
        /\ GoTo("controller", "start", decided' = Len(verdicts)) /\ "start" \in Places
    BY <1>4, Zenon DEF Decide, At, Places
  <2>3. \A u \in Tasks \ {"controller"} : pc'[u] = pc[u]
    BY <2>1, <2>2, Moves
  <2>4. Turn("controller")
    <3>1. ASSUME NEW i \in DOMAIN served, NEW kind \in Bodies,
                 EmitAs("controller", "canary", <<i, 9>>, kind)
          PROVE  Turn("controller")
      <4>1. <<i, 9>> \in Seqs
        BY Names DEF Inv, Routed, Seqs
      <4>2. QED BY <2>1, <2>2, <2>3, <3>1, <4>1, TurnOf
    <3>2. QED BY <1>4, <2>1, <2>2, <2>3, <3>1, DecideEmits, QuietTurn
  <2>5. "controller" \in Background
    BY Names
  <2>6. Works("controller")
    BY <2>1, <2>2, <2>4, <2>5 DEF Works
  <2>7. QED BY <2>1, <2>6
<1>5. CASE Wake \/ FlusherGoesOn
  <2>1. PICK k \in 1 .. 3 : FlushNext("flusher", k, "start") /\ \E place \in Places \ {"cancelled"} : At("flusher", place)
    <3>1. CASE Wake
      BY <3>1 DEF Wake, Places
    <3>2. CASE FlusherGoesOn
      BY <3>2 DEF FlusherGoesOn, FlushOrder, Places
    <3>3. QED BY <1>5, <3>1, <3>2
  <2>2. flushing["flusher"] = "no" /\ pc["flusher"] # "cancelled"
    BY <2>1 DEF At
  <2>3. "flusher" \in Tasks \ {"stop"} /\ \A i \in 1 .. N : "flusher" # Handlers[i]
    BY Names, NamesAssumption, Apart
  <2>4. Turn("flusher")
    BY <2>1, <2>2, FlushTurn
  <2>5. "flusher" \in Background
    BY Names
  <2>6. Works("flusher")
    BY <2>2, <2>3, <2>4, <2>5 DEF Works
  <2>7. QED BY <2>3, <2>6
<1>6. CASE Handle
  <2>1. PICK i \in 1 .. N : EmitChampion(i) \/ EmitShadow(i) \/ PublishPair(i) \/ Respond(i)
    BY <1>6 DEF Handle
  <2>2. QED BY <1>2, <2>1, Names
<1>7. CASE Judge
  <2>1. PICK j \in Judges : JudgePair(j) \/ PublishVerdict(j)
    BY <1>7 DEF Judge
  <2>2. QED BY <1>3, <2>1, Names
<1>8. QED BY <1>1, <1>4, <1>5, <1>6, <1>7
-----------------------------------------------------------------------------
(* A turn of a task keeps what there is, and what it emits.                *)
LEMMA TurnKeeps ==
  ASSUME Orderly, NEW t \in Tasks, Turn(t)
  PROVE  /\ Orderly' /\ KeptSeqs \subseteq KeptSeqs'
         /\ \A q \in emitted' : q \in emitted \/ q \in KeptSeqs'
         /\ \A u \in Tasks : u # t => flushing'[u] = flushing[u]
<1>1. Holds(Log) /\ Owned /\ Small(MostEvents) /\ Limit(MostEvents) /\ flushing[t] = "no"
  BY MostIs DEF Orderly, Turn
<1>2. CASE Emits(t)
  <2>1. PICK s \in Sinks, e \in Log : Emit(t, s, e) /\ emitted' = emitted \union {e.seq}
    BY <1>2 DEF Emits
  <2>2. Holds(Log)' /\ rows' = rows
    BY <1>1, <2>1, EmitHolds
  <2>3. /\ Owned' /\ \A u \in Tasks : u # t => flushing'[u] = flushing[u]
        /\ e \in InFlight' /\ \A x : x \in InFlight => x \in InFlight'
    BY <1>1, <2>1, EmitCarries
  <2>4. Small(MostEvents)'
    BY <1>1, <2>1, EmitSmall
  <2>5. KeptSeqs \subseteq KeptSeqs'
    BY <2>2, <2>3, FlightKeeps
  <2>6. e.seq \in KeptSeqs'
    BY <2>3 DEF KeptSeqs
  <2>7. QED BY <2>1, <2>2, <2>3, <2>4, <2>5, <2>6 DEF Orderly
<1>3. CASE Flushes(t)
  <2>1. PICK s \in Sinks : Flush(t, s)
    BY <1>3 DEF Flushes
  <2>2. Holds(Log)' /\ rows' = rows
    BY <1>1, <2>1, FlushHolds
  <2>3. /\ Owned' /\ \A u \in Tasks : u # t => flushing'[u] = flushing[u]
        /\ \A x : x \in InFlight => x \in InFlight'
    BY <1>1, <2>1, FlushCarries
  <2>4. Small(MostEvents)'
    BY <1>1, <2>1, FlushSmall
  <2>5. KeptSeqs \subseteq KeptSeqs'
    BY <2>2, <2>3, FlightKeeps
  <2>6. emitted' = emitted
    BY <1>3 DEF Flushes
  <2>7. QED BY <2>2, <2>3, <2>4, <2>5, <2>6 DEF Orderly
<1>4. CASE Rests
  <2>1. /\ buffer' = buffer /\ batch' = batch /\ flushing' = flushing
        /\ threads' = threads /\ rows' = rows /\ emitted' = emitted
    BY <1>4 DEF Rests, sinkVars
  <2>2. Holds(Log)' /\ Owned' /\ Small(MostEvents)'
    BY <1>1, <2>1 DEF Holds, Owned, Small
  <2>3. \A x : x \in InFlight => x \in InFlight'
    BY <2>1, InFlightIs, InFlightThen
  <2>4. KeptSeqs \subseteq KeptSeqs'
    BY <2>1, <2>3, FlightKeeps
  <2>5. QED BY <2>1, <2>2, <2>4 DEF Orderly
<1>5. QED BY <1>2, <1>3, <1>4 DEF Turn

LEMMA TurnSole ==
  ASSUME Orderly, Locked, Sole, NEW t \in Tasks, Turn(t)
  PROVE  Locked' /\ Sole'
<1>1. flushing[t] = "no" /\ UNCHANGED uncommitted
  BY DEF Turn
<1>2. CASE Emits(t)
  BY <1>1, <1>2, EmitSole DEF Emits
<1>3. CASE Flushes(t)
  BY <1>1, <1>3, FlushSole DEF Flushes
<1>4. CASE Rests
  BY <1>1, <1>4 DEF Rests, sinkVars, Locked, Sole
<1>5. QED BY <1>2, <1>3, <1>4 DEF Turn

(* Before the shutdown nothing is lost.                                    *)
LEMMA WorkKeeps ==
  ASSUME ShutInv, NEW t \in Tasks, Works(t)
  PROVE  Orderly' /\ Working' /\ Stopping'
<1>1. t \in Tasks \ {"stop"} /\ Turn(t) /\ "stop" \in Tasks
  BY Names DEF Works
<1>2. pc["stop"] = "start"
  <2>1. CASE t \in Background
    BY <2>1 DEF Works, ShutInv, Stopping
  <2>2. CASE t \notin Background
    <3>1. PICK i \in 1 .. N : t = Handlers[i]
      BY <1>1, <2>2, TasksAssumption
    <3>2. QED BY <2>2, <3>1 DEF Works, ShutInv, Stopping
  <2>3. QED BY <2>1, <2>2
<1>3. pc'["stop"] = "start"
  BY <1>1, <1>2 DEF Turn
<1>4. /\ Orderly' /\ KeptSeqs \subseteq KeptSeqs'
      /\ \A q \in emitted' : q \in emitted \/ q \in KeptSeqs'
      /\ \A u \in Tasks : u # t => flushing'[u] = flushing[u]
  BY <1>1, TurnKeeps DEF ShutInv
<1>5. Locked' /\ Sole'
  BY <1>1, <1>2, TurnSole DEF ShutInv, Working
<1>6. emitted' \subseteq KeptSeqs'
  BY <1>2, <1>4 DEF ShutInv, Working
<1>7. ASSUME NEW i \in 1 .. N, pc'[Handlers[i]] \in {"start", "done"}
      PROVE  flushing'[Handlers[i]] = "no"
  <2>1. Handlers[i] \in Tasks
    BY Names
  <2>2. CASE Handlers[i] = t
    BY <1>7, <2>2 DEF Works, Turn, Rests, sinkVars
  <2>3. CASE Handlers[i] # t
    BY <1>2, <1>4, <1>7, <2>1, <2>3 DEF Works, Turn, ShutInv, Working
  <2>4. QED BY <2>2, <2>3
<1>8. QED BY <1>3, <1>4, <1>5, <1>6, <1>7 DEF Working, Stopping
-----------------------------------------------------------------------------
(* What stop() puts at risk if it cancels t: its batch, and what its       *)
(* thread has inserted and not committed.                                  *)
Risk(t) ==
  {e.seq : e \in Load[t]} \union (IF \E th \in threads : th.owner = t THEN uncommitted ELSE {})

LEMMA RiskFits ==
  ASSUME Orderly, Sole, NEW t \in Tasks
  PROVE  Fits(Risk(t))
<1>1. Holds(Log) /\ Owned /\ Small(MostEvents) /\ t # Nobody
  BY NobodyAssumption DEF Orderly
<1>2. CASE \E th \in threads : th.owner = t
  <2>1. PICK th \in threads : th.owner = t
    BY <1>2
  <2>2. batch[t] = <<>> /\ \A u \in threads : u.owner = t => u = th
    BY <1>1, <2>1 DEF Owned
  <2>3. Events(<<>>) = {}
    BY DEF Events
  <2>4. Load[t] = Events(th.todo)
    <3>1. \A e : e \in Load[t] <=>
            e \in Events(batch[t]) \/ \E u \in threads : u.owner = t /\ e \in Events(u.todo)
      BY LoadIs
    <3>2. \A e : e \in Load[t] <=> e \in Events(th.todo)
      BY <2>1, <2>2, <2>3, <3>1
    <3>3. QED BY <3>2, Zenon DEF Load
  <2>5. Risk(t) = uncommitted \union SeqsOf(th.todo)
    BY <1>2, <2>4 DEF Risk, SeqsOf
  <2>6. QED BY <2>1, <2>5 DEF Sole
<1>3. CASE ~ \E th \in threads : th.owner = t
  <2>1. PICK g \in Seq(Log) : Len(g) <= MostEvents /\ Load[t] = Events(g)
    BY <1>1, LoadIsSmall
  <2>2. Risk(t) = SeqsOf(g)
    BY <1>3, <2>1 DEF Risk, SeqsOf
  <2>3. QED BY <2>1, <2>2, FitsBatch
<1>4. QED BY <1>2, <1>3

(* One batch for each flush that is cancelled.                             *)
LEMMA AllRisks ==
  ASSUME Orderly, Sole, NEW F \in SUBSET Tasks, IsFiniteSet(F)
  PROVE  \E D : /\ IsFiniteSet(D) /\ Cardinality(D) <= Cardinality(F) * MostEvents
                /\ \A t \in F : Risk(t) \subseteq D
<1> DEFINE Has(t, g) == Len(g) <= MostEvents /\ \A q \in Risk(t) : \E k \in 1 .. Len(g) : g[k] = q
           h == [t \in F |-> CHOOSE g \in Seq(Seqs) : Has(t, g)]
           D == {q \in Seqs : \E t \in F : \E k \in 1 .. Len(h[t]) : h[t][k] = q}
<1>1. ASSUME NEW t \in F PROVE h[t] \in Seq(Seqs) /\ Has(t, h[t])
  <2>1. \E g \in Seq(Seqs) : Has(t, g)
    BY RiskFits DEF Fits
  <2>2. QED BY <2>1
<1>2. h \in [F -> Seq(Seqs)]
  BY <1>1
<1>3. \A t \in F : Len(h[t]) <= MostEvents
  BY <1>1
<1>4. ASSUME NEW t \in F, NEW q \in Risk(t) PROVE q \in D
  <2>1. PICK k \in 1 .. Len(h[t]) : h[t][k] = q
    BY <1>1
  <2>2. q \in Seqs
    <3>1. h[t] \in Seq(Seqs)
      BY <1>1
    <3> HIDE DEF h
    <3>2. QED BY <2>1, <3>1
  <2>3. QED BY <2>1, <2>2
<1> HIDE DEF h
<1>5. IsFiniteSet(D) /\ Cardinality(D) <= Cardinality(F) * MostEvents
  BY <1>2, <1>3, ManyFit
<1> HIDE DEF D
<1>6. QED BY <1>4, <1>5

(* stop() puts those at risk, and no more.                                 *)
LEMMA StopRisks ==
  ASSUME ShutInv, Stop
  PROVE  Orderly' /\ Working' /\ Stopping'
<1> DEFINE F == {t \in Background : flushing[t] # "no"}
<1>1. /\ CancelAll(Background) /\ cutOff' = Cardinality(F) /\ emitted' = emitted
      /\ uncommitted' = uncommitted /\ pc["stop"] = "start" /\ flushing["stop"] = "no"
      /\ pc' = [t \in Tasks |-> IF t \in Background THEN "cancelled"
                                ELSE IF t = "stop" THEN "api" ELSE pc[t]]
      /\ \A i \in DOMAIN served : pc[Handlers[i]] = "done"
  BY DEF Stop, At
<1>2. /\ Holds(Log) /\ Owned /\ Small(MostEvents) /\ Limit(MostEvents) /\ Background \subseteq Tasks
      /\ "stop" \in Tasks \ Background
  BY MostIs, Names, NamesAssumption DEF ShutInv, Orderly, Background
<1>3. /\ Locked /\ Sole /\ emitted \subseteq KeptSeqs
      /\ \A i \in 1 .. N : pc[Handlers[i]] \in {"start", "done"} => flushing[Handlers[i]] = "no"
  BY <1>1 DEF ShutInv, Working
<1>4. Orderly' /\ rows' = rows
  BY <1>2, CancelHolds, CancelCarries, CancelSmall DEF Orderly, Stop
<1>5. /\ \A u \in Background : flushing'[u] = "no"
      /\ \A u \in Tasks \ Background : flushing'[u] = flushing[u]
      /\ \A x : x \in InFlight => x \in InFlight' \/ \E u \in Background : x \in Load[u]
  BY <1>1, <1>2, CancelCarries
<1>6. /\ \A i \in 1 .. N : pc'[Handlers[i]] = pc[Handlers[i]] /\ pc[Handlers[i]] \in {"start", "done"}
      /\ \A t \in Background : pc'[t] = "cancelled"
      /\ pc'["stop"] = "api"
  <2>1. \A i \in 1 .. N : pc[Handlers[i]] \in {"start", "done"}
    BY <1>1 DEF ShutInv, Inv, Handled
  <2>2. QED BY <1>1, <1>2, <2>1, Apart
<1>7. \A t \in Tasks \ {"stop"} : flushing'[t] = "no"
  BY <1>3, <1>5, <1>6, Apart, TasksAssumption
<1>8. \A t \in Tasks : flushing[t] # "no" => t \in F
  BY <1>1, <1>3, <1>6, TasksAssumption
<1>9. F \in SUBSET Tasks /\ IsFiniteSet(F)
  <2>1. IsFiniteSet((Judges \union {"controller"}) \union {"flusher"})
    BY TasksAssumption, FS_AddElement
  <2>2. IsFiniteSet(Background)
    <3>1. Background = (Judges \union {"controller"}) \union {"flusher"}
      BY DEF Background
    <3>2. QED BY <2>1, <3>1
  <2>3. F \in SUBSET Background
    OBVIOUS
  <2>4. QED BY <1>2, <2>2, <2>3, FS_Subset
<1> HIDE DEF F
<1>10. PICK D : /\ IsFiniteSet(D) /\ Cardinality(D) <= Cardinality(F) * MostEvents
                /\ \A t \in F : Risk(t) \subseteq D
  BY <1>3, <1>9, AllRisks DEF ShutInv
<1>11. \A q \in emitted' : q \in D \/ q \in KeptSeqs'
  <2>1. SUFFICES ASSUME NEW q \in emitted PROVE q \in D \/ q \in KeptSeqs'
    BY <1>1
  <2>2. CASE q \in DOMAIN rows
    BY <1>4, <2>2 DEF KeptSeqs
  <2>3. ASSUME NEW e \in InFlight, e.seq = q PROVE q \in D \/ q \in KeptSeqs'
    <3>1. CASE e \in InFlight'
      BY <2>3, <3>1 DEF KeptSeqs
    <3>2. ASSUME NEW u \in Background, e \in Load[u] PROVE q \in D
      <4>1. u \in F
        BY <1>2, <1>8, <3>2, IdleLoad
      <4>2. q \in Risk(u)
        BY <2>3, <3>2 DEF Risk
      <4>3. QED BY <1>10, <4>1, <4>2
    <3>3. QED BY <1>5, <3>1, <3>2
  <2>4. QED BY <1>3, <2>2, <2>3 DEF KeptSeqs
<1>12. ASSUME NEW th \in threads
       PROVE  /\ th.owner \in Tasks /\ th.owner \in F
              /\ uncommitted \subseteq D /\ SeqsOf(th.todo) \subseteq D
  <2>1. th.owner \in Tasks /\ flushing[th.owner] = "write"
    BY <1>2, <1>3 DEF Holds, Sole, Owned
  <2>2. th.owner \in F
    BY <1>8, <2>1
  <2>3. SeqsOf(th.todo) \subseteq Risk(th.owner) /\ uncommitted \subseteq Risk(th.owner)
    BY <2>1, LoadIs DEF Risk, SeqsOf
  <2>4. QED BY <1>10, <2>1, <2>2, <2>3
<1>13. uncommitted' \subseteq D
  BY <1>1, <1>3, <1>12 DEF Sole
<1>14. ASSUME NEW th \in threads', th.owner = Nobody PROVE SeqsOf(th.todo) \subseteq D
  <2>1. PICK orphans \in SUBSET threads :
          threads' \subseteq threads \union {[u EXCEPT !.owner = Nobody] : u \in orphans}
    BY <1>1 DEF CancelAll
  <2>2. th \notin threads
    BY <1>12, <1>14, NobodyAssumption
  <2>3. PICK u \in orphans : th = [u EXCEPT !.owner = Nobody]
    BY <1>14, <2>1, <2>2
  <2>4. u \in [owner : Tasks \union {Nobody}, todo : Seq(Log) \ {<<>>}, begun : BOOLEAN]
    BY <1>2 DEF Holds
  <2>5. th = [owner |-> Nobody, todo |-> u.todo, begun |-> u.begun]
    BY <2>3, <2>4
  <2>6. th.todo = u.todo
    BY <2>5
  <2>7. QED BY <1>12, <2>1, <2>6
<1>15. AtRisk(D)'
  BY <1>1, <1>10, <1>11, <1>13, <1>14 DEF AtRisk
<1>16. Flushed'
  BY <1>6 DEF Flushed
<1>17. \E R : AtRisk(R)'
  BY <1>15
<1>18. Working' /\ Stopping'
  BY <1>6, <1>7, <1>16, <1>17 DEF Working, Stopping
<1>19. QED BY <1>4, <1>18

(* What stop() flushes is not lost: it waits for its own threads.          *)
LEMMA StopFlushesKeeps ==
  ASSUME ShutInv, StopFlushes
  PROVE  Orderly' /\ Working' /\ Stopping'
<1>1. PICK k \in 1 .. 3 : At("stop", FlushOrder[k]) /\ FlushNext("stop", k, "close")
  BY DEF StopFlushes
<1> DEFINE s == FlushOrder[k]
<1>2. /\ pc["stop"] = s /\ flushing["stop"] = "no"
      /\ k = 1 => s = "api" /\ FlushOrder[k + 1] = "judge"
      /\ k = 2 => s = "judge" /\ FlushOrder[k + 1] = "canary"
      /\ k = 3 => s = "canary"
  BY <1>1 DEF At, FlushOrder
<1>3. /\ Turn("stop") /\ Flush("stop", s) /\ s \in Sinks /\ "stop" \in Tasks
      /\ pc'["stop"] = IF k < 3 THEN FlushOrder[k + 1] ELSE "close"
      /\ emitted' = emitted
  BY <1>1, <1>2, FlushTurn DEF ShutInv
<1>4. /\ Orderly' /\ KeptSeqs \subseteq KeptSeqs'
      /\ \A u \in Tasks : u # "stop" => flushing'[u] = flushing[u]
  BY <1>3, TurnKeeps DEF ShutInv
<1>5. pc["stop"] # "start" /\ pc'["stop"] # "start"
  BY <1>2, <1>3
<1>6. /\ \A i \in 1 .. N : pc'[Handlers[i]] \in {"start", "done"}
      /\ \A t \in Background : pc'[t] = "cancelled"
      /\ \A t \in Tasks \ {"stop"} : flushing'[t] = "no"
  BY <1>3, <1>4, <1>5, Apart, Names, NamesAssumption DEF Turn, ShutInv, Stopping, Background
<1>7. /\ buffer \in [Sinks -> Seq(Log)]
      /\ flushing \in [Tasks -> {"no", "wait", "write"}]
  BY DEF ShutInv, Orderly, Holds
<1>8. /\ buffer'[s] = <<>> /\ \A r \in Sinks \ {s} : buffer'[r] = buffer[r]
      /\ \A th \in threads' : th.owner = Nobody => th \in threads
      /\ flushing'["stop"] = "no" => flushing["stop"] = "no"
  <2>1. CASE buffer[s] = <<>>
    BY <1>2, <1>3, <2>1 DEF Flush, sinkVars
  <2>2. CASE buffer[s] # <<>>
    <3>1. buffer' = [buffer EXCEPT ![s] = <<>>] /\ EnterLock("stop", buffer[s])
      BY <1>3, <2>2 DEF Flush
    <3>2. threads' = threads \/ threads' = threads \union {Thread("stop", buffer[s])}
      BY <3>1 DEF EnterLock
    <3>3. Thread("stop", buffer[s]).owner = "stop" /\ "stop" # Nobody
      BY <1>3, NobodyAssumption DEF Thread
    <3>4. QED BY <1>2, <1>3, <1>7, <3>1, <3>2, <3>3
  <2>3. QED BY <2>1, <2>2
<1> HIDE DEF s
<1>9. Flushed'
  BY <1>2, <1>3, <1>5, <1>8, TasksAssumption DEF Flushed, ShutInv, Stopping
<1>10. PICK D : AtRisk(D)
  BY <1>5 DEF ShutInv, Stopping
<1>11. UNCHANGED <<uncommitted, cutOff>>
  BY <1>3 DEF Turn
<1>12. AtRisk(D)'
  BY <1>2, <1>3, <1>4, <1>8, <1>10, <1>11 DEF AtRisk
<1>13. \E R : AtRisk(R)'
  BY <1>12
<1>14. QED BY <1>4, <1>5, <1>6, <1>9, <1>13 DEF Working, Stopping

(* Closing the store drops orphans and what is not committed: at risk.     *)
LEMMA CloseStoreLoses ==
  ASSUME ShutInv, CloseStore
  PROVE  Orderly' /\ Working' /\ Stopping'
<1>1. /\ pc["stop"] = "close" /\ flushing["stop"] = "no" /\ GoTo("stop", "closed", TRUE)
      /\ rows' = [q \in DOMAIN rows \ uncommitted |-> rows[q]]
      /\ threads' = {} /\ uncommitted' = {}
      /\ UNCHANGED <<buffer, flushing, batch, emitted, cutOff>>
  BY DEF CloseStore, At
<1>2. pc'["stop"] = "closed" /\ \A u \in Tasks \ {"stop"} : pc'[u] = pc[u]
  <2>1. "closed" \in Places /\ "stop" \in Tasks
    BY Names DEF Places
  <2>2. QED BY <1>1, <2>1, Moves DEF ShutInv
<1>3. Orderly'
  BY <1>1 DEF ShutInv, Orderly, Holds, Owned, Small
<1>4. /\ \A i \in 1 .. N : pc'[Handlers[i]] \in {"start", "done"}
      /\ \A t \in Background : pc'[t] = "cancelled"
      /\ \A t \in Tasks \ {"stop"} : flushing'[t] = "no"
  BY <1>1, <1>2, Apart, Names, NamesAssumption DEF ShutInv, Stopping, Background
<1>5. Flushed'
  BY <1>1, <1>2 DEF Flushed, ShutInv, Stopping
<1>6. PICK D : AtRisk(D)
  BY <1>1 DEF ShutInv, Stopping
<1>7. uncommitted \subseteq D /\ \A th \in threads : SeqsOf(th.todo) \subseteq D
  <2>1. \A t \in Tasks : flushing[t] = "no"
    BY <1>1 DEF ShutInv, Stopping
  <2>2. \A th \in threads : th.owner = Nobody
    BY <2>1 DEF ShutInv, Orderly, Holds, Owned
  <2>3. QED BY <1>1, <1>6, <2>2 DEF AtRisk
<1>8. ASSUME NEW q \in KeptSeqs PROVE q \in D \/ q \in KeptSeqs'
  <2>1. CASE q \in DOMAIN rows
    BY <1>1, <1>7, <2>1 DEF KeptSeqs
  <2>2. ASSUME NEW e \in InFlight, e.seq = q PROVE q \in D \/ q \in KeptSeqs'
    <3>1. CASE e \in InFlight'
      BY <2>2, <3>1 DEF KeptSeqs
    <3>2. ASSUME NEW th \in threads, e \in Events(th.todo) PROVE q \in D
      BY <1>7, <2>2, <3>2 DEF SeqsOf
    <3>3. e \in InFlight' \/ \E th \in threads : e \in Events(th.todo)
      BY <1>1, <2>2, InFlightIs, InFlightThen
    <3>4. QED BY <3>1, <3>2, <3>3
  <2>3. QED BY <2>1, <2>2 DEF KeptSeqs
<1>9. AtRisk(D)'
  BY <1>1, <1>6, <1>8 DEF AtRisk
<1>10. \E R : AtRisk(R)'
  BY <1>9
<1>11. QED BY <1>2, <1>3, <1>4, <1>5, <1>10 DEF Working, Stopping

(* A thread that inserts, an orphan or not, loses nothing.                 *)
LEMMA InsertRowKeeps ==
  ASSUME ShutInv, NEW th \in threads, InsertRow(th)
  PROVE  Orderly' /\ Working' /\ Stopping'
<1>1. /\ Insert(th) /\ pc' = pc /\ emitted' = emitted /\ cutOff' = cutOff
      /\ uncommitted' = IF Len(th.todo) = 1 THEN {} ELSE uncommitted \union {Head(th.todo).seq}
  BY DEF InsertRow, control
<1>2. Holds(Log) /\ Owned /\ Small(MostEvents) /\ Limit(MostEvents)
  BY MostIs DEF ShutInv, Orderly
<1>3. Orderly' /\ Stand
  BY <1>1, <1>2, InsertHolds, InsertCarries, InsertSmall DEF Orderly
<1>4. /\ \A u \in Tasks : flushing'[u] = "no" \/ flushing'[u] = flushing[u]
      /\ \A x : x \in InFlight => x \in InFlight' \/ x.seq \in DOMAIN rows'
  BY <1>1, <1>2, InsertCarries
<1>5. KeptSeqs \subseteq KeptSeqs'
  BY <1>3, <1>4, FlightKeeps DEF Stand
<1>6. Working'
  <2>1. CASE pc["stop"] = "start"
    <3>1. Locked' /\ Sole'
      BY <2>1, InsertSole DEF ShutInv, Working
    <3>2. emitted' \subseteq KeptSeqs'
      BY <1>1, <1>5, <2>1 DEF ShutInv, Working
    <3>3. \A i \in 1 .. N : pc'[Handlers[i]] \in {"start", "done"} => flushing'[Handlers[i]] = "no"
      BY <1>1, <1>4, <2>1, Names DEF ShutInv, Working
    <3>4. QED BY <3>1, <3>2, <3>3 DEF Working
  <2>2. CASE pc["stop"] # "start"
    BY <1>1, <2>2 DEF Working
  <2>3. QED BY <2>1, <2>2
<1>7. Stopping'
  <2>1. CASE pc["stop"] = "start"
    BY <1>1, <2>1 DEF Stopping
  <2>2. CASE pc["stop"] # "start"
    <3>1. PICK D : AtRisk(D)
      BY <2>2 DEF ShutInv, Stopping
    <3> DEFINE rest == Tail(th.todo)
               after == [th EXCEPT !.todo = rest, !.begun = TRUE]
    <3>2. /\ threads' = (threads \ {th}) \union (IF rest = <<>> THEN {} ELSE {after})
          /\ IF rest = <<>> /\ th.owner # Nobody
             THEN flushing' = [flushing EXCEPT ![th.owner] = "no"]
             ELSE flushing' = flushing
          /\ buffer' = buffer
      BY <1>1, Zenon DEF Insert
    <3>3. th \in [owner : Tasks \union {Nobody}, todo : Seq(Log) \ {<<>>}, begun : BOOLEAN]
      BY <1>2 DEF Holds
    <3>4. /\ th.todo \in Seq(Log) /\ th.todo # <<>> /\ Head(th.todo) \in Events(th.todo)
          /\ Events(rest) \subseteq Events(th.todo)
      BY <3>3, EventsOfTail
    <3>5. rest \in Seq(Log) /\ (rest = <<>> <=> Len(th.todo) = 1)
      <4>1. rest \in Seq(Log) /\ Len(rest) = Len(th.todo) - 1 /\ Len(th.todo) \in Nat
        BY <3>4, HeadTailProperties, LenProperties
      <4> HIDE DEF rest
      <4>2. rest = <<>> <=> Len(rest) = 0
        BY <4>1, EmptySeq
      <4>3. QED BY <4>1, <4>2
    <3>6. after.owner = th.owner /\ after.todo = rest
      BY <3>3, <3>5, ThreadFields
    <3> HIDE DEF after, rest
    <3>7. ASSUME NEW u \in threads', u.owner = Nobody PROVE SeqsOf(u.todo) \subseteq D
      <4>1. CASE u \in threads
        BY <3>1, <3>7, <4>1 DEF AtRisk
      <4>2. CASE u = after
        <5>1. SeqsOf(th.todo) \subseteq D
          BY <3>1, <3>6, <3>7, <4>2 DEF AtRisk
        <5>2. QED BY <3>4, <3>6, <4>2, <5>1 DEF SeqsOf
      <4>3. QED BY <3>2, <4>1, <4>2
    <3>8. flushing'["stop"] = "no" => uncommitted' \subseteq D
      <4>1. SUFFICES ASSUME flushing'["stop"] = "no", Len(th.todo) # 1
                     PROVE  uncommitted' \subseteq D
        BY <1>1
      <4>2. flushing' = flushing /\ uncommitted' = uncommitted \union {Head(th.todo).seq}
        BY <1>1, <3>2, <3>5, <4>1
      <4>3. th.owner = Nobody
        <5>1. \A t \in Tasks : flushing[t] = "no"
          BY <2>2, <4>1, <4>2 DEF ShutInv, Stopping
        <5>2. QED BY <1>2, <3>3, <5>1 DEF Owned
      <4>4. uncommitted \subseteq D /\ SeqsOf(th.todo) \subseteq D
        BY <3>1, <4>1, <4>2, <4>3 DEF AtRisk
      <4>5. QED BY <3>4, <4>2, <4>4 DEF SeqsOf
    <3>9. AtRisk(D)'
      BY <1>1, <1>5, <3>1, <3>7, <3>8 DEF AtRisk
    <3>10. Flushed'
      BY <1>1, <2>2, <3>2 DEF Flushed, ShutInv, Stopping
    <3>11. /\ \A i \in 1 .. N : pc'[Handlers[i]] \in {"start", "done"}
           /\ \A t \in Background : pc'[t] = "cancelled"
           /\ \A t \in Tasks \ {"stop"} : flushing'[t] = "no"
      BY <1>1, <1>4, <2>2 DEF ShutInv, Stopping
    <3>12. \E R : AtRisk(R)'
      BY <3>9
    <3>13. QED BY <3>10, <3>11, <3>12 DEF Stopping
  <2>3. QED BY <2>1, <2>2
<1>8. QED BY <1>3, <1>6, <1>7

LEMMA TakeLockKeeps ==
  ASSUME ShutInv, NEW t \in Tasks, TakeLock(t)
  PROVE  Orderly' /\ Working' /\ Stopping'
<1>1. Acquire(t) /\ UNCHANGED <<pc, emitted, cutOff, uncommitted>>
  BY DEF TakeLock, control
<1>2. Holds(Log) /\ Owned /\ Small(MostEvents) /\ Limit(MostEvents)
  BY MostIs DEF ShutInv, Orderly
<1>3. Orderly' /\ rows' = rows
  BY <1>1, <1>2, AcquireHolds, AcquireCarries, AcquireSmall DEF Orderly
<1>4. /\ \A u \in Tasks : flushing'[u] = "no" <=> flushing[u] = "no"
      /\ \A x : x \in InFlight => x \in InFlight'
  BY <1>1, <1>2, AcquireCarries
<1>5. KeptSeqs \subseteq KeptSeqs'
  BY <1>3, <1>4, FlightKeeps
<1>6. Working'
  <2>1. CASE pc["stop"] = "start"
    <3>1. Locked' /\ Sole'
      BY <1>1, <2>1, AcquireSole DEF ShutInv, Working
    <3>2. emitted' \subseteq KeptSeqs'
      BY <1>1, <1>5, <2>1 DEF ShutInv, Working
    <3>3. \A i \in 1 .. N : pc'[Handlers[i]] \in {"start", "done"} => flushing'[Handlers[i]] = "no"
      BY <1>1, <1>4, <2>1, Names DEF ShutInv, Working
    <3>4. QED BY <3>1, <3>2, <3>3 DEF Working
  <2>2. CASE pc["stop"] # "start"
    BY <1>1, <2>2 DEF Working
  <2>3. QED BY <2>1, <2>2
<1>7. Stopping'
  <2>1. CASE pc["stop"] = "start"
    BY <1>1, <2>1 DEF Stopping
  <2>2. CASE pc["stop"] # "start"
    <3>1. PICK D : AtRisk(D)
      BY <2>2 DEF ShutInv, Stopping
    <3>2. /\ threads' = threads \union {Thread(t, batch[t])} /\ flushing[t] = "wait"
          /\ buffer' = buffer
      BY <1>1 DEF Acquire
    <3>3. t = "stop"
      BY <2>2, <3>2 DEF ShutInv, Stopping
    <3>4. Thread(t, batch[t]).owner # Nobody
      BY NobodyAssumption DEF Thread
    <3>5. flushing'["stop"] # "no" /\ pc["stop"] # "closed"
      BY <1>4, <2>2, <3>2, <3>3 DEF ShutInv, Stopping, Flushed
    <3>6. AtRisk(D)'
      BY <1>1, <1>5, <3>1, <3>2, <3>4, <3>5 DEF AtRisk
    <3>7. Flushed'
      BY <1>1, <2>2, <3>2, <3>5 DEF Flushed, ShutInv, Stopping
    <3>8. /\ \A i \in 1 .. N : pc'[Handlers[i]] \in {"start", "done"}
          /\ \A u \in Background : pc'[u] = "cancelled"
          /\ \A u \in Tasks \ {"stop"} : flushing'[u] = "no"
      BY <1>1, <1>4, <2>2 DEF ShutInv, Stopping
    <3>9. \E R : AtRisk(R)'
      BY <3>6
    <3>10. QED BY <3>7, <3>8, <3>9 DEF Stopping
  <2>3. QED BY <2>1, <2>2
<1>8. QED BY <1>3, <1>6, <1>7
-----------------------------------------------------------------------------
LEMMA ShutInit == Init => ShutInv
<1>1. SUFFICES ASSUME Init PROVE ShutInv
  OBVIOUS
<1>2. /\ SinkInit /\ pc = [t \in Tasks |-> "start"] /\ uncommitted = {} /\ emitted = {}
  BY <1>1 DEF Init
<1>3. Holds(Log) /\ Owned /\ Small(MostEvents)
  BY <1>2, SinkInitHolds, SinkInitOwned, SinkInitSmall, MostIs
<1>4. Locked /\ Sole
  BY <1>2 DEF SinkInit, Locked, Sole
<1>5. \A i \in 1 .. N : flushing[Handlers[i]] = "no"
  BY <1>2, Names DEF SinkInit
<1>6. pc["stop"] = "start"
  BY <1>2, Names
<1>7. QED BY <1>1, <1>2, <1>3, <1>4, <1>5, <1>6, Starts DEF ShutInv, Orderly, Working, Stopping

LEMMA ShutSteps == ShutInv /\ [Next]_apiVars => ShutInv'
<1>1. SUFFICES ASSUME ShutInv, [Next]_apiVars PROVE Orderly' /\ Working' /\ Stopping'
  BY Steps DEF ShutInv
<1>2. CASE Serve \/ Handle \/ Judge \/ Decide \/ Wake \/ FlusherGoesOn
  <2>1. PICK t \in Tasks : Works(t)
    BY <1>1, <1>2, WhoWorks DEF ShutInv
  <2>2. QED BY <1>1, <2>1, WorkKeeps
<1>3. CASE Shutdown
  BY <1>1, <1>3, StopFlushesKeeps, CloseStoreLoses DEF Shutdown
<1>4. CASE Store
  BY <1>1, <1>4, InsertRowKeeps, TakeLockKeeps DEF Store
<1>5. CASE Stop
  BY <1>1, <1>5, StopRisks
<1>6. CASE UNCHANGED apiVars
  <2>1. /\ buffer' = buffer /\ flushing' = flushing /\ batch' = batch /\ lockq' = lockq
        /\ threads' = threads /\ rows' = rows
        /\ pc' = pc /\ uncommitted' = uncommitted /\ emitted' = emitted /\ cutOff' = cutOff
    BY <1>6 DEF apiVars, sinkVars, control
  <2>2. Orderly'
    BY <1>1, <2>1 DEF ShutInv, Orderly, Holds, Owned, Small
  <2>3. KeptSeqs' = KeptSeqs
    BY <2>1 DEF KeptSeqs, InFlight
  <2>4. Working'
    BY <1>1, <2>1, <2>3 DEF ShutInv, Working, Locked, Sole
  <2>5. \A D : AtRisk(D) => AtRisk(D)'
    BY <2>1, <2>3 DEF AtRisk
  <2>6. Flushed' <=> Flushed
    BY <2>1 DEF Flushed
  <2>7. Stopping'
    BY <1>1, <2>1, <2>5, <2>6 DEF ShutInv, Stopping
  <2>8. QED BY <2>2, <2>4, <2>7
<1>7. QED BY <1>1, <1>2, <1>3, <1>4, <1>5, <1>6 DEF Next, Progress

(* In every behaviour: what is missing from the log of a server that has   *)
(* stopped is one batch at most for each flush that stop() cancelled.      *)
THEOREM ShutdownIsBounded == Spec => []ClosedLog
<1>1. ShutInv => ClosedLog
  <2>1. SUFFICES ASSUME ShutInv, pc["stop"] = "closed"
                 PROVE  Cardinality(emitted \ DOMAIN rows) <= cutOff * MostEvents
    BY DEF ClosedLog, MostEvents
  <2>2. PICK D : AtRisk(D)
    BY <2>1 DEF ShutInv, Stopping
  <2>3. /\ \A s \in Sinks : buffer[s] = <<>>
        /\ threads = {} /\ \A t \in Tasks : flushing[t] = "no"
    BY <2>1, TasksAssumption DEF ShutInv, Stopping, Flushed
  <2>4. \A t \in Tasks : batch[t] = <<>>
    BY <2>1, <2>3 DEF ShutInv, Orderly, Owned
  <2>5. Events(<<>>) = {}
    BY DEF Events
  <2>6. InFlight = {}
    BY <2>3, <2>4, <2>5, InFlightIs
  <2>7. emitted \ DOMAIN rows \subseteq D
    BY <2>2, <2>6 DEF AtRisk, KeptSeqs
  <2>8. IsFiniteSet(D) /\ Cardinality(D) <= cutOff * MostEvents
    BY <2>2 DEF AtRisk
  <2>9. /\ Cardinality(emitted \ DOMAIN rows) <= Cardinality(D)
        /\ Cardinality(emitted \ DOMAIN rows) \in Nat /\ Cardinality(D) \in Nat
    BY <2>7, <2>8, FS_Subset, FS_CardinalityType
  <2>10. PICK top : top = cutOff * MostEvents
    OBVIOUS
  <2>11. Cardinality(emitted \ DOMAIN rows) <= top
    BY <2>8, <2>9, <2>10
  <2>12. QED BY <2>10, <2>11
<1>2. QED BY <1>1, ShutInit, ShutSteps, PTL DEF Spec
-----------------------------------------------------------------------------
(* The sinks by themselves, as module SinkSystem has them: every event in  *)
(* a buffer, a batch or a thread is one that was emitted.                  *)
EventSet == [seq : EventSeqs, body : Tasks]

Travels == Small(Largest) /\ Owned

Bounded ==
  /\ cancels \in Nat
  /\ IsFiniteSet(Lost)
  /\ LossBounded

SystemInv == Holds(EventSet) /\ Travels /\ Bounded

LEMMA LargestIsLargest ==
  Largest \in Nat /\ \A s \in Sinks : Batch[s] <= Largest
<1> DEFINE Sizes == {Batch[s] : s \in Sinks}
           IsLargest(n) == \A s \in Sinks : Batch[s] <= n
<1>1. \E n \in Sizes : IsLargest(n)
  BY LargestAssumption
<1>2. Largest \in Sizes /\ IsLargest(Largest)
  BY <1>1 DEF Largest
<1>3. QED BY <1>2, BatchAssumption

LEMMA LargestLimits == Limit(Largest)
  BY LargestIsLargest DEF Limit

(* A sequence has no more different seqs than places.                      *)
LEMMA FewSeqs ==
  ASSUME NEW E, NEW g \in Seq(E)
  PROVE  LET Q == {e.seq : e \in Events(g)} IN IsFiniteSet(Q) /\ Cardinality(Q) <= Len(g)
<1> DEFINE Q == {e.seq : e \in Events(g)}
           f == [i \in 1 .. Len(g) |-> g[i].seq]
<1>1. Len(g) \in Nat /\ DOMAIN g = 1 .. Len(g)
  BY LenProperties
<1>2. f \in Surjection(1 .. Len(g), Q)
  BY <1>1 DEF Surjection, Events
<1>3. IsFiniteSet(1 .. Len(g)) /\ Cardinality(1 .. Len(g)) = Len(g)
  BY <1>1, FS_Interval
<1>4. QED BY <1>2, <1>3, FS_Surjection
-----------------------------------------------------------------------------
(* Every row stands, whatever is emitted again, flushed or cancelled.      *)
LEMMA StepHolds ==
  ASSUME Holds(EventSet), [SystemNext]_systemVars
  PROVE  Holds(EventSet)' /\ Stand
<1>1. ASSUME rows' = rows PROVE Stand
  BY <1>1 DEF Stand
<1>2. ASSUME NEW t \in Tasks, NEW q \in EventSeqs, EmitEvent(t, q) PROVE Holds(EventSet)' /\ Stand
  <2>1. [seq |-> q, body |-> t] \in EventSet /\ SinkOf[t] \in Sinks
    BY SinkOfAssumption DEF EventSet
  <2>2. QED BY <1>1, <1>2, <2>1, EmitHolds DEF EmitEvent
<1>3. ASSUME NEW t \in Tasks, FlushAtEnd(t) PROVE Holds(EventSet)' /\ Stand
  BY <1>1, <1>3, SinkOfAssumption, FlushHolds DEF FlushAtEnd
<1>4. ASSUME NEW t \in Tasks, Cancel(t) PROVE Holds(EventSet)' /\ Stand
  BY <1>1, <1>4, CancelHolds DEF Cancel
<1>5. ASSUME SystemStore PROVE Holds(EventSet)' /\ Stand
  BY <1>1, <1>5, AcquireHolds, InsertHolds DEF SystemStore, StoreStep
<1>6. CASE UNCHANGED systemVars
  BY <1>6 DEF systemVars, sinkVars, Holds, Stand
<1>7. QED BY <1>2, <1>3, <1>4, <1>5, <1>6 DEF SystemNext

(* "redelivered batches are dropped on conflict" (core/store.py:3-7): a    *)
(* row never changes and never goes (append_many).                         *)
THEOREM FirstWriteWins == SystemSpec => RowsStand
<1>1. SystemInit => Holds(EventSet)
  BY SinkInitHolds DEF SystemInit
<1>2. Holds(EventSet) /\ [SystemNext]_systemVars => Holds(EventSet)'
  BY StepHolds
<1>3. Holds(EventSet) /\ [SystemNext]_systemVars
        => [\A q \in DOMAIN rows : q \in DOMAIN rows' /\ rows'[q] = rows[q]]_systemVars
  BY StepHolds DEF Stand
<1>4. QED BY <1>1, <1>2, <1>3, PTL DEF SystemSpec, RowsStand
-----------------------------------------------------------------------------
(* A step that keeps what is kept, and what it emits, loses nothing.       *)
LEMMA KeptBounds ==
  ASSUME Bounded, cancels' = cancels,
         \A q \in DOMAIN rows : q \in DOMAIN rows',
         \A x : x \in InFlight => x \in InFlight' \/ x.seq \in DOMAIN rows',
         \A q \in issued' \ issued : \E x \in InFlight' : x.seq = q
  PROVE  Bounded'
<1>1. \A q : Kept(q) => Kept(q)'
  BY DEF Kept
<1>2. Lost' \subseteq Lost
  BY <1>1 DEF Lost, Kept
<1>3. IsFiniteSet(Lost') /\ Cardinality(Lost') <= Cardinality(Lost)
      /\ Cardinality(Lost) \in Nat /\ Cardinality(Lost') \in Nat
  BY <1>2, FS_Subset, FS_CardinalityType DEF Bounded
<1>4. QED BY <1>3, LargestIsLargest DEF Bounded, LossBounded

LEMMA StepBounded ==
  ASSUME SystemInv, [SystemNext]_systemVars
  PROVE  SystemInv'
<1>1. Holds(EventSet)' /\ Stand /\ Holds(EventSet) /\ Travels /\ Bounded
  BY StepHolds DEF SystemInv
<1>2. \A q \in DOMAIN rows : q \in DOMAIN rows'
  BY <1>1 DEF Stand
<1>3. ASSUME NEW t \in Tasks, NEW q \in EventSeqs, EmitEvent(t, q) PROVE Travels' /\ Bounded'
  <2> DEFINE e == [seq |-> q, body |-> t]
  <2>1. e \in EventSet /\ e.seq = q /\ SinkOf[t] \in Sinks
    BY SinkOfAssumption DEF EventSet
  <2>2. /\ flushing[t] = "no" /\ Emit(t, SinkOf[t], e)
        /\ issued' = issued \union {q} /\ cancels' = cancels
    BY <1>3 DEF EmitEvent
  <2>3. Travels' /\ e \in InFlight' /\ \A x : x \in InFlight => x \in InFlight'
    BY <1>1, <2>1, <2>2, LargestLimits, EmitSmall, EmitCarries DEF Travels
  <2>4. QED BY <1>1, <1>2, <2>1, <2>2, <2>3, KeptBounds
<1>4. ASSUME NEW t \in Tasks, FlushAtEnd(t) PROVE Travels' /\ Bounded'
  <2>1. Travels' /\ \A x : x \in InFlight => x \in InFlight'
    BY <1>1, <1>4, SinkOfAssumption, LargestLimits, FlushSmall, FlushCarries DEF FlushAtEnd, Travels
  <2>2. cancels' = cancels /\ issued' = issued
    BY <1>4 DEF FlushAtEnd
  <2>3. QED BY <1>1, <1>2, <2>1, <2>2, KeptBounds
<1>5. ASSUME SystemStore PROVE Travels' /\ Bounded'
  <2>1. cancels' = cancels /\ issued' = issued
    BY <1>5 DEF SystemStore
  <2>2. Travels' /\ \A x : x \in InFlight => x \in InFlight' \/ x.seq \in DOMAIN rows'
    BY <1>1, <1>5, LargestLimits, AcquireSmall, AcquireCarries, InsertSmall, InsertCarries
       DEF SystemStore, StoreStep, Travels
  <2>3. QED BY <1>1, <1>2, <2>1, <2>2, KeptBounds
<1>6. ASSUME NEW t \in Tasks, Cancel(t) PROVE Travels' /\ Bounded'
  <2>1. /\ flushing[t] # "no" /\ CancelAll({t})
        /\ cancels' = cancels + 1 /\ issued' = issued
    BY <1>6 DEF Cancel
  <2>2. Travels' /\ \A x : x \in InFlight => x \in InFlight' \/ x \in Load[t]
    BY <1>1, <2>1, LargestLimits, CancelSmall, CancelCarries DEF Travels
  <2>3. PICK g \in Seq(EventSet) :
          /\ Len(g) <= Largest
          /\ \A x : x \in InFlight => x \in InFlight' \/ x \in Events(g)
    BY <1>1, <2>1, <2>2, LoadIsSmall DEF Travels
  <2> DEFINE Q == {x.seq : x \in Events(g)}
  <2>4. IsFiniteSet(Q) /\ Cardinality(Q) <= Largest /\ Cardinality(Q) \in Nat
    <3>1. IsFiniteSet(Q) /\ Cardinality(Q) <= Len(g)
      BY FewSeqs
    <3>2. Cardinality(Q) \in Nat /\ Len(g) \in Nat
      BY <3>1, FS_CardinalityType
    <3>3. QED BY <2>3, <3>1, <3>2, LargestIsLargest
  <2>5. \A q : Kept(q) => Kept(q)' \/ q \in Q
    BY <1>2, <2>3 DEF Kept
  <2>6. Lost' \subseteq Lost \union Q
    BY <2>1, <2>5 DEF Lost
  <2>7. IsFiniteSet(Lost) /\ Cardinality(Lost) \in Nat /\ Cardinality(Lost) <= cancels * Largest
    BY <1>1, FS_CardinalityType DEF Bounded, LossBounded
  <2>8. /\ IsFiniteSet(Lost \union Q)
        /\ Cardinality(Lost \union Q) <= Cardinality(Lost) + Cardinality(Q)
    <3>1. /\ IsFiniteSet(Lost \union Q)
          /\ Cardinality(Lost \union Q) =
               Cardinality(Lost) + Cardinality(Q) - Cardinality(Lost \cap Q)
      BY <2>4, <2>7, FS_Union
    <3>2. Cardinality(Lost \cap Q) \in Nat
      BY <2>7, FS_Subset, FS_CardinalityType
    <3>3. QED BY <2>4, <2>7, <3>1, <3>2
  <2>9. /\ IsFiniteSet(Lost') /\ Cardinality(Lost') <= Cardinality(Lost \union Q)
        /\ Cardinality(Lost') \in Nat /\ Cardinality(Lost \union Q) \in Nat
    BY <2>6, <2>8, FS_Subset, FS_CardinalityType
  <2>10. cancels \in Nat /\ (cancels + 1) * Largest = cancels * Largest + Largest
         /\ cancels * Largest \in Nat
    BY <1>1, LargestIsLargest DEF Bounded
  <2>11. Cardinality(Lost') <= cancels' * Largest /\ cancels' \in Nat
    BY <2>1, <2>4, <2>7, <2>8, <2>9, <2>10, LargestIsLargest
  <2>12. QED BY <2>2, <2>9, <2>11 DEF Bounded, LossBounded
<1>7. ASSUME UNCHANGED systemVars PROVE Travels' /\ Bounded'
  <2>1. UNCHANGED <<sinkVars, issued, emits, cancels>>
    BY <1>7 DEF systemVars
  <2>2. Travels'
    BY <1>1, <2>1 DEF sinkVars, Travels, Small, Owned
  <2>3. \A x : x \in InFlight => x \in InFlight'
    BY <2>1, InFlightIs, InFlightThen DEF sinkVars
  <2>4. rows' = rows /\ issued' = issued /\ cancels' = cancels
    BY <2>1 DEF sinkVars
  <2>5. issued' \ issued = {}
    BY <2>4
  <2>6. Bounded'
    <3>1. \A q \in issued' \ issued : \E x \in InFlight' : x.seq = q
      BY <2>5
    <3>2. \A x : x \in InFlight => x \in InFlight' \/ x.seq \in DOMAIN rows'
      BY <2>3
    <3>3. cancels' = cancels
      BY <2>4
    <3>4. QED BY <1>1, <1>2, <3>1, <3>2, <3>3, KeptBounds
  <2>7. QED BY <2>2, <2>6
<1>8. QED BY <1>1, <1>3, <1>4, <1>5, <1>6, <1>7 DEF SystemNext, SystemInv

LEMMA InitBounded == SystemInit => SystemInv
<1> SUFFICES ASSUME SystemInit PROVE SystemInv
  OBVIOUS
<1>1. Holds(EventSet)
  BY SinkInitHolds DEF SystemInit
<1>2. Travels
  BY LargestIsLargest, BatchAssumption DEF SystemInit, SinkInit, Travels, Small, Owned
<1>3. Lost = {} /\ cancels = 0
  BY DEF SystemInit, Lost
<1>4. Bounded
  BY <1>3, FS_EmptySet, LargestIsLargest DEF Bounded, LossBounded
<1>5. QED BY <1>1, <1>2, <1>4 DEF SystemInv

(* Cancelling a task costs one batch at most (_Sink.emit, flush): with no  *)
(* cancellation every emitted event is stored or on its way, and after k   *)
(* of them no more than k batches are missing.                             *)
THEOREM LossIsBounded == SystemSpec => []LossBounded
<1>1. SystemInv => LossBounded
  BY DEF SystemInv, Bounded
<1>2. QED BY <1>1, InitBounded, StepBounded, PTL DEF SystemSpec
=============================================================================
