---------------------------- MODULE DriftProofs ----------------------------
(***************************************************************************)
(* What the drift service adds to the fleet: a consumer of its own of the  *)
(* request stream, an alarm on the alarms stream, and the reset of the     *)
(* detectors it causes.  The proofs rest on those of FleetProofs: every    *)
(* step is one of the fleet, one of the drift service, or the reset.       *)
(***************************************************************************)
EXTENDS DriftFleet, FleetProofs, SequenceTheorems

Observed == <<"requests", "drift">>
Alarms == <<"alarms", "decision">>

(* The drift service holds a request but when it waits for one.            *)
DriftStands ==
  /\ held["drift"] = Nothing <=> pc["drift"] = "next"
  /\ pc["drift"] \in {"next", "observe", "alarm", "ack"}

LEMMA DriftReads ==
  /\ "drift" \in Consumers /\ "drift" \in Tasks /\ "drift" \notin Workers /\ "drift" \notin Relays
  /\ Sole(Observed, "drift") /\ BP!Readers["drift"] = {Observed}
  /\ Sole(Alarms, "decision")
<1>1. /\ "drift" \in Consumers /\ "decision" \in Consumers /\ Workers \subseteq Consumers
      /\ "drift" \notin Workers /\ "decision" \notin Workers /\ "drift" \in Tasks
  BY SubsFact, WorkersAssumption, MonitoredAssumption DEF Consumers, Services, Tasks
<1>2. \A c \in Consumers : BP!Readers[c] = {<<s, GroupOf[c]>> : s \in BP!Range(Subs[c])}
  BY DEF BP!Readers
<1>3. /\ GroupOf["drift"] = "drift" /\ GroupOf["decision"] = "decision"
      /\ \A c \in Consumers : c # "drift" => GroupOf[c] # "drift"
      /\ \A c \in Consumers : c # "decision" => GroupOf[c] # "decision"
  BY <1>1 DEF GroupOf
<1>4. Subs["decision"] = <<"verdicts", "alarms">> /\ Subs["drift"] = <<"requests">>
  BY <1>1, MonitoredAssumption DEF Subs
<1>5. /\ BP!Range(<<"requests">>) = {"requests"}
      /\ BP!Range(<<"verdicts", "alarms">>) = {"verdicts", "alarms"}
  BY DEF BP!Range
<1>6. BP!Readers["drift"] = {Observed} /\ Alarms \in BP!Readers["decision"]
  BY <1>1, <1>2, <1>3, <1>4, <1>5 DEF Observed, Alarms
<1>7. \A c \in Consumers : \A r \in BP!Readers[c] : r[2] = GroupOf[c]
  BY <1>2
<1>8. Observed[2] = "drift" /\ Alarms[2] = "decision"
  BY DEF Observed, Alarms
<1>9. "drift" \notin Relays
  BY <1>1 DEF Relays
<1>10. QED BY <1>1, <1>3, <1>6, <1>7, <1>8, <1>9 DEF Sole

(* The request in its hands.                                               *)
LEMMA ObservedWork ==
  ASSUME FleetInv, held["drift"] # Nothing
  PROVE  /\ held["drift"] = <<Observed, held["drift"][2]>>
         /\ Job["drift"] = held["drift"][2] /\ Job["drift"] = Payload("drift")
         /\ Job["drift"] \in 1 .. N /\ Job["drift"] <= sent /\ Job["drift"] # Nothing
<1>1. BP!IInv /\ Published
  BY DEF FleetInv
<1>2. /\ held["drift"] = <<held["drift"][1], held["drift"][2]>>
      /\ held["drift"][1] \in BP!Readers["drift"]
      /\ held["drift"][2] \in DOMAIN log[held["drift"][1][1]]
  BY <1>1, DriftReads, HeldFacts
<1>3. held["drift"][1] = Observed /\ Observed[1] = "requests"
  BY <1>2, DriftReads DEF Observed
<1>4. /\ sent \in 0 .. N /\ Len(log["requests"]) = sent
      /\ \A k \in 1 .. sent : log["requests"][k] = <<"request", k>>
  BY <1>1 DEF Published
<1>5. log["requests"] \in Seq(Payloads)
  BY <1>1 DEF BP!IInv, BP!TypeOK, BP!BusTypeOK, Streams
<1>6. PICK k : k = held["drift"][2]
  OBVIOUS
<1>7. k \in 1 .. sent
  BY <1>2, <1>3, <1>4, <1>5, <1>6
<1>8. Job["drift"] = k /\ Job["drift"] = Payload("drift")
  BY <1>3, <1>4, <1>6, <1>7, DriftReads, JobIs
<1>9. k \in 1 .. N /\ k <= sent
  BY <1>4, <1>7, RequestsAssumption
<1>10. k # Nothing
  BY <1>9, NothingAssumption
<1>11. QED BY <1>2, <1>3, <1>6, <1>8, <1>9, <1>10

(* What a step of the drift service leaves alone.                          *)
LEMMA DriftMoves ==
  ASSUME FleetInv, DriftStands, Drift
  PROVE  /\ Others("drift") /\ (UNCHANGED <<decisionVars, runnerVars>>) /\ phase = "running"
         /\ flushing["drift"] = "no" /\ UNCHANGED <<gatedAt, gatedAfter>>
         /\ \A s \in Streams : s # "alarms" => log'[s] = log[s]
         /\ DriftStands' /\ FleetInv'
<1>1. /\ "drift" \in Consumers /\ "drift" \in Tasks /\ "drift" \in Tasks \ Workers /\ "drift" \notin Relays
      /\ {"observe", "alarm", "ack"} \subseteq Places /\ "alarms" \in Streams
      /\ "drift_alarm" \in Kinds
  BY DriftReads DEF Places, Streams, Kinds
<1>2. CASE DriftReceive
  <2>1. Receive("drift", "observe") /\ UNCHANGED driftVars
    BY <1>2 DEF DriftReceive
  <2>2. FleetInv'
    BY <1>1, <2>1, ReceiveStep
  <2>3. /\ Others("drift") /\ UNCHANGED log /\ pc'["drift"] = "observe" /\ held'["drift"] # Nothing
        /\ flushing["drift"] = "no" /\ phase = "running" /\ UNCHANGED <<decisionVars, runnerVars>>
    BY <1>1, <2>1, Receives
  <2>4. QED BY <2>1, <2>2, <2>3 DEF DriftStands, driftVars
<1>3. CASE DriftObserve
  <2>1. /\ At("drift", "observe") /\ UNCHANGED <<decisionVars, gatedAt, gatedAfter>>
        /\ \/ EmitAndGo("drift", "drift", Event(Payload("drift"), 7, "drift_alarm"), "alarm")
           \/ (UNCHANGED <<busVars, sinkVars, chaosVars, runnerVars, sent>>) /\ GoTo("drift", "ack")
    BY <1>3 DEF DriftObserve
  <2>2. PICK q \in {"alarm", "ack"} : /\ GoTo("drift", q)
                                      /\ UNCHANGED <<busVars, chaosVars, runnerVars, sent>>
    BY <2>1 DEF EmitAndGo
  <2>3. FleetInv'
    <3>1. q \in Places /\ q \notin {"next", "start"}
      BY <1>1, <2>2
    <3>2. UNCHANGED <<busVars, chaosVars, sent>>
      BY <2>2
    <3>3. "drift" \notin Workers
      BY <1>1
    <3>4. QED BY <1>1, <2>1, <2>2, <3>1, <3>2, <3>3, InnerStep
  <2>4. /\ Others("drift") /\ UNCHANGED <<log, held>> /\ pc["drift"] = "observe" /\ pc'["drift"] = q
        /\ flushing["drift"] = "no" /\ phase = "running"
    BY <1>1, <2>1, <2>2, Inner
  <2>5. QED BY <2>1, <2>2, <2>3, <2>4 DEF DriftStands
<1>4. CASE DriftPublish
  <2>1. /\ At("drift", "alarm") /\ UNCHANGED <<decisionVars, driftVars, sent>>
        /\ PublishAndGo("drift", "alarms", "drift_alarm", Payload("drift"), "ack")
    BY <1>4 DEF DriftPublish
  <2>2. pc["drift"] = "alarm" /\ held["drift"] # Nothing
    BY <2>1 DEF At, DriftStands
  <2>3. PICK i \in (1 .. N) \union Shares : i = Payload("drift")
    BY <2>2, ObservedWork
  <2>4. PublishAndGo("drift", "alarms", "drift_alarm", i, "ack")
    BY <2>1, <2>3
  <2>5. FleetInv'
    <3>1. B!Publish("alarms", <<"drift_alarm", i>>) /\ GoTo("drift", "ack") /\ UNCHANGED chaosVars
      BY <2>4 DEF PublishAndGo
    <3>2. Emission("drift", "alarm", "ack")
      BY <1>1 DEF Emission, Onward
    <3>3. At("drift", "alarm") /\ sent' = sent
      BY <2>1
    <3>4. "alarms" \in {"alarms", "control"} /\ ("alarms" = "control" => "drift_alarm" = "share_update")
      OBVIOUS
    <3>5. "ack" \in Places
      BY <1>1
    <3>6. QED BY <1>1, <3>1, <3>2, <3>3, <3>4, <3>5, AsidePublishStep
  <2>6. /\ Others("drift") /\ UNCHANGED <<held, cursor, pending>>
        /\ \A r \in Streams : r # "alarms" => log'[r] = log[r]
        /\ pc'["drift"] = "ack" /\ flushing["drift"] = "no" /\ phase = "running"
        /\ UNCHANGED runnerVars
    BY <1>1, <2>1, <2>4, Publishes
  <2>7. QED BY <2>1, <2>2, <2>5, <2>6 DEF DriftStands, driftVars
<1>5. CASE DriftAcknowledge
  <2>1. Acknowledge("drift") /\ UNCHANGED driftVars
    BY <1>5 DEF DriftAcknowledge
  <2>2. FleetInv'
    BY <1>1, <2>1, AckStep
  <2>3. /\ Others("drift") /\ UNCHANGED log /\ pc'["drift"] = "next" /\ held'["drift"] = Nothing
        /\ flushing["drift"] = "no" /\ phase = "running" /\ UNCHANGED <<decisionVars, runnerVars>>
    BY <1>1, <2>1, Acks
  <2>4. QED BY <2>1, <2>2, <2>3 DEF DriftStands, driftVars
<1>6. CASE DriftPoll
  <2>1. Poll("drift") /\ UNCHANGED driftVars
    BY <1>6 DEF DriftPoll
  <2>2. FleetInv'
    BY <1>1, <2>1, PollStep
  <2>3. /\ UNCHANGED <<busVars, pc, decisionVars, runnerVars>> /\ Others("drift")
        /\ flushing["drift"] = "no" /\ phase = "running"
    BY <2>1, Polls
  <2>4. QED BY <2>1, <2>2, <2>3 DEF DriftStands, driftVars, busVars
<1>7. QED BY <1>2, <1>3, <1>4, <1>5, <1>6 DEF Drift

LEMMA DriftAlone ==
  ASSUME FleetInv, Drift, NEW ch, NEW c, Sole(ch, c), Alone(ch, c), c # "drift"
  PROVE  Alone(ch, c)' /\ cursor'[ch] = cursor[ch]
<1>1. /\ "drift" \in Consumers /\ "drift" \in Tasks /\ {"observe", "alarm", "ack"} \subseteq Places
      /\ BP!IInv /\ c \in Consumers /\ ch \in BP!Channels
  BY DriftReads DEF Places, FleetInv, Sole, BP!Channels
<1>2. ASSUME B!Take("drift") \/ B!Ack("drift") PROVE Alone(ch, c)' /\ cursor'[ch] = cursor[ch]
  BY <1>1, <1>2, OthersLeave
<1>3. ASSUME UNCHANGED <<held, cursor, pending>> PROVE Alone(ch, c)' /\ cursor'[ch] = cursor[ch]
  BY <1>3 DEF Alone
<1>4. CASE DriftReceive \/ DriftAcknowledge
  BY <1>2, <1>4 DEF DriftReceive, DriftAcknowledge, Receive, Acknowledge
<1>5. CASE DriftObserve
  <2>1. UNCHANGED busVars
    BY <1>5, Zenon DEF DriftObserve, EmitAndGo
  <2>2. QED BY <1>3, <2>1 DEF busVars
<1>6. CASE DriftPublish
  <2>1. UNCHANGED <<held, cursor, pending>>
    BY <1>6 DEF DriftPublish, PublishAndGo, B!Publish
  <2>2. QED BY <1>3, <2>1
<1>7. CASE DriftPoll
  BY <1>3, <1>7 DEF DriftPoll, Poll, busVars
<1>8. QED BY <1>4, <1>5, <1>6, <1>7 DEF Drift

(* What it publishes.                                                      *)
LEMMA DriftAlarms ==
  ASSUME FleetInv, DriftStands, Drift
  PROVE  \/ log'["alarms"] = log["alarms"] /\ ~DriftPublish
         \/ /\ pc["drift"] = "alarm" /\ pc'["drift"] = "ack" /\ held["drift"] # Nothing
            /\ log["alarms"] \in Seq(Payloads) /\ UNCHANGED <<held, monitor, sinkVars>>
            /\ log'["alarms"] = Append(log["alarms"], <<"drift_alarm", Job["drift"]>>)
<1>1. /\ "drift" \in Consumers /\ "drift" \in Tasks /\ {"observe", "alarm", "ack"} \subseteq Places
      /\ "alarms" \in Streams /\ "drift_alarm" \in Kinds
  BY DriftReads DEF Places, Streams, Kinds
<1>2. CASE DriftPublish
  <2>1. /\ At("drift", "alarm") /\ UNCHANGED driftVars
        /\ PublishAndGo("drift", "alarms", "drift_alarm", Payload("drift"), "ack")
    BY <1>2 DEF DriftPublish
  <2>2. pc["drift"] = "alarm" /\ held["drift"] # Nothing
    BY <2>1 DEF At, DriftStands
  <2>3. PICK i \in (1 .. N) \union Shares : i = Payload("drift") /\ i = Job["drift"]
    BY <2>2, ObservedWork
  <2>4. PublishAndGo("drift", "alarms", "drift_alarm", i, "ack")
    BY <2>1, <2>3
  <2>5. /\ UNCHANGED <<held, cursor, pending>> /\ UNCHANGED sinkVars /\ pc'["drift"] = "ack"
        /\ log["alarms"] \in Seq(Payloads)
        /\ log'["alarms"] = Append(log["alarms"], <<"drift_alarm", i>>)
    BY <1>1, <2>1, <2>4, Publishes
  <2>6. QED BY <2>1, <2>2, <2>3, <2>5 DEF driftVars
<1>3. CASE ~DriftPublish
  <2>1. CASE DriftReceive \/ DriftAcknowledge \/ DriftPoll
    BY <1>1, <1>3, <2>1, Receives, Acks, Polls
       DEF DriftReceive, DriftAcknowledge, DriftPoll, busVars
  <2>2. CASE DriftObserve
    <3>1. UNCHANGED busVars
      BY <2>2, Zenon DEF DriftObserve, EmitAndGo
    <3>2. QED BY <1>3, <3>1 DEF busVars
  <2>3. QED BY <1>3, <2>1, <2>2 DEF Drift
<1>4. QED BY <1>2, <1>3

(* The reset: the alarm in its hands is no verdict.                        *)
LEMMA GateMoves ==
  ASSUME FleetInv, Reading, Tallied, DecisionGate
  PROVE  /\ Others("decision") /\ UNCHANGED <<busVars, runnerVars>> /\ Job' = Job
         /\ pc["decision"] = "decide" /\ pc'["decision"] = "ack"
         /\ flushing["decision"] = "no" /\ phase = "running"
         /\ held["decision"] # Nothing /\ ~Undecided /\ ~Undecided'
         /\ Kind("decision") = "drift_alarm" /\ Payload("decision") = Job["decision"]
         /\ S!Emit("decision", "decision", Event(Job["decision"], 8, "test_reset"))
         /\ detectors' = FreshDetectors /\ gatedAfter' = processed /\ gatedAt' = Job["decision"]
         /\ UNCHANGED <<processed, alarmAt, promotedAt, monitor>>
         /\ FleetInv'
<1>1. /\ "decision" \in Consumers /\ "decision" \in Tasks /\ "ack" \in Places /\ "decision" \in Relays
      /\ "decision" \notin Workers
  BY SubsFact, WorkersAssumption DEF Places, Relays
<1>2. PICK i : i = Payload("decision") /\ i = Job["decision"]
  BY <1>1, JobIs
<1>3. /\ At("decision", "decide") /\ Kind("decision") = "drift_alarm"
      /\ EmitAndGo("decision", "decision", Event(i, 8, "test_reset"), "ack")
      /\ detectors' = FreshDetectors /\ gatedAfter' = processed /\ gatedAt' = i
      /\ UNCHANGED <<processed, alarmAt, promotedAt, monitor>>
  BY <1>2 DEF DecisionGate
<1>4. /\ S!Emit("decision", "decision", Event(i, 8, "test_reset")) /\ Others("decision")
      /\ UNCHANGED <<busVars, runnerVars>> /\ Job' = Job
      /\ pc["decision"] = "decide" /\ pc'["decision"] = "ack" /\ flushing["decision"] = "no"
      /\ phase = "running"
  BY <1>1, <1>3, Emits
<1>5. held["decision"] # Nothing
  BY <1>1, <1>4 DEF FleetInv, Standing, Unfed
<1>6. FleetInv'
  <2>1. GoTo("decision", "ack") /\ UNCHANGED <<busVars, chaosVars, sent>>
    BY <1>3 DEF EmitAndGo
  <2>2. "decision" # "router"
    OBVIOUS
  <2>3. QED BY <1>1, <1>3, <2>1, <2>2, InnerStep
<1>7. ~Undecided'
  BY <1>4 DEF Undecided
<1>8. ~Undecided
  <2>1. Undecided => Kind("decision") = "verdict"
    BY VerdictInHand DEF Undecided, Tallied
  <2>2. QED BY <1>3, <2>1
<1>9. QED BY <1>2, <1>3, <1>4, <1>5, <1>6, <1>7, <1>8
-----------------------------------------------------------------------------
(* Every verdict counts once, in the tests that began with the last reset. *)
EvidenceInv == FleetInv /\ Reading /\ Tallied /\ Weighing(gatedAfter) /\ DriftStands

LEMMA EvidenceDrift ==
  ASSUME EvidenceInv, Drift
  PROVE  EvidenceInv'
<1>1. /\ "router" \in Consumers /\ "decision" \in Consumers /\ "drift" \notin {"router", "decision"}
      /\ Sole(Requested, "router") /\ Sole(Verdicts, "decision") /\ {"verdicts", "alarms"} \subseteq Streams
      /\ cursor[Verdicts] \in Nat /\ "decision" \in Tasks /\ "drift" \in Tasks
  BY SubsFact, SoleReaders, VerdictTypes, DriftReads DEF EvidenceInv, Streams
<1>2. FleetInv /\ Reading /\ Tallied /\ DriftStands
  BY DEF EvidenceInv
<1>3. /\ Others("drift") /\ UNCHANGED decisionVars /\ gatedAfter' = gatedAfter
      /\ log'["verdicts"] = log["verdicts"] /\ DriftStands' /\ FleetInv'
  BY <1>1, <1>2, DriftMoves
<1>4. /\ Alone(Requested, "router")' /\ Alone(Verdicts, "decision")'
      /\ cursor'[Verdicts] = cursor[Verdicts]
  BY <1>1, <1>2, DriftAlone DEF Reading
<1>5. Grows("verdicts") /\ UNCHANGED <<processed, detectors>>
  BY <1>1, <1>3 DEF Others, decisionVars
<1>6. Aside("decision")
  <2>1. held'["decision"] = held["decision"] /\ pc'["decision"] = pc["decision"]
    BY <1>1, <1>3 DEF Others
  <2>2. \A s \in Streams : Grows(s)
    BY <1>3 DEF Others
  <2>3. QED BY <1>1, <1>2, <2>1, <2>2, AsideHolds
<1>7. Undecided' = Undecided
  BY <1>6 DEF Aside, Undecided
<1>8. \A k \in DOMAIN log'["alarms"] : log'["alarms"][k][1] # "verdict"
  <2>1. CASE log'["alarms"] = log["alarms"]
    BY <1>2, <2>1 DEF Reading
  <2>2. CASE /\ log["alarms"] \in Seq(Payloads)
             /\ log'["alarms"] = Append(log["alarms"], <<"drift_alarm", Job["drift"]>>)
    <3>1. PICK p : p = <<"drift_alarm", Job["drift"]>>
      OBVIOUS
    <3>2. PICK n \in Nat : n = Len(log["alarms"])
      BY <2>2
    <3>3. /\ DOMAIN log["alarms"] = 1 .. n /\ DOMAIN log'["alarms"] = 1 .. n + 1
          /\ log'["alarms"][n + 1] = p /\ \A k \in 1 .. n : log'["alarms"][k] = log["alarms"][k]
      BY <2>2, <3>1, <3>2
    <3>4. \A k \in 1 .. n + 1 : k \in 1 .. n \/ k = n + 1
      OBVIOUS
    <3>5. p[1] = "drift_alarm"
      BY <3>1
    <3>6. QED BY <1>2, <3>3, <3>4, <3>5 DEF Reading
  <2>3. QED BY <1>2, <2>1, <2>2, DriftAlarms
<1>9. Reading'
  BY <1>2, <1>4, <1>5, <1>7, <1>8 DEF Reading
<1>10. Tallied'
  BY <1>2, <1>3, <1>4, <1>5, <1>7 DEF Tallied
<1>11. Weighing(gatedAfter)'
  <2>1. PICK g : g = gatedAfter
    OBVIOUS
  <2>2. Weighing(g)
    BY <2>1 DEF EvidenceInv
  <2>3. Weighing(g)'
    BY <1>2, <1>5, <1>6, <2>2, WeighingStays
  <2>4. g = gatedAfter'
    BY <1>3, <2>1
  <2>5. QED BY <2>3, <2>4
<1>12. QED BY <1>3, <1>9, <1>10, <1>11 DEF EvidenceInv

LEMMA EvidenceGate ==
  ASSUME EvidenceInv, DecisionGate
  PROVE  EvidenceInv'
<1>1. FleetInv /\ Reading /\ Tallied /\ DriftStands /\ "decision" \in Tasks /\ "drift" \in Consumers
  BY DriftReads, SubsFact DEF EvidenceInv
<1>2. /\ Others("decision") /\ UNCHANGED busVars /\ pc'["decision"] = "ack"
      /\ ~Undecided /\ ~Undecided' /\ detectors' = FreshDetectors /\ gatedAfter' = processed
      /\ processed' = processed /\ FleetInv'
  BY <1>1, GateMoves
<1>3. UNCHANGED <<log, cursor, held, pending>>
  BY <1>2 DEF busVars
<1>4. DriftStands'
  BY <1>1, <1>2, <1>3, DriftReads DEF Others, DriftStands
<1>5. Reading'
  BY <1>1, <1>2, <1>3 DEF Reading, Alone
<1>6. Tallied'
  BY <1>1, <1>2, <1>3 DEF Tallied
<1>7. Weighing(gatedAfter)'
  <2>1. processed \in Nat
    BY <1>1, TalliedTypes
  <2>2. PICK v : v = log'["verdicts"]
    OBVIOUS
  <2>3. Folded(v, processed + 1, processed) = FreshDetectors
    <3>1. PICK g \in Nat : g = processed
      BY <2>1
    <3>2. g + 1 \in Nat \ {0} /\ g < g + 1
      OBVIOUS
    <3>3. Folded(v, g + 1, g) = FreshDetectors
      BY <3>2, FoldedIs
    <3>4. QED BY <3>1, <3>3
  <2>4. QED BY <1>2, <2>1, <2>2, <2>3 DEF Weighing
<1>8. QED BY <1>2, <1>4, <1>5, <1>6, <1>7 DEF EvidenceInv

LEMMA DriftUnmoved ==
  ASSUME FleetInv, DriftStands, NEW t \in Tasks, Acts(t)
  PROVE  t # "drift" /\ Aside("drift") /\ DriftStands'
<1>1. t # "drift"
  BY DriftReads DEF Acts
<1>2. Aside("drift")
  BY <1>1, DriftReads, Bystander
<1>3. QED BY <1>1, <1>2 DEF Aside, DriftStands

LEMMA EvidenceNext ==
  ASSUME Punctual, "ack" \notin Suspends, EvidenceInv, [DriftNext]_allVars
  PROVE  EvidenceInv'
<1>1. CASE Drift
  BY <1>1, EvidenceDrift
<1>2. CASE DecisionGate
  BY <1>2, EvidenceGate
<1>3. CASE [Next]_vars /\ UNCHANGED driftVars
  <2>1. FleetInv /\ Reading /\ Tallied /\ DriftStands
    BY DEF EvidenceInv
  <2>2. PICK t \in Tasks : Acts(t)
    BY <1>3, SomebodyActs
  <2>3. FleetInv'
    BY <1>3, <2>1, NextInv
  <2>4. Reading' /\ Tallied' /\ DriftStands'
    BY <2>1, <2>2, ReadingStep, TalliedStep, DriftUnmoved
  <2>5. PICK g : g = gatedAfter
    OBVIOUS
  <2>6. Weighing(g)
    BY <2>5 DEF EvidenceInv
  <2>7. Weighing(g)'
    BY <2>1, <2>2, <2>6, WeighingStep
  <2>8. g = gatedAfter'
    BY <1>3, <2>5 DEF driftVars
  <2>9. QED BY <2>3, <2>4, <2>7, <2>8 DEF EvidenceInv
<1>4. QED BY <1>1, <1>2, <1>3 DEF DriftNext, allVars

LEMMA EvidenceInit == DriftInit => EvidenceInv
<1> SUFFICES ASSUME DriftInit PROVE EvidenceInv
  OBVIOUS
<1>1. Init /\ gatedAfter = 0
  BY DEF DriftInit
<1>2. FleetInv /\ Reading /\ Tallied /\ Weighing(0)
  BY <1>1, InitOutcome, InitWeighs DEF OutcomeInv
<1>3. pc["drift"] = "next" /\ held["drift"] = Nothing
  <2>1. B!BusInit /\ pc = [t \in Tasks |-> IF t = "decision" THEN "next" ELSE "next"]
    BY <1>1 DEF Init, InitWith
  <2>2. \A c \in Consumers : held[c] = Nothing
    BY <2>1 DEF B!BusInit
  <2>3. QED BY <2>1, <2>2, DriftReads
<1>4. Weighing(gatedAfter)
  BY <1>1, <1>2
<1>5. QED BY <1>2, <1>3, <1>4 DEF EvidenceInv, DriftStands

(* Whatever is killed, reclaimed and judged again, and wherever the alarm  *)
(* comes between two verdicts: the decision service's tests hold exactly   *)
(* the verdicts since the last reset, each once and in stream order        *)
(* (DecisionService.run, src/coalmine/fleet/services.py:376-446).          *)
THEOREM TestsHoldTheEvidence ==
  ASSUME Punctual, "ack" \notin Suspends
  PROVE  DriftSpec => []EvidenceSinceReset
<1>1. DriftInit => EvidenceInv
  BY EvidenceInit
<1>2. EvidenceInv /\ [DriftNext]_allVars => EvidenceInv'
  BY EvidenceNext
<1>3. EvidenceInv => EvidenceSinceReset
  <2>1. SUFFICES ASSUME EvidenceInv, pc["decision"] \in {"next", "ack"}
                 PROVE  detectors = Fed(gatedAfter + 1, processed)
    BY DEF EvidenceSinceReset
  <2>2. processed \in Nat
    BY <2>1, TalliedTypes DEF EvidenceInv
  <2>3. detectors = Folded(log["verdicts"], gatedAfter + 1, processed)
    BY <2>1 DEF EvidenceInv, Weighing
  <2>4. QED BY <2>2, <2>3, FedIs
<1>4. QED BY <1>1, <1>2, <1>3, PTL DEF DriftSpec
-----------------------------------------------------------------------------
(***************************************************************************)
(* The monitor: after n requests it has what it needs of the first n       *)
(* topics, however it trims its buffer.                                    *)
(***************************************************************************)
Start(n) == IF n < Window THEN 1 ELSE IF n < 2 * Window THEN Window + 1 ELSE n - Window + 1

Baseline(n) == IF n < Window THEN Nothing ELSE Counts(Between(1, Window))

MonitorAt(n) ==
  [seen |-> n, buffer |-> Between(Start(n), n), reference |-> Baseline(n), alarmedAt |-> Nothing]

LEMMA BetweenFacts ==
  ASSUME NEW i \in Nat \ {0}, NEW j \in Nat, j <= N, i <= j + 1
  PROVE  /\ Between(i, j) \in Seq(Topics) /\ Len(Between(i, j)) = j - i + 1
         /\ j < N => Append(Between(i, j), Topic[j + 1]) = Between(i, j + 1)
         /\ i <= j => SubSeq(Between(i, j), 2, j - i + 1) = Between(i + 1, j)
<1>1. PICK n \in Nat : n = j - i + 1
  OBVIOUS
<1>2. \A k \in 1 .. n : i + k - 1 \in 1 .. N
  BY <1>1, RequestsAssumption
<1>3. PICK b \in [1 .. n -> Topics] : b = Between(i, j) /\ \A k \in 1 .. n : b[k] = Topic[i + k - 1]
  <2>1. Between(i, j) = [k \in 1 .. n |-> Topic[i + k - 1]]
    BY <1>1 DEF Between
  <2>2. \A k \in 1 .. n : Topic[i + k - 1] \in Topics
    BY <1>2 DEF Topics
  <2>3. QED BY <2>1, <2>2
<1>4. b \in Seq(Topics) /\ Len(b) = n
  BY <1>3
<1>5. ASSUME j < N PROVE Append(b, Topic[j + 1]) = Between(i, j + 1)
  <2>1. j + 1 \in 1 .. N
    BY <1>5, RequestsAssumption
  <2>2. PICK x \in Topics : x = Topic[j + 1]
    BY <2>1 DEF Topics
  <2>3. Append(b, x) \in [1 .. n + 1 -> Topics]
    <3>1. Append(b, x) \in Seq(Topics) /\ Len(Append(b, x)) = n + 1
      BY <1>4
    <3>2. PICK a \in Seq(Topics) : a = Append(b, x) /\ Len(a) = n + 1
      BY <3>1
    <3>3. a \in [1 .. n + 1 -> Topics]
      BY <3>2, LenProperties
    <3>4. QED BY <3>2, <3>3
  <2>4. Append(b, x)[n + 1] = x /\ \A k \in 1 .. n : Append(b, x)[k] = b[k]
    BY <1>4
  <2>5. n + 1 = (j + 1) - i + 1 /\ i + (n + 1) - 1 = j + 1
    BY <1>1
  <2>6. \A k \in 1 .. n + 1 : Append(b, x)[k] = Topic[i + k - 1]
    <3>1. SUFFICES ASSUME NEW k \in 1 .. n + 1 PROVE Append(b, x)[k] = Topic[i + k - 1]
      OBVIOUS
    <3>2. CASE k = n + 1
      BY <2>2, <2>4, <2>5, <3>2
    <3>3. CASE k # n + 1
      <4>1. k \in 1 .. n
        BY <3>3
      <4>2. QED BY <1>3, <2>4, <4>1
    <3>4. QED BY <3>2, <3>3
  <2>7. Append(b, x) = [k \in 1 .. n + 1 |-> Topic[i + k - 1]]
    BY <2>3, <2>6
  <2>8. QED BY <2>2, <2>5, <2>7 DEF Between
<1>6. ASSUME i <= j PROVE SubSeq(b, 2, n) = Between(i + 1, j)
  <2>1. n \in 1 .. n /\ 2 <= n + 1
    BY <1>1, <1>6
  <2>2. SubSeq(b, 2, n) = [k \in 1 .. n - 1 |-> b[2 + k - 1]]
    BY <1>4, <2>1
  <2>3. \A k \in 1 .. n - 1 : b[2 + k - 1] = Topic[(i + 1) + k - 1]
    <3>1. SUFFICES ASSUME NEW k \in 1 .. n - 1 PROVE b[2 + k - 1] = Topic[(i + 1) + k - 1]
      OBVIOUS
    <3>2. 2 + k - 1 \in 1 .. n /\ i + (2 + k - 1) - 1 = (i + 1) + k - 1
      OBVIOUS
    <3>3. QED BY <1>3, <3>2
  <2>4. n - 1 = j - (i + 1) + 1
    BY <1>1
  <2>5. QED BY <2>2, <2>3, <2>4 DEF Between
<1>7. QED BY <1>1, <1>3, <1>4, <1>5, <1>6

LEMMA CountsType == ASSUME NEW s \in Seq(Topics) PROVE Counts(s) \in [Topics -> Nat] /\ Counts(s) # Nothing
<1>1. ASSUME NEW t \in Topics PROVE Cardinality({i \in DOMAIN s : s[i] = t}) \in Nat
  <2>1. IsFiniteSet(1 .. Len(s))
    BY FS_Interval
  <2>2. {i \in DOMAIN s : s[i] = t} \subseteq 1 .. Len(s)
    OBVIOUS
  <2>3. QED BY <2>1, <2>2, FS_Subset, FS_CardinalityType
<1>2. Counts(s) \in [Topics -> Nat]
  BY <1>1 DEF Counts
<1>3. QED BY <1>2, ReferenceAssumption

(* The next request: it raises the alarm if it is one that calls for it.   *)
LEMMA ObserveIs ==
  ASSUME NEW n \in Nat, n < N
  PROVE  /\ n + 1 \in DriftDue =>
              LET m == Observe(MonitorAt(n), Topic[n + 1]) IN m.alarmedAt = n + 1 /\ m.seen = n + 1
         /\ n + 1 \notin DriftDue => Observe(MonitorAt(n), Topic[n + 1]) = MonitorAt(n + 1)
<1> DEFINE m == MonitorAt(n)
           topics == Append(Between(Start(n), n), Topic[n + 1])
<1>1. Window \in Nat \ {0} /\ N \in Nat /\ n <= N /\ n + 1 \in Nat /\ n + 1 <= N
  BY WindowAssumption, RequestsAssumption
<1>2. /\ m.seen = n /\ m.buffer = Between(Start(n), n) /\ m.reference = Baseline(n)
      /\ m.alarmedAt = Nothing
  BY DEF MonitorAt
<1>3. Start(n) \in Nat \ {0} /\ Start(n) <= n + 1
  BY <1>1 DEF Start
<1>4. topics = Between(Start(n), n + 1)
  BY <1>1, <1>3, BetweenFacts
<1>5. Len(topics) = n + 1 - Start(n) + 1 /\ topics \in Seq(Topics)
  <2>1. Start(n) <= (n + 1) + 1
    BY <1>1, <1>3
  <2>2. Between(Start(n), n + 1) \in Seq(Topics) /\ Len(Between(Start(n), n + 1)) = (n + 1) - Start(n) + 1
    BY <1>1, <1>3, <2>1, BetweenFacts
  <2>3. (n + 1) - Start(n) + 1 = n + 1 - Start(n) + 1
    BY <1>1, <1>3
  <2> HIDE DEF topics
  <2>4. QED BY <1>4, <2>2, <2>3
<1>6. Observe(m, Topic[n + 1]) =
        IF Baseline(n) = Nothing THEN Collect(m, n + 1, topics) ELSE Score(m, n + 1, topics)
  <2> HIDE DEF m
  <2>1. QED BY <1>2 DEF Observe
<1>7. Baseline(n) = Nothing <=> n < Window
  <2>1. CASE n < Window
    BY <2>1 DEF Baseline
  <2>2. CASE ~(n < Window)
    <3>1. Between(1, Window) \in Seq(Topics)
      <4>1. 1 \in Nat \ {0} /\ Window \in Nat /\ Window <= N /\ 1 <= Window + 1
        BY <1>1, <2>2
      <4>2. QED BY <4>1, BetweenFacts
    <3>2. QED BY <2>2, <3>1, CountsType DEF Baseline
  <2>3. QED BY <2>1, <2>2
<1>8. CASE n < Window
  <2>1. Start(n) = 1
    BY <1>8 DEF Start
  <2>2. n + 1 \notin DriftDue
    <3>1. n + 1 < 2 * Window
      BY <1>1, <1>8
    <3>2. QED BY <1>1, <3>1 DEF DriftDue
  <2>3. CASE n + 1 = Window
    <3>1. Start(n + 1) = Window + 1
      BY <1>1, <2>3 DEF Start
    <3>2. Between(Start(n + 1), n + 1) = <<>>
      <4>1. Len(Between(Window + 1, Window)) = 0 /\ Between(Window + 1, Window) \in Seq(Topics)
        BY <1>1, <2>3, BetweenFacts
      <4>2. QED BY <2>3, <3>1, <4>1
    <3>3. Baseline(n + 1) = Counts(topics)
      BY <1>1, <1>4, <2>1, <2>3 DEF Baseline
    <3>4. Collect(m, n + 1, topics) =
            [m EXCEPT !.seen = n + 1, !.buffer = <<>>, !.reference = Counts(topics)]
      BY <2>3 DEF Collect
    <3>5. Collect(m, n + 1, topics) = MonitorAt(n + 1)
      <4>1. PICK b, r, b0 : /\ b = Between(Start(n + 1), n + 1) /\ r = Baseline(n + 1)
                            /\ b0 = Between(Start(n), n)
        OBVIOUS
      <4>2. PICK r0 : r0 = Baseline(n)
        OBVIOUS
      <4>3. m = [seen |-> n, buffer |-> b0, reference |-> r0, alarmedAt |-> Nothing]
        BY <4>1, <4>2 DEF MonitorAt
      <4>4. MonitorAt(n + 1) = [seen |-> n + 1, buffer |-> b, reference |-> r, alarmedAt |-> Nothing]
        BY <4>1 DEF MonitorAt
      <4>5. Collect(m, n + 1, topics) = [m EXCEPT !.seen = n + 1, !.buffer = b, !.reference = r]
        BY <3>2, <3>3, <3>4, <4>1
      <4>6. QED
        <5> HIDE DEF m
        <5>1. QED BY <4>3, <4>4, <4>5
    <3>6. QED BY <1>6, <1>7, <1>8, <2>2, <3>5
  <2>4. CASE n + 1 # Window
    <3>1. Start(n + 1) = 1 /\ n + 1 < Window
      BY <1>1, <1>8, <2>4 DEF Start
    <3>2. Baseline(n) = Nothing /\ Baseline(n + 1) = Nothing
      BY <1>8, <3>1 DEF Baseline
    <3>3. Collect(m, n + 1, topics) = [m EXCEPT !.seen = n + 1, !.buffer = topics]
      BY <2>4 DEF Collect
    <3>4. PICK b, b0 : b = Between(Start(n + 1), n + 1) /\ b0 = Between(Start(n), n)
      OBVIOUS
    <3>5. m = [seen |-> n, buffer |-> b0, reference |-> Nothing, alarmedAt |-> Nothing]
      BY <3>2, <3>4 DEF MonitorAt
    <3>6. MonitorAt(n + 1) = [seen |-> n + 1, buffer |-> b, reference |-> Nothing, alarmedAt |-> Nothing]
      BY <3>2, <3>4 DEF MonitorAt
    <3>7. topics = b
      BY <1>4, <2>1, <3>1, <3>4
    <3>8. Collect(m, n + 1, topics) = MonitorAt(n + 1)
      <4> HIDE DEF m, topics
      <4>1. QED BY <3>3, <3>5, <3>6, <3>7
    <3>9. QED BY <1>6, <1>7, <1>8, <2>2, <3>8
  <2>5. QED BY <2>3, <2>4
<1>9. CASE ~(n < Window)
  <2>1. PICK w : w = Between(Start(n + 1), n + 1)
    OBVIOUS
  <2>2. Latest(topics) = w
    <3>1. CASE n < 2 * Window
      <4>1. Start(n) = Window + 1 /\ Start(n + 1) = Window + 1
        BY <1>1, <1>9, <3>1 DEF Start
      <4>2. ~(Len(topics) > Window)
        BY <1>1, <1>5, <3>1, <4>1
      <4>3. QED BY <1>4, <2>1, <4>1, <4>2 DEF Latest
    <3>2. CASE ~(n < 2 * Window)
      <4>1. Start(n) = n - Window + 1 /\ Start(n + 1) = (n - Window + 1) + 1
        BY <1>1, <1>9, <3>2 DEF Start
      <4>2. Len(topics) = Window + 1
        BY <1>1, <1>5, <4>1
      <4>3. Latest(topics) = SubSeq(topics, 2, Window + 1)
        <5>1. Len(topics) > Window /\ Len(topics) - Window + 1 = 2
          BY <1>1, <4>2
        <5>2. QED BY <4>2, <5>1 DEF Latest
      <4>4. PICK i \in Nat \ {0} : i = n - Window + 1 /\ i <= n + 1 /\ (n + 1) - i + 1 = Window + 1
        BY <1>1, <1>9
      <4>5. SubSeq(Between(i, n + 1), 2, (n + 1) - i + 1) = Between(i + 1, n + 1)
        <5>1. i <= (n + 1) + 1 /\ i <= n + 1
          BY <4>4
        <5>2. QED BY <1>1, <5>1, BetweenFacts
      <4>6. QED BY <1>4, <2>1, <4>1, <4>3, <4>4, <4>5
    <3>3. QED BY <3>1, <3>2
  <2>3. Start(n + 1) \in Nat \ {0} /\ Start(n + 1) <= (n + 1) + 1
    BY <1>1 DEF Start
  <2>4. Len(w) = (n + 1) - Start(n + 1) + 1
    BY <1>1, <2>1, <2>3, BetweenFacts
  <2>5. Len(w) = Window <=> n + 1 >= 2 * Window
    <3>1. CASE n + 1 < 2 * Window
      <4>1. Start(n + 1) = Window + 1
        BY <1>1, <1>9, <3>1 DEF Start
      <4>2. QED BY <1>1, <2>4, <3>1, <4>1
    <3>2. CASE n + 1 >= 2 * Window
      <4>1. Start(n + 1) = (n + 1) - Window + 1
        BY <1>1, <1>9, <3>2 DEF Start
      <4>2. QED BY <1>1, <2>4, <3>2, <4>1
    <3>3. QED BY <1>1, <3>1, <3>2
  <2>6. n + 1 >= 2 * Window => w = Between((n + 1) - Window + 1, n + 1)
    BY <1>1, <2>1 DEF Start
  <2>7. Baseline(n) = Counts(Between(1, Window)) /\ Baseline(n + 1) = Counts(Between(1, Window))
    BY <1>1, <1>9 DEF Baseline
  <2>8. PICK r : r = Counts(Between(1, Window))
    OBVIOUS
  <2>9. n + 1 \in DriftDue <=>
          n + 1 >= 2 * Window /\ (n + 1) % Stride = 0 /\ Drifted(r, Counts(w))
    <3>1. n + 1 \in DriftDue <=>
            /\ n + 1 \in 2 * Window .. N /\ (n + 1) % Stride = 0
            /\ Drifted(Counts(Between(1, Window)), Counts(Between((n + 1) - Window + 1, n + 1)))
      BY Zenon DEF DriftDue
    <3>2. n + 1 \in 2 * Window .. N <=> n + 1 >= 2 * Window
      BY <1>1
    <3>3. QED BY <2>6, <2>8, <3>1, <3>2
  <2>10. PICK a : a = IF n + 1 \in DriftDue THEN n + 1 ELSE Nothing
    OBVIOUS
  <2>11. Score(m, n + 1, topics) = [m EXCEPT !.seen = n + 1, !.buffer = w, !.alarmedAt = a]
    <3>1. m.reference = r
      BY <1>2, <2>7, <2>8
    <3>2. (Len(w) = Window /\ (n + 1) % Stride = 0) /\ Drifted(m.reference, Counts(w)) <=> n + 1 \in DriftDue
      BY <2>5, <2>9, <3>1
    <3> HIDE DEF m, topics
    <3>3. QED BY <2>2, <2>10, <3>2, Zenon DEF Score
  <2>12. PICK b0 : b0 = Between(Start(n), n)
    OBVIOUS
  <2>13. m = [seen |-> n, buffer |-> b0, reference |-> r, alarmedAt |-> Nothing]
    BY <2>7, <2>8, <2>12 DEF MonitorAt
  <2>14. Score(m, n + 1, topics) = [seen |-> n + 1, buffer |-> w, reference |-> r, alarmedAt |-> a]
    <3> HIDE DEF m, topics
    <3>1. QED BY <2>11, <2>13
  <2>15. MonitorAt(n + 1) = [seen |-> n + 1, buffer |-> w, reference |-> r, alarmedAt |-> Nothing]
    BY <2>1, <2>7, <2>8 DEF MonitorAt
  <2>16. Observe(m, Topic[n + 1]) = [seen |-> n + 1, buffer |-> w, reference |-> r, alarmedAt |-> a]
    BY <1>6, <1>7, <1>9, <2>14
  <2>17. /\ Observe(m, Topic[n + 1]).alarmedAt = a /\ Observe(m, Topic[n + 1]).seen = n + 1
         /\ a = Nothing => Observe(m, Topic[n + 1]) = MonitorAt(n + 1)
    BY <2>15, <2>16
  <2>18. QED BY <2>10, <2>17
<1>10. QED BY <1>8, <1>9
-----------------------------------------------------------------------------
(* The requests it has seen, the one in its hands excepted.                *)
Observing == IF pc["drift"] = "observe" THEN cursor[Observed] - 1 ELSE cursor[Observed]

(* Without an alarm the monitor is up to date and nothing was due; with    *)
(* one it stands where the first alarm was due.                            *)
Monitoring ==
  /\ Alone(Observed, "drift")
  /\ monitor.alarmedAt = Nothing =>
       monitor = MonitorAt(Observing) /\ \A k \in DriftDue : Observing < k
  /\ monitor.alarmedAt # Nothing =>
       /\ monitor.alarmedAt \in DriftDue /\ monitor.seen = monitor.alarmedAt
       /\ \A k \in DriftDue : monitor.alarmedAt <= k

LEMMA ObservedTypes ==
  ASSUME FleetInv, DriftStands, Alone(Observed, "drift")
  PROVE  /\ cursor[Observed] \in Nat /\ cursor[Observed] <= N /\ Observing \in Nat
         /\ held["drift"] # Nothing => Job["drift"] = cursor[Observed]
         /\ pc["drift"] = "observe" => Observing + 1 = Job["drift"] /\ Job["drift"] \in 1 .. N
<1>1. BP!IInv /\ Published
  BY DEF FleetInv
<1>2. cursor[Observed] \in Nat /\ cursor[Observed] <= Len(log["requests"])
  <2>1. BP!BusTypeOK /\ Observed \in BP!Channels
    BY <1>1, DriftReads, ChannelTypes DEF BP!IInv, BP!TypeOK
  <2>2. Observed[1] = "requests"
    BY DEF Observed
  <2>3. QED BY <2>1, <2>2 DEF BP!BusTypeOK
<1>3. cursor[Observed] <= N
  <2>1. sent \in 0 .. N /\ Len(log["requests"]) = sent
    BY <1>1 DEF Published
  <2>2. QED BY <1>2, <2>1, RequestsAssumption
<1>4. ASSUME held["drift"] # Nothing PROVE Job["drift"] = cursor[Observed] /\ Job["drift"] \in 1 .. N
  <2>1. held["drift"][1] = Observed
    BY <1>4, ObservedWork
  <2>2. QED BY <1>4, <2>1, ObservedWork DEF Alone
<1>5. pc["drift"] = "observe" => held["drift"] # Nothing
  BY DEF DriftStands
<1>6. QED BY <1>2, <1>3, <1>4, <1>5 DEF Observing

LEMMA DriftTakes ==
  ASSUME FleetInv, B!Take("drift")
  PROVE  held'["drift"][1] = Observed
<1>1. Subs["drift"] = <<"requests">> /\ GroupOf["drift"] = "drift"
  <2>1. "drift" \in Consumers /\ "drift" \notin Workers
    BY DriftReads
  <2>2. QED BY <2>1 DEF Subs, GroupOf
<1>2. PICK i \in DOMAIN Subs["drift"] :
        LET ch == <<Subs["drift"][i], GroupOf["drift"]>> IN B!Reclaim("drift", ch) \/ B!Deliver("drift", ch)
  BY Zenon DEF B!Take
<1>3. <<Subs["drift"][i], GroupOf["drift"]>> = Observed
  BY <1>1, <1>2 DEF Observed
<1>4. B!Reclaim("drift", Observed) \/ B!Deliver("drift", Observed)
  BY <1>2, <1>3
<1>5. \E k : held' = [held EXCEPT !["drift"] = <<Observed, k>>]
  BY <1>4, Zenon DEF B!Reclaim, B!Deliver
<1>6. DOMAIN held = Consumers /\ "drift" \in Consumers
  BY DriftReads, ChannelTypes DEF FleetInv
<1>7. PICK ch, k : ch = Observed /\ held' = [held EXCEPT !["drift"] = <<ch, k>>]
  BY <1>5
<1>8. held'["drift"] = <<ch, k>>
  BY <1>6, <1>7
<1>9. QED BY <1>7, <1>8

(* What the service does with a request.                                   *)
LEMMA Observes ==
  ASSUME FleetInv, DriftStands, DriftObserve
  PROVE  /\ UNCHANGED busVars /\ Job' = Job /\ pc["drift"] = "observe"
         /\ held["drift"] # Nothing /\ flushing["drift"] = "no"
         /\ monitor' = Observe(monitor, Topic[Job["drift"]])
         /\ \/ /\ monitor.alarmedAt = Nothing /\ monitor'.alarmedAt # Nothing /\ pc'["drift"] = "alarm"
               /\ S!Emit("drift", "drift", Event(Job["drift"], 7, "drift_alarm"))
            \/ /\ ~(monitor.alarmedAt = Nothing /\ monitor'.alarmedAt # Nothing)
               /\ pc'["drift"] = "ack" /\ UNCHANGED sinkVars
<1>1. "drift" \in Tasks /\ {"observe", "alarm", "ack"} \subseteq Places
  BY DriftReads DEF Places
<1>2. PICK i : i = Payload("drift")
  OBVIOUS
<1>3. /\ At("drift", "observe") /\ monitor' = Observe(monitor, Topic[i])
      /\ \/ /\ monitor.alarmedAt = Nothing /\ monitor'.alarmedAt # Nothing
            /\ EmitAndGo("drift", "drift", Event(i, 7, "drift_alarm"), "alarm")
         \/ /\ ~(monitor.alarmedAt = Nothing /\ monitor'.alarmedAt # Nothing)
            /\ (UNCHANGED <<busVars, sinkVars>>) /\ GoTo("drift", "ack")
  BY <1>2 DEF DriftObserve
<1>4. pc["drift"] = "observe" /\ flushing["drift"] = "no"
  BY <1>3 DEF At
<1>5. held["drift"] # Nothing /\ i = Job["drift"]
  BY <1>2, <1>4, ObservedWork DEF DriftStands
<1>6. CASE EmitAndGo("drift", "drift", Event(i, 7, "drift_alarm"), "alarm")
           /\ monitor.alarmedAt = Nothing /\ monitor'.alarmedAt # Nothing
  <2>1. /\ S!Emit("drift", "drift", Event(i, 7, "drift_alarm")) /\ UNCHANGED busVars /\ Job' = Job
        /\ pc'["drift"] = "alarm"
    BY <1>1, <1>3, <1>6, Emits
  <2>2. QED BY <1>3, <1>4, <1>5, <1>6, <2>1
<1>7. CASE (UNCHANGED <<busVars, sinkVars>>) /\ GoTo("drift", "ack")
           /\ ~(monitor.alarmedAt = Nothing /\ monitor'.alarmedAt # Nothing)
  <2>1. Job' = Job /\ pc'["drift"] = "ack"
    BY <1>1, <1>3, <1>7, Inner
  <2>2. QED BY <1>3, <1>4, <1>5, <1>7, <2>1
<1>8. QED BY <1>3, <1>6, <1>7

LEMMA MonitoringDrift ==
  ASSUME FleetInv, DriftStands, Monitoring, Drift
  PROVE  Monitoring'
<1>1. /\ "drift" \in Consumers /\ Sole(Observed, "drift") /\ BP!IInv /\ Alone(Observed, "drift")
      /\ {"observe", "ack"} \subseteq Places
      /\ cursor[Observed] \in Nat
  BY DriftReads, ObservedTypes DEF FleetInv, Monitoring, Places
<1>2. ASSUME Alone(Observed, "drift")', Observing' = Observing, monitor' = monitor
      PROVE  Monitoring'
  BY <1>2 DEF Monitoring
<1>3. CASE DriftReceive
  <2>1. B!Take("drift") /\ pc["drift"] = "next" /\ pc'["drift"] = "observe" /\ monitor' = monitor
    BY <1>1, <1>3, Receives DEF DriftReceive, driftVars
  <2>2. Alone(Observed, "drift")' /\ cursor'[Observed] = cursor[Observed] + 1
    BY <1>1, <2>1, AloneTakes, DriftTakes
  <2>3. Observing' = Observing
    BY <1>1, <2>1, <2>2 DEF Observing
  <2>4. QED BY <1>2, <2>1, <2>2, <2>3
<1>4. CASE DriftAcknowledge
  <2>1. B!Ack("drift") /\ pc["drift"] = "ack" /\ pc'["drift"] = "next" /\ monitor' = monitor
    BY <1>1, <1>4, Acks DEF DriftAcknowledge, driftVars
  <2>2. Alone(Observed, "drift")' /\ cursor'[Observed] = cursor[Observed]
    BY <1>1, <2>1, AloneAcks
  <2>3. QED BY <1>2, <2>1, <2>2 DEF Observing
<1>5. CASE DriftPublish
  <2>1. UNCHANGED <<held, cursor, pending>> /\ pc["drift"] = "alarm" /\ monitor' = monitor
    BY <1>5 DEF DriftPublish, PublishAndGo, B!Publish, At, driftVars
  <2>2. pc'["drift"] = "ack"
    <3>1. (log'["alarms"] = log["alarms"] /\ ~DriftPublish) \/ pc'["drift"] = "ack"
      BY DriftAlarms, <1>5
    <3>2. QED BY <1>5, <3>1
  <2>3. Alone(Observed, "drift")'
    BY <1>1, <2>1 DEF Alone
  <2>4. QED BY <1>2, <2>1, <2>2, <2>3 DEF Observing
<1>6. CASE DriftPoll
  <2>1. UNCHANGED <<held, cursor, pending, pc, monitor>>
    BY <1>6, Polls DEF DriftPoll, driftVars, busVars
  <2>2. Alone(Observed, "drift")'
    BY <1>1, <2>1 DEF Alone
  <2>3. QED BY <1>2, <2>1, <2>2 DEF Observing
<1>7. CASE DriftObserve
  <2>1. /\ UNCHANGED busVars /\ pc["drift"] = "observe" /\ pc'["drift"] # "observe"
        /\ held["drift"] # Nothing /\ monitor' = Observe(monitor, Topic[Job["drift"]])
    BY <1>7, Observes
  <2>2. UNCHANGED <<held, cursor, pending>> /\ Alone(Observed, "drift")'
    BY <1>1, <2>1 DEF busVars, Alone
  <2>3. PICK n \in Nat : n = Observing
    BY <1>1, ObservedTypes
  <2>4. Job["drift"] = n + 1 /\ n < N /\ Observing' = n + 1
    <3>1. cursor'[Observed] = Job["drift"]
      BY <1>1, <2>1, <2>2, ObservedTypes
    <3>2. n + 1 = Job["drift"] /\ Job["drift"] \in 1 .. N
      BY <1>1, <2>1, <2>3, ObservedTypes
    <3>3. QED BY <2>1, <3>1, <3>2, RequestsAssumption DEF Observing
  <2>5. CASE monitor.alarmedAt # Nothing
    <3>1. monitor' = monitor
      BY <2>1, <2>5 DEF Observe
    <3>2. QED BY <2>2, <2>5, <3>1 DEF Monitoring
  <2>6. CASE monitor.alarmedAt = Nothing
    <3>1. monitor = MonitorAt(n) /\ \A k \in DriftDue : n < k
      BY <2>3, <2>6 DEF Monitoring
    <3>2. monitor' = Observe(MonitorAt(n), Topic[n + 1])
      BY <2>1, <2>4, <3>1
    <3>3. DriftDue \subseteq Nat
      BY WindowAssumption DEF DriftDue
    <3>4. CASE n + 1 \in DriftDue
      <4>1. monitor'.alarmedAt = n + 1 /\ monitor'.seen = n + 1
        BY <2>4, <3>2, <3>4, ObserveIs
      <4>2. n + 1 # Nothing
        <5>1. n + 1 \in 1 .. N
          BY <2>4, RequestsAssumption
        <5>2. QED BY <5>1, NothingAssumption
      <4>3. \A k \in DriftDue : n + 1 <= k
        BY <3>1, <3>3
      <4>4. QED BY <2>2, <3>4, <4>1, <4>2, <4>3 DEF Monitoring
    <3>5. CASE n + 1 \notin DriftDue
      <4>1. monitor' = MonitorAt(n + 1)
        BY <2>4, <3>2, <3>5, ObserveIs
      <4>2. monitor'.alarmedAt = Nothing
        BY <4>1 DEF MonitorAt
      <4>3. \A k \in DriftDue : n + 1 < k
        <5>1. SUFFICES ASSUME NEW k \in DriftDue PROVE n + 1 < k
          OBVIOUS
        <5>2. k \in Nat /\ n < k /\ k # n + 1
          BY <3>1, <3>3, <3>5
        <5>3. QED BY <5>2
      <4>4. QED BY <2>2, <2>4, <4>1, <4>2, <4>3 DEF Monitoring
    <3>6. QED BY <3>4, <3>5
  <2>7. QED BY <2>5, <2>6
<1>8. QED BY <1>3, <1>4, <1>5, <1>6, <1>7 DEF Drift
-----------------------------------------------------------------------------
(***************************************************************************)
(* The alarm: published once, for the request of the monitor's alarm, when *)
(* its event is on its way to the log.                                     *)
(***************************************************************************)
Warned(k) == k \in DOMAIN log["alarms"] /\ log["alarms"][k][1] = "drift_alarm"

Alarming ==
  /\ flushing["traffic"] = "no"
  /\ pc["drift"] = "alarm" =>
       /\ Job["drift"] = monitor.alarmedAt
       /\ \A k : ~Warned(k)
       /\ phase = "running" => <<monitor.alarmedAt, 7>> \in SP!KeptSeqs
  /\ \A k : Warned(k) =>
       /\ monitor.alarmedAt # Nothing /\ log["alarms"][k][2] = monitor.alarmedAt
       /\ <<monitor.alarmedAt, 7>> \in SP!KeptSeqs /\ flushing["drift"] = "no"
  /\ \A j, k : Warned(j) /\ Warned(k) => j = k

(* The alarms stream: nobody but the drift service warns.                  *)
LEMMA WarnedSame ==
  ASSUME log'["alarms"] = log["alarms"]
  PROVE  \A k : /\ Warned(k)' = Warned(k)
                /\ log'["alarms"][k] = log["alarms"][k]
  BY DEF Warned

LEMMA ActsWarned ==
  ASSUME FleetInv, NEW t \in Tasks, Acts(t)
  PROVE  \A k : /\ Warned(k)' <=> Warned(k)
                /\ Warned(k) => log'["alarms"][k] = log["alarms"][k]
<1>1. CASE log'["alarms"] = log["alarms"]
  BY <1>1, WarnedSame
<1>2. CASE DecisionAlarm
  <2>1. log["alarms"] \in Seq(Payloads)
    BY <1>2, DecisionPublishes
  <2>2. PICK i : log'["alarms"] = Append(log["alarms"], <<"quality_alarm", i>>)
    BY <1>2, DecisionPublishes
  <2>3. PICK p : p = <<"quality_alarm", i>>
    OBVIOUS
  <2>4. PICK n \in Nat : n = Len(log["alarms"])
    BY <2>1
  <2>5. /\ DOMAIN log["alarms"] = 1 .. n /\ DOMAIN log'["alarms"] = 1 .. n + 1
        /\ log'["alarms"][n + 1] = p /\ \A k \in 1 .. n : log'["alarms"][k] = log["alarms"][k]
    BY <2>1, <2>2, <2>3, <2>4
  <2>6. \A k : k \in 1 .. n + 1 <=> k \in 1 .. n \/ k = n + 1
    OBVIOUS
  <2>7. p[1] # "drift_alarm" /\ n + 1 \notin 1 .. n
    BY <2>3
  <2>8. SUFFICES ASSUME NEW k PROVE /\ Warned(k)' <=> Warned(k)
                                    /\ Warned(k) => log'["alarms"][k] = log["alarms"][k]
    OBVIOUS
  <2>9. CASE k \in 1 .. n
    BY <2>5, <2>6, <2>9 DEF Warned
  <2>10. CASE k \notin 1 .. n
    <3>1. ~Warned(k)
      BY <2>5, <2>10 DEF Warned
    <3>2. k \in DOMAIN log'["alarms"] => k = n + 1
      BY <2>5, <2>6, <2>10
    <3>3. ~Warned(k)'
      BY <2>5, <2>7, <3>2 DEF Warned
    <3>4. QED BY <3>1, <3>3
  <2>11. QED BY <2>9, <2>10
<1>3. CASE t = "decision" /\ ~DecisionAlarm
  <2>1. "decision" \in Consumers /\ "decide" \in Places /\ Decision
    <3>1. "decision" \notin Workers \union {"traffic", "router", "runner"}
      BY WorkersAssumption
    <3>2. QED BY <1>3, <3>1, SubsFact DEF Acts, Places
  <2>2. UNCHANGED log
    BY <1>3, <2>1, Receives, DecisionDecides, Acks, Polls DEF Decision, DecisionReceive, busVars
  <2>3. QED BY <1>1, <2>2
<1>4. t # "decision" => log'["alarms"] = log["alarms"]
  BY ActsAside
<1>5. QED BY <1>1, <1>2, <1>3, <1>4

(* No event of bands 7 and 8 is lost but with a flush that the stop of the *)
(* run cancels.                                                            *)
LEMMA BandKept ==
  ASSUME FleetInv, Samples, Stocked, Closing, NEW t \in Tasks, Acts(t),
         NEW b \in {7, 8}, NEW i, <<i, b>> \in SP!KeptSeqs, flushing["traffic"] = "no",
         b = 7 => phase' = "running" \/ flushing["drift"] = "no",
         b = 8 => flushing["decision"] = "no"
  PROVE  <<i, b>> \in SP!KeptSeqs'
<1>1. SUFFICES ASSUME <<i, b>> \notin SP!KeptSeqs' PROVE FALSE
  OBVIOUS
<1>2. ~Safe
  BY <1>1 DEF Safe
<1>3. CASE Stop
  <2>1. PICK u \in Tasks \ {"runner"} : flushing[u] # "no" /\ b \in Bands[SinkOf(u)]
    BY <1>1, <1>3, StopLoses
  <2>2. phase' # "running"
    BY <1>3 DEF Stop
  <2>3. u \in Workers \union {"traffic", "router", "decision", "drift"}
    BY <2>1 DEF Tasks, Consumers, Services
  <2>4. u \in {"traffic", "decision", "drift"} /\ (b = 7 => u # "decision") /\ (b = 8 => u = "decision")
    BY <2>1, <2>3, WorkersAssumption DEF SinkOf, Bands
  <2>5. QED BY <2>1, <2>2, <2>4
<1>4. CASE t \in Workers /\ KillWorker(t)
  BY <1>1, <1>4, KillLoses
<1>5. QED BY <1>2, <1>3, <1>4, ActsStock DEF Closing

LEMMA AlarmingActs ==
  ASSUME FleetInv, DriftStands, Samples, Stocked, Closing, Alarming,
         NEW t \in Tasks, Acts(t), monitor' = monitor
  PROVE  Alarming'
<1>1. t # "drift" /\ Aside("drift") /\ "drift" \in Tasks /\ "traffic" \in Tasks
  BY DriftUnmoved, DriftReads, SubsFact
<1>2. flushing'["traffic"] = "no" /\ (flushing["drift"] = "no" => flushing'["drift"] = "no")
  <2>1. \A u \in Tasks : u # t => Calm(u)
    BY ActsStock DEF Closing
  <2>2. CASE t # "traffic"
    BY <1>1, <2>1, <2>2 DEF Calm, Alarming
  <2>3. CASE t = "traffic"
    <3>1. TrafficPublish
      BY <2>3, WorkersAssumption DEF Acts
    <3>2. UNCHANGED sinkVars
      BY <3>1, TrafficPublishes
    <3>3. QED BY <3>2 DEF sinkVars, Alarming
  <2>4. QED BY <1>1, <2>1, <2>2, <2>3 DEF Calm
<1>3. \A k : /\ Warned(k)' <=> Warned(k)
             /\ Warned(k) => log'["alarms"][k] = log["alarms"][k]
  BY ActsWarned
<1>4. phase' = "running" => phase = "running"
  <2>1. CASE t # "runner"
    BY <2>1, ActsAside
  <2>2. CASE t = "runner"
    <3>1. Store \/ Tick \/ Runner \/ (UNCHANGED vars) \/ \E w \in Workers : RestartWorker(w)
      BY <2>2, WorkersAssumption DEF Acts
    <3>2. QED BY <3>1 DEF Store, Tick, Runner, Stop, TimeOut, FlushSink, Finish, RestartWorker,
                          vars, runnerVars
  <2>3. QED BY <2>1, <2>2
<1>5. ASSUME <<monitor.alarmedAt, 7>> \in SP!KeptSeqs, phase' = "running" \/ flushing["drift"] = "no"
      PROVE  <<monitor'.alarmedAt, 7>> \in SP!KeptSeqs'
  <2>1. PICK i : i = monitor.alarmedAt
    OBVIOUS
  <2>2. flushing["traffic"] = "no" /\ <<i, 7>> \in SP!KeptSeqs
    BY <1>5, <2>1 DEF Alarming
  <2>3. <<i, 7>> \in SP!KeptSeqs'
    BY <1>5, <2>2, BandKept
  <2>4. QED BY <2>1, <2>3
<1>6. pc'["drift"] = "alarm" =>
        /\ Job'["drift"] = monitor'.alarmedAt
        /\ \A k : ~Warned(k)'
        /\ phase' = "running" => <<monitor'.alarmedAt, 7>> \in SP!KeptSeqs'
  <2>1. pc["drift"] = "alarm" => held["drift"] # Nothing
    BY DEF DriftStands
  <2>2. QED BY <1>1, <1>3, <1>4, <1>5, <2>1 DEF Aside, Alarming
<1>7. \A k : Warned(k)' =>
        /\ monitor'.alarmedAt # Nothing /\ log'["alarms"][k][2] = monitor'.alarmedAt
        /\ <<monitor'.alarmedAt, 7>> \in SP!KeptSeqs' /\ flushing'["drift"] = "no"
  BY <1>2, <1>3, <1>5 DEF Alarming
<1>8. \A j, k : Warned(j)' /\ Warned(k)' => j = k
  BY <1>3 DEF Alarming
<1>9. QED BY <1>2, <1>6, <1>7, <1>8 DEF Alarming

(* What the drift service and the reset put into their sinks.              *)
LEMMA DriftStock ==
  ASSUME FleetInv, DriftStands, Stocked, Drift
  PROVE  /\ Stocked' /\ Safe /\ \A u \in Tasks : u # "drift" => Calm(u)
         /\ \A r \in Sinks \ {"drift"} : buffer'[r] = buffer[r]
         /\ pc'["drift"] = "alarm" => pc["drift"] = "observe" /\ <<Job["drift"], 7>> \in SP!KeptSeqs'
         /\ pc'["drift"] = "alarm" \/ flushing'["drift"] = "no"
<1>1. /\ "drift" \in Tasks \ {"runner"} /\ "drift" \in Sinks /\ SinkOf("drift") = "drift"
      /\ "drift" \in Tasks
  <2>1. "drift" \in Sinks
    <3>1. FinalFlushes = <<"router", "judge", "decision">> \o <<"drift">>
      BY MonitoredAssumption DEF FinalFlushes
    <3>2. 4 \in DOMAIN FinalFlushes /\ FinalFlushes[4] = "drift"
      BY <3>1
    <3>3. QED BY <3>2 DEF Sinks
  <2>2. QED BY <2>1, DriftReads DEF SinkOf
<1>2. flushing["drift"] = "no"
  BY DriftMoves
<1>3. ASSUME UNCHANGED sinkVars, pc'["drift"] # "alarm"
      PROVE  /\ Stocked' /\ Safe /\ \A u \in Tasks : u # "drift" => Calm(u)
             /\ \A r \in Sinks \ {"drift"} : buffer'[r] = buffer[r]
             /\ pc'["drift"] # "alarm" /\ flushing'["drift"] = "no"
  BY <1>2, <1>3, StillCalm DEF sinkVars
<1>4. CASE DriftObserve
  <2>1. /\ held["drift"] # Nothing /\ pc["drift"] = "observe"
        /\ \/ /\ pc'["drift"] = "alarm"
              /\ S!Emit("drift", "drift", Event(Job["drift"], 7, "drift_alarm"))
           \/ pc'["drift"] = "ack" /\ UNCHANGED sinkVars
    BY <1>4, Observes
  <2>2. CASE pc'["drift"] = "alarm" /\ S!Emit("drift", "drift", Event(Job["drift"], 7, "drift_alarm"))
    <3>1. Job["drift"] \in 1 .. N
      BY <2>1, ObservedWork
    <3>2. PICK e : e = Event(Job["drift"], 7, "drift_alarm")
      OBVIOUS
    <3>3. e \in Legit /\ e.seq[2] \in Bands["drift"] /\ e.seq = <<Job["drift"], 7>>
      BY <3>1, <3>2 DEF Event, Legit, AllEvents, Bodies, Bands
    <3>4. S!Emit("drift", "drift", e)
      BY <2>2, <3>2
    <3>5. /\ Stocked' /\ Safe /\ e.seq \in SP!KeptSeqs'
          /\ \A u \in Tasks : u # "drift" => flushing'[u] = flushing[u] /\ SP!Load'[u] = SP!Load[u]
          /\ \A r \in Sinks \ {"drift"} : buffer'[r] = buffer[r]
      BY <1>1, <1>2, <3>3, <3>4, EmitStock
    <3>6. QED BY <2>1, <2>2, <3>3, <3>5 DEF Calm
  <2>3. QED BY <1>3, <2>1, <2>2
<1>5. CASE DriftReceive \/ DriftPublish \/ DriftAcknowledge \/ DriftPoll
  <2>1. UNCHANGED sinkVars
    <3>1. CASE DriftReceive \/ DriftAcknowledge \/ DriftPoll
      BY <3>1 DEF DriftReceive, DriftAcknowledge, DriftPoll, Receive, Acknowledge, Poll
    <3>2. CASE DriftPublish
      BY <3>2 DEF DriftPublish, PublishAndGo
    <3>3. QED BY <1>5, <3>1, <3>2
  <2>2. pc'["drift"] # "alarm"
    <3>1. {"observe", "ack"} \subseteq Places
      BY DEF Places
    <3>2. CASE DriftReceive \/ DriftAcknowledge \/ DriftPoll
      BY <3>1, <3>2, DriftReads, Receives, Acks, Polls DEF DriftReceive, DriftAcknowledge, DriftPoll
    <3>3. CASE DriftPublish
      BY <3>3, DriftAlarms
    <3>4. QED BY <1>5, <3>2, <3>3
  <2>3. QED BY <1>3, <2>1, <2>2
<1>6. QED BY <1>4, <1>5 DEF Drift

LEMMA GateStock ==
  ASSUME FleetInv, Reading, Tallied, Stocked, DecisionGate
  PROVE  /\ Stocked' /\ Safe /\ \A u \in Tasks : u # "decision" => Calm(u)
         /\ <<Job["decision"], 8>> \in SP!KeptSeqs'
         /\ Len(buffer["decision"]) + 1 < Batch["decision"] =>
              flushing' = flushing /\ Len(buffer'["decision"]) = Len(buffer["decision"]) + 1
<1>1. /\ "decision" \in Consumers /\ "decision" \in Tasks \ {"runner"}
      /\ SinkOf("decision") = "decision" /\ "decision" \in Sinks
  BY SubsFact, WorkersAssumption, SinksFact DEF SinkOf
<1>2. /\ held["decision"] # Nothing /\ flushing["decision"] = "no"
      /\ S!Emit("decision", "decision", Event(Job["decision"], 8, "test_reset"))
  BY GateMoves
<1>3. Job["decision"] \in (1 .. N) \union Shares
  BY <1>1, <1>2, HeldFacts, JobIs DEF FleetInv
<1>4. PICK e : e = Event(Job["decision"], 8, "test_reset")
  OBVIOUS
<1>5. e \in Legit /\ e.seq[2] \in Bands["decision"] /\ e.seq = <<Job["decision"], 8>>
  BY <1>3, <1>4 DEF Event, Legit, AllEvents, Bodies, Bands
<1>6. S!Emit("decision", "decision", e)
  BY <1>2, <1>4
<1>7. /\ Stocked' /\ Safe /\ e.seq \in SP!KeptSeqs'
      /\ \A u \in Tasks : u # "decision" => flushing'[u] = flushing[u] /\ SP!Load'[u] = SP!Load[u]
      /\ Len(buffer["decision"]) + 1 < Batch["decision"] =>
           flushing' = flushing /\ Len(buffer'["decision"]) = Len(buffer["decision"]) + 1
  BY <1>1, <1>2, <1>5, <1>6, EmitStock
<1>8. QED BY <1>5, <1>7 DEF Calm

LEMMA AlarmingDrift ==
  ASSUME FleetInv, DriftStands, Stocked, Monitoring, Alarming, Drift
  PROVE  Alarming'
<1>1. "drift" \in Tasks /\ "traffic" \in Tasks /\ "traffic" # "drift"
  BY DriftReads, SubsFact
<1>2. /\ flushing'["traffic"] = "no" /\ Safe
      /\ pc'["drift"] = "alarm" => pc["drift"] = "observe" /\ <<Job["drift"], 7>> \in SP!KeptSeqs'
      /\ pc'["drift"] = "alarm" \/ flushing'["drift"] = "no"
  BY <1>1, DriftStock DEF Calm, Alarming
<1>3. CASE DriftObserve
  <2>1. /\ UNCHANGED busVars /\ Job' = Job /\ pc["drift"] = "observe" /\ held["drift"] # Nothing
        /\ monitor' = Observe(monitor, Topic[Job["drift"]])
        /\ \/ monitor.alarmedAt = Nothing /\ monitor'.alarmedAt # Nothing /\ pc'["drift"] = "alarm"
           \/ /\ ~(monitor.alarmedAt = Nothing /\ monitor'.alarmedAt # Nothing)
              /\ pc'["drift"] = "ack"
    BY <1>3, Observes
  <2>2. \A k : Warned(k)' = Warned(k) /\ log'["alarms"][k] = log["alarms"][k]
    BY <2>1, WarnedSame DEF busVars
  <2>3. CASE monitor.alarmedAt = Nothing
    <3>1. \A k : ~Warned(k)'
      BY <2>2, <2>3 DEF Alarming
    <3>2. pc'["drift"] = "alarm" => Job'["drift"] = monitor'.alarmedAt
      <4>1. SUFFICES ASSUME pc'["drift"] = "alarm" PROVE Job["drift"] = monitor'.alarmedAt
        BY <2>1
      <4>2. monitor'.alarmedAt # Nothing
        BY <2>1, <4>1
      <4>3. PICK n \in Nat : n = Observing /\ n + 1 = Job["drift"] /\ n < N
        <5>1. /\ Observing \in Nat /\ Observing + 1 = Job["drift"] /\ Job["drift"] \in 1 .. N
          BY <2>1, ObservedTypes DEF Monitoring
        <5>2. QED BY <5>1, RequestsAssumption
      <4>4. monitor = MonitorAt(n)
        BY <2>3, <4>3 DEF Monitoring
      <4>5. monitor' = Observe(MonitorAt(n), Topic[n + 1])
        BY <2>1, <4>3, <4>4
      <4>6. CASE n + 1 \in DriftDue
        <5>1. monitor'.alarmedAt = n + 1
          BY <4>3, <4>5, <4>6, ObserveIs
        <5>2. QED BY <4>3, <5>1
      <4>7. CASE n + 1 \notin DriftDue
        <5>1. monitor' = MonitorAt(n + 1)
          BY <4>3, <4>5, <4>7, ObserveIs
        <5>2. QED BY <4>2, <5>1 DEF MonitorAt
      <4>8. QED BY <4>6, <4>7
    <3>3. pc'["drift"] = "alarm" => <<monitor'.alarmedAt, 7>> \in SP!KeptSeqs'
      BY <1>2, <2>1, <3>2
    <3>4. QED BY <1>2, <3>1, <3>2, <3>3 DEF Alarming
  <2>4. CASE monitor.alarmedAt # Nothing
    <3>1. monitor' = monitor /\ pc'["drift"] = "ack"
      BY <2>1, <2>4 DEF Observe
    <3>2. flushing'["drift"] = "no"
      BY <1>2, <3>1
    <3>3. <<monitor.alarmedAt, 7>> \in SP!KeptSeqs => <<monitor'.alarmedAt, 7>> \in SP!KeptSeqs'
      BY <1>2, <3>1 DEF Safe
    <3>4. QED BY <1>2, <2>2, <3>1, <3>2, <3>3 DEF Alarming
  <2>5. QED BY <2>3, <2>4
<1>4. CASE DriftPublish
  <2>1. /\ pc["drift"] = "alarm" /\ pc'["drift"] = "ack" /\ held["drift"] # Nothing
        /\ log["alarms"] \in Seq(Payloads) /\ UNCHANGED <<held, monitor, sinkVars>>
        /\ log'["alarms"] = Append(log["alarms"], <<"drift_alarm", Job["drift"]>>)
    BY <1>4, DriftAlarms
  <2>2. PICK p : p = <<"drift_alarm", Job["drift"]>>
    OBVIOUS
  <2>3. PICK n \in Nat : n = Len(log["alarms"])
    BY <2>1
  <2>4. /\ DOMAIN log'["alarms"] = 1 .. n + 1 /\ DOMAIN log["alarms"] = 1 .. n
        /\ log'["alarms"][n + 1] = p /\ \A k \in 1 .. n : log'["alarms"][k] = log["alarms"][k]
    BY <2>1, <2>2, <2>3
  <2>5. /\ Job["drift"] = monitor.alarmedAt /\ (\A k : ~Warned(k))
        /\ <<monitor.alarmedAt, 7>> \in SP!KeptSeqs
    <3>1. phase = "running"
      BY DriftMoves
    <3>2. QED BY <2>1, <3>1 DEF Alarming
  <2>6. \A k : Warned(k)' => k = n + 1
    <3>1. SUFFICES ASSUME NEW k, Warned(k)' PROVE k = n + 1
      OBVIOUS
    <3>2. k \in 1 .. n + 1 /\ log'["alarms"][k][1] = "drift_alarm"
      BY <2>4, <3>1 DEF Warned
    <3>3. k \notin 1 .. n
      BY <2>4, <2>5, <3>2 DEF Warned
    <3>4. QED BY <3>2, <3>3
  <2>7. <<monitor'.alarmedAt, 7>> \in SP!KeptSeqs' /\ flushing'["drift"] = "no"
    BY <1>2, <2>1, <2>5 DEF Safe
  <2>8. monitor'.alarmedAt # Nothing
    BY <2>1, <2>5, ObservedWork
  <2>9. log'["alarms"][n + 1][2] = monitor'.alarmedAt
    BY <2>1, <2>2, <2>4, <2>5
  <2>10. QED BY <1>2, <2>1, <2>6, <2>7, <2>8, <2>9 DEF Alarming
<1>5. CASE DriftReceive \/ DriftAcknowledge \/ DriftPoll
  <2>1. {"observe", "ack"} \subseteq Places
    BY DEF Places
  <2>2. UNCHANGED <<log, monitor>> /\ pc'["drift"] # "alarm"
    BY <1>5, <2>1, DriftReads, Receives, Acks, Polls
       DEF DriftReceive, DriftAcknowledge, DriftPoll, driftVars, busVars, At, Poll
  <2>3. \A k : Warned(k)' = Warned(k) /\ log'["alarms"][k] = log["alarms"][k]
    BY <2>2, WarnedSame
  <2>4. flushing'["drift"] = "no"
    BY <1>2, <2>2
  <2>5. <<monitor.alarmedAt, 7>> \in SP!KeptSeqs => <<monitor'.alarmedAt, 7>> \in SP!KeptSeqs'
    BY <1>2, <2>2 DEF Safe
  <2>6. QED BY <1>2, <2>2, <2>3, <2>4, <2>5 DEF Alarming
<1>6. QED BY <1>3, <1>4, <1>5 DEF Drift

LEMMA AlarmingGate ==
  ASSUME FleetInv, Reading, Tallied, DriftStands, Stocked, Alarming, DecisionGate
  PROVE  Alarming'
<1>1. /\ "drift" \in Tasks /\ "traffic" \in Tasks /\ "drift" \in Consumers
      /\ "traffic" # "decision" /\ "drift" # "decision"
  BY DriftReads, SubsFact
<1>2. /\ flushing'["traffic"] = "no" /\ Safe
      /\ flushing["drift"] = "no" => flushing'["drift"] = "no"
  BY <1>1, GateStock DEF Calm, Alarming
<1>3. /\ Others("decision") /\ UNCHANGED <<busVars, runnerVars, monitor>> /\ Job' = Job
  BY GateMoves
<1>4. pc'["drift"] = pc["drift"] /\ UNCHANGED <<log, monitor>> /\ phase' = phase
  BY <1>1, <1>3 DEF Others, busVars, runnerVars
<1>5. \A k : Warned(k)' = Warned(k) /\ log'["alarms"][k] = log["alarms"][k]
  BY <1>4, WarnedSame
<1>6. <<monitor.alarmedAt, 7>> \in SP!KeptSeqs => <<monitor'.alarmedAt, 7>> \in SP!KeptSeqs'
  BY <1>2, <1>4 DEF Safe
<1>7. QED BY <1>2, <1>3, <1>4, <1>5, <1>6 DEF Alarming
-----------------------------------------------------------------------------
(***************************************************************************)
(* The reset: once, for that alarm.  The decision service emits three      *)
(* events at most, so it never flushes before the end of the run.          *)
(***************************************************************************)
Deciding(k) == pc["decision"] = "decide" /\ held["decision"] = <<Alarms, k>>

Logged == Reported + (IF gatedAt = Nothing THEN 0 ELSE 1)

Gated ==
  /\ Alone(Alarms, "decision")
  /\ flushing["decision"] = "no" /\ Len(buffer["decision"]) <= Logged
  /\ gatedAt # Nothing =>
       /\ gatedAt = monitor.alarmedAt /\ <<gatedAt, 8>> \in SP!KeptSeqs
       /\ \E k : Warned(k)
       /\ \A k : Warned(k) => k <= cursor[Alarms] /\ ~Deciding(k)

LEMMA AlarmTypes ==
  ASSUME FleetInv
  PROVE  /\ cursor[Alarms] \in Nat /\ cursor[Alarms] <= Len(log["alarms"])
         /\ \A k : Warned(k) => k \in Nat
<1>1. BP!BusTypeOK /\ Alarms \in BP!Channels /\ Alarms[1] = "alarms" /\ "alarms" \in Streams
  BY DriftReads, ChannelTypes DEF FleetInv, BP!IInv, BP!TypeOK, Alarms, Streams
<1>2. /\ cursor[Alarms] \in Nat /\ cursor[Alarms] <= Len(log["alarms"])
      /\ log["alarms"] \in Seq(Payloads)
  BY <1>1 DEF BP!BusTypeOK
<1>3. \A k : Warned(k) => k \in Nat
  BY <1>2 DEF Warned
<1>4. QED BY <1>2, <1>3

(* The reset acts on a warning, the last message of the stream it read.    *)
LEMMA GateWarned ==
  ASSUME FleetInv, Reading, Tallied, Gated, Alarming, DecisionGate
  PROVE  \E k : /\ Warned(k) /\ Deciding(k) /\ k = cursor[Alarms]
                /\ Job["decision"] = monitor.alarmedAt
<1>1. "decision" \in Consumers /\ BP!IInv
  BY SubsFact DEF FleetInv
<1>2. /\ held["decision"] # Nothing /\ pc["decision"] = "decide" /\ ~Undecided
      /\ Kind("decision") = "drift_alarm"
  BY GateMoves
<1>3. /\ held["decision"] = <<held["decision"][1], held["decision"][2]>>
      /\ held["decision"][1] \in BP!Readers["decision"]
      /\ held["decision"][2] \in DOMAIN log[held["decision"][1][1]]
  BY <1>1, <1>2, HeldFacts
<1>4. held["decision"][1] = Alarms /\ Alarms[1] = "alarms"
  BY <1>2, <1>3, SoleReaders DEF Undecided, Alarms
<1>5. held["decision"] = <<Alarms, cursor[Alarms]>> /\ cursor[Alarms] \in DOMAIN log["alarms"]
  BY <1>2, <1>3, <1>4 DEF Gated, Alone
<1>6. log["alarms"][cursor[Alarms]][1] = "drift_alarm"
  BY <1>2, <1>4, <1>5 DEF Kind, Received
<1>7. Job["decision"] = log["alarms"][cursor[Alarms]][2]
  BY <1>1, <1>4, <1>5, JobIs
<1>8. Warned(cursor[Alarms]) /\ Deciding(cursor[Alarms])
  BY <1>2, <1>5, <1>6 DEF Warned, Deciding
<1>9. QED BY <1>7, <1>8 DEF Alarming

LEMMA GatedGate ==
  ASSUME FleetInv, Reading, Tallied, DriftStands, Stocked, Alarming, Gated, DecisionGate,
         Batch["decision"] > 3
  PROVE  Gated'
<1>1. /\ Others("decision") /\ UNCHANGED busVars /\ pc'["decision"] = "ack" /\ Job' = Job
      /\ UNCHANGED <<alarmAt, promotedAt, monitor>> /\ gatedAt' = Job["decision"]
  BY GateMoves
<1>2. UNCHANGED <<log, cursor, held, pending>>
  BY <1>1 DEF busVars
<1>3. PICK k : /\ Warned(k) /\ Deciding(k) /\ k = cursor[Alarms]
               /\ Job["decision"] = monitor.alarmedAt
  BY GateWarned
<1>4. gatedAt = Nothing
  BY <1>3 DEF Gated
<1>5. \A j : Warned(j)' = Warned(j)
  BY <1>2, WarnedSame
<1>6. gatedAt' = monitor'.alarmedAt /\ gatedAt' # Nothing /\ <<gatedAt', 8>> \in SP!KeptSeqs'
  BY <1>1, <1>3, GateStock DEF Alarming
<1>7. /\ Len(buffer["decision"]) \in Nat /\ Batch["decision"] \in Nat /\ Reported \in {0, 1, 2}
      /\ Logged = Reported /\ Logged' = Reported + 1
  BY <1>1, <1>4, <1>6, SinksFact, BatchAssumption DEF Stocked, SP!Holds, Reported, Logged
<1>8. Len(buffer["decision"]) + 1 < Batch["decision"]
  BY <1>7 DEF Gated
<1>9. flushing'["decision"] = "no" /\ Len(buffer'["decision"]) = Len(buffer["decision"]) + 1
  BY <1>8, GateStock DEF Gated
<1>10. Len(buffer'["decision"]) <= Logged'
  BY <1>7, <1>9 DEF Gated
<1>11. Alone(Alarms, "decision")'
  BY <1>2 DEF Gated, Alone
<1>12. \A j : Warned(j)' => j <= cursor'[Alarms] /\ ~Deciding(j)'
  <2>1. SUFFICES ASSUME NEW j, Warned(j)' PROVE j <= cursor[Alarms] /\ ~Deciding(j)'
    BY <1>2
  <2>2. j = cursor[Alarms] /\ cursor[Alarms] \in Nat
    BY <1>3, <1>5, <2>1, AlarmTypes DEF Alarming
  <2>3. QED BY <1>1, <2>2 DEF Deciding
<1>13. \E j : Warned(j)'
  BY <1>3, <1>5
<1>14. QED BY <1>6, <1>9, <1>10, <1>11, <1>12, <1>13 DEF Gated

LEMMA GatedDrift ==
  ASSUME FleetInv, DriftStands, Stocked, Alarming, Gated, Drift
  PROVE  Gated'
<1>1. "decision" \in Consumers /\ "decision" \in Tasks /\ "decision" # "drift"
      /\ Sole(Alarms, "decision") /\ "decision" \in Sinks \ {"drift"}
  BY SubsFact, DriftReads, SinksFact
<1>2. Others("drift") /\ (UNCHANGED <<decisionVars>>) /\ gatedAt' = gatedAt
  BY DriftMoves
<1>3. Alone(Alarms, "decision")' /\ cursor'[Alarms] = cursor[Alarms]
  BY <1>1, DriftAlone DEF Gated
<1>4. Safe /\ flushing'["decision"] = "no" /\ buffer'["decision"] = buffer["decision"]
  BY <1>1, DriftStock DEF Calm, Gated
<1>5. Len(buffer'["decision"]) <= Logged'
  BY <1>2, <1>4 DEF Gated, Logged, Reported, decisionVars
<1>6. ASSUME gatedAt # Nothing
      PROVE  /\ gatedAt' = monitor'.alarmedAt /\ <<gatedAt', 8>> \in SP!KeptSeqs'
             /\ \E k : Warned(k)'
             /\ \A k : Warned(k)' => k <= cursor'[Alarms] /\ ~Deciding(k)'
  <2>1. monitor.alarmedAt # Nothing /\ \E k : Warned(k)
    BY <1>6 DEF Gated
  <2>2. pc["drift"] # "alarm"
    BY <2>1 DEF Alarming
  <2>3. log'["alarms"] = log["alarms"] /\ ~DriftPublish
    BY <2>2, DriftAlarms
  <2>4. \A k : Warned(k)' = Warned(k)
    BY <2>3, WarnedSame
  <2>5. monitor' = monitor
    <3>1. CASE DriftObserve
      BY <2>1, <3>1, Observes DEF Observe
    <3>2. CASE DriftReceive \/ DriftAcknowledge \/ DriftPoll
      BY <3>2 DEF DriftReceive, DriftAcknowledge, DriftPoll, driftVars
    <3>3. QED BY <2>3, <3>1, <3>2 DEF Drift
  <2>6. \A k : Deciding(k)' = Deciding(k)
    BY <1>1, <1>2 DEF Others, Deciding
  <2>7. <<gatedAt', 8>> \in SP!KeptSeqs'
    BY <1>2, <1>4, <1>6 DEF Gated, Safe
  <2>8. QED BY <1>2, <1>3, <1>6, <2>1, <2>4, <2>5, <2>6, <2>7 DEF Gated
<1>7. QED BY <1>2, <1>3, <1>4, <1>5, <1>6 DEF Gated

LEMMA GatedActs ==
  ASSUME FleetInv, Samples, Stocked, Closing, Alarming, Gated, NEW t \in Tasks, Acts(t),
         UNCHANGED <<monitor, gatedAt>>, Batch["decision"] > 3
  PROVE  Gated'
<1>1. /\ "decision" \in Consumers /\ "decision" \in Tasks /\ "decision" \notin Workers
      /\ Sole(Alarms, "decision") /\ "decide" \in Places /\ cursor[Alarms] \in Nat
      /\ Batch["decision"] \in Nat /\ buffer["decision"] \in Seq(Legit)
      /\ \A k : Warned(k) => k \in Nat
  BY SubsFact, DriftReads, AlarmTypes, WorkersAssumption, SinksFact, BatchAssumption
     DEF Places, Stocked, SP!Holds
<1>2. Alone(Alarms, "decision")' /\ (t # "decision" => cursor'[Alarms] = cursor[Alarms])
  BY <1>1, ActsAlone DEF Gated
<1>3. \A k : Warned(k)' <=> Warned(k)
  BY ActsWarned
<1>4. gatedAt # Nothing => <<gatedAt', 8>> \in SP!KeptSeqs'
  <2>1. SUFFICES ASSUME gatedAt # Nothing PROVE <<gatedAt, 8>> \in SP!KeptSeqs'
    OBVIOUS
  <2>2. PICK i : i = gatedAt
    OBVIOUS
  <2>3. <<i, 8>> \in SP!KeptSeqs /\ flushing["traffic"] = "no" /\ flushing["decision"] = "no"
    BY <2>1, <2>2 DEF Gated, Alarming
  <2>4. <<i, 8>> \in SP!KeptSeqs'
    BY <2>3, BandKept
  <2>5. QED BY <2>2, <2>4
<1>5. flushing'["decision"] = "no" /\ Len(buffer'["decision"]) <= Logged'
  <2>1. CASE t # "decision"
    <3>1. /\ flushing'["decision"] = "no" /\ UNCHANGED <<alarmAt, promotedAt>>
          /\ buffer'["decision"] = buffer["decision"] \/ buffer'["decision"] = <<>>
      BY <2>1, SinkSpared DEF Gated
    <3>2. Logged' = Logged /\ Logged \in Nat /\ Len(<<>>) = 0
      BY <3>1 DEF Logged, Reported
    <3>3. QED BY <3>1, <3>2 DEF Gated
  <2>2. CASE t = "decision"
    <3>1. Decision
      <4>1. "decision" \notin {"traffic", "router", "runner"}
        OBVIOUS
      <4>2. QED BY <1>1, <2>2, <4>1 DEF Acts
    <3>2. CASE (UNCHANGED <<sinkVars, alarmAt, promotedAt>>) /\ flushing["decision"] = "no"
      BY <3>2 DEF Gated, Logged, Reported, sinkVars
    <3>3. CASE /\ \/ alarmAt = Nothing /\ alarmAt' = Job["decision"] /\ promotedAt' = promotedAt
                  \/ promotedAt = Nothing /\ promotedAt' = Job["decision"] /\ alarmAt' = alarmAt
               /\ Job["decision"] # Nothing
               /\ Len(buffer["decision"]) + 1 < Batch["decision"] =>
                    flushing' = flushing /\ Len(buffer'["decision"]) = Len(buffer["decision"]) + 1
      <4>1. Reported \in {0, 1} /\ Reported' = Reported + 1
        BY <3>3 DEF Reported
      <4>2. Logged \in {0, 1, 2} /\ Logged' = Logged + 1
        BY <4>1 DEF Logged
      <4>3. Len(buffer["decision"]) \in Nat
        BY <1>1
      <4>4. Len(buffer["decision"]) + 1 < Batch["decision"]
        BY <1>1, <4>2, <4>3 DEF Gated
      <4>5. QED BY <3>3, <4>2, <4>3, <4>4 DEF Gated
    <3>4. QED BY <3>1, <3>2, <3>3, DecisionStock
  <2>3. QED BY <2>1, <2>2
<1>6. ASSUME gatedAt # Nothing, NEW k, Warned(k) PROVE k <= cursor'[Alarms] /\ ~Deciding(k)'
  <2>1. k <= cursor[Alarms] /\ ~Deciding(k) /\ k \in Nat
    BY <1>1, <1>6 DEF Gated
  <2>2. CASE t # "decision"
    <3>1. Aside("decision")
      BY <1>1, <2>2, Bystander
    <3>2. QED BY <1>2, <2>1, <2>2, <3>1 DEF Aside, Deciding
  <2>3. CASE t = "decision"
    <3>1. Decision
      <4>1. "decision" \notin {"traffic", "router", "runner"}
        OBVIOUS
      <4>2. QED BY <1>1, <2>3, <4>1 DEF Acts
    <3>2. CASE DecisionReceive
      <4>1. B!Take("decision")
        BY <1>1, <3>2, Receives DEF DecisionReceive
      <4>2. /\ held'["decision"][1] = Alarms => cursor'[Alarms] = cursor[Alarms] + 1
            /\ held'["decision"][1] # Alarms => cursor'[Alarms] = cursor[Alarms]
            /\ held'["decision"] # Nothing
        BY <1>1, <4>1, AloneTakes DEF FleetInv, Gated
      <4>3. held'["decision"][1] = Alarms => held'["decision"][2] = cursor'[Alarms]
        BY <1>2, <4>2 DEF Alone
      <4>4. ~Deciding(k)'
        <5>1. SUFFICES ASSUME held'["decision"] = <<Alarms, k>> PROVE FALSE
          BY DEF Deciding
        <5>2. held'["decision"][1] = Alarms /\ held'["decision"][2] = k
          BY <5>1
        <5>3. k = cursor[Alarms] + 1
          BY <4>2, <4>3, <5>2
        <5>4. QED BY <1>1, <2>1, <5>3
      <4>5. k <= cursor'[Alarms]
        BY <1>1, <2>1, <4>2
      <4>6. QED BY <4>4, <4>5
    <3>3. CASE DecisionSkip \/ DecisionCusum \/ DecisionPromote \/ DecisionAlarm \/ Acknowledge("decision")
      <4>1. UNCHANGED cursor /\ pc'["decision"] # "decide"
        BY <1>1, <3>3, DecisionDecides, DecisionPublishes, Acks DEF busVars, B!Ack
      <4>2. QED BY <2>1, <4>1 DEF Deciding
    <3>4. CASE Poll("decision")
      <4>1. UNCHANGED <<cursor, held, pc>>
        BY <3>4, Polls DEF busVars
      <4>2. QED BY <2>1, <4>1 DEF Deciding
    <3>5. QED BY <3>1, <3>2, <3>3, <3>4 DEF Decision
  <2>4. QED BY <2>2, <2>3
<1>7. QED BY <1>2, <1>3, <1>4, <1>5, <1>6 DEF Gated
-----------------------------------------------------------------------------
(***************************************************************************)
(* Together.                                                               *)
(***************************************************************************)
Kept == Samples /\ Stocked /\ Closing
DriftInv == EvidenceInv /\ Kept /\ Monitoring /\ Alarming /\ Gated

LEMMA KeptDrift ==
  ASSUME FleetInv, DriftStands, Kept, Drift
  PROVE  Kept'
<1>1. /\ "drift" \in Tasks /\ "router" \in Tasks /\ "router" \in Consumers /\ "runner" \in Tasks
      /\ "drift" \notin {"router", "runner"} /\ {"pairs", "alarms"} \subseteq Streams /\ "pairs" # "alarms"
  BY DriftReads, SubsFact DEF Streams
<1>2. /\ Others("drift") /\ (UNCHANGED <<decisionVars, runnerVars>>) /\ phase = "running"
      /\ log'["pairs"] = log["pairs"]
  BY <1>1, DriftMoves
<1>3. Aside("router")
  <2>1. held'["router"] = held["router"] /\ pc'["router"] = pc["router"]
    BY <1>1, <1>2 DEF Others
  <2>2. \A s \in Streams : Grows(s)
    BY <1>2 DEF Others
  <2>3. QED BY <1>1, <2>1, <2>2, AsideHolds
<1>4. Stocked' /\ \A u \in Tasks : u # "drift" => Calm(u)
  BY DriftStock DEF Kept
<1>5. Samples'
  <2>1. Samples
    BY DEF Kept
  <2>2. pc["router"] # "next" => held["router"] # Nothing
    BY <1>1 DEF FleetInv, Standing, Unfed, Relays
  <2>3. QED BY <1>2, <1>3, <2>1, <2>2 DEF Samples, Aside
<1>6. Closing'
  <2>1. UNCHANGED <<phase, toFlush, processed>>
    BY <1>2 DEF decisionVars, runnerVars
  <2>2. flushing["runner"] = "no" => flushing'["runner"] = "no"
    BY <1>1, <1>4 DEF Calm
  <2>3. QED BY <1>2, <2>1, <2>2 DEF Kept, Closing
<1>7. QED BY <1>4, <1>5, <1>6 DEF Kept

LEMMA KeptGate ==
  ASSUME FleetInv, Reading, Tallied, Kept, DecisionGate
  PROVE  Kept'
<1>1. /\ "decision" \in Tasks /\ "router" \in Tasks /\ "router" \in Consumers /\ "runner" \in Tasks
      /\ "decision" \notin {"router", "runner"}
  BY DriftReads, SubsFact
<1>2. /\ Others("decision") /\ (UNCHANGED <<busVars, runnerVars>>) /\ phase = "running" /\ Job' = Job
      /\ processed' = processed
  BY GateMoves
<1>3. Stocked' /\ \A u \in Tasks : u # "decision" => Calm(u)
  BY GateStock DEF Kept
<1>4. Samples'
  <2>1. UNCHANGED log /\ pc'["router"] = pc["router"]
    BY <1>1, <1>2 DEF Others, busVars
  <2>2. QED BY <1>2, <2>1 DEF Kept, Samples
<1>5. Closing'
  <2>1. UNCHANGED <<phase, toFlush, processed>>
    BY <1>2 DEF runnerVars
  <2>2. flushing["runner"] = "no" => flushing'["runner"] = "no"
    BY <1>1, <1>3 DEF Calm
  <2>3. QED BY <1>2, <2>1, <2>2 DEF Kept, Closing
<1>6. QED BY <1>3, <1>4, <1>5 DEF Kept

LEMMA MonitoringAside ==
  ASSUME Monitoring, Alone(Observed, "drift")', cursor'[Observed] = cursor[Observed],
         pc'["drift"] = pc["drift"], monitor' = monitor
  PROVE  Monitoring'
<1>1. Observing' = Observing
  BY DEF Observing
<1>2. QED BY <1>1 DEF Monitoring

LEMMA DriftInvNext ==
  ASSUME Punctual, "ack" \notin Suspends, Batch["decision"] > 3, DriftInv, [DriftNext]_allVars
  PROVE  DriftInv'
<1>1. /\ EvidenceInv' /\ FleetInv /\ Reading /\ Tallied /\ DriftStands /\ Kept /\ Monitoring
      /\ Alarming /\ Gated /\ Samples /\ Stocked /\ Closing
  BY EvidenceNext DEF DriftInv, EvidenceInv, Kept
<1>2. CASE Drift
  BY <1>1, <1>2, KeptDrift, MonitoringDrift, AlarmingDrift, GatedDrift DEF DriftInv
<1>3. CASE DecisionGate
  <2>1. Kept' /\ Alarming' /\ Gated'
    BY <1>1, <1>3, KeptGate, AlarmingGate, GatedGate
  <2>2. Others("decision") /\ UNCHANGED busVars /\ monitor' = monitor
    BY <1>1, <1>3, GateMoves
  <2>3. pc'["drift"] = pc["drift"] /\ UNCHANGED <<held, cursor, pending>>
    BY <2>2, DriftReads DEF Others, busVars
  <2>4. Alone(Observed, "drift")'
    BY <1>1, <2>3 DEF Monitoring, Alone
  <2>5. Monitoring'
    BY <1>1, <2>2, <2>3, <2>4, MonitoringAside
  <2>6. QED BY <1>1, <2>1, <2>5 DEF DriftInv
<1>4. CASE [Next]_vars /\ UNCHANGED driftVars
  <2>1. PICK t \in Tasks : Acts(t)
    BY <1>4, SomebodyActs
  <2>2. Samples' /\ Stocked' /\ Closing'
    BY <1>1, <2>1, SamplesStep, ActsStock, ClosingStep DEF Closing
  <2>3. UNCHANGED <<monitor, gatedAt>>
    BY <1>4 DEF driftVars
  <2>4. Alarming' /\ Gated'
    BY <1>1, <2>1, <2>3, AlarmingActs, GatedActs
  <2>5. Monitoring'
    <3>1. Alone(Observed, "drift") /\ Sole(Observed, "drift") /\ "drift" \notin Workers
      BY <1>1, DriftReads DEF Monitoring
    <3>2. t # "drift" /\ Aside("drift")
      BY <1>1, <2>1, DriftUnmoved
    <3>3. Alone(Observed, "drift")' /\ cursor'[Observed] = cursor[Observed]
      BY <1>1, <2>1, <3>1, <3>2, ActsAlone
    <3>4. QED BY <1>1, <2>3, <3>2, <3>3, MonitoringAside DEF Aside
  <2>6. QED BY <1>1, <2>2, <2>4, <2>5 DEF DriftInv, Kept
<1>5. QED BY <1>2, <1>3, <1>4 DEF DriftNext, allVars

LEMMA FreshMonitorIs == FreshMonitor = MonitorAt(0)
<1>1. Start(0) = 1 /\ Baseline(0) = Nothing
  BY WindowAssumption DEF Start, Baseline
<1>2. Between(1, 0) = <<>>
  <2>1. 1 \in Nat \ {0} /\ 0 \in Nat /\ 0 <= N /\ 1 <= 0 + 1
    BY RequestsAssumption
  <2>2. Between(1, 0) \in Seq(Topics) /\ Len(Between(1, 0)) = 0 - 1 + 1
    BY <2>1, BetweenFacts
  <2>3. QED BY <2>2
<1>3. QED BY <1>1, <1>2 DEF FreshMonitor, MonitorAt

LEMMA DriftInvInit == DriftInit => DriftInv
<1> SUFFICES ASSUME DriftInit PROVE DriftInv
  OBVIOUS
<1>1. Init /\ monitor = FreshMonitor /\ gatedAt = Nothing /\ EvidenceInv
  BY EvidenceInit DEF DriftInit
<1>2. FleetInv /\ Kept
  BY <1>1, InitOutcome DEF OutcomeInv, Kept
<1>3. /\ B!BusInit /\ S!SinkInit /\ alarmAt = Nothing /\ promotedAt = Nothing
      /\ pc = [t \in Tasks |-> IF t = "decision" THEN "next" ELSE "next"]
  BY <1>1 DEF Init, InitWith
<1>4. /\ \A s \in Streams : log[s] = <<>>
      /\ \A c \in Consumers : held[c] = Nothing
      /\ \A ch \in B!Channels : cursor[ch] = 0 /\ DOMAIN pending[ch] = {}
  BY <1>3 DEF B!BusInit
<1>5. B!Channels = BP!Channels
  BY DEF B!Channels, BP!Channels, B!Readers, BP!Readers, B!Range, BP!Range
<1>6. /\ Observed \in BP!Channels /\ Alarms \in BP!Channels /\ "alarms" \in Streams
      /\ "decision" \in Tasks /\ "decision" \in Consumers /\ "drift" \in Tasks /\ "drift" \in Consumers
      /\ "traffic" \in Tasks /\ "decision" \in Sinks
  BY <1>2, SubsFact, SinksFact, DriftReads, ChannelTypes DEF FleetInv, Streams
<1>7. /\ cursor[Observed] = 0 /\ cursor[Alarms] = 0 /\ log["alarms"] = <<>>
      /\ DOMAIN pending[Observed] = {} /\ DOMAIN pending[Alarms] = {}
      /\ held["drift"] = Nothing /\ held["decision"] = Nothing
      /\ \A t \in Tasks : pc[t] = "next"
  BY <1>3, <1>4, <1>5, <1>6
<1>8. buffer = [s \in Sinks |-> <<>>] /\ flushing = [t \in Tasks |-> "no"]
  BY <1>3 DEF S!SinkInit
<1>9. Alone(Observed, "drift") /\ Alone(Alarms, "decision")
  BY <1>7 DEF Alone
<1>10. Monitoring
  <2>1. Observing = 0
    BY <1>6, <1>7 DEF Observing
  <2>2. \A k \in DriftDue : 0 < k
    BY WindowAssumption DEF DriftDue
  <2>3. monitor.alarmedAt = Nothing
    BY <1>1 DEF FreshMonitor
  <2>4. QED BY <1>1, <1>9, <2>1, <2>2, <2>3, FreshMonitorIs DEF Monitoring
<1>11. Alarming
  <2>1. \A k : ~Warned(k)
    BY <1>7 DEF Warned
  <2>2. QED BY <1>6, <1>7, <1>8, <2>1 DEF Alarming
<1>12. Gated
  <2>1. Len(buffer["decision"]) = 0 /\ Logged = 0
    BY <1>1, <1>3, <1>6, <1>8 DEF Logged, Reported
  <2>2. QED BY <1>1, <1>6, <1>8, <1>9, <2>1 DEF Gated
<1>13. QED BY <1>1, <1>2, <1>10, <1>11, <1>12 DEF DriftInv

(* The monitor alarms at the first request that calls for it whatever is   *)
(* killed, lost from a hand or delivered late, the tests are restarted     *)
(* for that alarm alone, and when the run is done the rows of both events  *)
(* are in the log (InputDriftMonitor.observe, src/coalmine/fleet/drift.py; *)
(* DriftService and DecisionService, services.py:287-312 and 383-391): the *)
(* decision service's buffer must hold its three events until the end.     *)
THEOREM DriftIsCaught ==
  ASSUME Punctual, "ack" \notin Suspends, Batch["decision"] > 3
  PROVE  DriftSpec => []AlarmsWhenDue
<1>1. DriftInit => DriftInv
  BY DriftInvInit
<1>2. DriftInv /\ [DriftNext]_allVars => DriftInv'
  BY DriftInvNext
<1>3. DriftInv => AlarmsWhenDue
  <2> SUFFICES ASSUME DriftInv PROVE AlarmsWhenDue
    OBVIOUS
  <2>1. FleetInv /\ DriftStands /\ Monitoring /\ Alarming /\ Gated /\ Stocked /\ Closing
    BY DEF DriftInv, EvidenceInv, Kept
  <2>2. DriftDue \subseteq Nat /\ Observing \in Nat
    BY <2>1, WindowAssumption, ObservedTypes DEF DriftDue, Monitoring
  <2>3. monitor.alarmedAt = IF \E n \in DriftDue : n <= monitor.seen
                            THEN CHOOSE n \in DriftDue : \A k \in DriftDue : n <= k
                            ELSE Nothing
    <3>1. CASE monitor.alarmedAt = Nothing
      <4>1. monitor.seen = Observing /\ \A k \in DriftDue : Observing < k
        BY <2>1, <3>1 DEF Monitoring, MonitorAt
      <4>2. \A n \in DriftDue : ~(n <= monitor.seen)
        BY <2>2, <4>1
      <4>3. QED BY <3>1, <4>2
    <3>2. CASE monitor.alarmedAt # Nothing
      <4>1. PICK a \in DriftDue : a = monitor.alarmedAt /\ monitor.seen = a /\ \A k \in DriftDue : a <= k
        BY <2>1, <3>2 DEF Monitoring
      <4>2. \A n \in DriftDue : (\A k \in DriftDue : n <= k) => n = a
        BY <2>2, <4>1
      <4>3. (CHOOSE n \in DriftDue : \A k \in DriftDue : n <= k) = a
        BY <4>1, <4>2
      <4>4. a <= monitor.seen
        BY <2>2, <4>1
      <4>5. QED BY <4>1, <4>3, <4>4
    <3>3. QED BY <3>1, <3>2
  <2>4. ASSUME gatedAt # Nothing
        PROVE  /\ gatedAt = monitor.alarmedAt
               /\ phase = "done" => S!Stored(<<gatedAt, 7>>) /\ S!Stored(<<gatedAt, 8>>)
    <3>1. PICK k : Warned(k)
      BY <2>1, <2>4 DEF Gated
    <3>2. gatedAt = monitor.alarmedAt /\ <<gatedAt, 8>> \in SP!KeptSeqs /\ <<gatedAt, 7>> \in SP!KeptSeqs
      BY <2>1, <2>4, <3>1 DEF Gated, Alarming
    <3>3. ASSUME phase = "done" PROVE S!Stored(<<gatedAt, 7>>) /\ S!Stored(<<gatedAt, 8>>)
      BY <2>1, <3>2, <3>3, DoneStores
    <3>4. QED BY <3>2, <3>3
  <2>5. QED BY <2>3, <2>4 DEF AlarmsWhenDue
<1>4. QED BY <1>1, <1>2, <1>3, PTL DEF DriftSpec
=============================================================================
