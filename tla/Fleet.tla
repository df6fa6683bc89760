------------------------------- MODULE Fleet -------------------------------
(***************************************************************************)
(* The fleet of src/coalmine/fleet/services.py and runner.py over the      *)
(* in-memory bus: traffic, router, judge workers and the decision service, *)
(* one sink per service (the workers share theirs), one store lock, and    *)
(* the runner that starts the tasks, lets a chaos schedule kill and        *)
(* restart workers, stops when enough verdicts were processed, cancels     *)
(* every task and flushes the sinks.                                       *)
(*                                                                         *)
(* All tasks share one event loop: a task runs until it awaits something   *)
(* that suspends.  `loop' is the task that is running, and Suspends the    *)
(* set of program points at which a task gives the loop up; waiting for a  *)
(* sink's flush and polling an empty bus always do.                        *)
(*                                                                         *)
(* Requests are 1..N; a message is a pair of its kind and the request's    *)
(* index (or the share), an event's seq is <<index, band>>.  Spec is the   *)
(* fleet of FleetRunner's defaults, with the decision service; modules     *)
(* DriftFleet and CanaryFleet add the drift service and put the canary     *)
(* controller in the decision service's place.                             *)
(***************************************************************************)
EXTENDS Naturals, Sequences, FiniteSets

CONSTANTS
  N,            \* n_requests
  Sampled,      \* requests the router's sampling draw selects
  Winner,       \* Winner[i]: what the judge says of pair i, a function of i alone
  Workers,      \* judge worker names
  Batch,        \* Batch[s]: events that make sink s flush
  ReclaimIdle,  \* reclaim_idle_ms, in ticks
  Punctual,     \* TRUE: a worker is done with a pair before it can be reclaimed
  Suspends,     \* program points at which a task suspends
  Monitored,    \* TRUE: the runner is given a drift monitor
  Ramped,       \* TRUE: the runner is given a canary lifecycle
  TimesOut,     \* TRUE: the run may exceed its timeout
  MaxKills,     \* bound: workers killed by the chaos schedule
  Up, Down, H,  \* CUSUM: step of a loss, step of a win, alarm threshold
  PromoteAt,    \* the <<wins, losses>> at which the promotion test rejects
  Nothing, Nobody

ASSUME RequestsAssumption == N \in Nat /\ Sampled \subseteq 1 .. N
ASSUME WinnerAssumption == Winner \in [1 .. N -> {"a", "b", "tie"}]
ASSUME KillsAssumption == MaxKills \in Nat
ASSUME ReclaimIdleAssumption == ReclaimIdle \in Nat \ {0} /\ Punctual \in BOOLEAN
ASSUME WorkersAssumption == Workers \cap {"traffic", "runner", "router", "decision", "drift"} = {}
ASSUME CusumAssumption == Up \in Nat \ {0} /\ Down \in Nat \ {0} /\ H \in Nat \ {0}

Services == {"router", "decision"} \union (IF Monitored THEN {"drift"} ELSE {})
Consumers == Services \union Workers
Streams == {"requests", "pairs", "verdicts", "alarms", "control"}
Kinds == {"request", "pair", "verdict", "quality_alarm", "drift_alarm", "share_update"}
Shares == 0 .. 4       \* of user traffic: 0%, 1%, 5%, 25%, 100%
Payloads == Kinds \X ((1 .. N) \union Shares)
GroupOf == [c \in Consumers |-> IF c \in Workers THEN "judges" ELSE c]
Subs == [c \in Consumers |->
           CASE c = "router"   -> IF Ramped THEN <<"requests", "control">> ELSE <<"requests">>
             [] c = "decision" -> IF Ramped THEN <<"verdicts">> ELSE <<"verdicts", "alarms">>
             [] c = "drift"    -> <<"requests">>
             [] c \in Workers  -> <<"pairs">>]

Tasks == {"traffic", "runner"} \union Consumers
ASSUME NobodyAssumption == Nobody \notin Tasks
FinalFlushes == <<"router", "judge", "decision">> \o (IF Monitored THEN <<"drift">> ELSE <<>>)
Sinks == {FinalFlushes[i] : i \in DOMAIN FinalFlushes}

VARIABLES
  log, cursor, pending, acked, held, live, crashes,    \* module Bus
  buffer, flushing, batch, lockq, threads, rows,       \* module Sink
  pc,          \* pc[t]: where task t is
  loop,        \* the task that has the event loop, or Nobody
  sent,        \* requests published by the traffic service
  processed,   \* processed_pairs of the decision service
  detectors,   \* its CUSUM and promotion test
  alarmAt,     \* quality_alarm_at
  promotedAt,  \* promoted_at
  phase,       \* the runner: "running", "flushing", "done", "stalled"
  toFlush      \* sinks the runner has still to flush

B == INSTANCE Bus WITH MaxPublish <- N, MaxCrashes <- MaxKills
S == INSTANCE Sink

ASSUME NothingAssumption == Nothing \notin (B!Channels \X Nat) \union (1 .. N) \union Shares
ASSUME BatchAssumption == Batch \in [Sinks -> Nat \ {0}]

busVars == <<log, cursor, pending, acked, held>>
sinkVars == <<buffer, flushing, batch, lockq, threads, rows>>
chaosVars == <<live, crashes>>
decisionVars == <<processed, detectors, alarmAt, promotedAt>>
runnerVars == <<phase, toFlush>>
vars == <<busVars, sinkVars, chaosVars, decisionVars, runnerVars, pc, loop, sent>>

FreshDetectors == [stat |-> 0, alarmed |-> FALSE, wins |-> 0, losses |-> 0, rejected |-> FALSE]

(* The decision service, or the controller in its place, begins at start.  *)
InitWith(start) ==
  /\ B!BusInit
  /\ S!SinkInit
  /\ live = Consumers
  /\ crashes = 0
  /\ pc = [t \in Tasks |-> IF t = "decision" THEN start ELSE "next"]
  /\ loop = Nobody
  /\ sent = 0
  /\ processed = 0
  /\ detectors = FreshDetectors
  /\ alarmAt = Nothing
  /\ promotedAt = Nothing
  /\ phase = "running"
  /\ toFlush = FinalFlushes

Init == InitWith("next")
-----------------------------------------------------------------------------
(* The event loop.                                                         *)

(* Operators whose name starts with Bug are faulty variants of the one     *)
(* they precede; no specification uses them.  Here: the flush that emit    *)
(* starts is not awaited.                                                  *)
BugAtNoAwait(t, p) ==
  /\ phase = "running"
  /\ loop \in {Nobody, t}
  /\ pc[t] = p

(* Task t executes the code at program point p.                            *)
At(t, p) ==
  /\ phase = "running"
  /\ loop \in {Nobody, t}
  /\ flushing[t] = "no"
  /\ pc[t] = p

(* It then stands at p, with the loop unless it suspends there.            *)
GoTo(t, p) ==
  /\ pc' = [pc EXCEPT ![t] = p]
  /\ loop' = IF p \in Suspends \union {"end"} \/ flushing'[t] # "no" THEN Nobody ELSE t

(* The message consumer c is working on.                                   *)
Received(c) == log[held[c][1][1]][held[c][2]]
Kind(c) == Received(c)[1]
Payload(c) == Received(c)[2]

Event(i, band, body) == [seq |-> <<i, band>>, body |-> body]

(* A killed worker's task is never cancelled.                              *)
BugReceiveUndead(c, p) ==
  /\ At(c, "next")
  /\ B!Take(c)
  /\ UNCHANGED <<sinkVars, chaosVars, decisionVars, runnerVars, sent>>
  /\ GoTo(c, p)

(* The loop of bus.consume: take what there is, or sleep and poll again.   *)
Receive(c, p) ==
  /\ At(c, "next") /\ c \in live
  /\ B!Take(c)
  /\ UNCHANGED <<sinkVars, chaosVars, decisionVars, runnerVars, sent>>
  /\ GoTo(c, p)

Poll(c) ==
  /\ At(c, "next")
  /\ \A ch \in B!Readers[c] : ~B!Available(ch)
  /\ loop' = Nobody
  /\ UNCHANGED <<busVars, sinkVars, chaosVars, decisionVars, runnerVars, pc, sent>>

Acknowledge(c) ==
  /\ At(c, "ack")
  /\ B!Ack(c)
  /\ UNCHANGED <<sinkVars, chaosVars, decisionVars, runnerVars, sent>>
  /\ GoTo(c, "next")

EmitAndGo(t, s, e, p) ==
  /\ S!Emit(t, s, e)
  /\ GoTo(t, p)
  /\ UNCHANGED <<busVars, chaosVars, runnerVars, sent>>

PublishAndGo(t, s, kind, i, p) ==
  /\ B!Publish(s, <<kind, i>>)
  /\ UNCHANGED <<sinkVars, chaosVars, runnerVars>>
  /\ GoTo(t, p)
-----------------------------------------------------------------------------
(* TrafficService.run publishes the requests in order; its sink is empty.  *)
TrafficPublish ==
  /\ At("traffic", "next")
  /\ sent < N
  /\ sent' = sent + 1
  /\ UNCHANGED decisionVars
  /\ PublishAndGo("traffic", "requests", "request", sent + 1,
                  IF sent + 1 = N THEN "end" ELSE "next")

(* RouterService.run, one step per await.                                  *)
RouterReceive == Receive("router", "request")

RouterServe(config) ==
  /\ At("router", "request")
  /\ Kind("router") = "request"
  /\ EmitAndGo("router", "router", Event(Payload("router"), 0, config), "champion")
  /\ UNCHANGED decisionVars

RouterRequest == RouterServe("champion")

RouterChampion ==
  /\ At("router", "champion")
  /\ LET i == Payload("router") IN
       EmitAndGo("router", "router", Event(i, 1, "champion"),
                 IF i \in Sampled THEN "shadow" ELSE "ack")
  /\ UNCHANGED decisionVars

RouterShadow ==
  /\ At("router", "shadow")
  /\ EmitAndGo("router", "router", Event(Payload("router"), 2, "shadow"), "publish")
  /\ UNCHANGED decisionVars

RouterPublish ==
  /\ At("router", "publish")
  /\ PublishAndGo("router", "pairs", "pair", Payload("router"), "ack")
  /\ UNCHANGED <<decisionVars, sent>>

(* JudgeWorker.run: compare, emit the verdict, publish it, ack the pair.   *)
JudgeReceive(w) == Receive(w, "judge")

JudgeEmit(w) ==
  /\ At(w, "judge")
  /\ EmitAndGo(w, "judge", Event(Payload(w), 5, Winner[Payload(w)]), "publish")
  /\ UNCHANGED decisionVars

JudgePublish(w) ==
  /\ At(w, "publish")
  /\ PublishAndGo(w, "verdicts", "verdict", Payload(w), "ack")
  /\ UNCHANGED <<decisionVars, sent>>
-----------------------------------------------------------------------------
(* CUSUM.update and MixtureSPRT.update, both sticky once they fired.       *)
Most(a, b) == IF a >= b THEN a ELSE b

CusumUpdate(d, win) ==
  IF d.alarmed
  THEN d
  ELSE LET stat == IF win THEN Most(0, d.stat - Down) ELSE d.stat + Up
       IN [d EXCEPT !.stat = stat, !.alarmed = stat >= H]

PromotionUpdate(d, win) ==
  IF d.rejected
  THEN d
  ELSE LET wins   == d.wins + (IF win THEN 1 ELSE 0)
           losses == d.losses + (IF win THEN 0 ELSE 1)
       IN [d EXCEPT !.wins = wins, !.losses = losses,
                    !.rejected = <<wins, losses>> \in PromoteAt]

(* DecisionService.run.  A tie only counts; a quality alarm coming back on *)
(* the alarms stream is acked unread.                                      *)
DecisionReceive == Receive("decision", "decide")

Win == Winner[Payload("decision")] = "b"

DecisionSkip ==
  /\ At("decision", "decide")
  /\ \/ Kind("decision") = "quality_alarm" /\ UNCHANGED processed
     \/ /\ Kind("decision") = "verdict"
        /\ Winner[Payload("decision")] = "tie"
        /\ processed' = processed + 1
  /\ UNCHANGED <<busVars, sinkVars, chaosVars, runnerVars, detectors, alarmAt, promotedAt, sent>>
  /\ GoTo("decision", "ack")

(* Every verdict after the alarm moves it.                                 *)
BugDecisionCusumMoves ==
  /\ At("decision", "decide")
  /\ Kind("decision") = "verdict"
  /\ Winner[Payload("decision")] # "tie"
  /\ processed' = processed + 1
  /\ detectors' = CusumUpdate(detectors, Win)
  /\ alarmAt' = IF detectors'.alarmed THEN Payload("decision") ELSE alarmAt
  /\ UNCHANGED <<busVars, sinkVars, chaosVars, runnerVars, promotedAt, sent>>
  /\ GoTo("decision", "promote")

DecisionCusum ==
  /\ At("decision", "decide")
  /\ Kind("decision") = "verdict"
  /\ Winner[Payload("decision")] # "tie"
  /\ processed' = processed + 1
  /\ detectors' = CusumUpdate(detectors, Win)
  /\ IF detectors'.alarmed /\ alarmAt = Nothing
     THEN /\ alarmAt' = Payload("decision")
          /\ EmitAndGo("decision", "decision", Event(Payload("decision"), 6, "quality_alarm"), "alarm")
     ELSE /\ UNCHANGED <<busVars, sinkVars, chaosVars, runnerVars, alarmAt, sent>>
          /\ GoTo("decision", "promote")
  /\ UNCHANGED promotedAt

DecisionAlarm ==
  /\ At("decision", "alarm")
  /\ PublishAndGo("decision", "alarms", "quality_alarm", Payload("decision"), "promote")
  /\ UNCHANGED <<decisionVars, sent>>

DecisionPromote ==
  /\ At("decision", "promote")
  /\ detectors' = PromotionUpdate(detectors, Win)
  /\ IF detectors'.rejected /\ promotedAt = Nothing
     THEN /\ promotedAt' = Payload("decision")
          /\ EmitAndGo("decision", "decision", Event(Payload("decision"), 6, "promotion"), "ack")
     ELSE /\ UNCHANGED <<busVars, sinkVars, chaosVars, runnerVars, promotedAt, sent>>
          /\ GoTo("decision", "ack")
  /\ UNCHANGED <<processed, alarmAt>>
-----------------------------------------------------------------------------
(* The store thread and the lock advance beside the loop; time passes for  *)
(* the bus whenever no task has the loop.                                  *)
Store ==
  /\ \/ \E th \in threads : S!Insert(th)
     \/ loop = Nobody /\ \E t \in Tasks : S!Acquire(t)
  /\ UNCHANGED <<busVars, chaosVars, decisionVars, runnerVars, pc, loop, sent>>

Tick ==
  /\ phase = "running"
  /\ loop = Nobody
  /\ B!Tick
  /\ UNCHANGED <<sinkVars, chaosVars, decisionVars, runnerVars, pc, loop, sent>>

(* kill_worker: the task is cancelled wherever it is suspended.            *)
KillWorker(w) ==
  /\ phase = "running"
  /\ loop = Nobody
  /\ B!Crash(w)
  /\ S!CancelAll({w})
  /\ pc' = [pc EXCEPT ![w] = "next"]
  /\ UNCHANGED <<decisionVars, runnerVars, loop, sent>>

RestartWorker(w) ==
  /\ phase = "running"
  /\ loop = Nobody
  /\ B!Restart(w)
  /\ UNCHANGED <<sinkVars, decisionVars, runnerVars, pc, loop, sent>>

(* FleetRunner.run: enough verdicts were processed, so every task is       *)
(* cancelled, each sink is flushed, and the run is over.                   *)
BugTargetOneShort == IF Sampled = {} THEN 0 ELSE Cardinality(Sampled) - 1

Target == Cardinality(Sampled)

Stop ==
  /\ phase = "running"
  /\ loop = Nobody
  /\ processed >= Target
  /\ S!CancelAll(Tasks)
  /\ phase' = "flushing"
  /\ UNCHANGED <<busVars, chaosVars, decisionVars, pc, loop, sent, toFlush>>

(* The deadline passes first: TimeoutError, and nothing is flushed.        *)
TimeOut ==
  /\ phase = "running"
  /\ TimesOut
  /\ loop = Nobody
  /\ processed < Target
  /\ phase' = "stalled"
  /\ UNCHANGED <<busVars, sinkVars, chaosVars, decisionVars, pc, loop, sent, toFlush>>

FlushSink ==
  /\ phase = "flushing"
  /\ flushing["runner"] = "no"
  /\ toFlush # <<>>
  /\ S!Flush("runner", Head(toFlush))
  /\ toFlush' = Tail(toFlush)
  /\ UNCHANGED <<busVars, chaosVars, decisionVars, phase, pc, loop, sent>>

Finish ==
  /\ phase = "flushing"
  /\ flushing["runner"] = "no"
  /\ toFlush = <<>>
  /\ phase' = "done"
  /\ UNCHANGED <<busVars, sinkVars, chaosVars, decisionVars, pc, loop, sent, toFlush>>
-----------------------------------------------------------------------------
RouterRest == RouterReceive \/ RouterChampion \/ RouterShadow \/ RouterPublish
            \/ Acknowledge("router") \/ Poll("router")

Judge(w) == JudgeReceive(w) \/ JudgeEmit(w) \/ JudgePublish(w) \/ Acknowledge(w) \/ Poll(w)

Decision == DecisionReceive \/ DecisionSkip \/ DecisionCusum \/ DecisionAlarm \/ DecisionPromote
              \/ Acknowledge("decision") \/ Poll("decision")

Runner == Stop \/ TimeOut \/ FlushSink \/ Finish

(* Everything but what the decision service does, and the router's choice  *)
(* of who serves a request.                                                *)
Rest ==
  \/ TrafficPublish
  \/ RouterRest
  \/ \E w \in Workers : Judge(w) \/ KillWorker(w) \/ RestartWorker(w)
  \/ Store
  \/ Tick
  \/ Runner

Router == RouterRest \/ RouterRequest

Next == Rest \/ RouterRequest \/ Decision

Spec == Init /\ [][Next]_vars

(* Every runnable task gets the loop, threads run, the clock moves; no     *)
(* deadline need ever pass.                                                *)
Fairness ==
  /\ WF_vars(TrafficPublish) /\ WF_vars(Router) /\ WF_vars(Decision)
  /\ \A w \in Workers : WF_vars(Judge(w))
  /\ WF_vars(Store) /\ WF_vars(Tick) /\ WF_vars(Stop \/ FlushSink \/ Finish)

FairSpec == Spec /\ Fairness
-----------------------------------------------------------------------------
(* One verdict per pair reaches the decision service, whatever is killed,  *)
(* reclaimed and judged again: the detectors are not idempotent, so a      *)
(* verdict counted twice is an alarm nobody else would raise.              *)
VerdictOnce ==
  \A j, k \in DOMAIN log["verdicts"] : log["verdicts"][j] = log["verdicts"][k] => j = k

(* Nothing is decided on a verdict that the audit log will miss: the row   *)
(* of a published verdict is stored, or on its way.                        *)
VerdictBacked ==
  \A k \in DOMAIN log["verdicts"] : S!Kept(<<log["verdicts"][k][2], 5>>)

(* _fingerprint of the chaos experiment: what the log says of each pair,   *)
(* when the threads still at work are done.                                *)
Fingerprint ==
  {<<q[1], rows[q]>> : q \in {p \in DOMAIN rows : p[2] = 5}}
    \union {<<e.seq[1], e.body>> :
             e \in {x \in UNION {S!Events(th.todo) : th \in threads} : x.seq[2] = 5}}

(* "Kills, redelivery, and duplicate judging must not change the outcome:  *)
(* same verdicts" (src/tests/test_fleet.py:98-103): whoever is killed and  *)
(* when, a run that ends has one verdict per pair, the one the pair calls  *)
(* for, in its log (src/coalmine/fleet/runner.py:5-9), and a row for the   *)
(* alarm and the promotion it reports.                                     *)
EveryPairJudged ==
  phase = "done" =>
    /\ Fingerprint = {<<i, Winner[i]>> : i \in Sampled}
    /\ \A i \in {alarmAt, promotedAt} \ {Nothing} : S!Stored(<<i, 6>>)

(* Every event of the request there is to be, sampled or not, has its row  *)
(* or is on its way there.                                                 *)
RequestKept(i) ==
  \A band \in {0, 1} \union (IF i \in Sampled THEN {2} ELSE {}) : S!Kept(<<i, band>>)

(* "waits until exactly that many verdicts are processed, drains, flushes  *)
(* every sink, and stops" (src/coalmine/fleet/runner.py:5-7): the router   *)
(* is cancelled, not drained.  A run that ends has taken up every request  *)
(* that is sampled, and stored all events of each it took up, but for      *)
(* fewer than a batch of the last ones, which go when the router is        *)
(* flushing as it is cancelled, and only if none of them matters to the    *)
(* outcome: the last request taken up is behind every sampled one.         *)
RequestsRecorded ==
  phase = "done" =>
    LET taken == cursor[<<"requests", "router">>]
    IN /\ Sampled \subseteq 1 .. taken
       /\ \A i \in 1 .. taken :
            RequestKept(i) \/ (i + Batch["router"] > taken /\ taken \notin Sampled)

(* A fresh pair of tests fed with the verdicts from position i to j of the *)
(* stream.                                                                 *)
Fed(i, j) ==
  LET feed[k \in Nat] ==
        IF k < i THEN FreshDetectors
        ELSE LET pair == log["verdicts"][k][2]
                 win  == Winner[pair] = "b"
             IN IF Winner[pair] = "tie" THEN feed[k - 1]
                ELSE PromotionUpdate(CusumUpdate(feed[k - 1], win), win)
  IN feed[j]

(* What the detectors are after the verdicts of the requests up to i, in   *)
(* request order, and the request at which the quality alarm is due.       *)
InOrder[i \in 0 .. N] ==
  IF i = 0 THEN FreshDetectors
  ELSE IF i \notin Sampled \/ Winner[i] = "tie" THEN InOrder[i - 1]
  ELSE CusumUpdate(InOrder[i - 1], Winner[i] = "b")

AlarmDue == {i \in 1 .. N : InOrder[i].alarmed /\ ~InOrder[i - 1].alarmed}

(* "Kills, redelivery, and duplicate judging must not change the outcome:  *)
(* same verdicts ..., same alarm" (src/tests/test_fleet.py:98-104): the    *)
(* alarm a run reports is the first crossing in the order the verdicts     *)
(* came in, whatever was killed, so it is the alarm due in request order   *)
(* unless a verdict overtook another.                                      *)
SameAlarm ==
  phase = "done" =>
    LET verdicts == log["verdicts"]
        inOrder == \A j, k \in DOMAIN verdicts : j < k => verdicts[j][2] < verdicts[k][2]
    IN /\ IF alarmAt = Nothing
          THEN ~Fed(1, Len(verdicts)).alarmed
          ELSE \E k \in DOMAIN verdicts :
                 /\ Fed(1, k).alarmed /\ ~Fed(1, k - 1).alarmed
                 /\ alarmAt = verdicts[k][2]
       /\ inOrder => AlarmDue = (IF alarmAt = Nothing THEN {} ELSE {alarmAt})

(* The fleet uses the bus as module Bus allows: what is shown of a bus     *)
(* with arbitrary producers and consumers holds of this one.               *)
UsesBus == B!Spec

(* The run ends as long as some worker stays alive in the end, unless its  *)
(* deadline passes first: pairs of killed workers are judged by the        *)
(* survivors or the restarted, and the lock never stays with a task that   *)
(* is gone.                                                                *)
Completes == <>[](live \cap Workers # {}) => <>(phase \in {"done", "stalled"})
=============================================================================
