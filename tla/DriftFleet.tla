---------------------------- MODULE DriftFleet ----------------------------
(***************************************************************************)
(* The fleet with a drift monitor: the drift service reads the request     *)
(* stream in a group of its own (src/coalmine/fleet/services.py:287-312),  *)
(* and its alarm makes the decision service restart both tests (383-391).  *)
(* The monitor is src/coalmine/fleet/drift.py; the index it computes of    *)
(* two windows is a function of their topic counts alone, and Drifted says *)
(* for which counts it reaches the threshold.                              *)
(***************************************************************************)
EXTENDS Fleet

CONSTANTS
  Topic,            \* Topic[i]: the topic of request i
  Window, Stride,   \* sizes of the reference and the sliding window; scoring period
  Drifted(_, _)     \* Drifted(r, w): counts w are too far from reference counts r

Topics == {Topic[i] : i \in 1 .. N}

ASSUME TopicAssumption == DOMAIN Topic = 1 .. N
ASSUME WindowAssumption == Window \in Nat \ {0} /\ Stride \in Nat \ {0}
ASSUME MonitoredAssumption == Monitored /\ ~Ramped     \* the fleet this module is about
ASSUME ReferenceAssumption == Nothing \notin [Topics -> Nat]

VARIABLES
  monitor,      \* the InputDriftMonitor
  gatedAt,      \* drift_gated_at
  gatedAfter    \* history: how many verdicts had been processed by then

driftVars == <<monitor, gatedAt, gatedAfter>>
allVars == <<vars, driftVars>>

FreshMonitor == [seen |-> 0, buffer |-> <<>>, reference |-> Nothing, alarmedAt |-> Nothing]

DriftInit ==
  /\ Init
  /\ monitor = FreshMonitor
  /\ gatedAt = Nothing
  /\ gatedAfter = 0
-----------------------------------------------------------------------------
Counts(topics) == [t \in Topics |-> Cardinality({i \in DOMAIN topics : topics[i] = t})]

Latest(topics) ==
  IF Len(topics) > Window
  THEN SubSeq(topics, Len(topics) - Window + 1, Len(topics))
  ELSE topics

(* The first window freezes the reference and is never scored itself.      *)
Collect(m, n, topics) ==
  IF n = Window
  THEN [m EXCEPT !.seen = n, !.buffer = <<>>, !.reference = Counts(topics)]
  ELSE [m EXCEPT !.seen = n, !.buffer = topics]

(* The buffer is scored before the request just seen pushes one out.       *)
BugScore(m, n, topics) ==
  LET due == Len(topics) > Window /\ n % Stride = 0
  IN [m EXCEPT !.seen = n, !.buffer = Latest(topics),
               !.alarmedAt = IF due /\ Drifted(m.reference, Counts(topics)) THEN n ELSE Nothing]

(* After that the latest window is scored when it is full, every Stride.   *)
Score(m, n, topics) ==
  LET window == Latest(topics)
      due    == Len(window) = Window /\ n % Stride = 0
  IN [m EXCEPT !.seen = n, !.buffer = window,
               !.alarmedAt = IF due /\ Drifted(m.reference, Counts(window)) THEN n ELSE Nothing]

Observe(m, topic) ==
  LET topics == Append(m.buffer, topic) IN
    CASE m.alarmedAt # Nothing -> m
      [] m.alarmedAt = Nothing /\ m.reference = Nothing -> Collect(m, m.seen + 1, topics)
      [] OTHER -> Score(m, m.seen + 1, topics)

(* DriftService.run.                                                       *)
DriftReceive == Receive("drift", "observe") /\ UNCHANGED driftVars

DriftObserve ==
  /\ At("drift", "observe")
  /\ monitor' = Observe(monitor, Topic[Payload("drift")])
  /\ IF monitor.alarmedAt = Nothing /\ monitor'.alarmedAt # Nothing
     THEN EmitAndGo("drift", "drift", Event(Payload("drift"), 7, "drift_alarm"), "alarm")
     ELSE /\ UNCHANGED <<busVars, sinkVars, chaosVars, runnerVars, sent>>
          /\ GoTo("drift", "ack")
  /\ UNCHANGED <<decisionVars, gatedAt, gatedAfter>>

DriftPublish ==
  /\ At("drift", "alarm")
  /\ PublishAndGo("drift", "alarms", "drift_alarm", Payload("drift"), "ack")
  /\ UNCHANGED <<decisionVars, driftVars, sent>>

DriftAcknowledge == Acknowledge("drift") /\ UNCHANGED driftVars
DriftPoll == Poll("drift") /\ UNCHANGED driftVars

(* The promotion test goes on.                                             *)
BugDecisionGate ==
  /\ At("decision", "decide")
  /\ Kind("decision") = "drift_alarm"
  /\ detectors' = [detectors EXCEPT !.stat = 0, !.alarmed = FALSE]
  /\ gatedAt' = Payload("decision")
  /\ gatedAfter' = processed
  /\ EmitAndGo("decision", "decision", Event(Payload("decision"), 8, "test_reset"), "ack")
  /\ UNCHANGED <<processed, alarmAt, promotedAt, monitor>>

(* A drift alarm restarts both tests; what they reported already stands.   *)
DecisionGate ==
  /\ At("decision", "decide")
  /\ Kind("decision") = "drift_alarm"
  /\ detectors' = FreshDetectors
  /\ gatedAt' = Payload("decision")
  /\ gatedAfter' = processed
  /\ EmitAndGo("decision", "decision", Event(Payload("decision"), 8, "test_reset"), "ack")
  /\ UNCHANGED <<processed, alarmAt, promotedAt, monitor>>
-----------------------------------------------------------------------------
Drift == DriftReceive \/ DriftObserve \/ DriftPublish \/ DriftAcknowledge \/ DriftPoll

DriftNext == (Next /\ UNCHANGED driftVars) \/ Drift \/ DecisionGate

DriftSpec == DriftInit /\ [][DriftNext]_allVars
-----------------------------------------------------------------------------
(* The requests at which the index of the Window requests up to there is   *)
(* to be compared with that of the first Window, and is too far from it.   *)
Between(i, j) == [k \in 1 .. j - i + 1 |-> Topic[i + k - 1]]
DriftDue ==
  {n \in 2 * Window .. N :
     n % Stride = 0 /\ Drifted(Counts(Between(1, Window)), Counts(Between(n - Window + 1, n)))}

(* "The first `window` requests freeze the reference distribution; after   *)
(* that a sliding window is scored every `stride` requests"                *)
(* (src/coalmine/fleet/drift.py:84-85): however the monitor trims its      *)
(* buffer, it alarms at the first request that calls for it, and no other; *)
(* and when the run is done, the rows of the alarm and of the reset it     *)
(* caused are both in the log.                                             *)
AlarmsWhenDue ==
  /\ monitor.alarmedAt =
       IF \E n \in DriftDue : n <= monitor.seen
       THEN CHOOSE n \in DriftDue : \A k \in DriftDue : n <= k
       ELSE Nothing
  /\ gatedAt # Nothing =>
       /\ gatedAt = monitor.alarmedAt
       /\ phase = "done" => S!Stored(<<gatedAt, 7>>) /\ S!Stored(<<gatedAt, 8>>)

(* "a drift alarm resets both in-flight tests (their iid assumption just   *)
(* died) and re-baselines" (services.py:359-360): between two messages the *)
(* tests are what fresh ones make of the verdicts since the last reset,    *)
(* each counted once and in the order of the stream.                       *)
EvidenceSinceReset ==
  pc["decision"] \in {"next", "ack"} => detectors = Fed(gatedAfter + 1, processed)
=============================================================================
