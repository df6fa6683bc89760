----------------------------- MODULE Detectors -----------------------------
(***************************************************************************)
(* The sequential tests of src/coalmine/stats beside their vectorised      *)
(* twins of src/coalmine/sim/runner.py, and the walks of the experiments   *)
(* that drive a CUSUM over a judged run.                                   *)
(*                                                                         *)
(* A verdict is a BOOLEAN: the challenger won.  Log-likelihood ratios are  *)
(* small integers; the mixture and confidence-sequence tests reject on the *)
(* number of wins among so many verdicts, so they are a bar per count.     *)
(***************************************************************************)
EXTENDS Integers, SequencesExt

CONSTANTS
  Arms,         \* the challengers of the multi-arm monitor
  MaxVerdicts,  \* bound: verdicts in all
  Rebaseline,   \* REBASELINE_VERDICTS of the drift gate
  Window,       \* window of the drift monitor and of the rolling disagreement
  Stride,       \* stride of the drift monitor
  Designs       \* the designs of the tests, see Design below

ASSUME SizesAssumption ==
  MaxVerdicts \in Nat /\ {Rebaseline, Window, Stride} \subseteq Nat \ {0}

(* The monitor scores at multiples of its stride, the simulation of it at  *)
(* multiples after a window: the same requests if twice the window is one  *)
(* (1000 and 100 in the code).                                             *)
ASSUME StrideAssumption == (2 * Window) % Stride = 0

(* A design: inc[k] is what a win and a loss add to a CUSUM whose baseline *)
(* was estimated from k wins among Rebaseline verdicts, h its threshold;   *)
(* win, loss, upper and lower are the SPRT's; bar[n] is the least number   *)
(* of wins among n verdicts at which an anytime test rejects; topic[i] is  *)
(* that of request i.                                                      *)
Design ==
  [inc : [0 .. Rebaseline -> [win : Int, loss : Int]], h : Nat \ {0},
   win : Int, loss : Int, upper : Int, lower : Int, bar : [1 .. MaxVerdicts -> Nat],
   topic : [1 .. MaxVerdicts -> {"x", "y"}]]

(* increments() is negative for the outcome its alternative makes rarer;   *)
(* thresholds() are apart, which takes alpha + beta < 1.                   *)
ASSUME DesignAssumption ==
  /\ Designs \subseteq Design
  /\ \A d \in Designs :
       /\ d.lower < d.upper /\ d.win * d.loss < 0
       /\ \A k \in DOMAIN d.inc : d.inc[k].win < 0 /\ d.inc[k].loss > 0

VARIABLES
  design,    \* the design in use
  wins,      \* the verdicts since the last reset
  ofArm,     \* the verdicts of each arm, resets do not touch them
  cusum, sprt, anytime,
  tests,     \* the monitor's test of each arm
  promoted   \* the arms it promoted, in order

detectorVars == <<design, wins, ofArm, cusum, sprt, anytime, tests, promoted>>

-----------------------------------------------------------------------------
(* The scalar tests.                                                       *)

Count(ws) == Cardinality({i \in DOMAIN ws : ws[i]})
Step(inc, win) == IF win THEN inc.win ELSE inc.loss
NonNegative(x) == IF x > 0 THEN x ELSE 0

FreshCusum == [stat |-> 0, n |-> 0, alarmed |-> FALSE]

CusumUpdate(c, inc, h, win) ==
  LET s == NonNegative(c.stat + Step(inc, win)) IN
    IF c.alarmed THEN c ELSE [stat |-> s, n |-> c.n + 1, alarmed |-> s >= h]

FreshSprt == [llr |-> 0, n |-> 0, decision |-> 0]

SprtUpdate(t, d, win) ==
  LET l == t.llr + Step(d, win) IN
    IF t.decision # 0 THEN t
    ELSE [llr |-> l, n |-> t.n + 1,
          decision |-> CASE l >= d.upper -> 1 [] l <= d.lower -> -1 [] OTHER -> 0]

FreshTest == [successes |-> 0, n |-> 0, rejected |-> FALSE]

TestUpdate(t, d, win) ==
  LET s == t.successes + (IF win THEN 1 ELSE 0) IN
    IF t.rejected THEN t
    ELSE [successes |-> s, n |-> t.n + 1, rejected |-> s >= d.bar[t.n + 1]]

(* What a reset forgets; the faulty one leaves the alarm up.               *)
BugCusumReset(c) == [FreshCusum EXCEPT !.alarmed = c.alarmed]
CusumReset(c) == FreshCusum

(* Whether a rejection is news.                                            *)
BugNewly(already, rejected) == rejected
Newly(already, rejected) == rejected /\ ~already

-----------------------------------------------------------------------------
(* The vectorised tests, a row at a time; times count from 0 as in numpy.  *)

FirstCrossing(hits, sentinel) ==
  IF \E i \in DOMAIN hits : hits[i]
  THEN (CHOOSE i \in DOMAIN hits : hits[i] /\ \A j \in 1 .. i - 1 : ~hits[j]) - 1
  ELSE sentinel

CumSum(ws, inc) ==
  LET sum[i \in 0 .. Len(ws)] == IF i = 0 THEN 0 ELSE sum[i - 1] + Step(inc, ws[i])
  IN [i \in 1 .. Len(ws) |-> sum[i]]

RunSprt(ws, d) ==
  LET n == Len(ws)
      llr == CumSum(ws, d)
      up == FirstCrossing([i \in 1 .. n |-> llr[i] >= d.upper], n)
      down == FirstCrossing([i \in 1 .. n |-> llr[i] <= d.lower], n)
      stop == IF up < down THEN up ELSE down
  IN [decision |-> IF stop < n THEN (IF up < down THEN 1 ELSE -1) ELSE 0,
      stop |-> IF stop < n THEN stop + 1 ELSE n]

(* The statistic after each verdict, which goes on after the alarm.        *)
Reflected(ws, inc) ==
  LET s[i \in 0 .. Len(ws)] == IF i = 0 THEN 0 ELSE NonNegative(s[i - 1] + Step(inc, ws[i]))
  IN [i \in 1 .. Len(ws) |-> s[i]]

RunCusum(ws, inc, h) ==
  LET s == Reflected(ws, inc)
      t == FirstCrossing([i \in DOMAIN s |-> s[i] >= h], -1)
  IN IF t = -1 THEN -1 ELSE t + 1

(* Its maximum; the faulty one keeps the last value.                       *)
BugCusumMax(ws, inc) == IF ws = <<>> THEN 0 ELSE Reflected(ws, inc)[Len(ws)]
CusumMax(ws, inc) ==
  LET s == Reflected(ws, inc)
  IN CHOOSE m \in {0} \cup {s[i] : i \in DOMAIN s} : \A i \in DOMAIN s : s[i] <= m

(* run_msprt_batch and run_stitched_batch.                                 *)
RunTest(ws, d) ==
  LET n == Len(ws)
      t == FirstCrossing([i \in 1 .. n |-> Count(SubSeq(ws, 1, i)) >= d.bar[i]], n)
  IN IF t = n THEN -1 ELSE t + 1

-----------------------------------------------------------------------------
(* Windows.  Here the booleans are requests of one of two topics, or       *)
(* comparisons on which the members of an ensemble disagreed or not.       *)

Highest(S) == CHOOSE m \in S : \A x \in S : x <= m

(* The PSI of a window against the reference, which tells their counts     *)
(* apart and grows with the difference.                                    *)
Psi(reference, window) ==
  IF Count(reference) > Count(window) THEN Count(reference) - Count(window)
  ELSE Count(window) - Count(reference)

(* _drift_alarm_index: the monitor over a stream of topics, one request    *)
(* after the other (its observe is modelled in full in module DriftFleet). *)
FreshMonitor == [reference |-> <<>>, buffer |-> <<>>, seen |-> 0, alarm |-> 0]

MonitorObserve(m, topic, threshold) ==
  LET seen   == m.seen + 1
      buffer == Append(m.buffer, topic)
      latest == IF Len(buffer) > Window THEN Tail(buffer) ELSE buffer
      due    == Len(latest) = Window /\ seen % Stride = 0
  IN CASE m.alarm # 0 -> m
       [] m.alarm = 0 /\ m.reference = <<>> ->
            IF seen = Window THEN [m EXCEPT !.seen = seen, !.reference = buffer, !.buffer = <<>>]
            ELSE [m EXCEPT !.seen = seen, !.buffer = buffer]
       [] OTHER -> [m EXCEPT !.seen = seen, !.buffer = latest,
                             !.alarm = IF due /\ Psi(m.reference, latest) >= threshold THEN seen ELSE 0]

DriftAlarmIndex(topics, threshold) ==
  FoldLeft(LAMBDA m, t : MonitorObserve(m, t, threshold), FreshMonitor, topics).alarm

(* calibrate_psi_threshold, one trial of it: the largest PSI at the checks,*)
(* Window, Window + Stride, ... requests into the stream.                  *)
PsiMax(reference, stream) ==
  LET checks == {c \in Window .. Len(stream) : (c - Window) % Stride = 0}
  IN Highest({0} \union {Psi(reference, SubSeq(stream, c - Window + 1, c)) : c \in checks})

(* rolling_disagreement, times Window: the disagreements of every window.  *)
Rolled(disagreed) ==
  [i \in 1 .. Len(disagreed) - Window + 1 |-> Count(SubSeq(disagreed, i, i + Window - 1))]

(* The experiment's alarm: the comparisons made at the first crossing.     *)
RollingAlarm(disagreed, threshold) ==
  LET r == Rolled(disagreed)
      t == FirstCrossing([i \in DOMAIN r |-> r[i] >= threshold], -1)
  IN IF t = -1 THEN -1 ELSE t + Window

(* calibrate_disagreement_threshold, one trial of it.                      *)
RollingMax(disagreed) ==
  LET r == Rolled(disagreed) IN Highest({0} \union {r[i] : i \in DOMAIN r})

-----------------------------------------------------------------------------
(* The walk of the drift gate over the verdicts ws, verdict i being that   *)
(* of request i; `gate' is the request of the drift alarm, or one that is  *)
(* never reached.  The walk without a gate is that of the other            *)
(* experiments.                                                            *)

Baseline(d) == d.inc[Rebaseline \div 2]

StartWalk(d) ==
  [mode |-> "run", inc |-> Baseline(d), det |-> FreshCusum, taken |-> <<>>, alarm |-> 0]

(* The mode after re-estimation; the faulty walk is gated over and over.   *)
BugResumed(w) == "run"
Resumed(w) == "run2"

Gated(w, i, gate) ==
  IF w.mode = "run" /\ i >= gate THEN [w EXCEPT !.mode = "estimate", !.det = CusumReset(@)] ELSE w

Estimate(w, d, win) ==
  LET r == Append(w.taken, win) IN
    IF Len(r) < Rebaseline THEN [w EXCEPT !.taken = r]
    ELSE [w EXCEPT !.taken = r, !.inc = d.inc[Count(SubSeq(r, 1, Rebaseline))],
                   !.det = FreshCusum, !.mode = Resumed(w)]

Watch(w, d, i, win) ==
  LET c == CusumUpdate(w.det, w.inc, d.h, win)
  IN [w EXCEPT !.det = c, !.alarm = IF c.alarmed THEN i ELSE 0]

Walk(ws, d, gate) ==
  LET at[i \in 0 .. Len(ws)] ==
        IF i = 0 THEN StartWalk(d)
        ELSE LET w == Gated(at[i - 1], i, gate) IN
               CASE at[i - 1].alarm # 0 -> at[i - 1]
                 [] at[i - 1].alarm = 0 /\ w.mode = "estimate" -> Estimate(w, d, ws[i])
                 [] OTHER -> Watch(w, d, i, ws[i])
  IN at[Len(ws)].alarm

-----------------------------------------------------------------------------
(* Stratified monitoring: the verdicts of one topic, and the walk over     *)
(* them, which reports the request it alarms at.                           *)

Verdicts(ws) == [i \in DOMAIN ws |-> [index |-> i, win |-> ws[i]]]
Stratum(vs, d, topic) == SelectSeq(vs, LAMBDA v : d.topic[v.index] = topic)
WinsOf(vs) == [i \in DOMAIN vs |-> vs[i].win]

WalkStream(vs, d) ==
  FoldLeft(LAMBDA w, v : IF w.alarm # 0 THEN w ELSE Watch(w, d, v.index, v.win), StartWalk(d), vs)

-----------------------------------------------------------------------------
DetectorsInit ==
  /\ design \in Designs
  /\ wins = <<>> /\ ofArm = [a \in Arms |-> <<>>]
  /\ cusum = FreshCusum /\ sprt = FreshSprt /\ anytime = FreshTest
  /\ tests = [a \in Arms |-> FreshTest]
  /\ promoted = <<>>

(* A decisive verdict of one arm reaches the monitor and the tests.        *)
Observe(a, win) ==
  LET t == TestUpdate(tests[a], design, win) IN
    /\ FoldFunction(LAMBDA ws, n : n + Len(ws), 0, ofArm) < MaxVerdicts
    /\ wins' = Append(wins, win)
    /\ ofArm' = [ofArm EXCEPT ![a] = Append(@, win)]
    /\ cusum' = CusumUpdate(cusum, Baseline(design), design.h, win)
    /\ sprt' = SprtUpdate(sprt, design, win)
    /\ anytime' = TestUpdate(anytime, design, win)
    /\ tests' = [tests EXCEPT ![a] = t]
    /\ promoted' = IF Newly(tests[a].rejected, t.rejected) THEN Append(promoted, a) ELSE promoted
    /\ UNCHANGED design

(* An input-drift alarm invalidates the stream: the tests are reset, and   *)
(* the monitor has no reset.                                               *)
Reset ==
  /\ wins # <<>>
  /\ wins' = <<>>
  /\ cusum' = CusumReset(cusum) /\ sprt' = FreshSprt /\ anytime' = FreshTest
  /\ UNCHANGED <<design, ofArm, tests, promoted>>

DetectorsNext == (\E a \in Arms, win \in BOOLEAN : Observe(a, win)) \/ Reset

DetectorsSpec == DetectorsInit /\ [][DetectorsNext]_detectorVars

-----------------------------------------------------------------------------
(* The vectorised tests agree with the scalar ones verdict for verdict:    *)
(* "the vectorized code must agree exactly, trial for trial"               *)
(* (src/coalmine/sim/runner.py:6), first crossing on the last verdict,     *)
(* no crossing and resets in between included.                             *)
BatchIsScalar ==
  LET n == Len(wins)
      batch == RunSprt(wins, design)
  IN /\ batch.decision = sprt.decision
     /\ batch.stop = sprt.n
     /\ RunCusum(wins, Baseline(design), design.h) = (IF cusum.alarmed THEN cusum.n ELSE -1)
     /\ RunTest(wins, design) = (IF anytime.rejected THEN anytime.n ELSE -1)

(* "The alarm fires iff the running max crosses h"                         *)
(* (src/coalmine/sim/runner.py:87), for every threshold; the drift monitor,*)
(* "simulating the monitor's OWN procedure"                                *)
(* (src/coalmine/fleet/drift.py:41), alarms iff the simulated maximum is   *)
(* no less than the threshold; and so does the rolling disagreement, on    *)
(* the comparison that completes the window.  Every false-alarm budget of  *)
(* the experiments, the fleet and the server stands on this.               *)
MaxCalibrates ==
  /\ \A h \in 1 .. design.h + 1 :
       RunCusum(wins, Baseline(design), h) # -1 <=> CusumMax(wins, Baseline(design)) >= h
  /\ \A h \in 1 .. Window + 1 :
       /\ DriftAlarmIndex(wins, h) # 0
            <=> Len(wins) > Window
                /\ PsiMax(SubSeq(wins, 1, Window), SubSeq(wins, Window + 1, Len(wins))) >= h
       /\ RollingAlarm(wins, h) # -1 <=> RollingMax(wins) >= h
       /\ LET k == RollingAlarm(wins, h) IN
            k # -1 => /\ Count(SubSeq(wins, k - Window + 1, k)) >= h
                      /\ RollingMax(SubSeq(wins, 1, k - 1)) < h

(* However the verdicts of the arms interleave, the monitor promotes each  *)
(* arm once, at the verdict where that arm's stream alone would            *)
(* (src/coalmine/stats/multiarm.py): the arms do not touch each other.     *)
(* Nor do the topics: a stratum alarms at the request where its own        *)
(* verdicts call for it, and the aggregate knows nothing the strata do     *)
(* not, its evidence is at most the sum of theirs                          *)
(* (src/coalmine/experiments/stratified.py:47).                            *)
StreamsAlone ==
  /\ \A i, j \in DOMAIN promoted : promoted[i] = promoted[j] => i = j
  /\ \A a \in Arms :
       /\ (\E i \in DOMAIN promoted : promoted[i] = a) <=> RunTest(ofArm[a], design) # -1
       /\ tests[a].rejected => tests[a].n = RunTest(ofArm[a], design)
  /\ LET all == Verdicts(wins)
         walk(topic) == WalkStream(Stratum(all, design, topic), design)
         evidence(vs) == LET s == Reflected(WinsOf(vs), Baseline(design))
                         IN IF s = <<>> THEN 0 ELSE s[Len(s)]
     IN /\ \A topic \in {"x", "y"} :
             LET vs == Stratum(all, design, topic)
                 k == RunCusum(WinsOf(vs), Baseline(design), design.h)
             IN walk(topic).alarm = IF k = -1 THEN 0 ELSE vs[k].index
        /\ WalkStream(all, design).alarm = (IF cusum.alarmed THEN cusum.n ELSE 0)
        /\ evidence(all) <= evidence(Stratum(all, design, "x")) + evidence(Stratum(all, design, "y"))

(* Wherever the drift alarm falls, the gated walk alarms on the evidence   *)
(* before it or, after a whole baseline has been taken from the verdicts   *)
(* that follow, on the evidence after that, and never across              *)
(* (src/coalmine/experiments/drift_gate.py:85).                            *)
GateSplits ==
  \A gate \in 1 .. Len(wins) + 1 :
    LET resume == gate + Rebaseline
        before == RunCusum(SubSeq(wins, 1, gate - 1), Baseline(design), design.h)
        after == IF resume > Len(wins) THEN -1
                 ELSE RunCusum(SubSeq(wins, resume, Len(wins)),
                               design.inc[Count(SubSeq(wins, gate, resume - 1))], design.h)
    IN Walk(wins, design, gate) =
         CASE before # -1 -> before
           [] before = -1 /\ after # -1 -> resume - 1 + after
           [] OTHER -> 0
=============================================================================
