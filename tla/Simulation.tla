----------------------------- MODULE Simulation -----------------------------
(***************************************************************************)
(* run_simulation (src/coalmine/traffic/simulator.py) with the shadow      *)
(* router (serving/router.py) in front of its backends (backends.py) and   *)
(* the event log behind it, and what core/replay.py reads back.            *)
(*                                                                         *)
(* A call <<config, i>> is a backend's generate for request i.  What it    *)
(* answers is a function of the request; whether it raises is fixed for a  *)
(* run (a pool that lacks the query, a model that refuses); when it ends   *)
(* is up to the scheduler.                                                 *)
(***************************************************************************)
EXTENDS EventLog

CONSTANTS
  N,             \* n_requests
  Sampled,       \* the requests the router's draw selects for shadowing
  TopicBefore, TopicAfter,   \* the topic the i-th draw gives under the weights
                 \*   before and after the shift of the topics
  TopicShiftAt,  \* topic_shift_at
  Coin,          \* Coin[i]: the challenger's mixture draw, in tenths
  Epsilon, Changepoint, RegressedTopic, AllTopics   \* the injected regression

ASSUME ScenarioAssumption ==
  /\ N \in Nat /\ Sampled \subseteq 0 .. N - 1
  /\ Coin \in [0 .. N - 1 -> 0 .. 9] /\ Changepoint \in Nat

(* What is emitted, and what it cannot be mistaken for.                    *)
Topics == {TopicBefore[i] : i \in 0 .. N - 1} \union {TopicAfter[i] : i \in 0 .. N - 1}
Bodies == {"scenario", "good", "bad"} \union Topics \union [Types -> Nat]
Events == [seq : Nat, type : Types, index : Nat, body : Bodies]

ASSUME TypesAssumption ==
  {"run_started", "request_received", "champion_response", "shadow_response", "run_finished"}
    \subseteq Types
ASSUME CloseAssumption == Close \notin Events

VARIABLES
  paced,         \* rate_rps is given: requests run concurrently
  failing,       \* the calls that raise
  run,           \* the run: "start", "routing", "gather", "drain", "finally",
                 \*   "closing", "returned" or "raised"
  arrived,       \* requests routed so far
  routes,        \* requests whose champion has not answered
  shadows,       \* requests whose challenger has not answered
  spent,         \* shadow tasks that raised and are not discarded yet
  raised         \* a route, or the drain, raised

simVars == <<paced, failing, run, arrived, routes, shadows, spent, raised>>
vars == <<logVars, simVars>>

Requests == 0 .. N - 1
Calls == {"champion", "challenger"} \X Requests

Init ==
  /\ LogInit
  /\ paced \in BOOLEAN
  /\ failing \in SUBSET Calls
  /\ run = "start"
  /\ arrived = 0
  /\ routes = {} /\ shadows = {} /\ spent = {}
  /\ raised = FALSE
-----------------------------------------------------------------------------
(* _pick_query: the draw is the request's own, the weights those in force. *)
Topic(i) == IF i >= TopicShiftAt THEN TopicAfter[i] ELSE TopicBefore[i]

(* Operators whose name starts with Bug are faulty variants of the one     *)
(* they precede; no specification uses them.  Here: the regression starts  *)
(* one request late.                                                       *)
BugSchedule(i) ==
  IF i <= Changepoint \/ (RegressedTopic # AllTopics /\ Topic(i) # RegressedTopic)
  THEN 0 ELSE Epsilon

(* step_schedule and topic_step_schedule.                                  *)
Schedule(i) ==
  IF i < Changepoint \/ (RegressedTopic # AllTopics /\ Topic(i) # RegressedTopic)
  THEN 0 ELSE Epsilon

(* MixtureBackend.generate: the pool the challenger answers from.          *)
Pool(i) == IF Coin[i] < Schedule(i) THEN "bad" ELSE "good"

Start ==
  /\ run = "start"
  /\ Emit(Event("run_started", N, "scenario"))
  /\ run' = "routing"
  /\ UNCHANGED <<paced, failing, arrived, routes, shadows, spent, raised>>

(* route up to the champion's call.  Requests come at random when paced,   *)
(* one after the other's answer when not.                                  *)
Route ==
  /\ run = "routing" /\ arrived < N
  /\ paced \/ routes = {}
  /\ Emit(Event("request_received", arrived, Topic(arrived)))
  /\ arrived' = arrived + 1
  /\ routes' = routes \union {arrived}
  /\ shadows' = shadows \union ({arrived} \cap Sampled)
  /\ UNCHANGED <<paced, failing, run, spent, raised>>

(* The user waits for the challenger as well.                              *)
BugAnswered(i) == i \notin shadows

Answered(i) == i \in routes

(* The champion's answer goes to the user and to the log.                  *)
ChampionReturns(i) ==
  /\ i \in routes /\ Answered(i)
  /\ <<"champion", i>> \notin failing
  /\ Emit(Event("champion_response", i, "good"))
  /\ routes' = routes \ {i}
  /\ UNCHANGED <<paced, failing, run, arrived, shadows, spent, raised>>

(* One after another, the first exception ends the loop; paced, it waits   *)
(* for the gather.                                                         *)
ChampionRaises(i) ==
  /\ i \in routes
  /\ <<"champion", i>> \in failing
  /\ routes' = routes \ {i}
  /\ raised' = TRUE
  /\ run' = IF paced THEN run ELSE "finally"
  /\ UNCHANGED <<logVars, paced, failing, arrived, shadows, spent>>

ShadowReturns(i) ==
  /\ i \in shadows
  /\ <<"challenger", i>> \notin failing
  /\ Emit(Event("shadow_response", i, Pool(i)))
  /\ shadows' = shadows \ {i}
  /\ UNCHANGED <<paced, failing, run, arrived, routes, spent, raised>>

(* A shadow task that raises is forgotten by its done callback, unless the *)
(* drain is waiting for it or finds it first.                              *)
ShadowRaises(i) ==
  /\ i \in shadows
  /\ <<"challenger", i>> \in failing
  /\ shadows' = shadows \ {i}
  /\ spent' = spent \union {i}
  /\ UNCHANGED <<logVars, paced, failing, run, arrived, routes, raised>>

Discard(i) ==
  /\ i \in spent /\ run # "drain"
  /\ spent' = spent \ {i}
  /\ UNCHANGED <<logVars, paced, failing, run, arrived, routes, shadows, raised>>

(* All are routed: gather of the tasks, which raises the first exception while *)
(* the other routes go on, and then drain.                                 *)
Gather ==
  /\ run = "routing" /\ arrived = N
  /\ raised \/ routes = {}
  /\ run' = IF raised THEN "finally" ELSE "drain"
  /\ UNCHANGED <<logVars, paced, failing, arrived, routes, shadows, spent, raised>>

(* drain is not awaited.                                                   *)
BugDrained == TRUE

Drained == shadows = {}

Drain ==
  /\ run = "drain"
  /\ spent # {} \/ Drained
  /\ raised' = (spent # {})
  /\ run' = "finally"
  /\ UNCHANGED <<logVars, paced, failing, arrived, routes, shadows, spent>>

Finally ==
  /\ run = "finally"
  /\ EmitAndClose(Event("run_finished", N, counts))
  /\ run' = "closing"
  /\ UNCHANGED <<paced, failing, arrived, routes, shadows, spent, raised>>

(* close has awaited the writer: an exception of the store's comes through.*)
Closed ==
  /\ run = "closing" /\ WriterOver
  /\ run' = IF raised \/ writer = "dead" THEN "raised" ELSE "returned"
  /\ UNCHANGED <<logVars, paced, failing, arrived, routes, shadows, spent, raised>>

RunStep == Start \/ Route \/ Gather \/ Drain \/ Finally \/ Closed

ShadowEnds(i) == ShadowReturns(i) \/ ShadowRaises(i)

Next ==
  \/ RunStep
  \/ \E i \in Requests : ChampionReturns(i) \/ ChampionRaises(i) \/ ShadowEnds(i) \/ Discard(i)
  \/ Writer /\ UNCHANGED simVars

Spec == Init /\ [][Next]_vars

(* The loop runs what is ready and the champion answers; challengers may   *)
(* hang.                                                                   *)
FairSpec ==
  /\ Spec
  /\ WF_vars(RunStep)
  /\ \A i \in Requests : WF_vars(ChampionReturns(i) \/ ChampionRaises(i))
  /\ WF_vars(Writer /\ UNCHANGED simVars)
-----------------------------------------------------------------------------
(* replay.shadow_flags: request indices and pool flags, by index.          *)
ShadowRows == {q \in DOMAIN rows : rows[q].type = "shadow_response"}

(* measured_epsilon, as a count.                                           *)
BadIn(from, to) ==
  Cardinality({q \in ShadowRows : rows[q].body = "bad" /\ rows[q].index \in from .. to - 1})

(* replay.content_fingerprint: the requests and answers, without the order *)
(* in which the scheduler had them logged.                                 *)
Content ==
  {<<rows[q].type, rows[q].index, rows[q].body>> :
     q \in {p \in DOMAIN rows : rows[p].type \notin {"run_started", "run_finished"}}}
-----------------------------------------------------------------------------
(* The record is a prefix of what was emitted at every moment, whatever    *)
(* fails: the log never has a hole that a reader would take for silence.   *)
PrefixRecorded ==
  /\ DOMAIN rows = 0 .. Cardinality(DOMAIN rows) - 1
  /\ \A q \in DOMAIN rows : rows[q].seq = q

(* A run that returns has a complete record, run_finished last             *)
(* ("Everything lands in the event log", src/coalmine/traffic/simulator.py:*)
(* 6-7), and what is in it is a matter of the scenario and of which        *)
(* challengers answered, however the scheduler interleaved the tasks       *)
(* (src/coalmine/core/replay.py:22-24).                                    *)
Complete ==
  run = "returned" =>
    /\ Cardinality(DOMAIN rows) = nextSeq /\ rows[nextSeq - 1].type = "run_finished"
    /\ Content = {<<"request_received", i, Topic(i)>> : i \in Requests}
                 \union {<<"champion_response", i, "good">> : i \in Requests}
                 \union {<<"shadow_response", i, Pool(i)>> :
                          i \in {j \in Sampled : <<"challenger", j>> \notin failing}}
    /\ Cardinality(Content) = nextSeq - 2

(* A stored run_finished certifies the record: its counts are the rows     *)
(* before it, even when the run raised and late answers follow.            *)
FinishedCounts ==
  \A q \in DOMAIN rows : rows[q].type = "run_finished" =>
    \A t \in Types : rows[q].body[t] = Cardinality({p \in 0 .. q - 1 : p \in DOMAIN rows /\ rows[p].type = t})

(* "ground truth is recoverable from it afterward"                         *)
(* (simulator.py:7): the bad answers in the log are those injected, all of *)
(* them at or after the changepoint.                                       *)
GroundTruth ==
  run = "returned" =>
    /\ BadIn(0, Changepoint) = 0
    /\ BadIn(Changepoint, N) =
         Cardinality({i \in Sampled : /\ i >= Changepoint /\ Coin[i] < Epsilon
                                      /\ RegressedTopic \in {AllTopics, Topic(i)}
                                      /\ <<"challenger", i>> \notin failing})

(* "a slow (or hung) challenger cannot add a millisecond of user-facing    *)
(* latency" (src/coalmine/serving/router.py:4-6): every request is         *)
(* answered though no challenger ever is, unless a champion raised.        *)
UsersAnswered ==
  <>(raised \/ (arrived = N /\ routes = {}))

(* If the challengers answer, the run ends, and nobody is left waiting on  *)
(* a writer that died or a sentinel that was lost.                         *)
RunEnds ==
  (\A i \in Requests : i \in shadows ~> i \notin shadows) => <>(run \in {"returned", "raised"})
=============================================================================
