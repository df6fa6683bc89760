# A TLA+ model of coalmine

coalmine compares a champion language-model configuration with a challenger on
live traffic: requests are served by the champion, a sampled share of them is
also answered by the challenger, judges compare the two answers, and sequential
tests over the stream of verdicts raise a quality alarm, promote the challenger
or move a canary through its stages. The fleet (`src/coalmine/fleet`) runs this
as services on a message bus, with crashes and redelivery; the API server runs
it behind HTTP; the other packages hold the pieces they are built from.

The modules here are translated from the code under `src/coalmine`. Paths below
are relative to that directory unless they start with `tests/` or `docs/`.

## The system's parts

| component | state | operations | talks to |
|---|---|---|---|
| Message bus `fleet/bus.py` | streams, a cursor and a pending table per (stream, group); over Redis a backlog per consumer | `publish`, `consume`/`_next` (reclaim, then next entry), `ack` | every service; `InMemoryBus` and `RedisStreamBus` are meant to be twins |
| Sinks `fleet/services.py:61-93` | a buffer per service, one lock for all | `emit`, `flush` (swap, lock, thread) | event store |
| Event store `core/store.py` | rows keyed by (run, seq), first write wins; `EventLog`: queue, sequence counter, writer task | `append_many`, `read`, `max_seq`; `emit`, `close` | sinks, simulation, judging, API |
| Traffic, router, judge workers, drift service, decision service, canary controller `fleet/services.py` | the message at hand, `processed_pairs`, the detectors, `quality_alarm_at`, `promoted_at`, `drift_gated_at`, `user_share` | one `run` loop each: consume, act, emit, publish, ack | bus and sinks |
| Runner and chaos `fleet/runner.py` | tasks, workers | start, `kill_worker`, `restart_worker`, stop at the target, timeout, final flushes | every task |
| Detectors `stats/` | CUSUM, SPRT, mixture SPRT, confidence sequences, one test per arm | `update`, `reset`, `observe` | decision service, canary lifecycle, simulations |
| Canary lifecycle `canary/lifecycle.py` | stage, share, per-stage gate, rollback CUSUM | `update` | canary controller, API server |
| Drift monitor `fleet/drift.py` | reference window, sliding window, sticky alarm | `observe` | drift service |
| Shadow router `serving/router.py`, backends `serving/backends.py` | outstanding shadow tasks | `handle`, `drain`, `generate` | event log, simulation |
| Simulation `traffic/simulator.py` | a run over the shadow router | `run_simulation` | event log |
| Judging `judging/` | verdicts appended to a finished run, anchors | `judge_run`, `compare_randomized`, ensembles, calibration | event store |
| API server `api/server.py` | request counter, lifecycle, sinks, tasks | `start`, `serve`, `_flusher`, `state`, `stop` | backends, bus, store |
| Simulation harness `sim/` | none | vectorised twins of the scalar tests, calibration | statistics only |
| Replay `core/replay.py`, experiments `experiments/` | none | readers of the log; walks over judged runs | event store |
| Metrics, datasets, charts, deployment | none, or configuration | - | - |

What is hard here: a judge worker may be cancelled at any `await`, and its
messages come back to the others after an idle timeout that a slow live worker
can exceed as well; one buffer is shared by all workers and is flushed outside
the event loop; the decision service counts messages, not pairs, and its
detectors depend on order; the runner decides to stop by looking at one counter
while everything else is in motion; a challenger or the store may fail while a
run is being drained and closed; the server moves the canary while requests are
in flight; and what alarms on-line is calibrated on a vectorised twin of itself.
`PROJECT.json` lists these hazards, each at its line, with the properties that
watch it.

What makes each part correct:

* bus: nothing handed out is lost; an acked message stays away; a message of a
  dead consumer reaches a survivor; one worker per message while consumers are
  prompt.
* sinks and store: a row never changes; what was emitted is stored, except what
  a cancellation drops, and that is one batch at most.
* fleet: one verdict per sampled pair, counted once and recorded; every request up
  to the last sampled one recorded; the alarm a function of the verdicts in the
  order they came, whoever is killed; the run ends.
* canary: the share only moves by a gate's decision, on evidence of its own; a
  rollback is final, and no user is given to the challenger after it; log, control
  stream and router tell the same story.
* drift: alarm when due and only then; a reset is complete.
* event log and simulation: the record is a prefix of what was emitted; one that
  is marked finished is complete and its counts are right; users wait for no
  challenger.
* judging: the log holds what was judged; content decides, not position.
* tests: the vectorised form crosses where the scalar form does; streams of
  different arms and topics do not touch.
* server: users are told what they were served; nobody new meets a challenger
  that was rolled back; the log is fresh, and complete after a shutdown but for
  the flushes it cancelled.

## Modules

The bus:

* `Delivery` - the contract of a bus for a consumer group: a posted message is
  handed to idle readers until one of them finishes it, and never again. It
  promises no order and no exclusivity.
* `Bus` - `InMemoryBus`. `log`, `cursor`, `pending` are the three dictionaries
  (a message id is its position in the stream; `since` is kept as the ticks that
  passed, capped at the timeout); `acked` and `held` are history and the
  consumers' local variables. `Publish`, `Take` (`Reclaim`, `Deliver`), `Ack`
  are the three methods: each body runs under the bus's lock and awaits nothing,
  so it is one step. `Crash`, `Restart` and `Pass` are the environment.
  `Promise == INSTANCE Delivery WITH ...` is the refinement mapping.
* `RedisBus` - `RedisStreamBus`, on the tables of `Bus`: `Claim` is one
  `XAUTOCLAIM`, stream by stream under the reclaim timer, `Read` one
  `XREADGROUP` over all streams of the consumer, `Yield` hands out the local
  backlog. Nothing is asked about an entry between the time it was fetched and
  the time it is yielded; `overtaken` is history. The server is modelled by the
  replies `consume` relies on.

The store:

* `Sink` - the `_Sink` objects and `append_many` behind them, as actions without
  a specification of their own. `Flush` swaps the buffer and enters the lock;
  `Acquire` is the lock reaching a waiter; `Insert` is one row by the worker
  thread; `CancelAll` is what cancelling tasks does to all this.
* `SinkSystem` - `Sink` under tasks that emit, repeat, flush and are cancelled.
* `EventLog` - `emit` numbers and queues, the writer task takes items one by one
  and appends batches on a thread, `close` queues a sentinel. An append may fail
  and takes the writer with it; events behind the sentinel are taken by its last
  drain or by nobody.

The fleet:

* `Fleet` - the services and the runner over one `Bus` and the `Sink`s, one
  action per stretch of code between two awaits. `pc[t]` is where task `t`
  stands; `loop` is the task that has the event loop. A task keeps the loop
  until it awaits something that suspends: `Suspends` says which program points
  do (with the in-memory bus and the simulated judge none; with a remote judge
  the comparison), a flush and the sleep of an empty poll always do. `Spec` is
  the runner's default fleet; the next modules add to it.
* `DriftFleet` - `Fleet` with a drift monitor: `Observe` is
  `InputDriftMonitor.observe`, `DriftObserve`, `DriftPublish` the drift service,
  `DecisionGate` the branch of the decision service that restarts the tests.
  `gatedAfter` is history. Whether two windows differ too much is the constant
  operator `Drifted` of their topic counts.
* `Lifecycle` - `CanaryLifecycle` as a function on records; `Update` is one
  decisive verdict. Shares are numbered by stage.
* `CanaryFleet` - `Fleet` with the canary controller in the decision service's
  place (they have the same group and the same sink slot in the runner) and a
  router that reads the control stream after the requests. `Draw[i]` is the least
  share at which the router's seeded draw gives request `i` to the challenger.
  `ReadBack` and `ShareSteps` are what the experiment reads from the log after.

The server, the simulator, the judges and the tests:

* `Api` - request handlers, judge workers, controller, flusher and shutdown on
  one event loop over the `Sink`s and a `Lifecycle`. Consumers live as long as
  the server, so its streams are queues here. `uncommitted` are the rows of the
  transaction on the one connection that all threads share.
* `Simulation` - `run_simulation`, in sequence or paced, with the shadow router
  and its backends, over `EventLog`; `failing` is the set of calls that raise in
  this run. What `core/replay.py` reads back is a set of operators on `rows`.
* `Judges` - oracle, reward, model and ensemble judges as records; a judge's
  answer by position is a member of a set, and `Compare` turns it into one by
  configuration through the coin that set the order.
* `Judging` - passes of `judge_run` over a recorded run, calibration on synthetic
  anchors, and the anchors built from human votes.
* `Detectors` - the scalar tests fed verdict by verdict, their vectorised twins
  as functions of the whole stream, the maxima they are calibrated on, and the
  walks of the experiments (rolling disagreement, drift gate, per-topic streams).

Proofs: `BusProofs`, `RedisProofs` (on top of it), `SinkProofs` (lemmas about
`Sink`, shared by the next two), `FleetProofs`, `ApiProofs` (with `SinkSystem`),
`DriftProofs` and `CanaryProofs` (on top of `FleetProofs`), `OfflineProofs`
(`Simulation`, `Detectors` and `Judging`). Instances for TLC: `MCBus`, `MCRedis`,
`MCSink`, `MCFleet`, `MCDriftFleet`, `MCCanaryFleet`, `MCSimulation`, `MCJudging`,
`MCDetectors`, `MCApi`.

Operators whose names start with `Bug` are faulty variants of the operator they
precede. No specification uses them; they document what each property is able
to catch, by being put in the operator's place.

## What is checked

`CHECK_DEADLOCK FALSE` is set throughout: the runs stop at their bounds, and a
system that is done stands still.

| run | instance | shows |
|---|---|---|
| `bus` | 2 judges on 2 streams, 2 messages per stream, 2 crashes, late consumers, fairness | `NothingLost`, `NeverRedelivered`; `KeepsPromise`: the bus implements `Delivery`; `AllHandled`: survivors finish what the dead left; `TypeOK` |
| `redis` | 2 consumers of one group, one on 2 streams and the other on one, prefetch 1, claim 1, 1 crash, 2 messages per stream, late consumers, fairness | `PrefetchStranded`: a crash strands what its consumer had fetched, no more; `RedeliveredIfOvertaken`; `AllHandled` |
| `sinks` | 3 tasks, a shared sink of batch 2 and one of batch 1, 4 emissions over 3 seqs, 2 cancellations | `LossBounded`, `RowsStand`, `Drains` |
| `fleet_kills` | 4 requests, the first two sampled, 2 workers, 2 kills at any suspension, restarts, remote judge, router events flushed two by two and verdicts one by one, a deadline that may pass at any moment, fairness | every kill converges: `VerdictOnce`, `VerdictBacked`, `EveryPairJudged`; what the stop leaves out: `RequestsRecorded`; `SameAlarm`: the alarm is the first crossing in the order the verdicts came in; `Completes`: the run ends, or meets its deadline, if some worker survives |
| `fleet_drift` | 6 pairs whose topics shift, 1 worker, windows of 2, stride 1, a timeout | `AlarmsWhenDue`, `EvidenceSinceReset` |
| `canary` | 5 pairs, 1 worker killed and restarted once, so that verdicts change order, a bus whose calls suspend, so that requests and control messages are read in any order; rollback at the second loss | `FreshGates`, `Audited`, `NeverServesAgain`, and `UsesBus`: the fleet's bus is module `Bus` |
| `simulation` | 2 shadowed requests, in sequence and paced, any set of calls that raise, a store that may fail, batch 3, the topic shift and the changepoint at the second request, fairness | `PrefixRecorded`, `Complete`, `FinishedCounts`, `GroundTruth`, `UsersAnswered`, `RunEnds` |
| `judging` | 3 pairs, one of equals; 2 passes, batches of 2, a panel or a noisy judge that may raise; calibration on 3 items; 2 questions and up to 4 votes | `JudgedExactly`, `ContentWins`, `AnchorsMeasure` |
| `detectors` | every stream of up to 6 verdicts over 2 arms with resets, window, stride and re-baseline 2, two designs | `BatchIsScalar`, `MaxCalibrates`, `StreamsAlone`, `GateSplits` |
| `api` | 3 requests (the first and third sampled, any canary coin), 2 judges, batches of 2, a win then a loss, a shutdown at any moment, fairness | `ServedHonestly`, `ClosedLog`, `NoNewVictims`, `Fresh` |
| `fleet_lost_verdict` | 3 pairs, 2 workers, batches of 3 and 2 and one kill | `EveryPairJudged` is violated, see below |
| `canary_routed` | as `canary`, over the in-memory bus, whose calls do not suspend, and without kills | `RoutedAsTold` is violated, see below |

The bounds. Two members of a group are what overtaking, a late ack and a
reclaimed reclaim take; a third would add no new relation between an entry's
owner, its worker and the group. A timeout of two ticks separates "not yet",
"about to" and "expired". Two messages distinguish the head of a stream from the
rest; two crashes let the second hit the consumer that recovered the first. Over
Redis a prefetch of one entry per stream gives the consumer of two streams a
backlog of two, so that an entry waits behind another while a peer claims it; 64
and 16 in the code.

In the fleet two pairs and two workers are enough for one verdict to overtake the
other, and two requests behind them for the runner to stop with a request half
recorded in a buffer, one lost with the router's flush, or one not taken up at
all; `SameAlarm` meets runs whose verdicts came out of order and whose alarm is
therefore at another request than the one due. Batches of 2 and 3 stand for 128: a
batch is filled by one task and swapped out by it, with the others' events in it. `Up`, `Down` and `H` are small
integers for CUSUM's logarithms; only the order-dependence of the sums matters,
and a loss and a win of different sizes have it. `PromoteAt` and `GateAt` stand
for the mixture SPRT's threshold, a function of wins and losses
(`stats/msprt.py:65-82`). Windows of two requests have a reference, a window that
straddles it and the first one that may be scored; six requests leave verdicts
on both sides of the reset. In the canary runs five pairs let a win follow the
rollback, and requests be routed before a stage, at it and after the rollback:
the challenger does serve some of them in `canary`. The decision, drift and canary sinks get a batch of 8 where the code
has 128: these services emit a handful of events in a whole run, and only the
final flush writes them. (Were one of them filled by the last verdict, `Stop`
would drop its batch as in `fleet_lost_verdict`.)

A simulation of two requests emits up to eight events, so that batches of three
are written while it routes, at the sentinel and never; the second request is the
first one after the changepoint. Passes of three verdicts in batches of two (500
in the code) end within a batch or raise within one. Six verdicts hold a window,
a stride, a re-baseline and what follows it; the designs cross early, late, on
the last verdict and by more than a step. `StrideAssumption` (twice the window is
a multiple of the stride, 1000 and 100 in the code) is what makes the simulated
drift check score the monitor's requests: the simulation counts from the end of
the reference, the monitor from the first request. With three requests at the
server there is one before the first transition, one between the two and one
after the rollback.

Fairness. Weak fairness on each task is asyncio's ready queue, which is first
in, first out; on `Store` it is the thread pool and the lock's queue; on `Tick`
it is the clock. Over Redis a consumer's `Claim` and `Read` are strongly fair:
the timer makes either possible again and again, and between two scans the
consumer reads. In `Simulation` the run, the champion and the writer are fair and
the challengers are not: they may hang, and `RunEnds` assumes of them what it
needs. At the server only work that has begun is fair: requests need not come,
and neither need the shutdown. Nothing is assumed of restarts: `AllHandled`
speaks of groups that keep a running member, and `Completes` of runs in which,
from some point on, some worker is alive. The deadline may pass at any
moment but need not, so no run ends for `Completes` by waiting for it.

### Where the code and its documentation differ

`fleet_lost_verdict` is expected to find a violation. `_Sink.flush` empties the
shared buffer before it waits for the lock. A worker killed while it waits takes
with it a verdict of a peer whose pair is acked: no one will judge that pair
again, and the run ends without its row. "Kills, redelivery, and duplicate
judging must not change the outcome: same verdicts" (`tests/test_fleet.py:98`).
`fleet_kills` delimits it: kills are harmless when nothing is batched; and
`LossBounded` says what a kill may cost when something is.

`canary_routed` finds another. The controller "publishes share updates on the
control stream; the router applies them to user routing" (`docs/DESIGN.md:149-150`).
The in-memory bus looks at a consumer's streams in the order it names them
(`fleet/bus.py:68`), requests before control, and no publish or take of it suspends
a task: traffic publishes every request in one go, and the router routes them all
before it reads a share. The user share is 0 throughout, so that "zero
challenger-served users afterward" (`docs/DESIGN.md:152`) is true of the canary
experiment, which runs on this bus (`experiments/canary_lifecycle.py:61`), because
there are none before either. With the two streams the other way round
`RoutedAsTold` holds in this instance. The run `canary` has a bus whose calls suspend,
as those of `RedisStreamBus` do; there the challenger serves, and
`NeverServesAgain` says what the experiment claims.

What follows was seen while modelling and has no run of its own; the assumptions
and constants of the passing runs keep clear of it, at the places named.

* Reclaim looks at idle time alone (`fleet/bus.py:71`). A judge that is alive but
  waits for its flush longer than the timeout is overtaken, both publish, the
  decision service counts two, and the runner stops a pair early; "one verdict
  per pair" is said of kills (`fleet/runner.py:5-7`). `Punctual` excludes it in
  the fleet runs and in `OneVerdictPerPair`; the bus alone is checked without.
* Over Redis an entry claimed by a peer while it waits in the local backlog is
  yielded all the same, though the peer may have acked it
  (`fleet/bus.py:142`): `tests/test_bus.py:71` says an acked message must never
  be redelivered, `RedeliveredIfOvertaken` says how far that goes.
* The runner "waits until exactly that many verdicts are processed, drains, flushes
  every sink, and stops", to "run a scenario to completion"
  (`fleet/runner.py:1-7`). It cancels the router and does not drain it
  (`fleet/runner.py:180-192`): requests behind the last sampled one may not be taken
  up, and if the router is flushing when it is cancelled the rows of its batch are
  gone. With the default shadow rate of 0.2 there mostly are such requests.
  `RequestsRecorded` says exactly how far this goes.
* With several workers verdicts need not arrive in request order, and CUSUM's alarm
  depends on the order. `tests/test_fleet.py:80` and `:104` expect the same alarm of
  runs with three judges, with and without kills; the code gives it only when no
  verdict overtakes another, which `SameAlarm` states, and else the first crossing of
  the order there was. Both orders are reached in `fleet_kills`.
* Cancelling a task inside `asyncio.to_thread` frees the lock, not the thread, so
  that two threads write on one connection (`fleet/services.py:62-65`).
  `RowsStand` and `ClosedLog` hold with them.
* The ramp's chart sorts transitions by request index
  (`experiments/canary_lifecycle.py:86`); verdicts judged out of order may put
  them in another order than they were driven in. `Audited` says exactly when.
* `SPRT` tests its upper threshold first; its vectorised twin says -1 when both
  are crossed at once. They agree if the thresholds are apart, which
  `DesignAssumption` says and the code's formulas give for `alpha + beta < 1`.
* `reward_judge_study` counts a tie as "b" one way round and as "a" the other, so
  that its swap check fails on the ties and nowhere else (`AnchorsMeasure`).
* A server started on a store that has its run would count requests from 0 again,
  and its first rows would be dropped as duplicates; by default it gets a new
  store (`api/server.py:66`).

## What is proved

Everything below holds for all values of the constants, under the assumptions
the modules name. TLC evaluates those assumptions in the runs.

`BusProofs` - any streams, payloads, consumers, groups, subscriptions, timeout and
number of crashes; the timeout is positive, subscriptions list streams, `Nothing`
is not a message.

* `Invariant`: `Spec => []IInv`, with
  `IInv == TypeOK /\ NothingLost /\ HeldWasHanded /\ PunctualOwnsHeld`.
  `NothingLost` is not inductive alone: a late ack of a position beyond the
  cursor would break it, hence `HeldWasHanded`. `OneWorker` needs the stronger
  `PunctualOwnsHeld`: a consumer still owns what it holds and its entry is
  younger than the timeout, so no entry that expired is being worked on.
* `TypeCorrect`, `AtLeastOnce` (`NothingLost`), `Exclusive` (`OneWorker`, if
  consumers are punctual) follow from it.
* `AckedForGood` (`NeverRedelivered`): a take hands out a pending position or
  one beyond the cursor, and by `NothingLost` neither is acked.
* `Implements` (`KeepsPromise`): every step of the bus is a step of `Delivery`
  or a stutter; the same lemma shows that `Take` is `Hand`.

The module ends with lemmas that the others cite: a set of numbers with a property
has a least one (`LeastSet`, from the well-foundedness of the strict subset), so what
holds of zero and of the next of each number holds of all (`Counting`, about a set
and not an operator); a finite set of numbers has a listing in order, each member
once (`Listing`, `Listed`), and only one (`Sortable`, `SortedOnce`); and an equation
that gives a function's value at a number from its value at the number before has a
solution (`Recursion`), which is what a recursive function of the models chooses.

`RedisProofs` - any streams, consumers (finitely many, and some), subscriptions that
list no stream twice, prefetch, claim size up to the prefetch, and crashes.

* `RedisInvariant`: `RedisSpec => []RedisInv`, with
  `RedisInv == Types /\ Handed /\ Portions /\ Bounded /\ Undisturbed`.
* `StrandingIsBounded` (`PrefetchStranded`): a crash leaves no more entries without
  a worker than a prefetch for each stream of the longest subscription. A backlog
  alone gives no such bound, for claims and reads both add to it; `Portions` does:
  what a consumer has fetched is at most a prefetch for every stream it has asked
  since its backlog was last empty. A scan begins with an empty backlog and a claim
  brings no more than a read may.
* `OnlyTheOvertaken` (`RedeliveredIfOvertaken`): as long as no entry was claimed from
  a consumer that is still at it, what a consumer has fetched is its own in the
  group's table, pending, and once in its backlog (`Undisturbed`); so what it hands
  out is not acked. That a claim and a read reply with the entries in order, each
  once, is `InOrderFacts` and `ReplyFacts`.

`FleetProofs` - any requests, verdicts, sampling, workers, sinks, detectors,
timeouts and kills.

* `OneVerdictPerPair` (`VerdictOnce`): if workers are punctual and the ack follows
  the publish without giving up the loop (`"ack" \notin Suspends`, as with the
  in-memory bus), every pair has one verdict on the stream. `FleetInv` is the
  bus's `IInv`, which the fleet's steps keep by the lemmas of `BusProofs`;
  `Standing`: a service works on a message wherever it is not at `"next"`, and a
  worker at its ack has the loop; `Published`: requests are published in order;
  and twice `Relayed`: whatever the destination stream has of a source message,
  that message is acked or its consumer stands right before the ack. A publish
  extends the relay, since by `PunctualOwnsHeld` a message that is being worked
  on is neither acked nor held by another; a kill does not catch a worker between
  publish and ack, for it needs the loop. The assumptions are needed: without
  either one, a pair is judged twice.
* `VerdictsAreBacked` (`VerdictBacked`), `PairsAreJudged` (`EveryPairJudged`) and
  `RequestsAreRecorded` (`RequestsRecorded`): what the log holds while the fleet
  runs and when it is done. All three need the assumptions of the first and
  `OutcomeInv == FleetInv /\ Samples /\ Stocked /\ Busy /\ Reading /\ Closing`: what is
  judged was sampled; an event is in its service's sink or under way with a task of
  that sink; a worker that flushes stands before its publish; the router reads
  requests and the decision service verdicts in order, each once, so `processed`
  never exceeds the verdicts; after the stop only buffers are left, each with its
  flush to come. `AllPublished` is the count that carries the end: `processed`
  verdicts of distinct sampled pairs, as many as there are sampled pairs, are all of
  them; so at the stop no worker is flushing (`WorkersDone`), and the router is past
  every sampled request, and not flushing if it is at the last of these
  (`RouterDone`).
  `VerdictsAreBacked` and `PairsAreJudged` assume `Batch["judge"] = 1 \/ MaxKills = 0`,
  because with batches a kill does lose a verdict: the run `fleet_lost_verdict` is the
  counterexample. `PairsAreJudged` assumes that the decision service's sink takes
  more than two events, the two it emits (128 in the code). `RequestsAreRecorded`
  holds for any sampling, batches and kills, and of requests behind the last sampled
  one too: `Recorded` says that every event the router emitted (`Entered`, from where
  it stands) is kept while the fleet runs, and after the stop all but those of a batch
  that a flush of the router's had in hand (`Cut`). Such a batch holds the last events
  emitted (`Underway`, `Recent`: at most a batch, each at most so far back), so they
  are of the last requests taken up, and the stop finds the router flushing only
  behind the sampled ones.

* `AlarmIsReproducible` (`SameAlarm`), for any workers, batches and kills, under the
  assumptions of `OneVerdictPerPair`: the alarm reported is at the first verdict of
  the stream whose fold is alarmed, and there is none if no fold is; if the stream is
  in request order, that is the request due. `AlarmInv` adds to the above that the
  decision service's detectors are the fold of the verdicts it has processed
  (`Weighing`, `Tallied`) and that it alarmed at the first of them whose fold is
  alarmed (`Sounded`). When the stream is in order and has every sampled pair, the fold
  over it and the one over the requests agree at every request (`FoldedInOrder`).

`DriftProofs` - the same, with a drift monitor: any topics, window, stride, score and
threshold, in a fleet that has a monitor and no lifecycle (`MonitoredAssumption`);
tallies of topics are not `Nothing` (`ReferenceAssumption`).

* `TestsHoldTheEvidence` (`EvidenceSinceReset`): the tests of the decision service are the
  fold of the verdicts it read since the drift alarm it read last, each once and in
  order. `EvidenceInv` is the bus's and the relay's invariant with `Weighing(gatedAfter)`;
  the fold is a recursive function, whose equation comes from `Recursion`.
* `DriftIsCaught` (`AlarmsWhenDue`): `Monitoring` says that the monitor's buffer is at
  each request the stretch of the stream the code keeps (`MonitorAt`), its reference
  the first window, and that no earlier request was due; `Alarming` and `Gated` follow
  the alarm through the stream to the reset, and its rows to the log. The decision
  service's sink must hold its three events (`Batch["decision"] > 3`, 128 in the code).

`CanaryProofs` - the same, with any draws, gates and rollback thresholds, and a
runner that is given a lifecycle (`RampedAssumption`).

* `RollbackIsFinal` (`NeverServesAgain`): the router's share climbs one stage at a
  time until the router is told of the rollback, then drops to nothing and stays
  there, and from then on no request is added to those the log has, or is to have, as
  served by the challenger. `CanaryInv` joins what three tasks know: `Climbs`, the lifecycle's
  transitions are the stages in order, and a rollback is the last one (proved of
  `Update` as a function); `Announced`, the control stream is the first share and
  then the transitions', one short while the controller stands before its
  publish; `Heard`, the router has the share it was told last, its control
  message is the one pending and is not taken back, and the one in hand is
  applied before its ack. No punctuality is needed: the control stream has one
  reader, which has nothing pending there when it asks. Told of everything, the router
  has share 0, which no draw is under (`ToldServes`). `Marked(V)` are the events that
  say of a request outside `V` nothing but that the champion served it or what other
  services say; no other step emits one that is not of this kind (`MarksStay`), so with
  `V` the victims of the moment the sinks and rows hold no others afterwards
  (`VictimsKept`).
* `GatesAreFresh` (`FreshGates`): a stage is left on exactly the decisive verdicts
  that came since it was entered, each counted once. The relaying argument of
  `FleetProofs` is stated for every fleet, so `FleetInv` holds of this one, under the
  assumptions of `OneVerdictPerPair`; the controller alone reads the verdicts, in
  order (`Alone`). `GateInv` adds `Gated`: of the verdicts read but for the one in
  hand (`Weighed`), every transition is on one, the open gate is the tally of those
  after the last transition, and a gate that passed had the tally of those between
  its own transition and the one before. One more verdict keeps it
  (`GatedCounts`), and a longer stream does not change it (`GatedGrows`), for a
  verdict's position is its own: there is one per request.
* `AuditTrail` (`Audited`), if the controller's sink takes more events than a ramp has
  stages (`Batch["decision"] > 4`, 128 in the code), and under the same assumptions:
  every transition has its row, under way and in the end stored; there is no other
  row at its band; and the staircase read back from the rows is the one driven if and
  only if the verdicts that moved it came in request order. `AuditInv` adds to
  `GateInv`, and to what `FleetProofs` knows of samples, sinks and the runner, that the
  transitions are on requests of their own (`Listed`: the verdict in hand is on a
  request that none is on yet, `VerdictNew`), and `Filing`: whatever is in a buffer,
  batch, thread or row at their band tells of one of them, each of them is kept, and
  none is with a thread whose task was cancelled (`Strays`): with so large a sink the
  controller never flushes, so a cancellation takes nothing of its along and the
  runner's last flush writes all. The rows read back are the transitions by request
  (`ReadBackIs`); every share is drawn once (`SharesApart`), so the two charts agree
  only if the two orders do (`StaircaseIs`).

`ApiProofs`, about `SinkSystem` - any tasks, sinks, batch sizes, events and cancellations; some
sink has the largest batch.

* `FirstWriteWins` (`RowsStand`), whatever a second worker or an orphaned thread
  writes.
* `LossIsBounded` (`LossBounded`): k cancellations cost at most k batches of the
  largest sink. `Inv` adds to the bound that every event in a buffer, a batch or a
  thread is one that was emitted (`Holds`), that no batch is longer than the largest
  sink's size (`Small`) and that a task has one thread at most (`Owned`): a flush that
  is cancelled then loses its own batch while it waits, and nothing once the thread
  has it.

`ApiProofs`, about `Api` - any requests, coroutines, judges, samples, coins, verdicts, batches
and lifecycle parameters, under `NamesAssumption`, `TasksAssumption` and
`CusumAssumption`.

* `HonestServing` (`ServedHonestly`) and `ShareIsCurrent` (`NoNewVictims`), from
  `Inv == Routed /\ Streamed /\ Handled /\ Granted(lifecycle) /\ Holds(HonestEvents)`:
  routes are the handlers' own, what the streams hold are requests that were
  served, a handler past a point has done what comes before it, a positive stage
  or a promotion has an advance on record due to a request already served, and
  every event on its way to the store says of its request what its route says.

* `ShutdownIsBounded` (`ClosedLog`), from `ShutInv == Inv /\ Orderly /\ Working /\
  Stopping`. `Working`: until the shutdown the lock lets one thread write at a time
  (`Locked`, `Sole`), so what is not committed is of that thread's batch, and nothing
  that was emitted is missing. `Stopping`: when `stop()` cancels the tasks there is a
  set `D` of events at risk, those in the batches of the flushes it cut off with the
  uncommitted rows of the thread it orphaned among them; it has a largest batch for
  each such flush at most (`ManyFit`), and nothing outside `D` is lost by what
  follows, neither by the final flushes that share the connection with the orphan
  nor by the close, which drops what nobody has committed.

`OfflineProofs`, about `Simulation` - any number of requests, schedule, failing calls,
batch size and failing store, under `TypesAssumption`, `CloseAssumption` and
`ScenarioAssumption`.

* `NoHoles` (`PrefixRecorded`), `FinishedIsCertified` (`FinishedCounts`),
  `RecordIsComplete` (`Complete`) and `TruthIsRecovered` (`GroundTruth`), from
  `Inv == Serial /\ Underway /\ Recorded`. `Recorded` says that there are a sequence
  `E` of events, which no variable holds, and a number `R` such that the rows are the
  first `R` of `E`, what the writer, its thread and the queue have follows in order
  unless the writer died (`Logged`); the counters count `E` (`Counted`); `E` says each
  request that came and each answer to it once, and starts and finishes (`Tells`);
  and a writer that reached the sentinel of a run that did not raise ends with all of
  `E`, since it drains the queue there (`Ended`). `Serial` says that requests that
  come one after another never overlap, `Underway` that a run which ends without
  having raised has nobody under way. `TruthIsRecovered` then counts: the rows of bad
  answers are in bijection with the requests that were given one.

`OfflineProofs`, about `Detectors` - any designs within `DesignAssumption`, arms, verdicts
and resets.

* `BatchAgreesExactly` (`BatchIsScalar`), from `TestsSay`: what each scalar test holds of
  the stream since its last reset. The sums and the reflected walk of a vectorised
  test are the unique function with its recurrence (`RowIs`, `RowsAgree`, from
  `Recursion`), so one more verdict leaves what was computed and adds one value
  (`Grown`); a scalar test stops at the first value out of bounds (`CusumSays`,
  `SprtSays`, `TestSays`), which is where `FirstCrossing` finds it.
* `GateNeverStraddles` (`GateSplits`). The gated walk is unrolled into its steps
  (`WalkIs`): up to the gate it is the test on the verdicts so far (`Running`); past it,
  if it has not alarmed, it takes a baseline and cannot alarm (`Collecting`); then it
  is the test that baseline designs, on the verdicts after it (`Watching`). By
  `BatchAgreesExactly`'s lemmas these are what `RunCusum` says of either stretch, so no
  alarm rests on evidence from both sides of the gate.
* `MaximumCalibrates` (`MaxCalibrates`). A row of numbers reaches a threshold if its
  maximum does (`HighestReaches`), and the first alarm is where it does first
  (`Crossing`), which settles the CUSUM and the rolling rate. The drift monitor is a
  fold over the requests, unrolled into a chain of its steps (`FoldSteps`); after `i`
  requests it has the reference and the buffer the code keeps unless one of the
  checks due by then was over the threshold (`MonitorAt`). The calibration counts the
  stride from a window into the stream, the monitor from its first request; by
  `StrideAssumption` they check at the same requests.

`OfflineProofs`, about `Judging` - any run, plans of passes with distinct ids
(`PlansAssumption`), append size, judges, questions, replies and votes. The module
reaches three specifications, which share no constant and no variable.

* `JudgingIsExact` (`JudgedExactly`). `Logbook(R)`, for some sequence `R` of verdicts which
  no variable holds: the log is `R` numbered on from the run's own rows; what every
  pass that is over judged, or its whole appends if the judge raised, is in `R` in one
  piece, and nothing else of its id (`Done`); the pass under way has its whole appends
  at the end of `R`, the rest in its open batch with the numbers that come next, and
  its sample ahead of it in order (`Under`). A full batch is appended whole since none
  of its numbers is taken (`AppendedIs`). What is read back is sorted by request; two
  rising sequences with the same members are equal (`SortedOnce`), so it is what was
  judged.
* `AnchorsAreHuman` (`AnchorsMeasure`), from `VotesCounted`: of every question the tally
  counts the votes for either model whichever way round they name the two, and its
  texts are the two replies in canonical order.

### What is only model-checked

* Liveness under fairness, which the proof system does not cover: `AllHandled`,
  `Drains`, `Completes`, `UsersAnswered`, `RunEnds`, `Fresh`.
* `ContentWins` and `StreamsAlone` have no theorem: they compare selections from a
  sequence (`SelectSeq`), whose recursion the prover cannot expand.
* `UsesBus` needs a bound of messages per stream that is large enough; each proof about
  the fleet shows of its own that the bus's invariant is kept.

## Not modelled

* Floating-point statistics: likelihood ratios, confidence bounds, Wilson
  intervals, PSI, Monte Carlo generation and quantiles, channel and Wald formulas
  (`stats/channel.py`, `stats/wald.py`). Where a decision hangs on them they are
  constants: sets of rejecting counts, integer steps, an operator on windows.
* Random draws are inputs: coins, samples, latencies, what a model replies.
* The Redis server, Postgres and SQLite beyond the statements the code sends; the
  Postgres store has the same two statements as the SQLite one.
  `RedisStreamBus.cleanup` and `pending_count`, connection errors.
* At the server, a `/serve` for an unknown query id, which raises after the request
  counter has moved (`api/server.py:132-139`) and leaves a gap in the numbers; and
  the reclaim timeout of the bus behind its judges, whose queue is a plain one in
  `Api`.
* The API's SSE tail is a cursor over row ids that only grow, `_track_wins` and the
  dashboard only read.
* Experiments' parameter sweeps and charts, datasets, response pools and
  their files, Prometheus counters, deployment files.
* Drift monitor and canary lifecycle are each composed with the fleet and not both
  at once: the runner allows it, but the drift alarm is not read by the controller,
  and together they exceed what can be explored.

What is left to do: theorems for the properties that have none, and the refinement
of `RedisBus` to a weaker contract than `Delivery`.
