-------------------------------- MODULE Api --------------------------------
(***************************************************************************)
(* The HTTP server of src/coalmine/api/server.py: request handlers that    *)
(* route by the canary lifecycle's share at the moment they run, judge     *)
(* workers and the canary controller behind them on the in-process bus,    *)
(* three sinks in front of one store, and a task that flushes them every   *)
(* 0.25 seconds so that whoever tails the store sees what happens.         *)
(*                                                                         *)
(* All of it is one event loop.  The backends answer at once and the bus   *)
(* never suspends, so a task runs until it sleeps or until an emit has to  *)
(* flush; only the store's threads run beside it.  Consumers live as long  *)
(* as the server, so that the streams are plain queues here (module Bus    *)
(* has the rest), and nobody reads the control stream.                     *)
(***************************************************************************)
EXTENDS Sink

CONSTANTS
  Handlers,    \* Handlers[i]: the coroutine that serves the i-th request
  Judges,      \* judge workers
  Sampled,     \* requests the router's coin gives to the challenger as well
  Winner,      \* Winner[i]: what the judge says of request i: "a", "b" or "tie"
  Up, Down, H, GateAt

L == INSTANCE Lifecycle

N == Len(Handlers)
Background == Judges \union {"controller", "flusher"}

ASSUME CusumAssumption == Up \in Nat /\ Down \in Nat /\ H \in Nat

(* Every coroutine has a name of its own.                                  *)
ASSUME NamesAssumption ==
  /\ Handlers \in Seq(Tasks)
  /\ \A i, j \in 1 .. N : Handlers[i] = Handlers[j] => i = j
  /\ \A i \in 1 .. N : Handlers[i] \notin Background \union {"stop"}
  /\ Judges \cap {"controller", "flusher", "stop"} = {}

ASSUME TasksAssumption ==
  /\ Sinks = {"api", "judge", "canary"} /\ IsFiniteSet(Judges)
  /\ Tasks = {Handlers[i] : i \in 1 .. N} \union Background \union {"stop"}

VARIABLES
  pc,          \* where each task is
  loop,        \* the task the event loop runs until it suspends, or Nobody
  served,      \* served[i]: how the i-th request was routed
  answer,      \* answer[i]: the response to the i-th request
  pairs,       \* the pairs stream, and how much of it the judges have taken
  judged,
  holds,       \* holds[j]: the pair worker j judges
  verdicts,    \* the verdicts stream, and how much of it the controller took
  decided,
  lifecycle,   \* the CanaryLifecycle the controller drives
  uncommitted, \* rows of a transaction that has not been committed
  emitted,     \* the seqs emitted so far
  cutOff       \* flushes that stop() cancelled

control == <<pc, loop>>
streams == <<pairs, judged, holds, verdicts, decided>>
serving == <<served, answer>>
apiVars == <<sinkVars, control, serving, streams, lifecycle, uncommitted, emitted, cutOff>>

Init ==
  /\ SinkInit
  /\ pc = [t \in Tasks |-> "start"]
  /\ loop = Nobody
  /\ served = <<>> /\ answer = [i \in 1 .. N |-> Nobody]
  /\ pairs = <<>> /\ judged = 0 /\ holds = [j \in Judges |-> 0]
  /\ verdicts = <<>> /\ decided = 0
  /\ lifecycle = L!NewLifecycle
  /\ uncommitted = {}
  /\ emitted = {} /\ cutOff = 0
-----------------------------------------------------------------------------
(* A task runs when the loop is its own or free and no flush holds it up;  *)
(* it keeps the loop up to its next suspension.                            *)
At(t, place) == pc[t] = place /\ flushing[t] = "no" /\ loop \in {t, Nobody}

GoTo(t, place, suspends) ==
  /\ pc' = [pc EXCEPT ![t] = place]
  /\ loop' = IF suspends \/ flushing'[t] # "no" THEN Nobody ELSE t

EmitAs(t, sink, seq, body) ==
  /\ Emit(t, sink, [seq |-> seq, body |-> body])
  /\ emitted' = emitted \union {seq}
  /\ UNCHANGED <<uncommitted, cutOff>>

(* Operators whose name starts with Bug are faulty variants of the one     *)
(* they precede; no specification uses them.                               *)
BugCallsChallenger(sampled, canary) == sampled

(* The challenger is called for the canary's users and for the sample.     *)
CallsChallenger(sampled, canary) == sampled \/ canary

(* The share is frozen at the first one the challenger was given.          *)
BugShareNow ==
  IF lifecycle.transitions = <<>> THEN L!Share(lifecycle) ELSE lifecycle.transitions[1].share

ShareNow == L!Share(lifecycle)

ServedBy(r) == IF r.canary THEN "challenger" ELSE "champion"
UserResponse(r) == IF r.canary /\ r.shadow THEN "challenger" ELSE "champion"

(* state: what GET /state reports of the lifecycle.                        *)
Reported ==
  [stage |-> lifecycle.stage, share |-> L!Share(lifecycle), state |-> lifecycle.state,
   seen |-> lifecycle.seen, transitions |-> lifecycle.transitions]

(* serve, for the next request: canary coin, backends, and its first event.*)
Serve ==
  LET i == Len(served) + 1 IN
    /\ i <= N
    /\ At(Handlers[i], "start")
    /\ pc["stop"] = "start"
    /\ \E canary \in BOOLEAN :
         /\ canary => ShareNow > 0
         /\ ~canary => ShareNow < L!Full
         /\ LET r == [canary |-> canary, shadow |-> CallsChallenger(i \in Sampled, canary)] IN
              /\ served' = Append(served, r)
              /\ EmitAs(Handlers[i], "api", <<i, 0>>, ServedBy(r))
    /\ GoTo(Handlers[i], "champion", FALSE)
    /\ UNCHANGED <<answer, streams, lifecycle>>

EmitChampion(i) ==
  /\ At(Handlers[i], "champion")
  /\ EmitAs(Handlers[i], "api", <<i, 1>>, "champion_response")
  /\ GoTo(Handlers[i], IF served[i].shadow THEN "shadow" ELSE "respond", FALSE)
  /\ UNCHANGED <<serving, streams, lifecycle>>

EmitShadow(i) ==
  /\ At(Handlers[i], "shadow")
  /\ EmitAs(Handlers[i], "api", <<i, 2>>, "shadow_response")
  /\ GoTo(Handlers[i], "publish", FALSE)
  /\ UNCHANGED <<serving, streams, lifecycle>>

Quiet == UNCHANGED <<sinkVars, uncommitted, emitted, cutOff>>

PublishPair(i) ==
  /\ At(Handlers[i], "publish")
  /\ pairs' = Append(pairs, i)
  /\ Quiet
  /\ GoTo(Handlers[i], "respond", FALSE)
  /\ UNCHANGED <<serving, judged, holds, verdicts, decided, lifecycle>>

Respond(i) ==
  /\ At(Handlers[i], "respond")
  /\ answer' = [answer EXCEPT ![i] = [servedBy |-> ServedBy(served[i]),
                                      text |-> UserResponse(served[i])]]
  /\ Quiet
  /\ GoTo(Handlers[i], "done", TRUE)
  /\ UNCHANGED <<served, streams, lifecycle>>
-----------------------------------------------------------------------------
(* JudgeWorker.run: a pair, its verdict on record and on the stream.  It   *)
(* sleeps when it finds no pair.                                           *)
JudgePair(j) ==
  /\ At(j, "start") /\ judged < Len(pairs)
  /\ judged' = judged + 1
  /\ holds' = [holds EXCEPT ![j] = pairs[judged + 1]]
  /\ EmitAs(j, "judge", <<pairs[judged + 1], 5>>, "verdict")
  /\ GoTo(j, "publish", FALSE)
  /\ UNCHANGED <<serving, pairs, verdicts, decided, lifecycle>>

PublishVerdict(j) ==
  /\ At(j, "publish")
  /\ verdicts' = Append(verdicts, holds[j])
  /\ Quiet
  /\ GoTo(j, "start", judged = Len(pairs))
  /\ UNCHANGED <<serving, pairs, judged, holds, decided, lifecycle>>

(* CanaryController.run: a tie only counts, and a transition is logged.    *)
Decide ==
  LET i    == verdicts[decided + 1]
      next == IF Winner[i] = "tie" THEN lifecycle ELSE L!Update(lifecycle, Winner[i] = "b", i)
  IN
    /\ At("controller", "start") /\ decided < Len(verdicts)
    /\ decided' = decided + 1
    /\ lifecycle' = next
    /\ IF next.transitions # lifecycle.transitions
       THEN EmitAs("controller", "canary", <<i, 9>>, next.transitions[Len(next.transitions)].kind)
       ELSE Quiet
    /\ GoTo("controller", "start", decided' = Len(verdicts))
    /\ UNCHANGED <<serving, pairs, judged, holds, verdicts>>
-----------------------------------------------------------------------------
(* The sinks in the order in which they are flushed.                       *)
FlushOrder == <<"api", "judge", "canary">>

(* The judges' sink is forgotten.                                          *)
BugFlushNext(t, k, after) ==
  /\ Flush(t, IF FlushOrder[k] = "judge" THEN "api" ELSE FlushOrder[k])
  /\ GoTo(t, IF k < 3 THEN FlushOrder[k + 1] ELSE after, k = 3 /\ after = "start")
  /\ UNCHANGED <<serving, streams, lifecycle, uncommitted, emitted, cutOff>>

FlushNext(t, k, after) ==
  /\ Flush(t, FlushOrder[k])
  /\ GoTo(t, IF k < 3 THEN FlushOrder[k + 1] ELSE after, k = 3 /\ after = "start")
  /\ UNCHANGED <<serving, streams, lifecycle, uncommitted, emitted, cutOff>>

(* _flusher: its 0.25 seconds are over.  (With every buffer empty the      *)
(* round changes nothing and is left out.)                                 *)
Wake ==
  /\ At("flusher", "start")
  /\ \E s \in Sinks : buffer[s] # <<>>
  /\ FlushNext("flusher", 1, "start")

FlusherGoesOn == \E k \in {2, 3} : At("flusher", FlushOrder[k]) /\ FlushNext("flusher", k, "start")

(* stop, when the last response is out: cancel the tasks and wait for them,*)
(* flush the sinks, close the store.                                       *)
Stop ==
  /\ At("stop", "start")
  /\ \A i \in DOMAIN served : pc[Handlers[i]] = "done"
  /\ CancelAll(Background)
  /\ pc' = [t \in Tasks |-> IF t \in Background THEN "cancelled"
                            ELSE IF t = "stop" THEN "api" ELSE pc[t]]
  /\ loop' = "stop"
  /\ cutOff' = Cardinality({t \in Background : flushing[t] # "no"})
  /\ UNCHANGED <<serving, streams, lifecycle, uncommitted, emitted>>

StopFlushes == \E k \in 1 .. 3 : At("stop", FlushOrder[k]) /\ FlushNext("stop", k, "close")

(* Closing the connection rolls back what a thread nobody waits for has    *)
(* inserted and not committed; its next statement fails.                   *)
CloseStore ==
  /\ At("stop", "close")
  /\ rows' = [q \in DOMAIN rows \ uncommitted |-> rows[q]]
  /\ threads' = {}
  /\ uncommitted' = {}
  /\ GoTo("stop", "closed", TRUE)
  /\ UNCHANGED <<buffer, flushing, batch, lockq, serving, streams, lifecycle, emitted, cutOff>>
-----------------------------------------------------------------------------
(* Threads insert beside the loop, through the one connection they share:  *)
(* a commit is everybody's.                                                *)
InsertRow(th) ==
  /\ Insert(th)
  /\ uncommitted' = IF Len(th.todo) = 1 THEN {} ELSE uncommitted \union {Head(th.todo).seq}
  /\ UNCHANGED <<control, serving, streams, lifecycle, emitted, cutOff>>

TakeLock(t) ==
  /\ loop = Nobody
  /\ Acquire(t)
  /\ UNCHANGED <<control, serving, streams, lifecycle, uncommitted, emitted, cutOff>>
-----------------------------------------------------------------------------
Handle == \E i \in 1 .. N : EmitChampion(i) \/ EmitShadow(i) \/ PublishPair(i) \/ Respond(i)
Judge == \E j \in Judges : JudgePair(j) \/ PublishVerdict(j)
Shutdown == StopFlushes \/ CloseStore
Store == (\E th \in threads : InsertRow(th)) \/ (\E t \in Tasks : TakeLock(t))

Progress == Handle \/ Judge \/ Decide \/ Wake \/ FlusherGoesOn \/ Shutdown \/ Store

Next == Serve \/ Progress \/ Stop

(* The loop runs what is ready, timers expire and threads end.  Requests   *)
(* need not come, nor the end.                                             *)
Spec == Init /\ [][Next]_apiVars /\ WF_apiVars(Progress)
-----------------------------------------------------------------------------
(* What the user is told, what he is given and what the log says agree     *)
(* (server.py:142-150, 161, 203-209), and a user served by the challenger  *)
(* is a user it is judged on: his pair is with the judges by the time he   *)
(* has his answer.                                                         *)
ServedHonestly ==
  \A i \in DOMAIN served :
    /\ answer[i] # Nobody => answer[i].text = answer[i].servedBy
    /\ answer[i] # Nobody /\ <<i, 0>> \in DOMAIN rows => rows[<<i, 0>>] = answer[i].servedBy
    /\ answer[i] # Nobody /\ answer[i].servedBy = "challenger"
         => \E k \in DOMAIN pairs : pairs[k] = i

(* The share is read when a request is taken up, and the handlers suspend  *)
(* after that (server.py:142-190): once GET /state can show the rollback,  *)
(* every request that comes is the champion's, whoever is still in flight; *)
(* and a user meets the challenger only at a share that the state shows,   *)
(* after a transition due to an earlier request.                           *)
NoNewVictims ==
  [][\A i \in DOMAIN served' \ DOMAIN served :
       served'[i].canary =>
         /\ Reported.state # "rolled_back" /\ Reported.share > 0
         /\ \E k \in DOMAIN Reported.transitions :
              Reported.transitions[k].kind = "advanced" /\ Reported.transitions[k].index < i]_apiVars

(* "flush on a short interval to keep the SSE tail and the log fresh       *)
(* (bounded staleness instead of unbounded)" (server.py:110-112): however  *)
(* little traffic there is, every event reaches the store, and so the tail *)
(* of it, in the end, unless the server stops.                             *)
Fresh == []<>(pc["stop"] # "start" \/ emitted \subseteq DOMAIN rows)

(* stop() flushes what is buffered and closes the store (server.py:124-130)*)
(* while a thread of a flush it cancelled may still be at work: what is    *)
(* missing from a closed store is the batches of those flushes, no more.   *)
ClosedLog ==
  pc["stop"] = "closed" =>
    Cardinality(emitted \ DOMAIN rows)
      <= cutOff * (CHOOSE n \in {Batch[s] : s \in Sinks} : \A s \in Sinks : Batch[s] <= n)
=============================================================================
