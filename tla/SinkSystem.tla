----------------------------- MODULE SinkSystem -----------------------------
(***************************************************************************)
(* The sinks of module Sink under tasks that emit events in any order,     *)
(* emit some again after a redelivery with another body (a verdict names   *)
(* the worker that gave it), flush, and are cancelled and started again    *)
(* (src/coalmine/fleet/services.py:82-93, runner.py:151-163, 189-198).     *)
(***************************************************************************)
EXTENDS Sink

CONSTANTS
  SinkOf,      \* SinkOf[t]: the sink task t was given
  EventSeqs,   \* seqs of the events
  MaxEmits,    \* bound: events emitted
  MaxCancels   \* bound: tasks cancelled

ASSUME SinkOfAssumption == SinkOf \in [Tasks -> Sinks]
ASSUME LargestAssumption == \E s \in Sinks : \A r \in Sinks : Batch[r] <= Batch[s]
ASSUME EmitsAssumption == MaxEmits \in Nat /\ MaxCancels \in Nat

VARIABLES
  issued,      \* the seqs emitted so far
  emits,       \* how many times
  cancels      \* tasks cancelled so far

systemVars == <<sinkVars, issued, emits, cancels>>

SystemInit ==
  /\ SinkInit
  /\ issued = {}
  /\ emits = 0
  /\ cancels = 0

EmitEvent(t, q) ==
  /\ flushing[t] = "no"
  /\ emits < MaxEmits
  /\ Emit(t, SinkOf[t], [seq |-> q, body |-> t])
  /\ issued' = issued \union {q}
  /\ emits' = emits + 1
  /\ UNCHANGED cancels

FlushAtEnd(t) ==
  /\ flushing[t] = "no"
  /\ emits = MaxEmits
  /\ buffer[SinkOf[t]] # <<>>
  /\ Flush(t, SinkOf[t])
  /\ UNCHANGED <<issued, emits, cancels>>

Cancel(t) ==
  /\ flushing[t] # "no"
  /\ cancels < MaxCancels
  /\ cancels' = cancels + 1
  /\ CancelAll({t})
  /\ UNCHANGED <<issued, emits>>

SystemStore == StoreStep /\ UNCHANGED <<issued, emits, cancels>>

SystemNext ==
  \/ \E t \in Tasks : (\E q \in EventSeqs : EmitEvent(t, q)) \/ FlushAtEnd(t) \/ Cancel(t)
  \/ SystemStore

SystemSpec == SystemInit /\ [][SystemNext]_systemVars

(* Threads run, the lock is passed on, and the owner of each sink flushes  *)
(* it once nothing more is emitted.                                       *)
FairSystem ==
  /\ SystemSpec
  /\ WF_systemVars(SystemStore)
  /\ \A t \in Tasks : WF_systemVars(FlushAtEnd(t))
-----------------------------------------------------------------------------
Lost == {q \in issued : ~Kept(q)}

Largest == CHOOSE n \in {Batch[s] : s \in Sinks} : \A s \in Sinks : Batch[s] <= n

(* A cancelled flush loses its batch, and the batch is full of whatever    *)
(* the sink's tasks emitted: with no cancellation nothing is lost, and     *)
(* each one costs up to a batch of events, other tasks' included           *)
(* (services.py:88-93).                                                    *)
LossBounded == Cardinality(Lost) <= cancels * Largest

(* Exactly-once storage: "redelivered batches are dropped on conflict"     *)
(* (src/coalmine/core/store.py:3-7), so a stored row never changes,        *)
(* whatever a second worker or an orphaned thread writes later.            *)
RowsStand ==
  [][\A q \in DOMAIN rows : q \in DOMAIN rows' /\ rows'[q] = rows[q]]_systemVars

(* Once emission is over, every event that was not lost reaches the store: *)
(* the lock is never left with a task that is gone.                        *)
Drains == <>[](emits = MaxEmits => issued \ Lost \subseteq DOMAIN rows)
=============================================================================
