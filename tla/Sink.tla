-------------------------------- MODULE Sink --------------------------------
(***************************************************************************)
(* The _Sink objects of a fleet (src/coalmine/fleet/services.py:61-93):    *)
(* buffered writers in front of one event store, sharing one asyncio.Lock. *)
(*                                                                         *)
(* A task that fills a buffer swaps it out, waits for the lock in first-in *)
(* first-out order, hands the batch to a worker thread (asyncio.to_thread) *)
(* and keeps the lock until the thread is done.  The task can be cancelled *)
(* at either wait: while it queues, the batch exists only in its local     *)
(* variables; while the thread runs, the lock is released at once and the  *)
(* thread goes on by itself, unless it had not begun and is withdrawn.     *)
(*                                                                         *)
(* An event is a record [seq, body]; the store keeps the first body it is  *)
(* given for a seq.                                                        *)
(***************************************************************************)
EXTENDS Naturals, Sequences, FiniteSets

CONSTANTS
  Tasks,      \* coroutines that emit or flush
  Sinks,      \* sink objects; several tasks may share one
  Batch,      \* Batch[s]: events that make emit flush sink s (128 in the code)
  Nobody      \* the owner of a thread whose task was cancelled

ASSUME BatchAssumption == Batch \in [Sinks -> Nat \ {0}]
ASSUME NobodyAssumption == Nobody \notin Tasks

VARIABLES
  buffer,     \* buffer[s]: events emitted and not yet swapped out
  flushing,   \* flushing[t]: "no", "wait" (for the lock), "write" (in the thread)
  batch,      \* batch[t]: what t swapped out and has not handed to a thread
  lockq,      \* tasks that hold (the head) or await the lock
  threads,    \* store threads: owner, events still to insert, whether it began
  rows        \* the store: the body kept for each seq inserted so far

sinkVars == <<buffer, flushing, batch, lockq, threads, rows>>

SinkInit ==
  /\ buffer = [s \in Sinks |-> <<>>]
  /\ flushing = [t \in Tasks |-> "no"]
  /\ batch = [t \in Tasks |-> <<>>]
  /\ lockq = <<>>
  /\ threads = {}
  /\ rows = <<>>
-----------------------------------------------------------------------------
(* Operators whose name starts with Bug are faulty variants of the one     *)
(* they precede; no specification uses them.  Here: INSERT OR REPLACE.     *)
BugInsertOrReplace(table, e) ==
  [q \in DOMAIN table \union {e.seq} |-> IF q = e.seq THEN e.body ELSE table[q]]

(* INSERT OR IGNORE of one event: the first body written for a seq stays.  *)
InsertOrIgnore(table, e) ==
  [q \in DOMAIN table \union {e.seq} |-> IF q \in DOMAIN table THEN table[q] ELSE e.body]

Thread(t, events) == [owner |-> t, todo |-> events, begun |-> FALSE]

(* A free lock is taken without suspending, and so is the way to the       *)
(* thread; a lock in use queues the task with its batch.                   *)
EnterLock(t, events) ==
  /\ lockq' = Append(lockq, t)
  /\ IF lockq = <<>>
     THEN /\ threads' = threads \union {Thread(t, events)}
          /\ flushing' = [flushing EXCEPT ![t] = "write"]
          /\ UNCHANGED batch
     ELSE /\ batch' = [batch EXCEPT ![t] = events]
          /\ flushing' = [flushing EXCEPT ![t] = "wait"]
          /\ UNCHANGED threads
  /\ UNCHANGED rows

(* flush, called by t on sink s: nothing to do, or the buffer is swapped   *)
(* for an empty one before the lock is asked for.                          *)
Flush(t, s) ==
  IF buffer[s] = <<>>
  THEN UNCHANGED sinkVars
  ELSE /\ buffer' = [buffer EXCEPT ![s] = <<>>]
       /\ EnterLock(t, buffer[s])

(* emit, called by t on sink s: a full buffer is flushed before it returns.*)
Emit(t, s, e) ==
  IF Len(buffer[s]) + 1 >= Batch[s]
  THEN /\ buffer' = [buffer EXCEPT ![s] = <<>>]
       /\ EnterLock(t, Append(buffer[s], e))
  ELSE /\ buffer' = [buffer EXCEPT ![s] = Append(@, e)]
       /\ UNCHANGED <<flushing, batch, lockq, threads, rows>>

(* The lock reaches the first waiter, which hands its batch to a thread.   *)
Acquire(t) ==
  /\ lockq # <<>> /\ Head(lockq) = t
  /\ flushing[t] = "wait"
  /\ threads' = threads \union {Thread(t, batch[t])}
  /\ batch' = [batch EXCEPT ![t] = <<>>]
  /\ flushing' = [flushing EXCEPT ![t] = "write"]
  /\ UNCHANGED <<buffer, lockq, rows>>

(* A plain INSERT: a duplicate raises, and the rest of the batch is gone.  *)
BugInsertOrFail(th) ==
  LET duplicate == Head(th.todo).seq \in DOMAIN rows
      rest == IF duplicate THEN <<>> ELSE Tail(th.todo)
  IN
    /\ th \in threads
    /\ rows' = InsertOrIgnore(rows, Head(th.todo))
    /\ threads' = (threads \ {th})
                  \union (IF rest = <<>> THEN {} ELSE {[th EXCEPT !.todo = rest, !.begun = TRUE]})
    /\ IF rest = <<>> /\ th.owner # Nobody
       THEN /\ flushing' = [flushing EXCEPT ![th.owner] = "no"]
            /\ lockq' = Tail(lockq)
       ELSE UNCHANGED <<flushing, lockq>>
    /\ UNCHANGED <<buffer, batch>>

(* append_many inserts its events one by one; other threads may run        *)
(* between two of them.  The last one ends the thread, and its task, if    *)
(* still there, gives the lock back and returns from flush.                *)
Insert(th) ==
  LET rest == Tail(th.todo) IN
    /\ th \in threads
    /\ rows' = InsertOrIgnore(rows, Head(th.todo))
    /\ threads' = (threads \ {th})
                  \union (IF rest = <<>> THEN {} ELSE {[th EXCEPT !.todo = rest, !.begun = TRUE]})
    /\ IF rest = <<>> /\ th.owner # Nobody
       THEN /\ flushing' = [flushing EXCEPT ![th.owner] = "no"]
            /\ lockq' = Tail(lockq)
       ELSE UNCHANGED <<flushing, lockq>>
    /\ UNCHANGED <<buffer, batch>>

(* A cancelled waiter stays in the lock's queue.                           *)
BugCancelKeepsLock(T) ==
  /\ flushing' = [t \in Tasks |-> IF t \in T THEN "no" ELSE flushing[t]]
  /\ batch' = [t \in Tasks |-> IF t \in T THEN <<>> ELSE batch[t]]
  /\ threads' = {th \in threads : th.owner \notin T}
  /\ UNCHANGED <<buffer, lockq, rows>>

(* The task set T is cancelled.  Those in the lock's queue leave it with   *)
(* their batches; a thread of theirs is orphaned, or, if it has not been   *)
(* given a processor yet, withdrawn.                                       *)
CancelAll(T) ==
  /\ lockq' = SelectSeq(lockq, LAMBDA t : t \notin T)
  /\ flushing' = [t \in Tasks |-> IF t \in T THEN "no" ELSE flushing[t]]
  /\ batch' = [t \in Tasks |-> IF t \in T THEN <<>> ELSE batch[t]]
  /\ LET theirs == {th \in threads : th.owner \in T}
     IN \E orphans \in SUBSET theirs :
          /\ {th \in theirs : th.begun} \subseteq orphans
          /\ threads' = (threads \ theirs) \union {[th EXCEPT !.owner = Nobody] : th \in orphans}
  /\ UNCHANGED <<buffer, rows>>

(* The steps of the store and of the lock, whoever is at work.             *)
StoreStep ==
  \/ \E t \in Tasks : Acquire(t)
  \/ \E th \in threads : Insert(th)
-----------------------------------------------------------------------------
(* Where the events are that have not been dropped.                        *)
Events(q) == {q[i] : i \in DOMAIN q}

InFlight ==
  (UNION {Events(buffer[s]) : s \in Sinks})
    \union (UNION {Events(batch[t]) : t \in Tasks})
    \union (UNION {Events(th.todo) : th \in threads})

(* The event's seq has a row, or will have one if nobody is cancelled.     *)
Kept(seq) == seq \in DOMAIN rows \/ \E e \in InFlight : e.seq = seq

(* The event's seq has a row, or a thread that nobody can stop any more    *)
(* will write one: buffers that are not flushed do not count.              *)
Stored(seq) == seq \in DOMAIN rows \/ \E th \in threads : \E e \in Events(th.todo) : e.seq = seq
=============================================================================
