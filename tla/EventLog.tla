------------------------------ MODULE EventLog ------------------------------
(***************************************************************************)
(* The EventLog of src/coalmine/core/store.py in front of an event store:  *)
(* emit numbers an event and queues it, one writer task takes the queue's  *)
(* items one by one and appends them to the store in batches, on a thread. *)
(***************************************************************************)
EXTENDS Naturals, Sequences, FiniteSets

CONSTANTS
  Types,        \* event types
  BatchSize,    \* events that make the writer flush (256 in the code)
  Close,        \* the sentinel _CLOSE
  StoreFails    \* TRUE: an append may raise (disk full, connection lost)

ASSUME BatchSizeAssumption == BatchSize \in Nat \ {0}

VARIABLES
  queue,        \* emitted events the writer has not taken, and the sentinel
  nextSeq,      \* _seq: the seq of the next event
  counts,       \* counts[type]: events emitted
  writer,       \* the writer: "get", "flush" or "last" (its thread appends),
                \*   "done", or "dead" of an exception
  buf,          \* the events it has taken and not yet written
  rows          \* the store: the event of each seq written

logVars == <<queue, nextSeq, counts, writer, buf, rows>>

LogInit ==
  /\ queue = <<>>
  /\ nextSeq = 0
  /\ counts = [t \in Types |-> 0]
  /\ writer = "get"
  /\ buf = <<>>
  /\ rows = <<>>
-----------------------------------------------------------------------------
Event(type, index, body) == [seq |-> nextSeq, type |-> type, index |-> index, body |-> body]

(* emit, and emit followed by close: neither suspends before the sentinel  *)
(* is queued.  The items are the event, and the sentinel if any.           *)
Put(e, items) ==
  /\ queue' = queue \o items
  /\ nextSeq' = nextSeq + 1
  /\ counts' = [counts EXCEPT ![e.type] = @ + 1]
  /\ UNCHANGED <<writer, buf, rows>>

Emit(e) == Put(e, <<e>>)
EmitAndClose(e) == Put(e, <<e, Close>>)

Full(events) == Len(events) >= BatchSize

(* _writer takes one item: the sentinel makes it drain the queue.  (Nobody *)
(* calls close twice: what the drain finds are events.)                    *)
Get ==
  /\ writer = "get" /\ queue # <<>>
  /\ IF Head(queue) = Close
     THEN /\ queue' = <<>>
          /\ buf' = buf \o Tail(queue)
          /\ writer' = IF buf' = <<>> THEN "done" ELSE "last"
     ELSE /\ queue' = Tail(queue)
          /\ buf' = Append(buf, Head(queue))
          /\ writer' = IF Full(buf') THEN "flush" ELSE "get"
  /\ UNCHANGED <<nextSeq, counts, rows>>

(* Nothing came for flush_interval seconds.                                *)
FlushTimeout ==
  /\ writer = "get" /\ queue = <<>> /\ buf # <<>>
  /\ writer' = "flush"
  /\ UNCHANGED <<queue, nextSeq, counts, buf, rows>>

(* Operators whose name starts with Bug are faulty variants of the one     *)
(* they precede; no specification uses them.  Here: the writer goes on     *)
(* after an append that raised.                                            *)
BugAfterFailure == IF writer = "last" THEN "done" ELSE "get"

AfterFailure == "dead"

(* The thread ends: append_many is one transaction, all of the batch is    *)
(* stored (no seq is in the store yet) or none of it.                      *)
Written ==
  /\ writer \in {"flush", "last"}
  /\ buf' = <<>>
  /\ \/ /\ rows' = [q \in DOMAIN rows \union {buf[k].seq : k \in DOMAIN buf} |->
                      IF q \in DOMAIN rows THEN rows[q]
                      ELSE buf[CHOOSE k \in DOMAIN buf : buf[k].seq = q]]
        /\ writer' = IF writer = "last" THEN "done" ELSE "get"
     \/ /\ StoreFails
        /\ writer' = AfterFailure
        /\ UNCHANGED rows
  /\ UNCHANGED <<queue, nextSeq, counts>>

(* A writer that an exception ended is waited for.                         *)
BugWriterOver == writer = "done"

WriterOver == writer \in {"done", "dead"}

Writer == Get \/ FlushTimeout \/ Written
=============================================================================
