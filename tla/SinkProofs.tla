----------------------------- MODULE SinkProofs -----------------------------
(***************************************************************************)
(* Lemmas about the operations of module Sink, for whoever calls them: the *)
(* store is first write wins, and what the buffers, batches, threads and   *)
(* rows hold is what the callers emitted.                                  *)
(***************************************************************************)
EXTENDS Sink, SequenceTheorems, TLAPS

(* Everything the sinks and the store hold is in the set E of events; what *)
(* awaits the lock or is in a thread is not an empty batch.                *)
Holds(E) ==
  /\ buffer \in [Sinks -> Seq(E)]
  /\ batch \in [Tasks -> Seq(E)]
  /\ flushing \in [Tasks -> {"no", "wait", "write"}]
  /\ \A t \in Tasks : flushing[t] = "wait" => batch[t] # <<>>
  /\ threads \subseteq [owner : Tasks \union {Nobody}, todo : Seq(E) \ {<<>>}, begun : BOOLEAN]
  /\ \A q \in DOMAIN rows : \E e \in E : e.seq = q /\ e.body = rows[q]

(* A row that is there stays as it is.                                     *)
Stand == \A q \in DOMAIN rows : q \in DOMAIN rows' /\ rows'[q] = rows[q]

(* What a sequence is with one more element.                               *)
LEMMA Appended ==
  ASSUME NEW A, NEW g \in Seq(A), NEW e \in A
  PROVE  /\ Append(g, e) \in Seq(A) /\ Len(g) \in Nat /\ DOMAIN g = 1 .. Len(g)
         /\ Len(Append(g, e)) = Len(g) + 1 /\ DOMAIN Append(g, e) = 1 .. Len(g) + 1
         /\ Append(g, e)[Len(g) + 1] = e
         /\ \A k \in DOMAIN g : Append(g, e)[k] = g[k]
  OBVIOUS

LEMMA HoldsMonotone ==
  ASSUME NEW D, NEW E, D \subseteq E, Holds(D)
  PROVE  Holds(E)
<1>1. Seq(D) \subseteq Seq(E)
  OBVIOUS
<1>2. QED BY <1>1 DEF Holds

(* Before anything is emitted.                                             *)
LEMMA SinkInitHolds == ASSUME SinkInit, NEW E PROVE Holds(E)
  BY DEF SinkInit, Holds
-----------------------------------------------------------------------------
(* A batch goes to a thread or into the lock's queue.                      *)
LEMMA EnterLockHolds ==
  ASSUME NEW E, Holds(E), NEW t \in Tasks, NEW events \in Seq(E), events # <<>>,
         EnterLock(t, events), buffer' \in [Sinks -> Seq(E)]
  PROVE  Holds(E)' /\ rows' = rows
<1>1. CASE lockq = <<>>
  <2>1. /\ threads' = threads \union {Thread(t, events)}
        /\ flushing' = [flushing EXCEPT ![t] = "write"]
        /\ batch' = batch /\ rows' = rows
    BY <1>1 DEF EnterLock
  <2>2. Thread(t, events) \in [owner : Tasks \union {Nobody}, todo : Seq(E) \ {<<>>}, begun : BOOLEAN]
    BY DEF Thread
  <2>3. QED BY <2>1, <2>2 DEF Holds
<1>2. CASE lockq # <<>>
  <2>1. /\ batch' = [batch EXCEPT ![t] = events]
        /\ flushing' = [flushing EXCEPT ![t] = "wait"]
        /\ threads' = threads /\ rows' = rows
    BY <1>2 DEF EnterLock
  <2>2. QED BY <2>1 DEF Holds
<1>3. QED BY <1>1, <1>2

LEMMA EmitHolds ==
  ASSUME NEW E, Holds(E), NEW t \in Tasks, NEW s \in Sinks, NEW e \in E, Emit(t, s, e)
  PROVE  Holds(E)' /\ rows' = rows
<1>1. buffer \in [Sinks -> Seq(E)]
  BY DEF Holds
<1>2. Append(buffer[s], e) \in Seq(E) /\ Append(buffer[s], e) # <<>>
  BY <1>1
<1>3. CASE Len(buffer[s]) + 1 >= Batch[s]
  <2>1. buffer' = [buffer EXCEPT ![s] = <<>>] /\ EnterLock(t, Append(buffer[s], e))
    BY <1>3 DEF Emit
  <2>2. buffer' \in [Sinks -> Seq(E)]
    BY <1>1, <2>1
  <2>3. QED BY <1>2, <2>1, <2>2, EnterLockHolds
<1>4. CASE ~(Len(buffer[s]) + 1 >= Batch[s])
  <2>1. /\ buffer' = [buffer EXCEPT ![s] = Append(buffer[s], e)]
        /\ UNCHANGED <<flushing, batch, lockq, threads, rows>>
    BY <1>1, <1>4 DEF Emit
  <2>2. buffer' \in [Sinks -> Seq(E)]
    BY <1>1, <1>2, <2>1
  <2>3. QED BY <2>1, <2>2 DEF Holds
<1>5. QED BY <1>3, <1>4

LEMMA FlushHolds ==
  ASSUME NEW E, Holds(E), NEW t \in Tasks, NEW s \in Sinks, Flush(t, s)
  PROVE  Holds(E)' /\ rows' = rows
<1>1. buffer \in [Sinks -> Seq(E)]
  BY DEF Holds
<1>2. CASE buffer[s] = <<>>
  <2>1. UNCHANGED sinkVars
    BY <1>2 DEF Flush
  <2>2. QED BY <2>1 DEF Holds, sinkVars
<1>3. CASE buffer[s] # <<>>
  <2>1. buffer' = [buffer EXCEPT ![s] = <<>>] /\ EnterLock(t, buffer[s])
    BY <1>3 DEF Flush
  <2>2. buffer' \in [Sinks -> Seq(E)] /\ buffer[s] \in Seq(E)
    BY <1>1, <2>1
  <2>3. QED BY <1>3, <2>1, <2>2, EnterLockHolds
<1>4. QED BY <1>2, <1>3

LEMMA AcquireHolds ==
  ASSUME NEW E, Holds(E), NEW t \in Tasks, Acquire(t)
  PROVE  Holds(E)' /\ rows' = rows
<1>1. /\ threads' = threads \union {Thread(t, batch[t])}
      /\ batch' = [batch EXCEPT ![t] = <<>>]
      /\ flushing' = [flushing EXCEPT ![t] = "write"]
      /\ flushing[t] = "wait" /\ buffer' = buffer /\ rows' = rows
  BY DEF Acquire
<1>2. batch[t] \in Seq(E) /\ batch[t] # <<>>
  BY <1>1 DEF Holds
<1>3. batch' \in [Tasks -> Seq(E)]
  BY <1>1 DEF Holds
<1>4. Thread(t, batch[t]) \in [owner : Tasks \union {Nobody}, todo : Seq(E) \ {<<>>}, begun : BOOLEAN]
  BY <1>2 DEF Thread
<1>5. QED BY <1>1, <1>3, <1>4 DEF Holds

(* A cancellation only drops.                                              *)
LEMMA CancelHolds ==
  ASSUME NEW E, Holds(E), NEW T \in SUBSET Tasks, CancelAll(T)
  PROVE  Holds(E)' /\ rows' = rows
<1>1. PICK orphans \in SUBSET threads :
        threads' = (threads \ {th \in threads : th.owner \in T})
                     \union {[th EXCEPT !.owner = Nobody] : th \in orphans}
  BY DEF CancelAll
<1>2. /\ flushing' = [t \in Tasks |-> IF t \in T THEN "no" ELSE flushing[t]]
      /\ batch' = [t \in Tasks |-> IF t \in T THEN <<>> ELSE batch[t]]
      /\ buffer' = buffer /\ rows' = rows
  BY DEF CancelAll
<1> DEFINE Types == [owner : Tasks \union {Nobody}, todo : Seq(E) \ {<<>>}, begun : BOOLEAN]
<1>3. \A th \in Types : [th EXCEPT !.owner = Nobody] \in Types
  OBVIOUS
<1>4. threads' \subseteq Types
  BY <1>1, <1>3 DEF Holds
<1>5. QED BY <1>2, <1>4 DEF Holds
-----------------------------------------------------------------------------
(* What the store does with an event that is there already: nothing.       *)
LEMMA IgnoreStands ==
  ASSUME NEW table, NEW e
  PROVE  LET next == InsertOrIgnore(table, e) IN
           /\ DOMAIN next = DOMAIN table \union {e.seq}
           /\ \A q \in DOMAIN table : next[q] = table[q]
           /\ e.seq \notin DOMAIN table => next[e.seq] = e.body
  BY DEF InsertOrIgnore

LEMMA InsertHolds ==
  ASSUME NEW E, Holds(E), NEW th \in threads, Insert(th)
  PROVE  Holds(E)' /\ Stand
<1> DEFINE rest == Tail(th.todo)
<1>1. /\ rows' = InsertOrIgnore(rows, Head(th.todo))
      /\ threads' = (threads \ {th})
           \union (IF rest = <<>> THEN {} ELSE {[th EXCEPT !.todo = rest, !.begun = TRUE]})
      /\ buffer' = buffer /\ batch' = batch
  BY Zenon DEF Insert
<1>2. flushing' = [flushing EXCEPT ![th.owner] = "no"] \/ flushing' = flushing
  <2>1. CASE rest = <<>> /\ th.owner # Nobody
    BY <2>1, Zenon DEF Insert
  <2>2. CASE ~(rest = <<>> /\ th.owner # Nobody)
    BY <2>2, Zenon DEF Insert
  <2>3. QED BY <2>1, <2>2
<1> DEFINE Types == [owner : Tasks \union {Nobody}, todo : Seq(E) \ {<<>>}, begun : BOOLEAN]
<1>3. th \in Types /\ threads \subseteq Types
  BY DEF Holds
<1>4. Head(th.todo) \in E /\ rest \in Seq(E)
  BY <1>3
<1>5. rest # <<>> => [th EXCEPT !.todo = rest, !.begun = TRUE] \in Types
  BY <1>3, <1>4
<1>6. threads' \subseteq Types
  BY <1>1, <1>3, <1>5
<1>7. \A q \in DOMAIN rows' : \E e \in E : e.seq = q /\ e.body = rows'[q]
  <2>1. /\ DOMAIN rows' = DOMAIN rows \union {Head(th.todo).seq}
        /\ \A q \in DOMAIN rows : rows'[q] = rows[q]
        /\ Head(th.todo).seq \notin DOMAIN rows => rows'[Head(th.todo).seq] = Head(th.todo).body
    BY <1>1, IgnoreStands, Zenon
  <2>2. \A q \in DOMAIN rows : \E e \in E : e.seq = q /\ e.body = rows[q]
    BY DEF Holds
  <2>3. QED BY <1>4, <2>1, <2>2, Zenon
<1>8. /\ flushing' \in [Tasks -> {"no", "wait", "write"}]
      /\ \A t \in Tasks : flushing'[t] = "wait" => batch'[t] # <<>>
  BY <1>1, <1>2 DEF Holds
<1>9. Stand
  BY <1>1, IgnoreStands, Zenon DEF Stand
<1>10. QED BY <1>1, <1>6, <1>7, <1>8, <1>9 DEF Holds
-----------------------------------------------------------------------------
(* Who has what under way: a task has a batch only while it waits, a       *)
(* thread only while it writes, and one at a time.                         *)
Owned ==
  /\ \A t \in Tasks : flushing[t] # "wait" => batch[t] = <<>>
  /\ \A th \in threads : th.owner # Nobody => flushing[th.owner] = "write"
  /\ \A th, other \in threads : th.owner = other.owner /\ th.owner # Nobody => th = other

(* What is lost at most if a task is cancelled now.                        *)
Load ==
  [t \in Tasks |->
     Events(batch[t]) \union UNION {Events(th.todo) : th \in {x \in threads : x.owner = t}}]

(* The seqs of the events that are stored or under way.                    *)
KeptSeqs == DOMAIN rows \union {e.seq : e \in InFlight}

(* The events that are neither stored nor dropped, place by place.         *)
LEMMA InFlightIs ==
  \A e : e \in InFlight <=>
    \/ \E s \in Sinks : e \in Events(buffer[s])
    \/ \E t \in Tasks : e \in Events(batch[t])
    \/ \E th \in threads : e \in Events(th.todo)
  BY DEF InFlight

LEMMA InFlightThen ==
  \A e : e \in InFlight' <=>
    \/ \E s \in Sinks : e \in Events(buffer'[s])
    \/ \E t \in Tasks : e \in Events(batch'[t])
    \/ \E th \in threads' : e \in Events(th.todo)
  BY DEF InFlight

LEMMA LoadIs ==
  ASSUME NEW t \in Tasks
  PROVE  /\ \A e : e \in Load[t] <=>
              e \in Events(batch[t]) \/ \E th \in threads : th.owner = t /\ e \in Events(th.todo)
         /\ \A e : e \in Load'[t] <=>
              e \in Events(batch'[t]) \/ \E th \in threads' : th.owner = t /\ e \in Events(th.todo)
  BY DEF Load

LEMMA KeptIs == \A q : Kept(q) <=> q \in KeptSeqs
  BY DEF Kept, KeptSeqs

LEMMA FlightKeeps ==
  ASSUME \A q \in DOMAIN rows : q \in DOMAIN rows',
         \A x : x \in InFlight => x \in InFlight' \/ x.seq \in DOMAIN rows'
  PROVE  KeptSeqs \subseteq KeptSeqs'
  BY DEF KeptSeqs

LEMMA IdleLoad ==
  ASSUME Owned, NEW t \in Tasks, flushing[t] = "no"
  PROVE  batch[t] = <<>> /\ (\A th \in threads : th.owner # t) /\ Load[t] = {}
<1>1. batch[t] = <<>> /\ \A th \in threads : th.owner # t
  BY NobodyAssumption DEF Owned
<1>2. Events(<<>>) = {}
  BY DEF Events
<1>3. QED BY <1>1, <1>2, LoadIs

(* A thread after an event, and an orphaned one.                           *)
LEMMA ThreadFields ==
  ASSUME NEW O, NEW T, NEW th \in [owner : O, todo : T, begun : BOOLEAN], NEW o \in O, NEW d \in T
  PROVE  /\ [th EXCEPT !.todo = d, !.begun = TRUE].owner = th.owner
         /\ [th EXCEPT !.todo = d, !.begun = TRUE].todo = d
         /\ [th EXCEPT !.owner = o] = [owner |-> o, todo |-> th.todo, begun |-> th.begun]
  OBVIOUS

(* Appending keeps the events there are and adds one.                      *)
LEMMA EventsOfAppend ==
  ASSUME NEW E, NEW g \in Seq(E), NEW e \in E
  PROVE  Events(Append(g, e)) = Events(g) \union {e}
<1>1. /\ Len(g) \in Nat /\ DOMAIN g = 1 .. Len(g)
      /\ DOMAIN Append(g, e) = 1 .. Len(g) + 1
      /\ \A i \in 1 .. Len(g) : Append(g, e)[i] = g[i]
      /\ Append(g, e)[Len(g) + 1] = e
  OBVIOUS
<1>2. QED BY <1>1 DEF Events

LEMMA EventsOfTail ==
  ASSUME NEW E, NEW g \in Seq(E), g # <<>>
  PROVE  Events(g) = Events(Tail(g)) \union {Head(g)}
<1>1. /\ Len(g) \in Nat \ {0} /\ DOMAIN g = 1 .. Len(g)
      /\ DOMAIN Tail(g) = 1 .. Len(g) - 1
      /\ \A i \in 1 .. Len(g) - 1 : Tail(g)[i] = g[i + 1]
      /\ Head(g) = g[1]
  BY EmptySeq, LenProperties, HeadTailProperties
<1>2. \A i \in 1 .. Len(g) : i = 1 \/ (i - 1 \in 1 .. Len(g) - 1 /\ g[i] = Tail(g)[i - 1])
  BY <1>1
<1>3. \A x : x \in Events(g) <=> x \in Events(Tail(g)) \/ x = Head(g)
  <2>1. ASSUME NEW x, x \in Events(g) PROVE x \in Events(Tail(g)) \/ x = Head(g)
    <3>1. PICK i \in 1 .. Len(g) : x = g[i]
      BY <1>1, <2>1 DEF Events
    <3>2. CASE i = 1
      BY <1>1, <3>1, <3>2
    <3>3. CASE i # 1
      <4>1. i - 1 \in DOMAIN Tail(g) /\ x = Tail(g)[i - 1]
        BY <1>1, <1>2, <3>1, <3>3
      <4>2. QED BY <4>1, Zenon DEF Events
    <3>4. QED BY <3>2, <3>3
  <2>2. ASSUME NEW x, x \in Events(Tail(g)) \/ x = Head(g) PROVE x \in Events(g)
    <3>1. CASE x = Head(g)
      BY <1>1, <3>1 DEF Events
    <3>2. CASE x \in Events(Tail(g))
      <4>1. PICK i \in 1 .. Len(g) - 1 : x = Tail(g)[i]
        BY <1>1, <3>2 DEF Events
      <4>2. i + 1 \in DOMAIN g /\ x = g[i + 1]
        BY <1>1, <4>1
      <4>3. QED BY <4>2, Zenon DEF Events
    <3>3. QED BY <2>2, <3>1, <3>2
  <2>3. QED BY <2>1, <2>2
<1>4. QED BY <1>3
LEMMA SinkInitOwned == SinkInit => Owned
  BY DEF SinkInit, Owned

(* A task that is not flushing hands a batch to a thread or to the queue.  *)
LEMMA EnterLockCarries ==
  ASSUME NEW E, Holds(E), Owned, NEW t \in Tasks, NEW s \in Sinks, flushing[t] = "no",
         NEW events \in Seq(E), buffer' = [buffer EXCEPT ![s] = <<>>], EnterLock(t, events)
  PROVE  /\ Owned' /\ flushing'[t] # "no"
         /\ \A u \in Tasks : u # t => flushing'[u] = flushing[u] /\ Load'[u] = Load[u]
         /\ Load'[t] = Events(events)
         /\ \A x : x \in Events(events) => x \in InFlight'
         /\ \A x : x \in InFlight => x \in InFlight' \/ x \in Events(buffer[s])
<1>1. buffer \in [Sinks -> Seq(E)] /\ batch \in [Tasks -> Seq(E)]
      /\ flushing \in [Tasks -> {"no", "wait", "write"}]
  BY DEF Holds
<1>2. batch[t] = <<>> /\ (\A th \in threads : th.owner # t) /\ Events(<<>>) = {}
  BY IdleLoad DEF Events
<1>3. CASE lockq = <<>>
  <2> DEFINE th == [owner |-> t, todo |-> events, begun |-> FALSE]
  <2>1. /\ threads' = threads \union {th}
        /\ flushing' = [flushing EXCEPT ![t] = "write"]
        /\ batch' = batch
    BY <1>3 DEF EnterLock, Thread
  <2>2. /\ \A u \in Tasks : flushing'[u] # "wait" => batch'[u] = <<>>
        /\ flushing'[t] # "no" /\ \A u \in Tasks : u # t => flushing'[u] = flushing[u]
    BY <1>1, <1>2, <2>1 DEF Owned
  <2>3. (\A u \in threads' : u \in threads \/ u = th) /\ th \in threads'
    BY <2>1
  <2>4. \A u \in threads' : u.owner # Nobody => flushing'[u.owner] = "write"
    BY <1>1, <1>2, <2>1, <2>3 DEF Owned
  <2>5. th.owner = t /\ th.todo = events
    OBVIOUS
  <2>6. \A u, v \in threads : u.owner = v.owner /\ u.owner # Nobody => u = v
    BY DEF Owned
  <2> HIDE DEF th
  <2>7. \A u, v \in threads' : u.owner = v.owner /\ u.owner # Nobody => u = v
    BY <1>2, <2>3, <2>5, <2>6
  <2>8. \A x : x \in Events(events) => x \in InFlight'
    BY <2>3, <2>5, InFlightThen
  <2>9. \A x : x \in InFlight => x \in InFlight' \/ x \in Events(buffer[s])
    BY <1>1, <2>1, InFlightIs, InFlightThen
  <2>10. \A u \in Tasks : u # t => Load'[u] = Load[u]
    BY <2>1, <2>3, <2>5 DEF Load
  <2>11. Load'[t] = Events(events)
    BY <1>2, <2>1, <2>3, <2>5 DEF Load
  <2>12. QED BY <2>2, <2>4, <2>7, <2>8, <2>9, <2>10, <2>11 DEF Owned
<1>4. CASE lockq # <<>>
  <2>1. /\ batch' = [batch EXCEPT ![t] = events]
        /\ flushing' = [flushing EXCEPT ![t] = "wait"]
        /\ threads' = threads
    BY <1>4 DEF EnterLock
  <2>2. /\ \A u \in Tasks : flushing'[u] # "wait" => batch'[u] = <<>>
        /\ flushing'[t] # "no" /\ \A u \in Tasks : u # t => flushing'[u] = flushing[u]
    BY <1>1, <1>2, <2>1 DEF Owned
  <2>3. Owned'
    BY <1>1, <1>2, <2>1, <2>2 DEF Owned
  <2>4. batch'[t] = events /\ \A u \in Tasks : u # t => batch'[u] = batch[u]
    BY <1>1, <2>1
  <2>5. \A x : x \in Events(events) => x \in InFlight'
    BY <2>4, InFlightThen
  <2>6. \A x : x \in InFlight => x \in InFlight' \/ x \in Events(buffer[s])
    BY <1>1, <1>2, <2>1, <2>4, InFlightIs, InFlightThen
  <2>7. \A u \in Tasks : u # t => Load'[u] = Load[u]
    BY <2>1, <2>4 DEF Load
  <2>8. Load'[t] = Events(events)
    BY <1>2, <2>1, <2>4 DEF Load
  <2>9. QED BY <2>2, <2>3, <2>5, <2>6, <2>7, <2>8
<1>5. QED BY <1>3, <1>4

LEMMA EmitCarries ==
  ASSUME NEW E, Holds(E), Owned, NEW t \in Tasks, NEW s \in Sinks, NEW e \in E,
         flushing[t] = "no", Emit(t, s, e)
  PROVE  /\ Owned'
         /\ \A u \in Tasks : u # t => flushing'[u] = flushing[u] /\ Load'[u] = Load[u]
         /\ Load'[t] \subseteq Events(buffer[s]) \union {e}
         /\ \A r \in Sinks \ {s} : buffer'[r] = buffer[r]
         /\ Events(buffer'[s]) \subseteq Events(buffer[s]) \union {e}
         /\ Len(buffer[s]) + 1 >= Batch[s] => buffer'[s] = <<>>
         /\ Len(buffer[s]) + 1 < Batch[s] =>
              flushing' = flushing /\ Len(buffer'[s]) = Len(buffer[s]) + 1
         /\ e \in InFlight' /\ \A x : x \in InFlight => x \in InFlight'
<1>1. /\ buffer \in [Sinks -> Seq(E)] /\ buffer[s] \in Seq(E)
      /\ Append(buffer[s], e) \in Seq(E)
      /\ Len(Append(buffer[s], e)) = Len(buffer[s]) + 1 /\ Len(buffer[s]) \in Nat
      /\ Events(Append(buffer[s], e)) = Events(buffer[s]) \union {e}
  BY EventsOfAppend DEF Holds
<1>2. Batch[s] \in Nat
  BY BatchAssumption
<1>3. CASE Len(buffer[s]) + 1 >= Batch[s]
  <2>1. buffer' = [buffer EXCEPT ![s] = <<>>] /\ EnterLock(t, Append(buffer[s], e))
    BY <1>3 DEF Emit
  <2>2. buffer'[s] = <<>> /\ (\A r \in Sinks \ {s} : buffer'[r] = buffer[r]) /\ Events(<<>>) = {}
    BY <1>1, <2>1 DEF Events
  <2>3. /\ Owned'
        /\ \A u \in Tasks : u # t => flushing'[u] = flushing[u] /\ Load'[u] = Load[u]
        /\ Load'[t] = Events(buffer[s]) \union {e}
        /\ e \in InFlight' /\ \A x : x \in InFlight => x \in InFlight'
    BY <1>1, <2>1, EnterLockCarries
  <2>4. ~(Len(buffer[s]) + 1 < Batch[s])
    BY <1>1, <1>2, <1>3
  <2>5. QED BY <2>2, <2>3, <2>4
<1>4. CASE ~(Len(buffer[s]) + 1 >= Batch[s])
  <2>1. /\ buffer' = [buffer EXCEPT ![s] = Append(buffer[s], e)]
        /\ UNCHANGED <<flushing, batch, lockq, threads, rows>>
    BY <1>4 DEF Emit
  <2>2. buffer'[s] = Append(buffer[s], e) /\ \A r \in Sinks \ {s} : buffer'[r] = buffer[r]
    BY <1>1, <2>1
  <2>3. \A r \in Sinks : \A x : x \in Events(buffer[r]) => x \in Events(buffer'[r])
    BY <1>1, <2>2
  <2>4. e \in InFlight' /\ \A x : x \in InFlight => x \in InFlight'
    BY <1>1, <2>1, <2>2, <2>3, InFlightIs, InFlightThen
  <2>5. Owned' /\ \A u \in Tasks : Load'[u] = Load[u]
    BY <2>1 DEF Load, Owned
  <2>6. Load[t] = {}
    BY IdleLoad
  <2>7. QED BY <1>1, <1>4, <2>1, <2>2, <2>4, <2>5, <2>6
<1>5. QED BY <1>3, <1>4

LEMMA FlushCarries ==
  ASSUME NEW E, Holds(E), Owned, NEW t \in Tasks, NEW s \in Sinks, flushing[t] = "no", Flush(t, s)
  PROVE  /\ Owned'
         /\ \A u \in Tasks : u # t => flushing'[u] = flushing[u] /\ Load'[u] = Load[u]
         /\ Load'[t] = Events(buffer[s])
         /\ buffer'[s] = <<>> /\ \A r \in Sinks \ {s} : buffer'[r] = buffer[r]
         /\ \A x : x \in InFlight => x \in InFlight'
<1>1. buffer \in [Sinks -> Seq(E)] /\ buffer[s] \in Seq(E)
  BY DEF Holds
<1>2. CASE buffer[s] = <<>>
  <2>1. UNCHANGED sinkVars
    BY <1>2 DEF Flush
  <2>2. Owned' /\ (\A u \in Tasks : Load'[u] = Load[u]) /\ \A x : x \in InFlight => x \in InFlight'
    BY <2>1, InFlightIs, InFlightThen DEF Load, sinkVars, Owned
  <2>3. Load[t] = {} /\ Events(<<>>) = {}
    BY IdleLoad DEF Events
  <2>4. QED BY <1>2, <2>1, <2>2, <2>3 DEF sinkVars
<1>3. CASE buffer[s] # <<>>
  <2>1. buffer' = [buffer EXCEPT ![s] = <<>>] /\ EnterLock(t, buffer[s])
    BY <1>3 DEF Flush
  <2>2. buffer'[s] = <<>> /\ \A r \in Sinks \ {s} : buffer'[r] = buffer[r]
    BY <1>1, <2>1
  <2>3. /\ Owned'
        /\ \A u \in Tasks : u # t => flushing'[u] = flushing[u] /\ Load'[u] = Load[u]
        /\ Load'[t] = Events(buffer[s])
        /\ \A x : x \in Events(buffer[s]) => x \in InFlight'
        /\ \A x : x \in InFlight => x \in InFlight' \/ x \in Events(buffer[s])
    BY <1>1, <2>1, EnterLockCarries
  <2>4. \A x : x \in InFlight => x \in InFlight'
    BY <2>3
  <2>5. QED BY <2>2, <2>3, <2>4, Zenon
<1>4. QED BY <1>2, <1>3

(* The lock's next owner moves its batch to a thread.                      *)
LEMMA AcquireCarries ==
  ASSUME NEW E, Holds(E), Owned, NEW t \in Tasks, Acquire(t)
  PROVE  /\ Owned'
         /\ \A u \in Tasks : (flushing'[u] = "no" <=> flushing[u] = "no") /\ Load'[u] = Load[u]
         /\ \A x : x \in InFlight => x \in InFlight'
<1> DEFINE th == [owner |-> t, todo |-> batch[t], begun |-> FALSE]
<1>1. batch \in [Tasks -> Seq(E)] /\ flushing \in [Tasks -> {"no", "wait", "write"}]
  BY DEF Holds
<1>2. /\ threads' = threads \union {th}
      /\ batch' = [batch EXCEPT ![t] = <<>>]
      /\ flushing' = [flushing EXCEPT ![t] = "write"]
      /\ flushing[t] = "wait" /\ buffer' = buffer
  BY DEF Acquire, Thread
<1>3. (\A u \in threads : u.owner # t) /\ Events(<<>>) = {}
  BY <1>2, NobodyAssumption DEF Owned, Events
<1>4. (\A u \in threads' : u \in threads \/ u = th) /\ th \in threads'
  BY <1>2
<1>5. /\ \A u \in Tasks : flushing'[u] # "wait" => batch'[u] = <<>>
      /\ \A u \in Tasks : flushing'[u] = "no" <=> flushing[u] = "no"
  BY <1>1, <1>2 DEF Owned
<1>6. \A u \in threads' : u.owner # Nobody => flushing'[u.owner] = "write"
  BY <1>1, <1>2, <1>3, <1>4 DEF Owned
<1>7. th.owner = t /\ th.todo = batch[t]
  OBVIOUS
<1>8. \A u, v \in threads : u.owner = v.owner /\ u.owner # Nobody => u = v
  BY DEF Owned
<1>9. batch'[t] = <<>> /\ \A u \in Tasks : u # t => batch'[u] = batch[u]
  BY <1>1, <1>2
<1> HIDE DEF th
<1>10. \A u, v \in threads' : u.owner = v.owner /\ u.owner # Nobody => u = v
  BY <1>3, <1>4, <1>7, <1>8
<1>11. \A x : x \in InFlight => x \in InFlight'
  <2>1. SUFFICES ASSUME NEW x, x \in InFlight PROVE x \in InFlight'
    OBVIOUS
  <2>2. CASE x \in Events(batch[t])
    BY <1>4, <1>7, <2>2, InFlightThen
  <2>3. CASE x \notin Events(batch[t])
    BY <1>2, <1>9, <2>1, <2>3, InFlightIs, InFlightThen
  <2>4. QED BY <2>2, <2>3
<1>12. \A u \in Tasks : u # t => Load'[u] = Load[u]
  BY <1>2, <1>4, <1>7, <1>9 DEF Load
<1>13. Load'[t] = Load[t]
  BY <1>3, <1>4, <1>7, <1>9 DEF Load
<1>14. QED BY <1>5, <1>6, <1>10, <1>11, <1>12, <1>13 DEF Owned

(* An inserted event has its row; the others stay where they were.         *)
LEMMA InsertCarries ==
  ASSUME NEW E, Holds(E), Owned, NEW th \in threads, Insert(th)
  PROVE  /\ Owned'
         /\ \A u \in Tasks : (flushing'[u] = "no" \/ flushing'[u] = flushing[u])
                             /\ Load'[u] \subseteq Load[u]
         /\ \A x : x \in InFlight => x \in InFlight' \/ x.seq \in DOMAIN rows'
<1> DEFINE rest == Tail(th.todo)
           after == [th EXCEPT !.todo = rest, !.begun = TRUE]
<1>1. /\ batch \in [Tasks -> Seq(E)] /\ flushing \in [Tasks -> {"no", "wait", "write"}]
      /\ threads \subseteq [owner : Tasks \union {Nobody}, todo : Seq(E) \ {<<>>}, begun : BOOLEAN]
  BY DEF Holds
<1>2. /\ rows' = InsertOrIgnore(rows, Head(th.todo))
      /\ threads' = (threads \ {th})
           \union (IF rest = <<>> THEN {} ELSE {[th EXCEPT !.todo = rest, !.begun = TRUE]})
      /\ buffer' = buffer /\ batch' = batch
  BY Zenon DEF Insert
<1>3. /\ rest = <<>> /\ th.owner # Nobody => flushing' = [flushing EXCEPT ![th.owner] = "no"]
      /\ ~(rest = <<>> /\ th.owner # Nobody) => flushing' = flushing
  BY Zenon DEF Insert
<1>4. /\ th.todo \in Seq(E) /\ th.todo # <<>> /\ th.owner \in Tasks \union {Nobody}
      /\ rest \in Seq(E)
  BY <1>1, HeadTailProperties
<1>5. \A u \in threads' : (u \in threads /\ u # th) \/ (u = after /\ rest # <<>>)
  <2>1. threads' = (threads \ {th}) \union (IF rest = <<>> THEN {} ELSE {after})
    BY <1>2
  <2> HIDE DEF after
  <2>2. QED BY <2>1
<1>6. rest # <<>> => after.owner = th.owner /\ after.todo = rest
  <2>1. th \in [owner : Tasks \union {Nobody}, todo : Seq(E) \ {<<>>}, begun : BOOLEAN]
    BY <1>1
  <2>2. QED BY <1>4, <2>1, ThreadFields
<1>7. rest # <<>> => after \in threads'
  BY <1>2
<1> HIDE DEF after
<1>8. \A u \in threads : u.owner = th.owner /\ u.owner # Nobody => u = th
  BY DEF Owned
<1>9. \A u \in Tasks : flushing'[u] # "wait" => batch'[u] = <<>>
  <2>1. th.owner # Nobody => flushing[th.owner] = "write"
    BY DEF Owned
  <2>2. QED BY <1>1, <1>2, <1>3, <1>4, <2>1 DEF Owned
<1>10. \A u \in threads' : u.owner # Nobody => flushing'[u.owner] = "write"
  <2>1. \A u \in threads : u.owner # Nobody => flushing[u.owner] = "write"
    BY DEF Owned
  <2>2. QED BY <1>1, <1>3, <1>4, <1>5, <1>6, <1>8, <2>1
<1>11. \A u, v \in threads' : u.owner = v.owner /\ u.owner # Nobody => u = v
  BY <1>5, <1>6, <1>8 DEF Owned
<1>12. Head(th.todo).seq \in DOMAIN rows'
  BY <1>2, IgnoreStands, Zenon
<1>13. Events(th.todo) = Events(rest) \union {Head(th.todo)} /\ Events(<<>>) = {}
  <2>1. Events(<<>>) = {}
    BY DEF Events
  <2>2. QED BY <1>4, <2>1, EventsOfTail
<1>14. \A x : x \in Events(th.todo) => x = Head(th.todo) \/ (rest # <<>> /\ x \in Events(after.todo))
  BY <1>6, <1>13
<1>15. \A u \in threads : u # th => u \in threads'
  BY <1>2
<1>16. \A x : x \in InFlight => x \in InFlight' \/ x.seq \in DOMAIN rows'
  BY <1>2, <1>7, <1>12, <1>14, <1>15, InFlightIs, InFlightThen
<1>17. \A u \in Tasks : Load'[u] \subseteq Load[u]
  <2>1. rest # <<>> => \A x : x \in Events(after.todo) => x \in Events(th.todo)
    BY <1>6, <1>13
  <2>2. QED BY <1>2, <1>5, <1>6, <2>1, LoadIs
<1>18. \A u \in Tasks : flushing'[u] = "no" \/ flushing'[u] = flushing[u]
  BY <1>1, <1>3, <1>4
<1>19. QED BY <1>9, <1>10, <1>11, <1>16, <1>17, <1>18 DEF Owned

(* The cancelled tasks lose what is under way with them, at most.          *)
LEMMA CancelCarries ==
  ASSUME NEW E, Holds(E), Owned, NEW T \in SUBSET Tasks, CancelAll(T)
  PROVE  /\ Owned'
         /\ \A u \in T : flushing'[u] = "no" /\ Load'[u] = {}
         /\ \A u \in Tasks \ T : flushing'[u] = flushing[u] /\ Load'[u] = Load[u]
         /\ \A x : x \in InFlight => x \in InFlight' \/ \E u \in T : x \in Load[u]
<1>1. /\ batch \in [Tasks -> Seq(E)] /\ flushing \in [Tasks -> {"no", "wait", "write"}]
      /\ threads \subseteq [owner : Tasks \union {Nobody}, todo : Seq(E) \ {<<>>}, begun : BOOLEAN]
  BY DEF Holds
<1> DEFINE theirs == {th \in threads : th.owner \in T}
<1>2. PICK orphans \in SUBSET theirs :
        threads' = (threads \ theirs) \union {[th EXCEPT !.owner = Nobody] : th \in orphans}
  BY DEF CancelAll
<1>3. /\ flushing' = [u \in Tasks |-> IF u \in T THEN "no" ELSE flushing[u]]
      /\ batch' = [u \in Tasks |-> IF u \in T THEN <<>> ELSE batch[u]]
      /\ buffer' = buffer
  BY DEF CancelAll
<1>4. \A u \in threads' : \/ u \in threads /\ u.owner \notin T
                          \/ u.owner = Nobody
  <2>1. SUFFICES ASSUME NEW u \in threads', u \notin threads \ theirs PROVE u.owner = Nobody
    OBVIOUS
  <2>2. PICK th \in orphans : u = [th EXCEPT !.owner = Nobody]
    BY <1>2, <2>1
  <2>3. th \in [owner : Tasks \union {Nobody}, todo : Seq(E) \ {<<>>}, begun : BOOLEAN]
    BY <1>1, <1>2
  <2>4. u = [owner |-> Nobody, todo |-> th.todo, begun |-> th.begun]
    BY <2>2, <2>3
  <2>5. QED BY <2>4
<1>5. \A u \in threads : u.owner \notin T => u \in threads'
  BY <1>2
<1>6. \A u \in Tasks : u # Nobody
  BY NobodyAssumption
<1>7. \A u \in Tasks : flushing'[u] # "wait" => batch'[u] = <<>>
  BY <1>3 DEF Owned
<1>8. \A u \in threads' : u.owner # Nobody => u \in threads /\ u.owner \notin T
  BY <1>4
<1>9. \A u \in threads' : u.owner # Nobody => flushing'[u.owner] = "write"
  <2>1. SUFFICES ASSUME NEW u \in threads', u.owner # Nobody PROVE flushing'[u.owner] = "write"
    OBVIOUS
  <2>2. u \in threads /\ u.owner \notin T /\ u.owner \in Tasks
    BY <1>1, <1>8, <2>1
  <2>3. QED BY <1>3, <2>1, <2>2 DEF Owned
<1>10. Owned'
  BY <1>7, <1>8, <1>9 DEF Owned
<1>11. \A u \in T : flushing'[u] = "no" /\ Load'[u] = {}
  <2>1. \A u \in T : flushing'[u] = "no" /\ batch'[u] = <<>> /\ u \in Tasks
    BY <1>3
  <2>2. Events(<<>>) = {}
    BY DEF Events
  <2>3. QED BY <1>6, <1>8, <2>1, <2>2, LoadIs
<1>12. \A u \in Tasks \ T : flushing'[u] = flushing[u] /\ batch'[u] = batch[u]
  BY <1>3
<1>13. \A u \in Tasks \ T : Load'[u] = Load[u]
  BY <1>5, <1>6, <1>8, <1>12 DEF Load
<1>14. \A x : x \in InFlight => x \in InFlight' \/ \E u \in T : x \in Load[u]
  <2>1. SUFFICES ASSUME NEW x, x \in InFlight, \A u \in T : x \notin Load[u] PROVE x \in InFlight'
    OBVIOUS
  <2>2. CASE \E s \in Sinks : x \in Events(buffer[s])
    BY <1>3, <2>2, InFlightThen
  <2>3. CASE \E u \in Tasks : x \in Events(batch[u])
    BY <1>12, <2>1, <2>3, InFlightThen, LoadIs
  <2>4. CASE \E th \in threads : x \in Events(th.todo)
    BY <1>5, <2>1, <2>4, InFlightThen, LoadIs
  <2>5. QED BY <2>1, <2>2, <2>3, <2>4, InFlightIs
<1>15. QED BY <1>10, <1>11, <1>12, <1>13, <1>14

-----------------------------------------------------------------------------
(* What the threads nobody owns any more have still to insert.             *)
Strays == UNION {Events(th.todo) : th \in {x \in threads : x.owner = Nobody}}

LEMMA StraysAre ==
  /\ \A e : e \in Strays <=> \E th \in threads : th.owner = Nobody /\ e \in Events(th.todo)
  /\ \A e : e \in Strays' <=> \E th \in threads' : th.owner = Nobody /\ e \in Events(th.todo)
  BY DEF Strays

(* A thread is its task's to begin with.                                   *)
LEMMA NewThread ==
  ASSUME NEW t \in Tasks, NEW events,
         threads' = threads \/ threads' = threads \union {Thread(t, events)}
  PROVE  Strays' = Strays
<1>1. PICK th : th = Thread(t, events)
  OBVIOUS
<1>2. th.owner # Nobody
  BY <1>1, NobodyAssumption DEF Thread
<1>3. threads' = threads \/ threads' = threads \union {th}
  BY <1>1
<1>4. \A u : u.owner = Nobody => (u \in threads' <=> u \in threads)
  BY <1>2, <1>3
<1>5. \A e : e \in Strays' <=> e \in Strays
  BY <1>4, StraysAre
<1>6. QED BY <1>5

LEMMA EnterLockStrays ==
  ASSUME NEW t \in Tasks, NEW events, EnterLock(t, events) PROVE Strays' = Strays
<1>1. threads' = threads \/ threads' = threads \union {Thread(t, events)}
  BY DEF EnterLock
<1>2. QED BY <1>1, NewThread

LEMMA EmitStrays ==
  ASSUME NEW t \in Tasks, NEW s \in Sinks, NEW e, Emit(t, s, e) PROVE Strays' = Strays
<1>1. EnterLock(t, Append(buffer[s], e)) \/ threads' = threads
  BY DEF Emit
<1>2. threads' = threads => Strays' = Strays
  BY DEF Strays
<1>3. QED BY <1>1, <1>2, EnterLockStrays

LEMMA FlushStrays ==
  ASSUME NEW t \in Tasks, NEW s \in Sinks, Flush(t, s) PROVE Strays' = Strays
<1>1. EnterLock(t, buffer[s]) \/ threads' = threads
  BY DEF Flush, sinkVars
<1>2. threads' = threads => Strays' = Strays
  BY DEF Strays
<1>3. QED BY <1>1, <1>2, EnterLockStrays

LEMMA AcquireStrays ==
  ASSUME NEW t \in Tasks, Acquire(t) PROVE Strays' = Strays
<1>1. threads' = threads \union {Thread(t, batch[t])}
  BY DEF Acquire
<1>2. QED BY <1>1, NewThread

LEMMA InsertStrays ==
  ASSUME NEW E, Holds(E), NEW th \in threads, Insert(th) PROVE Strays' \subseteq Strays
<1> DEFINE rest == Tail(th.todo)
           after == [th EXCEPT !.todo = rest, !.begun = TRUE]
<1>1. threads' = (threads \ {th}) \union (IF rest = <<>> THEN {} ELSE {after})
  BY Zenon DEF Insert
<1>2. th \in [owner : Tasks \union {Nobody}, todo : Seq(E) \ {<<>>}, begun : BOOLEAN]
  BY DEF Holds
<1>3. th.todo \in Seq(E) /\ th.todo # <<>> /\ th.owner \in Tasks \union {Nobody} /\ rest \in Seq(E)
  BY <1>2, HeadTailProperties
<1>4. rest # <<>> => after.owner = th.owner /\ after.todo = rest
  BY <1>2, <1>3, ThreadFields
<1>5. Events(rest) \subseteq Events(th.todo)
  BY <1>3, EventsOfTail
<1> HIDE DEF after, rest
<1>6. \A u \in threads' : u \in threads \/ (u = after /\ rest # <<>>)
  BY <1>1
<1>7. \A e : e \in Strays' => e \in Strays
  <2>1. SUFFICES ASSUME NEW e, e \in Strays' PROVE e \in Strays
    OBVIOUS
  <2>2. PICK u \in threads' : u.owner = Nobody /\ e \in Events(u.todo)
    BY <2>1, StraysAre
  <2>3. CASE u \in threads
    BY <2>2, <2>3, StraysAre
  <2>4. CASE u = after /\ rest # <<>>
    <3>1. th.owner = Nobody /\ e \in Events(th.todo)
      BY <1>4, <1>5, <2>2, <2>4
    <3>2. QED BY <3>1, StraysAre
  <2>5. QED BY <1>6, <2>3, <2>4
<1>8. QED BY <1>7

(* A cancellation orphans threads of the cancelled tasks.                  *)
LEMMA CancelStrays ==
  ASSUME NEW E, Holds(E), NEW T \in SUBSET Tasks, CancelAll(T), NEW e \in Strays'
  PROVE  e \in Strays \/ \E t \in T : e \in Load[t]
<1> DEFINE theirs == {th \in threads : th.owner \in T}
           Types == [owner : Tasks \union {Nobody}, todo : Seq(E) \ {<<>>}, begun : BOOLEAN]
<1>1. PICK orphans \in SUBSET theirs :
        threads' = (threads \ theirs) \union {[th EXCEPT !.owner = Nobody] : th \in orphans}
  BY DEF CancelAll
<1>2. PICK u \in threads' : u.owner = Nobody /\ e \in Events(u.todo)
  BY StraysAre
<1>3. CASE u \in threads
  BY <1>2, <1>3, StraysAre
<1>4. CASE u \notin threads
  <2>1. PICK th \in orphans : u = [th EXCEPT !.owner = Nobody]
    BY <1>1, <1>4
  <2>2. th \in threads /\ th.owner \in T /\ th \in Types
    BY <1>1 DEF Holds
  <2>3. u = [owner |-> Nobody, todo |-> th.todo, begun |-> th.begun]
    BY <2>1, <2>2
  <2>4. e \in Events(th.todo)
    BY <1>2, <2>3
  <2>5. PICK t \in T : t = th.owner
    BY <2>2
  <2>6. e \in Load[t]
    BY <2>2, <2>4, <2>5, LoadIs
  <2>7. QED BY <2>6
<1>5. QED BY <1>3, <1>4
-----------------------------------------------------------------------------
(* When nothing is left in a buffer and nobody flushes, all that is kept   *)
(* is stored.                                                              *)
LEMMA SettledStores ==
  ASSUME Owned, \A t \in Tasks : flushing[t] = "no", \A s \in Sinks : buffer[s] = <<>>,
         NEW q, Kept(q)
  PROVE  Stored(q)
<1>1. Events(<<>>) = {} /\ \A t \in Tasks : batch[t] = <<>>
  BY DEF Events, Owned
<1>2. CASE q \in DOMAIN rows
  BY <1>2 DEF Stored
<1>3. CASE q \notin DOMAIN rows
  <2>1. PICK e \in InFlight : e.seq = q
    BY <1>3 DEF Kept
  <2>2. \E th \in threads : e \in Events(th.todo)
    BY <1>1, <2>1, InFlightIs
  <2>3. QED BY <2>1, <2>2 DEF Stored
<1>4. QED BY <1>2, <1>3
-----------------------------------------------------------------------------
(* With batches of top events at most, no buffer, batch or thread has more.*)
Limit(top) == top \in Nat /\ \A s \in Sinks : Batch[s] <= top

Small(top) ==
  /\ \A s \in Sinks : Len(buffer[s]) < Batch[s]
  /\ \A t \in Tasks : Len(batch[t]) <= top
  /\ \A th \in threads : Len(th.todo) <= top

LEMMA SinkInitSmall ==
  ASSUME SinkInit, NEW top, Limit(top)
  PROVE  Small(top)
  BY BatchAssumption DEF SinkInit, Small, Limit

(* What is handed to a thread or to the queue is small as well.            *)
LEMMA EnterLockSmall ==
  ASSUME NEW E, Holds(E), NEW top, Limit(top), Small(top), NEW t \in Tasks, NEW s \in Sinks,
         NEW events \in Seq(E), Len(events) <= top,
         buffer' = [buffer EXCEPT ![s] = <<>>], EnterLock(t, events)
  PROVE  Small(top)'
<1>1. buffer \in [Sinks -> Seq(E)] /\ batch \in [Tasks -> Seq(E)]
  BY DEF Holds
<1>2. \A r \in Sinks : Len(buffer'[r]) < Batch[r]
  <2>1. Len(<<>>) = 0
    OBVIOUS
  <2>2. QED BY <1>1, <2>1, BatchAssumption DEF Small
<1>3. CASE lockq = <<>>
  <2>1. threads' = threads \union {Thread(t, events)} /\ batch' = batch
    BY <1>3 DEF EnterLock
  <2>2. Thread(t, events).todo = events
    BY DEF Thread
  <2>3. QED BY <1>2, <2>1, <2>2 DEF Small
<1>4. CASE lockq # <<>>
  <2>1. batch' = [batch EXCEPT ![t] = events] /\ threads' = threads
    BY <1>4 DEF EnterLock
  <2>2. QED BY <1>1, <1>2, <2>1 DEF Small
<1>5. QED BY <1>3, <1>4

LEMMA EmitSmall ==
  ASSUME NEW E, Holds(E), NEW top, Limit(top), Small(top), NEW t \in Tasks, NEW s \in Sinks, NEW e \in E,
         Emit(t, s, e)
  PROVE  Small(top)'
<1>1. /\ buffer \in [Sinks -> Seq(E)] /\ Append(buffer[s], e) \in Seq(E)
      /\ Len(Append(buffer[s], e)) = Len(buffer[s]) + 1 /\ Len(buffer[s]) \in Nat
  BY DEF Holds
<1>2. Len(buffer[s]) + 1 <= top /\ Batch[s] \in Nat
  BY <1>1, BatchAssumption DEF Small, Limit
<1>3. CASE Len(buffer[s]) + 1 >= Batch[s]
  <2>1. buffer' = [buffer EXCEPT ![s] = <<>>] /\ EnterLock(t, Append(buffer[s], e))
    BY <1>3 DEF Emit
  <2>2. QED BY <1>1, <1>2, <2>1, EnterLockSmall
<1>4. CASE ~(Len(buffer[s]) + 1 >= Batch[s])
  <2>1. /\ buffer' = [buffer EXCEPT ![s] = Append(buffer[s], e)]
        /\ UNCHANGED <<batch, threads>>
    BY <1>4 DEF Emit
  <2>2. \A r \in Sinks : Len(buffer'[r]) < Batch[r]
    BY <1>1, <1>2, <1>4, <2>1 DEF Small
  <2>3. QED BY <2>1, <2>2 DEF Small
<1>5. QED BY <1>3, <1>4

LEMMA FlushSmall ==
  ASSUME NEW E, Holds(E), NEW top, Limit(top), Small(top), NEW t \in Tasks, NEW s \in Sinks,
         Flush(t, s)
  PROVE  Small(top)'
<1>1. CASE buffer[s] = <<>>
  BY <1>1 DEF Flush, sinkVars, Small
<1>2. CASE buffer[s] # <<>>
  <2>1. buffer[s] \in Seq(E) /\ Len(buffer[s]) \in Nat /\ Len(buffer[s]) < Batch[s]
    BY DEF Holds, Small
  <2>2. Len(buffer[s]) <= top
    BY <2>1, BatchAssumption DEF Limit
  <2>3. buffer' = [buffer EXCEPT ![s] = <<>>] /\ EnterLock(t, buffer[s])
    BY <1>2 DEF Flush
  <2>4. QED BY <2>1, <2>2, <2>3, EnterLockSmall
<1>3. QED BY <1>1, <1>2

LEMMA AcquireSmall ==
  ASSUME NEW E, Holds(E), NEW top, Limit(top), Small(top), NEW t \in Tasks, Acquire(t)
  PROVE  Small(top)'
<1>1. /\ threads' = threads \union {Thread(t, batch[t])}
      /\ batch' = [batch EXCEPT ![t] = <<>>] /\ buffer' = buffer
  BY DEF Acquire
<1>2. Thread(t, batch[t]).todo = batch[t] /\ Len(<<>>) = 0
  BY DEF Thread
<1>3. batch \in [Tasks -> Seq(E)]
  BY DEF Holds
<1>4. \A u \in Tasks : Len(batch'[u]) <= top
  BY <1>1, <1>2, <1>3, BatchAssumption DEF Small, Limit
<1>5. QED BY <1>1, <1>2, <1>4 DEF Small

LEMMA InsertSmall ==
  ASSUME NEW E, Holds(E), NEW top, Limit(top), Small(top), NEW th \in threads, Insert(th)
  PROVE  Small(top)'
<1> DEFINE rest == Tail(th.todo)
           after == [th EXCEPT !.todo = rest, !.begun = TRUE]
<1>1. /\ threads' = (threads \ {th}) \union (IF rest = <<>> THEN {} ELSE {after})
      /\ buffer' = buffer /\ batch' = batch
  BY Zenon DEF Insert
<1>2. th \in [owner : Tasks \union {Nobody}, todo : Seq(E) \ {<<>>}, begun : BOOLEAN]
  BY DEF Holds
<1>3. th.todo \in Seq(E) /\ th.todo # <<>> /\ Len(th.todo) <= top
  BY <1>2 DEF Small
<1>4. rest \in Seq(E) /\ Len(rest) <= top
  BY <1>3, HeadTailProperties DEF Limit
<1>5. after.todo = rest
  BY <1>2, <1>4, ThreadFields
<1> HIDE DEF after, rest
<1>6. \A u \in threads' : u \in threads \/ u = after
  BY <1>1
<1>7. QED BY <1>1, <1>4, <1>5, <1>6 DEF Small

(* A cancellation only drops.                                              *)
LEMMA CancelSmall ==
  ASSUME NEW E, Holds(E), NEW top, Limit(top), Small(top), NEW T \in SUBSET Tasks, CancelAll(T)
  PROVE  Small(top)'
<1>1. threads \subseteq [owner : Tasks \union {Nobody}, todo : Seq(E) \ {<<>>}, begun : BOOLEAN]
  BY DEF Holds
<1> DEFINE theirs == {th \in threads : th.owner \in T}
<1>2. PICK orphans \in SUBSET theirs :
        threads' = (threads \ theirs) \union {[th EXCEPT !.owner = Nobody] : th \in orphans}
  BY DEF CancelAll
<1>3. /\ batch' = [u \in Tasks |-> IF u \in T THEN <<>> ELSE batch[u]]
      /\ buffer' = buffer
  BY DEF CancelAll
<1>4. \A u \in threads' : \E v \in threads : u.todo = v.todo
  <2>1. SUFFICES ASSUME NEW u \in threads', u \notin threads
                 PROVE  \E v \in threads : u.todo = v.todo
    OBVIOUS
  <2>2. PICK th \in orphans : u = [th EXCEPT !.owner = Nobody]
    BY <1>2, <2>1
  <2>3. th \in [owner : Tasks \union {Nobody}, todo : Seq(E) \ {<<>>}, begun : BOOLEAN]
    BY <1>1, <1>2
  <2>4. u = [owner |-> Nobody, todo |-> th.todo, begun |-> th.begun]
    BY <2>2, <2>3
  <2>5. QED BY <1>2, <2>4
<1>5. \A u \in Tasks : Len(batch'[u]) <= top
  <2>1. Len(<<>>) = 0
    OBVIOUS
  <2>2. QED BY <1>3, <2>1 DEF Small, Limit
<1>6. QED BY <1>3, <1>4, <1>5 DEF Small

(* What a task would lose is one batch.                                    *)
LEMMA LoadIsSmall ==
  ASSUME NEW E, Holds(E), NEW top, Small(top), Owned, NEW t \in Tasks
  PROVE  \E g \in Seq(E) : Len(g) <= top /\ Load[t] = Events(g)
<1>1. /\ batch \in [Tasks -> Seq(E)]
      /\ threads \subseteq [owner : Tasks \union {Nobody}, todo : Seq(E) \ {<<>>},
                             begun : BOOLEAN]
  BY DEF Holds
<1> DEFINE theirs == {th \in threads : th.owner = t}
<1>2. Events(<<>>) = {} /\ t # Nobody
  BY NobodyAssumption DEF Events
<1>3. CASE theirs = {}
  <2>1. Load[t] = Events(batch[t])
    BY <1>3 DEF Load
  <2>2. batch[t] \in Seq(E) /\ Len(batch[t]) <= top
    BY <1>1 DEF Small
  <2>3. QED BY <2>1, <2>2
<1>4. CASE theirs # {}
  <2>1. PICK th \in threads : th.owner = t
    BY <1>4
  <2>2. theirs = {th}
    BY <1>2, <2>1 DEF Owned
  <2>3. batch[t] = <<>>
    BY <1>2, <2>1 DEF Owned
  <2>4. Load[t] = Events(th.todo)
    BY <1>2, <2>2, <2>3 DEF Load
  <2>5. th.todo \in Seq(E) /\ Len(th.todo) <= top
    BY <1>1, <2>1 DEF Small
  <2>6. QED BY <2>4, <2>5
<1>5. QED BY <1>3, <1>4
=============================================================================
