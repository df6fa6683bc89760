---------------------------- MODULE OfflineProofs ----------------------------
(***************************************************************************)
(* Proofs about what runs outside the services: the simulation and its     *)
(* record, the batch forms of the tests, and the passes of the judging     *)
(* scripts.  The three modules share no constant and no variable.          *)
(***************************************************************************)
EXTENDS Simulation, Detectors, Judging, FiniteSetTheorems, FunctionTheorems, SequenceTheorems, TLAPS

(***************************************************************************)
(* Simulation: what the record of a run is a record of, for any scenario,  *)
(* any batch size, any failing calls and a store that may fail at any      *)
(* append.  The inductive invariant speaks of the sequence E of all events *)
(* emitted so far, which no variable holds: the store has its first R      *)
(* events, the writer the next ones, and the queue the rest, with the      *)
(* sentinel among them once the run is closing.                            *)
(***************************************************************************)

Sealed == run \in {"closing", "returned", "raised"}

Stored(E, R) ==
  /\ DOMAIN rows = 0 .. R - 1
  /\ \A q \in 0 .. R - 1 : rows[q] = E[q + 1]

Taken(E, R) ==
  /\ buf \in Seq(Events) /\ R + Len(buf) <= Len(E)
  /\ \A k \in 1 .. Len(buf) : buf[k] = E[R + k]

(* The events after the B-th wait in the queue.                            *)
Plain(E, B) ==
  /\ Len(queue) = Len(E) - B
  /\ \A k \in 1 .. Len(queue) : queue[k] = E[B + k]

(* So they do, around the sentinel.                                        *)
Split(E, B) ==
  /\ Len(queue) = Len(E) - B + 1
  /\ \E c \in 1 .. Len(queue) :
       /\ queue[c] = Close
       /\ \A k \in 1 .. c - 1 : queue[k] = E[B + k]
       /\ \A k \in c + 1 .. Len(queue) : queue[k] = E[B + k - 1]

Awaiting(E, B) ==
  /\ queue \in Seq(Events \union {Close})
  /\ Plain(E, B) \/ (Sealed /\ Split(E, B))

Logged(E, R) ==
  /\ E \in Seq(Events) /\ Len(E) = nextSeq
  /\ \A k \in 1 .. Len(E) : E[k].seq = k - 1
  /\ R \in 0 .. Len(E) /\ Stored(E, R)
  /\ writer \in {"get", "flush", "last", "done", "dead"}
  /\ writer \in {"get", "flush", "last"} => Taken(E, R)
  /\ writer \in {"get", "flush"} => Awaiting(E, R + Len(buf))

(* How many of the first n events are of type t.                           *)
Seen(E, n, t) == Cardinality({q \in 0 .. n - 1 : E[q + 1].type = t})

Counted(E) ==
  /\ counts = [t \in Types |-> Seen(E, Len(E), t)]
  /\ \A k \in 1 .. Len(E) :
       E[k].type = "run_finished" => E[k].body = [t \in Types |-> Seen(E, k - 1, t)]

(* Requests that come one after another: the run never resumes.            *)
Serial ==
  /\ arrived \in Nat
  /\ ~paced =>
       /\ \A i, j \in routes : i = j
       /\ routes # {} => run = "routing"
       /\ run \in {"start", "routing"} => ~raised

(* A run that has not raised has nobody under way when it ends, and then   *)
(* every champion has answered.                                            *)
Underway ==
  /\ arrived \in 0 .. N /\ routes \subseteq 0 .. arrived - 1
  /\ shadows \subseteq Sampled /\ \A i \in shadows : i < arrived
  /\ run = "start" => arrived = 0
  /\ ~raised => \A i \in 0 .. arrived - 1 : i \in routes \/ <<"champion", i>> \notin failing
  /\ run = "drain" => ~raised /\ arrived = N /\ routes = {}
  /\ run = "finally" \/ Sealed => raised \/ (arrived = N /\ routes = {} /\ shadows = {})
  /\ run = "returned" => ~raised /\ writer = "done"

(* So that its writer, who takes whatever is in the queue when he meets    *)
(* the sentinel, ends with all of the record.                              *)
Ended(E, R) ==
  writer \in {"last", "done"} =>
    /\ Sealed
    /\ ~raised => R + Len(buf) = Len(E) /\ (writer = "done" => R = Len(E))

(* What the requests that came so far and the answers to them make a       *)
(* record say, whatever the order.                                         *)
Ends == {"run_started", "run_finished"}

What(e) == <<e.type, e.index, e.body>>

Served == {i \in 0 .. arrived - 1 : i \notin routes /\ <<"champion", i>> \notin failing}

Shadowed == {i \in Sampled : i < arrived /\ i \notin shadows /\ <<"challenger", i>> \notin failing}

Answers ==
  {<<"request_received", i, Topic(i)>> : i \in 0 .. arrived - 1}
    \union {<<"champion_response", i, "good">> : i \in Served}
    \union {<<"shadow_response", i, Pool(i)>> : i \in Shadowed}

(* E says each of these once, and it starts and finishes.                  *)
Tells(E) ==
  /\ {What(E[k]) : k \in {n \in 1 .. Len(E) : E[n].type \notin Ends}} = Answers
  /\ IsFiniteSet(Answers)
  /\ Len(E) = Cardinality(Answers) + (IF run = "start" THEN 0 ELSE 1) + (IF Sealed THEN 1 ELSE 0)
  /\ \A j, k \in 1 .. Len(E) :
       E[j].type = "shadow_response" /\ E[k].type = "shadow_response" /\ E[j].index = E[k].index
         => j = k
  /\ Sealed /\ ~raised => E[Len(E)].type = "run_finished"

Record(E, R) == Logged(E, R) /\ Counted(E) /\ Ended(E, R) /\ Tells(E)

Recorded == \E E \in Seq(Events) : \E R \in Nat : Record(E, R)

Inv == Serial /\ Underway /\ Recorded
-----------------------------------------------------------------------------
LEMMA Appended ==
  ASSUME NEW E \in Seq(Events), NEW e \in Events
  PROVE  /\ Append(E, e) \in Seq(Events) /\ Len(Append(E, e)) = Len(E) + 1 /\ Len(E) \in Nat
         /\ Append(E, e)[Len(E) + 1] = e
         /\ \A k \in 1 .. Len(E) : Append(E, e)[k] = E[k]
  OBVIOUS

LEMMA SeenAppended ==
  ASSUME NEW E \in Seq(Events), NEW e \in Events, NEW t
  PROVE  /\ \A n \in 0 .. Len(E) : Seen(Append(E, e), n, t) = Seen(E, n, t)
         /\ Seen(E, Len(E), t) \in Nat
         /\ Seen(Append(E, e), Len(E) + 1, t) = Seen(E, Len(E), t) + (IF e.type = t THEN 1 ELSE 0)
<1> DEFINE S(F, n) == {q \in 0 .. n - 1 : F[q + 1].type = t}
           F == Append(E, e)
<1>1. Len(E) \in Nat /\ F[Len(E) + 1] = e /\ \A k \in 1 .. Len(E) : F[k] = E[k]
  BY Appended
<1> HIDE DEF F
<1>2. \A n \in 0 .. Len(E) : S(F, n) = S(E, n)
  BY <1>1
<1>3. IsFiniteSet(S(E, Len(E))) /\ Cardinality(S(E, Len(E))) \in Nat
  <2>1. IsFiniteSet(0 .. Len(E) - 1)
    BY <1>1, FS_Interval
  <2>2. S(E, Len(E)) \subseteq 0 .. Len(E) - 1
    OBVIOUS
  <2>3. QED BY <2>1, <2>2, FS_Subset, FS_CardinalityType
<1>4. Cardinality(S(F, Len(E) + 1)) = Cardinality(S(E, Len(E))) + (IF e.type = t THEN 1 ELSE 0)
  <2>1. CASE e.type = t
    <3>1. S(F, Len(E) + 1) = S(E, Len(E)) \union {Len(E)}
      BY <1>1, <2>1
    <3>2. Len(E) \notin S(E, Len(E))
      BY <1>1
    <3> DEFINE old == S(E, Len(E))
    <3> HIDE DEF S
    <3>3. IsFiniteSet(old) /\ Len(E) \notin old
      BY <1>3, <3>2
    <3> HIDE DEF old
    <3>4. Cardinality(old \union {Len(E)}) = Cardinality(old) + 1
      BY <3>3, FS_AddElement
    <3>5. QED BY <2>1, <3>1, <3>4 DEF old
  <2>2. CASE e.type # t
    <3>1. S(F, Len(E) + 1) = S(E, Len(E))
      BY <1>1, <2>2
    <3> HIDE DEF S
    <3>2. QED BY <1>3, <2>2, <3>1
  <2>3. QED BY <2>1, <2>2
<1>5. QED BY <1>2, <1>3, <1>4 DEF Seen, F

(* One more event: whatever it is, the counts have it, and what it says of *)
(* the counts is so for the events before it.                              *)
LEMMA PutCounts ==
  ASSUME NEW E \in Seq(Events), Counted(E), NEW e \in Events, NEW items, Put(e, items),
         e.type = "run_finished" => e.body = counts
  PROVE  Counted(Append(E, e))'
<1> DEFINE F == Append(E, e)
<1>1. F \in Seq(Events) /\ Len(F) = Len(E) + 1 /\ Len(E) \in Nat /\ F[Len(E) + 1] = e
      /\ \A k \in 1 .. Len(E) : F[k] = E[k]
  BY Appended
<1>2. \A t \in Types : /\ \A n \in 0 .. Len(E) : Seen(F, n, t) = Seen(E, n, t)
                       /\ Seen(E, Len(E), t) \in Nat
                       /\ Seen(F, Len(E) + 1, t) = Seen(E, Len(E), t) + (IF e.type = t THEN 1 ELSE 0)
  BY SeenAppended
<1> HIDE DEF F
<1>3. counts' = [counts EXCEPT ![e.type] = @ + 1] /\ counts = [t \in Types |-> Seen(E, Len(E), t)]
  BY DEF Put, Counted
<1>4. counts' = [t \in Types |-> Seen(F, Len(F), t)]
  <2>1. e.type \in Types
    BY DEF Events
  <2>2. counts' = [t \in Types |-> IF t = e.type THEN counts[t] + 1 ELSE counts[t]]
    BY <1>3, <2>1
  <2>3. \A t \in Types : Seen(F, Len(F), t) = IF t = e.type THEN counts[t] + 1 ELSE counts[t]
    BY <1>1, <1>2, <1>3
  <2>4. QED BY <2>2, <2>3
<1>5. \A k \in 1 .. Len(F) :
        F[k].type = "run_finished" => F[k].body = [t \in Types |-> Seen(F, k - 1, t)]
  <2>1. SUFFICES ASSUME NEW k \in 1 .. Len(F), F[k].type = "run_finished"
                 PROVE  F[k].body = [t \in Types |-> Seen(F, k - 1, t)]
    OBVIOUS
  <2>2. k - 1 \in 0 .. Len(E)
    BY <1>1
  <2>3. [t \in Types |-> Seen(F, k - 1, t)] = [t \in Types |-> Seen(E, k - 1, t)]
    BY <1>2, <2>2
  <2>4. CASE k = Len(E) + 1
    BY <1>1, <1>3, <2>1, <2>3, <2>4
  <2>5. CASE k \in 1 .. Len(E)
    BY <1>1, <2>1, <2>3, <2>5 DEF Counted
  <2>6. QED BY <1>1, <2>4, <2>5
<1>6. QED BY <1>4, <1>5 DEF Counted, F
-----------------------------------------------------------------------------
(* An event is emitted: it is the last that waits in the queue.            *)
LEMMA EmitLogs ==
  ASSUME NEW E, NEW R, Logged(E, R), NEW e \in Events, e.seq = nextSeq, Emit(e), Sealed => Sealed'
  PROVE  Logged(Append(E, e), R)'
<1> DEFINE F == Append(E, e)
<1>1. /\ F \in Seq(Events) /\ Len(F) = Len(E) + 1 /\ Len(E) \in Nat /\ F[Len(E) + 1] = e
      /\ \A k \in 1 .. Len(E) : F[k] = E[k]
  BY Appended DEF Logged
<1> HIDE DEF F
<1>2. /\ queue' = queue \o <<e>> /\ nextSeq' = nextSeq + 1
      /\ UNCHANGED <<writer, buf, rows>>
  BY DEF Emit, Put
<1>3. Len(F) = nextSeq' /\ \A k \in 1 .. Len(F) : F[k].seq = k - 1
  <2>1. Len(E) = nextSeq /\ \A k \in 1 .. Len(E) : E[k].seq = k - 1
    BY DEF Logged
  <2>2. \A k \in 1 .. Len(F) : k \in 1 .. Len(E) \/ k = Len(E) + 1
    BY <1>1
  <2>3. F[Len(E) + 1].seq = Len(E)
    BY <1>1, <2>1
  <2>4. nextSeq' = Len(F)
    BY <1>1, <1>2, <2>1
  <2>5. QED BY <1>1, <2>1, <2>2, <2>3, <2>4
<1>4. R \in 0 .. Len(F) /\ Stored(F, R)'
  <2>1. R \in 0 .. Len(E) /\ DOMAIN rows = 0 .. R - 1 /\ \A q \in 0 .. R - 1 : rows[q] = E[q + 1]
    BY DEF Logged, Stored
  <2>2. \A q \in 0 .. R - 1 : q + 1 \in 1 .. Len(E)
    BY <1>1, <2>1
  <2>3. \A q \in 0 .. R - 1 : rows'[q] = F[q + 1]
    BY <1>1, <1>2, <2>1, <2>2
  <2>4. R \in 0 .. Len(F)
    BY <1>1, <2>1
  <2>5. QED BY <1>2, <2>1, <2>3, <2>4 DEF Stored
<1>5. ASSUME writer \in {"get", "flush", "last"} PROVE Taken(F, R)'
  BY <1>1, <1>2, <1>5 DEF Logged, Taken
<1>6. ASSUME writer \in {"get", "flush"} PROVE Awaiting(F, R + Len(buf))'
  <2>0. PICK B : B = R + Len(buf)
    OBVIOUS
  <2>1. Awaiting(E, B) /\ B \in 0 .. Len(E)
    BY <1>6, <2>0 DEF Logged, Taken
  <2>2. /\ queue \in Seq(Events \union {Close}) /\ queue' \in Seq(Events \union {Close})
        /\ Len(queue') = Len(queue) + 1 /\ Len(queue) \in Nat /\ queue'[Len(queue) + 1] = e
        /\ \A k \in 1 .. Len(queue) : queue'[k] = queue[k]
    <3>1. queue \in Seq(Events \union {Close}) /\ e \in Events \union {Close}
      BY <2>1 DEF Awaiting
    <3>2. queue' = Append(queue, e)
      BY <1>2, <3>1
    <3>3. QED BY <3>1, <3>2
  <2>3. CASE Plain(E, B)
    <3>1. Plain(F, B)'
      <4>1. Len(queue) = Len(E) - B /\ \A k \in 1 .. Len(queue) : queue[k] = E[B + k]
        BY <2>3 DEF Plain
      <4>2. SUFFICES ASSUME NEW k \in 1 .. Len(queue') PROVE queue'[k] = F[B + k]
        BY <1>1, <2>1, <2>2, <4>1 DEF Plain
      <4>3. CASE k \in 1 .. Len(queue)
        <5>1. B + k \in 1 .. Len(E)
          BY <1>1, <2>1, <2>2, <4>1, <4>3
        <5>2. QED BY <1>1, <2>2, <4>1, <4>3, <5>1
      <4>4. CASE k = Len(queue) + 1
        <5>1. B + k = Len(E) + 1
          BY <1>1, <2>1, <2>2, <4>1, <4>4
        <5>2. QED BY <1>1, <2>2, <4>4, <5>1
      <4>5. QED BY <2>2, <4>3, <4>4
    <3>2. QED BY <1>2, <2>0, <2>2, <3>1 DEF Awaiting
  <2>4. CASE Sealed /\ Split(E, B)
    <3>1. PICK c \in 1 .. Len(queue) :
            /\ queue[c] = Close
            /\ \A k \in 1 .. c - 1 : queue[k] = E[B + k]
            /\ \A k \in c + 1 .. Len(queue) : queue[k] = E[B + k - 1]
      BY <2>4 DEF Split
    <3>2. Len(queue) = Len(E) - B + 1
      BY <2>4 DEF Split
    <3>3. c \in 1 .. Len(queue') /\ queue'[c] = Close
      BY <2>2, <3>1
    <3>4. \A k \in 1 .. c - 1 : queue'[k] = F[B + k]
      <4>1. SUFFICES ASSUME NEW k \in 1 .. c - 1 PROVE queue'[k] = F[B + k]
        OBVIOUS
      <4>2. k \in 1 .. Len(queue) /\ B + k \in 1 .. Len(E)
        BY <1>1, <2>1, <2>2, <3>2
      <4>3. QED BY <1>1, <2>2, <3>1, <4>2
    <3>5. \A k \in c + 1 .. Len(queue') : queue'[k] = F[B + k - 1]
      <4>1. SUFFICES ASSUME NEW k \in c + 1 .. Len(queue') PROVE queue'[k] = F[B + k - 1]
        OBVIOUS
      <4>2. CASE k \in 1 .. Len(queue)
        <5>1. B \in Nat /\ c \in Nat /\ c >= 1 /\ Len(queue) \in Nat /\ Len(E) \in Nat
          BY <1>1, <2>1, <2>2
        <5>2. B + k - 1 \in 1 .. Len(E) /\ k \in c + 1 .. Len(queue)
          BY <3>2, <4>1, <4>2, <5>1
        <5>3. QED BY <1>1, <2>2, <3>1, <5>2
      <4>3. CASE k = Len(queue) + 1
        <5>1. B + k - 1 = Len(E) + 1
          BY <1>1, <2>1, <2>2, <3>2, <4>3
        <5>2. QED BY <1>1, <2>2, <4>3, <5>1
      <4>4. QED BY <2>2, <4>2, <4>3
    <3>6. Split(F, B)'
      <4>1. Len(queue') = Len(F) - B + 1
        BY <1>1, <2>1, <2>2, <3>2
      <4>2. QED BY <3>3, <3>4, <3>5, <4>1, Zenon DEF Split
    <3>7. QED BY <1>2, <2>0, <2>2, <2>4, <3>6 DEF Awaiting
  <2>5. QED BY <2>1, <2>3, <2>4 DEF Awaiting
<1>7. QED BY <1>1, <1>2, <1>3, <1>4, <1>5, <1>6 DEF Logged, F

(* The last event before the sentinel.                                     *)
LEMMA EmitAndCloseLogs ==
  ASSUME NEW E, NEW R, Logged(E, R), NEW e \in Events, e.seq = nextSeq, EmitAndClose(e),
         ~Sealed, Sealed'
  PROVE  Logged(Append(E, e), R)'
<1> DEFINE F == Append(E, e)
<1>1. /\ F \in Seq(Events) /\ Len(F) = Len(E) + 1 /\ Len(E) \in Nat /\ F[Len(E) + 1] = e
      /\ \A k \in 1 .. Len(E) : F[k] = E[k]
  BY Appended DEF Logged
<1> HIDE DEF F
<1>2. /\ queue' = queue \o <<e, Close>> /\ nextSeq' = nextSeq + 1
      /\ UNCHANGED <<writer, buf, rows>>
  BY DEF EmitAndClose, Put
<1>3. Len(F) = nextSeq' /\ \A k \in 1 .. Len(F) : F[k].seq = k - 1
  <2>1. Len(E) = nextSeq /\ \A k \in 1 .. Len(E) : E[k].seq = k - 1
    BY DEF Logged
  <2>2. \A k \in 1 .. Len(F) : k \in 1 .. Len(E) \/ k = Len(E) + 1
    BY <1>1
  <2>3. F[Len(E) + 1].seq = Len(E)
    BY <1>1, <2>1
  <2>4. nextSeq' = Len(F)
    BY <1>1, <1>2, <2>1
  <2>5. QED BY <1>1, <2>1, <2>2, <2>3, <2>4
<1>4. R \in 0 .. Len(F) /\ Stored(F, R)'
  <2>1. R \in 0 .. Len(E) /\ DOMAIN rows = 0 .. R - 1 /\ \A q \in 0 .. R - 1 : rows[q] = E[q + 1]
    BY DEF Logged, Stored
  <2>2. \A q \in 0 .. R - 1 : q + 1 \in 1 .. Len(E)
    BY <1>1, <2>1
  <2>3. \A q \in 0 .. R - 1 : rows'[q] = F[q + 1]
    BY <1>1, <1>2, <2>1, <2>2
  <2>4. R \in 0 .. Len(F)
    BY <1>1, <2>1
  <2>5. QED BY <1>2, <2>1, <2>3, <2>4 DEF Stored
<1>5. ASSUME writer \in {"get", "flush", "last"} PROVE Taken(F, R)'
  BY <1>1, <1>2, <1>5 DEF Logged, Taken
<1>6. ASSUME writer \in {"get", "flush"} PROVE Awaiting(F, R + Len(buf))'
  <2>0. PICK B : B = R + Len(buf)
    OBVIOUS
  <2>1. Awaiting(E, B) /\ B \in 0 .. Len(E)
    BY <1>6, <2>0 DEF Logged, Taken
  <2>2. queue \in Seq(Events \union {Close}) /\ Len(queue) = Len(E) - B
        /\ \A k \in 1 .. Len(queue) : queue[k] = E[B + k]
    BY <2>1 DEF Awaiting, Plain
  <2>3. /\ queue' \in Seq(Events \union {Close}) /\ Len(queue') = Len(queue) + 2
        /\ queue'[Len(queue) + 1] = e /\ queue'[Len(queue) + 2] = Close
        /\ \A k \in 1 .. Len(queue) : queue'[k] = queue[k]
    <3>1. <<e, Close>> \in Seq(Events \union {Close}) /\ Len(<<e, Close>>) = 2
          /\ <<e, Close>>[1] = e /\ <<e, Close>>[2] = Close
      OBVIOUS
    <3>2. queue' = queue \o <<e, Close>>
      BY <1>2
    <3>3. queue' \in Seq(Events \union {Close}) /\ Len(queue') = Len(queue) + 2
      BY <2>2, <3>1, <3>2
    <3>4. \A k \in 1 .. Len(queue) : queue'[k] = queue[k]
      BY <2>2, <3>1, <3>2
    <3>5. queue'[Len(queue) + 1] = e /\ queue'[Len(queue) + 2] = Close
      BY <2>2, <3>1, <3>2
    <3>6. QED BY <3>3, <3>4, <3>5
  <2> DEFINE c == Len(queue) + 2
  <2>4. c \in 1 .. Len(queue') /\ queue'[c] = Close
    BY <2>2, <2>3
  <2>5. \A k \in 1 .. c - 1 : queue'[k] = F[B + k]
    <3>1. SUFFICES ASSUME NEW k \in 1 .. c - 1 PROVE queue'[k] = F[B + k]
      OBVIOUS
    <3>2. CASE k \in 1 .. Len(queue)
      <4>1. B + k \in 1 .. Len(E)
        BY <1>1, <2>1, <2>2, <3>2
      <4>2. QED BY <1>1, <2>2, <2>3, <3>2, <4>1
    <3>3. CASE k = Len(queue) + 1
      <4>1. B + k = Len(E) + 1
        BY <1>1, <2>1, <2>2, <3>3
      <4>2. QED BY <1>1, <2>3, <3>3, <4>1
    <3>4. QED BY <2>2, <3>2, <3>3
  <2>6. \A k \in c + 1 .. Len(queue') : queue'[k] = F[B + k - 1]
    BY <2>2, <2>3
  <2>7. Len(queue') = Len(F) - B + 1
    BY <1>1, <2>1, <2>2, <2>3
  <2> HIDE DEF c
  <2>8. Split(F, B)'
    BY <2>4, <2>5, <2>6, <2>7 DEF Split
  <2>9. QED BY <1>2, <2>0, <2>3, <2>8 DEF Awaiting
<1>7. QED BY <1>1, <1>2, <1>3, <1>4, <1>5, <1>6 DEF Logged, F
-----------------------------------------------------------------------------
(* What the writer is given next: an event of E, or the sentinel after all *)
(* of those before it.                                                     *)
LEMMA FirstOf ==
  ASSUME NEW E \in Seq(Events), NEW B \in 0 .. Len(E), Awaiting(E, B), queue # <<>>
  PROVE  /\ Head(queue) = Close =>
              /\ Len(Tail(queue)) = Len(E) - B
              /\ \A k \in 1 .. Len(E) - B : Tail(queue)[k] = E[B + k]
         /\ Head(queue) # Close =>
              /\ B + 1 \in 1 .. Len(E) /\ Head(queue) = E[B + 1]
              /\ Tail(queue) \in Seq(Events \union {Close})
              /\ Plain(E, B) =>
                   /\ Len(Tail(queue)) = Len(E) - (B + 1)
                   /\ \A k \in 1 .. Len(Tail(queue)) : Tail(queue)[k] = E[B + 1 + k]
              /\ Split(E, B) =>
                   /\ Len(Tail(queue)) = Len(E) - (B + 1) + 1
                   /\ \E c \in 1 .. Len(Tail(queue)) :
                        /\ Tail(queue)[c] = Close
                        /\ \A k \in 1 .. c - 1 : Tail(queue)[k] = E[B + 1 + k]
                        /\ \A k \in c + 1 .. Len(Tail(queue)) : Tail(queue)[k] = E[B + 1 + k - 1]
<1> DEFINE rest == Tail(queue)
<1>1. /\ queue \in Seq(Events \union {Close}) /\ Len(E) \in Nat /\ B \in Nat
      /\ \A k \in 1 .. Len(E) : E[k] \in Events /\ E[k] # Close
  BY CloseAssumption DEF Awaiting
<1>2. /\ Len(queue) \in Nat \ {0} /\ Head(queue) = queue[1] /\ rest \in Seq(Events \union {Close})
      /\ Len(rest) = Len(queue) - 1 /\ \A k \in 1 .. Len(rest) : rest[k] = queue[k + 1]
  BY <1>1
<1> HIDE DEF rest
<1>3. CASE Plain(E, B)
  <2>1. Len(queue) = Len(E) - B /\ \A k \in 1 .. Len(queue) : queue[k] = E[B + k]
    BY <1>3 DEF Plain
  <2>2. B + 1 \in 1 .. Len(E) /\ queue[1] = E[B + 1] /\ queue[1] # Close
    BY <1>1, <1>2, <2>1
  <2>3. \A k \in 1 .. Len(rest) : rest[k] = E[B + 1 + k]
    <3>1. SUFFICES ASSUME NEW k \in 1 .. Len(rest) PROVE rest[k] = E[B + 1 + k]
      OBVIOUS
    <3>2. k + 1 \in 1 .. Len(queue) /\ B + (k + 1) = B + 1 + k
      BY <1>1, <1>2
    <3>3. QED BY <1>2, <2>1, <3>2
  <2>4. ~Split(E, B)
    BY <1>1, <1>2, <2>1 DEF Split
  <2>5. Len(rest) = Len(E) - (B + 1)
    BY <1>1, <1>2, <2>1
  <2>6. QED BY <1>2, <2>2, <2>3, <2>4, <2>5 DEF rest
<1>4. CASE Split(E, B)
  <2>1. PICK c \in 1 .. Len(queue) :
          /\ queue[c] = Close
          /\ \A k \in 1 .. c - 1 : queue[k] = E[B + k]
          /\ \A k \in c + 1 .. Len(queue) : queue[k] = E[B + k - 1]
    BY <1>4 DEF Split
  <2>2. Len(queue) = Len(E) - B + 1
    BY <1>4 DEF Split
  <2>3. ~Plain(E, B)
    BY <1>1, <1>2, <2>2 DEF Plain
  <2>4. CASE c = 1
    <3>1. Head(queue) = Close /\ Len(rest) = Len(E) - B
      BY <1>1, <1>2, <2>1, <2>2, <2>4
    <3>2. \A k \in 1 .. Len(E) - B : rest[k] = E[B + k]
      <4>1. SUFFICES ASSUME NEW k \in 1 .. Len(E) - B PROVE rest[k] = E[B + k]
        OBVIOUS
      <4>2. k \in 1 .. Len(rest) /\ k + 1 \in c + 1 .. Len(queue) /\ B + (k + 1) - 1 = B + k
        BY <1>1, <1>2, <2>2, <2>4, <3>1
      <4>3. QED BY <1>2, <2>1, <4>2
    <3>3. QED BY <3>1, <3>2 DEF rest
  <2>5. CASE c # 1
    <3>1. c \in 2 .. Len(queue) /\ B + 1 \in 1 .. Len(E)
      BY <1>1, <1>2, <2>2, <2>5
    <3>2. queue[1] = E[B + 1]
      BY <2>1, <3>1
    <3>3. Head(queue) # Close /\ Head(queue) = E[B + 1]
      BY <1>1, <1>2, <3>1, <3>2
    <3> DEFINE d == c - 1
    <3>4. d \in 1 .. Len(rest) /\ rest[d] = Close
      <4>1. d \in 1 .. Len(rest) /\ d + 1 = c
        BY <1>2, <3>1
      <4>2. QED BY <1>2, <2>1, <4>1
    <3>5. \A k \in 1 .. d - 1 : rest[k] = E[B + 1 + k]
      <4>1. SUFFICES ASSUME NEW k \in 1 .. d - 1 PROVE rest[k] = E[B + 1 + k]
        OBVIOUS
      <4>2. k \in 1 .. Len(rest) /\ k + 1 \in 1 .. c - 1 /\ B + (k + 1) = B + 1 + k
        BY <1>1, <1>2, <3>1
      <4>3. QED BY <1>2, <2>1, <4>2
    <3>6. \A k \in d + 1 .. Len(rest) : rest[k] = E[B + 1 + k - 1]
      <4>1. SUFFICES ASSUME NEW k \in d + 1 .. Len(rest) PROVE rest[k] = E[B + 1 + k - 1]
        OBVIOUS
      <4>2. /\ k \in 1 .. Len(rest) /\ k + 1 \in c + 1 .. Len(queue)
            /\ B + (k + 1) - 1 = B + 1 + k - 1
        BY <1>1, <1>2, <3>1
      <4>3. QED BY <1>2, <2>1, <4>2
    <3>7. Len(rest) = Len(E) - (B + 1) + 1
      BY <1>1, <1>2, <2>2
    <3> HIDE DEF d
    <3>8. QED BY <1>2, <2>3, <3>1, <3>3, <3>4, <3>5, <3>6, <3>7, Zenon DEF rest
  <2>6. QED BY <2>4, <2>5
<1>5. QED BY <1>3, <1>4 DEF Awaiting

LEMMA GetLogs ==
  ASSUME NEW E, NEW R, Logged(E, R), Get, run' = run
  PROVE  Logged(E, R)'
<1>0. PICK B : B = R + Len(buf)
  OBVIOUS
<1>1. /\ E \in Seq(Events) /\ Len(E) \in Nat /\ R \in 0 .. Len(E) /\ Stored(E, R)
      /\ buf \in Seq(Events) /\ B \in 0 .. Len(E) /\ \A k \in 1 .. Len(buf) : buf[k] = E[R + k]
      /\ Awaiting(E, B) /\ queue # <<>> /\ UNCHANGED <<nextSeq, rows>>
  BY <1>0 DEF Logged, Taken, Get
<1>2. Len(E) = nextSeq' /\ (\A k \in 1 .. Len(E) : E[k].seq = k - 1) /\ Stored(E, R)'
  BY <1>1 DEF Logged, Stored
<1> DEFINE rest == Tail(queue)
<1>3. CASE Head(queue) = Close
  <2>1. Len(rest) = Len(E) - B /\ \A k \in 1 .. Len(E) - B : rest[k] = E[B + k]
    BY <1>1, <1>3, FirstOf
  <2>2. buf' = buf \o rest /\ writer' \in {"done", "last"}
    BY <1>3 DEF Get
  <2>3. rest \in Seq(Events)
    <3>1. rest \in Seq(Events \union {Close})
      BY <1>1 DEF Awaiting
    <3> HIDE DEF rest
    <3>2. \A k \in 1 .. Len(rest) : rest[k] \in Events
      <4>1. SUFFICES ASSUME NEW k \in 1 .. Len(rest) PROVE rest[k] \in Events
        OBVIOUS
      <4>2. k \in 1 .. Len(E) - B /\ B + k \in 1 .. Len(E)
        BY <1>1, <2>1
      <4>3. E[B + k] \in Events
        BY <1>1, <4>2, ElementOfSeq
      <4>4. QED BY <2>1, <4>2, <4>3
    <3>3. QED BY <3>1, <3>2
  <2> HIDE DEF rest
  <2>4. Taken(E, R)'
    <3>1. /\ buf' \in Seq(Events) /\ Len(buf') = Len(buf) + Len(rest)
          /\ \A k \in 1 .. Len(buf) : buf'[k] = buf[k]
          /\ \A k \in Len(buf) + 1 .. Len(buf') : buf'[k] = rest[k - Len(buf)]
      BY <1>1, <2>2, <2>3
    <3>2. R + Len(buf') = Len(E) /\ Len(buf) \in Nat /\ Len(buf') \in Nat
      <4>1. Len(buf) \in Nat /\ Len(buf') = Len(buf) + (Len(E) - B) /\ B = R + Len(buf)
        BY <1>0, <1>1, <2>1, <3>1
      <4>2. R \in Nat /\ B \in Nat /\ Len(E) - B \in Nat
        BY <1>1
      <4>3. PICK a, c, l : a = Len(buf) /\ c = Len(buf') /\ l = Len(E)
        OBVIOUS
      <4>4. l \in Nat
        BY <1>1, <4>3
      <4>5. R + c = l /\ a \in Nat /\ c \in Nat
        BY ONLY <4>1, <4>2, <4>3, <4>4
      <4>6. QED BY <4>3, <4>5
    <3>3. \A k \in 1 .. Len(buf') : buf'[k] = E[R + k]
      <4>1. SUFFICES ASSUME NEW k \in 1 .. Len(buf') PROVE buf'[k] = E[R + k]
        OBVIOUS
      <4>2. CASE k \in 1 .. Len(buf)
        BY <1>1, <3>1, <4>2
      <4>3. CASE k \in Len(buf) + 1 .. Len(buf')
        <5>1. /\ Len(buf') = Len(buf) + (Len(E) - B) /\ B = R + Len(buf)
              /\ R \in Nat /\ Len(E) - B \in Nat /\ buf'[k] = rest[k - Len(buf)]
          <6>1. Len(buf') = Len(buf) + (Len(E) - B)
            BY <2>1, <3>1
          <6>2. R \in Nat /\ Len(E) - B \in Nat
            BY <1>1
          <6>3. buf'[k] = rest[k - Len(buf)]
            BY <3>1, <4>3
          <6>4. QED BY <1>0, <6>1, <6>2, <6>3
        <5>2. k - Len(buf) \in 1 .. Len(E) - B /\ B + (k - Len(buf)) = R + k
          BY <3>2, <4>3, <5>1
        <5>3. QED BY <2>1, <5>1, <5>2
      <4>4. QED BY <3>2, <4>2, <4>3
    <3>4. QED BY <1>1, <3>1, <3>2, <3>3 DEF Taken
  <2>5. QED BY <1>1, <1>2, <2>2, <2>4 DEF Logged
<1>4. CASE Head(queue) # Close
  <2>1. B + 1 \in 1 .. Len(E) /\ Head(queue) = E[B + 1]
    BY <1>1, <1>4, FirstOf
  <2>2. buf' = Append(buf, E[B + 1]) /\ queue' = rest /\ writer' \in {"flush", "get"}
    BY <1>4, <2>1 DEF Get
  <2>3. /\ buf' \in Seq(Events) /\ Len(buf') = Len(buf) + 1 /\ Len(buf) \in Nat
        /\ \A k \in 1 .. Len(buf') : buf'[k] = E[R + k]
    <3>1. E[B + 1] \in Events /\ Len(buf) \in Nat
      BY <1>1, <2>1
    <3>2. buf' \in Seq(Events) /\ Len(buf') = Len(buf) + 1 /\ buf'[Len(buf) + 1] = E[B + 1]
          /\ \A k \in 1 .. Len(buf) : buf'[k] = buf[k]
      BY <1>1, <2>2, <3>1
    <3>3. R + (Len(buf) + 1) = B + 1
      BY <1>0, <1>1, <3>1
    <3>4. \A k \in 1 .. Len(buf') : k \in 1 .. Len(buf) \/ k = Len(buf) + 1
      BY <3>1, <3>2
    <3>5. QED BY <1>1, <3>1, <3>2, <3>3, <3>4
  <2>4. R + Len(buf') = B + 1
    BY <1>0, <1>1, <2>3
  <2>5. Taken(E, R)'
    BY <2>1, <2>3, <2>4 DEF Taken
  <2>6. Awaiting(E, B + 1)'
    <3>1. rest \in Seq(Events \union {Close})
      BY <1>1, <1>4, FirstOf
    <3>2. CASE Plain(E, B)
      <4>1. Len(rest) = Len(E) - (B + 1) /\ \A k \in 1 .. Len(rest) : rest[k] = E[B + 1 + k]
        BY <1>1, <1>4, <3>2, FirstOf
      <4> HIDE DEF rest
      <4>2. QED BY <2>2, <3>1, <4>1 DEF Awaiting, Plain
    <3>3. CASE Sealed /\ Split(E, B)
      <4>1. /\ Len(rest) = Len(E) - (B + 1) + 1
            /\ \E c \in 1 .. Len(rest) :
                 /\ rest[c] = Close
                 /\ \A k \in 1 .. c - 1 : rest[k] = E[B + 1 + k]
                 /\ \A k \in c + 1 .. Len(rest) : rest[k] = E[B + 1 + k - 1]
        BY <1>1, <1>4, <3>3, FirstOf
      <4> HIDE DEF rest
      <4>2. Split(E, B + 1)' /\ Sealed'
        BY <2>2, <3>3, <4>1, Zenon DEF Split, Sealed
      <4>3. QED BY <2>2, <3>1, <4>2 DEF Awaiting
    <3>4. QED BY <1>1, <3>2, <3>3 DEF Awaiting
  <2>7. QED BY <1>1, <1>2, <2>2, <2>4, <2>5, <2>6 DEF Logged
<1>5. QED BY <1>3, <1>4

LEMMA FlushTimeoutLogs ==
  ASSUME NEW E, NEW R, Logged(E, R), FlushTimeout, run' = run
  PROVE  Logged(E, R)'
<1>1. /\ writer = "get" /\ writer' = "flush" /\ UNCHANGED <<queue, nextSeq, buf, rows>>
      /\ Sealed' = Sealed
  BY DEF FlushTimeout, Sealed
<1>2. QED BY <1>1 DEF Logged, Stored, Taken, Awaiting, Plain, Split

(* The batch is what follows the rows; the append adds all of it, or none  *)
(* and ends the writer.                                                    *)
LEMMA WrittenLogs ==
  ASSUME NEW E, NEW R, Logged(E, R), Written, run' = run
  PROVE  \E S \in Nat : Logged(E, S)' /\ (writer' # "dead" => S = R + Len(buf))
<1>0. PICK B : B = R + Len(buf)
  OBVIOUS
<1>1. /\ E \in Seq(Events) /\ Len(E) \in Nat /\ R \in 0 .. Len(E) /\ Stored(E, R)
      /\ buf \in Seq(Events) /\ B \in 0 .. Len(E) /\ \A k \in 1 .. Len(buf) : buf[k] = E[R + k]
      /\ UNCHANGED <<nextSeq, queue>> /\ buf' = <<>> /\ writer \in {"flush", "last"}
  BY <1>0 DEF Logged, Taken, Written
<1>2. Len(E) = nextSeq' /\ \A k \in 1 .. Len(E) : E[k].seq = k - 1
  BY <1>1 DEF Logged
<1>3. CASE writer' = "dead" /\ UNCHANGED rows
  <2>1. Logged(E, R)'
    BY <1>1, <1>2, <1>3 DEF Logged, Stored
  <2>2. QED BY <1>1, <1>3, <2>1
<1>4. CASE /\ rows' = [q \in DOMAIN rows \union {buf[k].seq : k \in DOMAIN buf} |->
                         IF q \in DOMAIN rows THEN rows[q]
                         ELSE buf[CHOOSE k \in DOMAIN buf : buf[k].seq = q]]
           /\ writer' = IF writer = "last" THEN "done" ELSE "get"
  <2>1. DOMAIN buf = 1 .. Len(buf) /\ Len(buf) \in Nat /\ DOMAIN rows = 0 .. R - 1
        /\ \A q \in 0 .. R - 1 : rows[q] = E[q + 1]
    BY <1>1 DEF Stored
  <2>2. \A k \in 1 .. Len(buf) : buf[k].seq = R + k - 1 /\ R + k \in 1 .. Len(E)
    <3>1. \A k \in 1 .. Len(buf) : R + k \in 1 .. Len(E)
      BY <1>0, <1>1, <2>1
    <3>2. QED BY <1>1, <1>2, <3>1
  <2>3. {buf[k].seq : k \in DOMAIN buf} = R .. B - 1
    <3>1. \A k \in 1 .. Len(buf) : R + k - 1 \in R .. B - 1
      BY <1>0, <1>1, <2>1
    <3>2. \A q \in R .. B - 1 : q - R + 1 \in 1 .. Len(buf) /\ R + (q - R + 1) - 1 = q
      BY <1>0, <1>1, <2>1
    <3>3. ASSUME NEW q \in R .. B - 1 PROVE \E k \in DOMAIN buf : buf[k].seq = q
      <4>1. q - R + 1 \in 1 .. Len(buf) /\ R + (q - R + 1) - 1 = q
        BY <3>2
      <4>2. buf[q - R + 1].seq = q
        BY <2>2, <4>1
      <4>3. QED BY <2>1, <4>1, <4>2
    <3>4. \A k \in DOMAIN buf : buf[k].seq \in R .. B - 1
      BY <2>1, <2>2, <3>1
    <3>5. QED BY <3>3, <3>4
  <2>4. DOMAIN rows' = 0 .. B - 1
    <3>1. DOMAIN rows' = (0 .. R - 1) \union (R .. B - 1)
      BY <1>4, <2>1, <2>3
    <3>2. R \in Nat /\ B \in Nat /\ R <= B
      BY <1>0, <1>1, <2>1
    <3>3. QED BY <3>1, <3>2
  <2>5. \A q \in 0 .. B - 1 : rows'[q] = E[q + 1]
    <3>1. SUFFICES ASSUME NEW q \in 0 .. B - 1 PROVE rows'[q] = E[q + 1]
      OBVIOUS
    <3>2. CASE q \in 0 .. R - 1
      BY <1>4, <2>1, <3>2
    <3>3. CASE q \in R .. B - 1
      <4> DEFINE k == CHOOSE n \in DOMAIN buf : buf[n].seq = q
      <4>1. k \in DOMAIN buf /\ buf[k].seq = q
        BY <2>3, <3>3
      <4>2. rows'[q] = buf[k]
        <5>1. q \in {buf[n].seq : n \in DOMAIN buf} /\ q \notin DOMAIN rows
          <6>1. q >= R /\ R \in Nat /\ q \in Int
            BY <1>1, <3>3
          <6>2. q \notin 0 .. R - 1
            BY <6>1
          <6>3. QED BY <2>1, <2>3, <3>3, <6>2
        <5>2. QED BY <1>4, <5>1
      <4> HIDE DEF k
      <4>3. R + k = q + 1
        <5>1. k \in 1 .. Len(buf) /\ R + k - 1 = q /\ R \in Nat /\ k \in Nat
          BY <1>1, <2>1, <2>2, <4>1
        <5>2. QED BY <5>1
      <4>4. QED BY <1>1, <2>1, <4>1, <4>2, <4>3
    <3>4. QED BY <1>1, <3>2, <3>3
  <2>6. Stored(E, B)'
    BY <2>4, <2>5 DEF Stored
  <2>7. writer = "flush" => Awaiting(E, B)
    BY <1>0 DEF Logged
  <2>8. writer = "flush" => Awaiting(E, B)'
    BY <1>1, <2>7 DEF Awaiting, Plain, Split, Sealed
  <2>9. Len(buf') = 0 /\ Taken(E, B)'
    BY <1>1 DEF Taken
  <2>10. B + Len(buf') = B
    BY <1>1, <2>9
  <2>11. Logged(E, B)'
    BY <1>1, <1>2, <1>4, <2>6, <2>8, <2>9, <2>10 DEF Logged
  <2>12. QED BY <1>0, <1>1, <2>11
<1>5. QED BY <1>3, <1>4 DEF Written, AfterFailure

(* The writer ends with all of a record that is not added to.              *)
LEMMA GetEnds ==
  ASSUME NEW E, NEW R, Logged(E, R), Ended(E, R), Get, UNCHANGED <<run, raised>>
  PROVE  Ended(E, R)'
<1>0. PICK B : B = R + Len(buf)
  OBVIOUS
<1>1. /\ E \in Seq(Events) /\ Len(E) \in Nat /\ R \in 0 .. Len(E)
      /\ buf \in Seq(Events) /\ B \in 0 .. Len(E)
      /\ Awaiting(E, B) /\ queue # <<>>
  BY <1>0 DEF Logged, Taken, Get
<1> DEFINE rest == Tail(queue)
<1>2. CASE Head(queue) = Close
  <2>1. Len(rest) = Len(E) - B
    BY <1>1, <1>2, FirstOf
  <2>2. buf' = buf \o rest /\ writer' = IF buf' = <<>> THEN "done" ELSE "last"
    BY <1>2 DEF Get
  <2>3. queue \in Seq(Events \union {Close}) /\ rest \in Seq(Events \union {Close})
    BY <1>1 DEF Awaiting
  <2>4. Sealed
    <3>1. ~Plain(E, B)
      <4>1. SUFFICES ASSUME Plain(E, B) PROVE FALSE
        OBVIOUS
      <4>2. Len(queue) = Len(E) - B /\ \A k \in 1 .. Len(queue) : queue[k] = E[B + k]
        BY <4>1 DEF Plain
      <4>3. Len(queue) \in Nat \ {0} /\ Head(queue) = queue[1]
        BY <1>1, <2>3
      <4>4. queue[1] = E[B + 1] /\ B + 1 \in 1 .. Len(E)
        BY <1>1, <4>2, <4>3
      <4>5. E[B + 1] \in Events
        BY <1>1, <4>4
      <4>6. QED BY <1>2, <4>3, <4>4, <4>5, CloseAssumption
    <3>2. QED BY <1>1, <3>1 DEF Awaiting
  <2> HIDE DEF rest
  <2>5. Len(buf') = Len(buf) + Len(rest) /\ Len(buf) \in Nat
    <3>1. \A g \in Seq(Events \union {Close}) : Len(buf \o g) = Len(buf) + Len(g)
      BY <1>1
    <3>2. QED BY <1>1, <2>2, <2>3, <3>1
  <2>6. R + Len(buf') = Len(E)
    BY <1>0, <1>1, <2>1, <2>5
  <2>7. buf' = <<>> => R = Len(E)
    <3>1. Len(<<>>) = 0
      OBVIOUS
    <3>2. QED BY <1>1, <2>6, <3>1
  <2>8. QED BY <2>2, <2>4, <2>6, <2>7 DEF Ended, Sealed
<1>3. CASE Head(queue) # Close
  BY <1>3 DEF Get, Ended
<1>4. QED BY <1>2, <1>3

LEMMA WriterEnds ==
  ASSUME NEW E, NEW R, Logged(E, R), Ended(E, R), Writer, UNCHANGED <<run, raised>>
  PROVE  \E S \in Nat : Logged(E, S)' /\ Ended(E, S)'
<1>1. R \in Nat
  BY DEF Logged
<1>2. CASE Get
  BY <1>1, <1>2, GetLogs, GetEnds
<1>3. CASE FlushTimeout
  <2>1. Ended(E, R)'
    BY <1>3 DEF FlushTimeout, Ended
  <2>2. QED BY <1>1, <1>3, <2>1, FlushTimeoutLogs
<1>4. CASE Written
  <2>1. PICK S \in Nat : Logged(E, S)' /\ (writer' # "dead" => S = R + Len(buf))
    BY <1>4, WrittenLogs
  <2>2. writer' \in {"last", "done"} => writer = "last" /\ Len(buf') = 0
    BY <1>4 DEF Written, AfterFailure
  <2>3. Ended(E, S)'
    BY <2>1, <2>2 DEF Ended, Sealed
  <2>4. QED BY <2>1, <2>3
<1>5. QED BY <1>2, <1>3, <1>4 DEF Writer
-----------------------------------------------------------------------------
(* A request, or an answer, that the record did not have.                  *)
LEMMA AppendTells ==
  ASSUME NEW E \in Seq(Events), Tells(E), NEW e \in Events, e.type \notin Ends,
         UNCHANGED <<run, raised>>, run # "start", ~Sealed \/ raised,
         Answers' = Answers \union {What(e)}, What(e) \notin Answers,
         e.type = "shadow_response" =>
           \A a \in Answers : a[1] = "shadow_response" => a[2] # e.index
  PROVE  Tells(Append(E, e))'
<1> DEFINE F == Append(E, e)
           Old == {n \in 1 .. Len(E) : E[n].type \notin Ends}
           New == {n \in 1 .. Len(F) : F[n].type \notin Ends}
<1>1. F \in Seq(Events) /\ Len(F) = Len(E) + 1 /\ Len(E) \in Nat /\ F[Len(E) + 1] = e
      /\ \A k \in 1 .. Len(E) : F[k] = E[k]
  BY Appended
<1> HIDE DEF F
<1>2. {What(E[k]) : k \in Old} = Answers /\ IsFiniteSet(Answers)
  BY DEF Tells
<1>3. New = Old \union {Len(E) + 1} /\ \A k \in Old : F[k] = E[k]
  BY <1>1
<1>4. {What(F[k]) : k \in New} = Answers \union {What(e)}
  <2> HIDE DEF Old, New
  <2>1. {What(F[k]) : k \in New} = {What(F[k]) : k \in Old} \union {What(F[Len(E) + 1])}
    BY <1>3
  <2>2. {What(F[k]) : k \in Old} = {What(E[k]) : k \in Old}
    BY <1>3 DEF What
  <2>3. QED BY <1>1, <1>2, <2>1, <2>2
<1>5. IsFiniteSet(Answers') /\ Cardinality(Answers') = Cardinality(Answers) + 1
      /\ Cardinality(Answers) \in Nat
  BY <1>2, FS_AddElement, FS_CardinalityType
<1>6. Len(F) = Cardinality(Answers') + (IF run' = "start" THEN 0 ELSE 1) + (IF Sealed' THEN 1 ELSE 0)
  BY <1>1, <1>5 DEF Tells, Sealed
<1>7. ASSUME NEW k \in 1 .. Len(E), E[k].type = "shadow_response", e.type = "shadow_response"
      PROVE  E[k].index # e.index
  <2>1. What(E[k]) \in Answers
    BY <1>2, <1>7 DEF Ends
  <2>2. QED BY <1>7, <2>1 DEF What
<1>8. \A j, k \in 1 .. Len(F) :
        F[j].type = "shadow_response" /\ F[k].type = "shadow_response" /\ F[j].index = F[k].index
          => j = k
  <2>1. \A j \in 1 .. Len(F) : j \in 1 .. Len(E) \/ j = Len(E) + 1
    BY <1>1
  <2>2. QED BY <1>1, <1>7, <2>1 DEF Tells
<1>9. ~(Sealed' /\ ~raised')
  BY DEF Sealed
<1>10. QED BY <1>4, <1>5, <1>6, <1>8, <1>9 DEF Tells, F

(* The first event, or the one that closes the record.                     *)
LEMMA AppendEnd ==
  ASSUME NEW E \in Seq(Events), Tells(E), NEW e \in Events, Answers' = Answers,
         \/ e.type = "run_started" /\ run = "start" /\ run' = "routing"
         \/ e.type = "run_finished" /\ run = "finally" /\ run' = "closing"
  PROVE  Tells(Append(E, e))'
<1> DEFINE F == Append(E, e)
           Old == {n \in 1 .. Len(E) : E[n].type \notin Ends}
           New == {n \in 1 .. Len(F) : F[n].type \notin Ends}
<1>1. F \in Seq(Events) /\ Len(F) = Len(E) + 1 /\ Len(E) \in Nat /\ F[Len(E) + 1] = e
      /\ \A k \in 1 .. Len(E) : F[k] = E[k]
  BY Appended
<1> HIDE DEF F
<1>2. {What(E[k]) : k \in Old} = Answers /\ IsFiniteSet(Answers) /\ Cardinality(Answers) \in Nat
  BY FS_CardinalityType DEF Tells
<1>3. New = Old /\ \A k \in Old : F[k] = E[k]
  BY <1>1 DEF Ends
<1>4. {What(F[k]) : k \in New} = Answers
  <2> HIDE DEF Old, New
  <2>1. {What(F[k]) : k \in New} = {What(E[k]) : k \in Old}
    BY <1>3 DEF What
  <2>2. QED BY <1>2, <2>1
<1>5. Len(F) = Cardinality(Answers') + (IF run' = "start" THEN 0 ELSE 1) + (IF Sealed' THEN 1 ELSE 0)
  BY <1>1, <1>2 DEF Tells, Sealed
<1>6. \A j, k \in 1 .. Len(F) :
        F[j].type = "shadow_response" /\ F[k].type = "shadow_response" /\ F[j].index = F[k].index
          => j = k
  <2>1. \A j \in 1 .. Len(F) : j \in 1 .. Len(E) \/ j = Len(E) + 1
    BY <1>1
  <2>2. QED BY <1>1, <2>1 DEF Tells
<1>7. Sealed' => F[Len(F)].type = "run_finished"
  BY <1>1 DEF Sealed
<1>8. QED BY <1>2, <1>4, <1>5, <1>6, <1>7 DEF Tells, F

LEMMA QuietTells ==
  ASSUME NEW E, Tells(E), Answers' = Answers, Sealed' = Sealed, run = "start" <=> run' = "start",
         Sealed /\ ~raised' => ~raised
  PROVE  Tells(E)'
  BY DEF Tells

(* What an answer adds.                                                    *)
LEMMA SameAnswers ==
  ASSUME arrived' = arrived, Served' = Served, Shadowed' = Shadowed
  PROVE  Answers' = Answers
  BY DEF Answers
-----------------------------------------------------------------------------
(* The log under the steps of the run.                                     *)
LEMMA EmitRecords ==
  ASSUME Recorded, NEW type \in Types \ {"run_finished"}, NEW index \in Nat, NEW body \in Bodies,
         Emit(Event(type, index, body)), raised' = raised, ~Sealed \/ (Sealed' /\ raised),
         \A E \in Seq(Events), e \in Events :
           Tells(E) /\ What(e) = <<type, index, body>> => Tells(Append(E, e))'
  PROVE  Recorded'
<1>1. PICK E \in Seq(Events), R \in Nat : Record(E, R)
  BY DEF Recorded
<1>2. PICK e : e = Event(type, index, body)
  OBVIOUS
<1>3. Logged(E, R) /\ Counted(E) /\ Ended(E, R) /\ Tells(E) /\ nextSeq \in Nat
  BY <1>1 DEF Record, Logged
<1>4. e \in Events /\ e.seq = nextSeq /\ e.type # "run_finished" /\ What(e) = <<type, index, body>>
  BY <1>2, <1>3 DEF Event, Events, What
<1>5. Emit(e) /\ Put(e, <<e>>)
  BY <1>2 DEF Emit
<1>6. Logged(Append(E, e), R)'
  BY <1>3, <1>4, <1>5, EmitLogs
<1>7. Counted(Append(E, e))'
  BY <1>3, <1>4, <1>5, PutCounts
<1>8. Ended(Append(E, e), R)'
  BY <1>3, <1>5 DEF Ended, Put
<1>9. Tells(Append(E, e))' /\ Append(E, e) \in Seq(Events)
  BY <1>1, <1>3, <1>4
<1>10. Record(Append(E, e), R)'
  BY <1>6, <1>7, <1>8, <1>9 DEF Record
<1>11. QED BY <1>9, <1>10 DEF Recorded

LEMMA FinallyRecords ==
  ASSUME Recorded, Finally
  PROVE  Recorded'
<1>1. PICK E \in Seq(Events), R \in Nat : Record(E, R)
  BY DEF Recorded
<1>2. PICK e : e = Event("run_finished", N, counts)
  OBVIOUS
<1>3. Logged(E, R) /\ Counted(E) /\ Ended(E, R) /\ Tells(E) /\ nextSeq \in Nat
  BY <1>1 DEF Record, Logged
<1>4. counts \in [Types -> Nat]
  <2>1. \A t \in Types : Seen(E, Len(E), t) \in Nat
    <3>1. SUFFICES ASSUME NEW t \in Types PROVE Seen(E, Len(E), t) \in Nat
      OBVIOUS
    <3>2. /\ IsFiniteSet(0 .. Len(E) - 1)
          /\ {q \in 0 .. Len(E) - 1 : E[q + 1].type = t} \subseteq 0 .. Len(E) - 1
      BY <1>1, FS_Interval
    <3>3. QED BY <3>2, FS_Subset, FS_CardinalityType DEF Seen
  <2>2. QED BY <1>3, <2>1 DEF Counted
<1>5. counts \in Bodies /\ N \in Nat /\ "run_finished" \in Types
  BY <1>4, ScenarioAssumption, TypesAssumption DEF Bodies
<1>6. e \in Events /\ e.seq = nextSeq /\ e.body = counts /\ e.type = "run_finished"
  BY <1>2, <1>3, <1>5 DEF Event, Events
<1>7. EmitAndClose(e) /\ Put(e, <<e, Close>>) /\ ~Sealed /\ Sealed'
  BY <1>2 DEF EmitAndClose, Finally, Sealed
<1>8. Logged(Append(E, e), R)'
  BY <1>3, <1>6, <1>7, EmitAndCloseLogs
<1>9. Counted(Append(E, e))'
  BY <1>3, <1>6, <1>7, PutCounts
<1>10. Ended(Append(E, e), R)'
  BY <1>3, <1>7 DEF Ended, Put
<1>11. Tells(Append(E, e))'
  <2>1. Answers' = Answers
    BY SameAnswers DEF Finally, Served, Shadowed
  <2>2. QED BY <1>3, <1>6, <2>1, AppendEnd DEF Finally
<1>12. Append(E, e) \in Seq(Events) /\ Record(Append(E, e), R)'
  BY <1>6, <1>8, <1>9, <1>10, <1>11 DEF Record
<1>13. QED BY <1>12 DEF Recorded

LEMMA QuietRecords ==
  ASSUME Recorded, UNCHANGED logVars, Sealed' = Sealed, Sealed /\ ~raised' => ~raised,
         run = "start" <=> run' = "start", Answers' = Answers
  PROVE  Recorded'
<1>1. PICK E \in Seq(Events), R \in Nat : Record(E, R)
  BY DEF Recorded
<1>2. Logged(E, R)'
  BY <1>1 DEF Record, Logged, Stored, Taken, Awaiting, Plain, Split, logVars
<1>3. Counted(E)'
  BY <1>1 DEF Record, Counted, logVars
<1>4. Ended(E, R)'
  BY <1>1 DEF Record, Ended, logVars
<1>5. Tells(E)'
  BY <1>1, QuietTells DEF Record
<1>6. Record(E, R)'
  BY <1>2, <1>3, <1>4, <1>5 DEF Record
<1>7. QED BY <1>6 DEF Recorded

LEMMA WriterRecords ==
  ASSUME Recorded, Writer, UNCHANGED simVars
  PROVE  Recorded'
<1>1. PICK E \in Seq(Events), R \in Nat : Record(E, R)
  BY DEF Recorded
<1>2. counts' = counts /\ UNCHANGED <<failing, run, arrived, routes, shadows, raised>>
  BY DEF Writer, Get, FlushTimeout, Written, simVars
<1>3. Counted(E)'
  BY <1>1, <1>2 DEF Record, Counted
<1>4. PICK S \in Nat : Logged(E, S)' /\ Ended(E, S)'
  BY <1>1, <1>2, WriterEnds DEF Record
<1>5. Tells(E)'
  <2>1. Answers' = Answers
    BY <1>2, SameAnswers DEF Served, Shadowed
  <2>2. QED BY <1>1, <1>2, <2>1, QuietTells DEF Record, Sealed
<1>6. Record(E, S)'
  BY <1>3, <1>4, <1>5 DEF Record
<1>7. QED BY <1>6 DEF Recorded
-----------------------------------------------------------------------------
LEMMA SerialStays == Serial /\ [Next]_vars => Serial'
<1>1. SUFFICES ASSUME Serial, [Next]_vars PROVE Serial'
  OBVIOUS
<1>2. CASE Start \/ Gather \/ Drain \/ Finally \/ Closed
  <2>1. /\ UNCHANGED <<paced, arrived, routes>>
        /\ ~paced => (run' \in {"start", "routing"} => run = "start" /\ raised' = raised) /\ routes = {}
    <3>1. CASE Start
      BY <1>1, <3>1 DEF Serial, Start
    <3>2. CASE Gather
      BY <1>1, <3>2 DEF Serial, Gather
    <3>3. CASE Drain \/ Finally
      BY <1>1, <3>3 DEF Serial, Drain, Finally
    <3>4. CASE Closed
      BY <1>1, <3>4 DEF Serial, Closed
    <3>5. QED BY <1>2, <3>1, <3>2, <3>3, <3>4
  <2>2. QED BY <1>1, <2>1 DEF Serial
<1>3. CASE Route
  BY <1>1, <1>3 DEF Serial, Route
<1>4. CASE \E i \in Requests : ChampionReturns(i)
  BY <1>1, <1>4 DEF Serial, ChampionReturns
<1>5. CASE \E i \in Requests : ChampionRaises(i)
  BY <1>1, <1>5 DEF Serial, ChampionRaises
<1>6. CASE \E i \in Requests : ShadowEnds(i) \/ Discard(i)
  BY <1>1, <1>6 DEF Serial, ShadowEnds, ShadowReturns, ShadowRaises, Discard
<1>7. CASE (Writer /\ UNCHANGED simVars) \/ UNCHANGED vars
  BY <1>1, <1>7 DEF Serial, vars, simVars
<1>8. QED BY <1>1, <1>2, <1>3, <1>4, <1>5, <1>6, <1>7 DEF Next, RunStep

LEMMA UnderwayStays == Serial /\ Underway /\ [Next]_vars => Underway'
<1>1. SUFFICES ASSUME Serial, Underway, [Next]_vars PROVE Underway'
  OBVIOUS
<1>2. N \in Nat /\ Sampled \subseteq 0 .. N - 1 /\ Requests = 0 .. N - 1 /\ arrived \in Nat
  BY <1>1, ScenarioAssumption DEF Requests, Underway
<1>3. CASE Start
  BY <1>1, <1>2, <1>3 DEF Underway, Start, Sealed
<1>4. CASE Route
  <2>1. /\ run = "routing" /\ arrived < N /\ arrived' = arrived + 1
        /\ routes' = routes \union {arrived} /\ shadows' = shadows \union ({arrived} \cap Sampled)
        /\ UNCHANGED <<failing, run, raised>>
    BY <1>4 DEF Route
  <2>2. arrived' \in 0 .. N /\ routes' \subseteq 0 .. arrived' - 1
    <3>1. arrived' \in 0 .. N /\ 0 .. arrived' - 1 = (0 .. arrived - 1) \union {arrived}
      BY <1>2, <2>1
    <3>2. routes \subseteq 0 .. arrived - 1
      BY <1>1 DEF Underway
    <3>3. QED BY <2>1, <3>1, <3>2
  <2>3. shadows' \subseteq Sampled /\ \A i \in shadows' : i < arrived'
    BY <1>1, <1>2, <2>1 DEF Underway
  <2>4. ~raised' => \A i \in 0 .. arrived' - 1 : i \in routes' \/ <<"champion", i>> \notin failing'
    <3>1. ~raised => \A i \in 0 .. arrived - 1 : i \in routes \/ <<"champion", i>> \notin failing
      BY <1>1 DEF Underway
    <3>2. 0 .. arrived' - 1 = (0 .. arrived - 1) \union {arrived}
      BY <1>2, <2>1
    <3>3. QED BY <2>1, <3>1, <3>2, Zenon
  <2>5. QED BY <1>1, <2>1, <2>2, <2>3, <2>4 DEF Underway, Sealed
<1>5. CASE Gather
  BY <1>1, <1>2, <1>5 DEF Underway, Gather, Sealed
<1>6. CASE Drain
  BY <1>1, <1>2, <1>6 DEF Underway, Drain, Drained, Sealed
<1>7. CASE Finally
  BY <1>1, <1>2, <1>7 DEF Underway, Finally, Sealed
<1>8. CASE Closed
  BY <1>1, <1>2, <1>8 DEF Underway, Closed, WriterOver, logVars, Sealed
<1>9. ASSUME NEW i \in Requests, ChampionReturns(i) PROVE Underway'
  BY <1>1, <1>2, <1>9 DEF Underway, ChampionReturns, Emit, Put, Sealed
<1>10. ASSUME NEW i \in Requests, ChampionRaises(i) PROVE Underway'
  BY <1>1, <1>2, <1>10 DEF Underway, Serial, ChampionRaises, logVars, Sealed
<1>11. ASSUME NEW i \in Requests, ShadowReturns(i) PROVE Underway'
  BY <1>1, <1>2, <1>11 DEF Underway, ShadowReturns, Emit, Put, Sealed
<1>12. ASSUME NEW i \in Requests, ShadowRaises(i) \/ Discard(i) PROVE Underway'
  <2>1. /\ shadows' \subseteq shadows
        /\ UNCHANGED <<failing, run, arrived, routes, raised, writer>>
    BY <1>12 DEF ShadowRaises, Discard, logVars
  <2>2. QED BY <1>1, <2>1 DEF Underway, Sealed
<1>13. CASE Writer /\ UNCHANGED simVars
  BY <1>1, <1>2, <1>13 DEF Underway, Writer, Get, FlushTimeout, Written, simVars, Sealed
<1>14. CASE UNCHANGED vars
  BY <1>1, <1>14 DEF Underway, vars, logVars, simVars, Sealed
<1>15. QED BY <1>1, <1>3, <1>4, <1>5, <1>6, <1>7, <1>8, <1>9, <1>10, <1>11, <1>12, <1>13, <1>14
           DEF Next, RunStep, ShadowEnds

(* The events of the run: each is new to the record.                       *)
LEMMA StartRecords ==
  ASSUME Inv, Start
  PROVE  Recorded'
<1>1. "scenario" \in Bodies /\ N \in Nat /\ "run_started" \in Types \ {"run_finished"}
  BY ScenarioAssumption, TypesAssumption DEF Bodies
<1>2. Answers' = Answers
  BY SameAnswers DEF Start, Served, Shadowed
<1>3. run = "start" /\ run' = "routing" /\ raised' = raised /\ ~Sealed
      /\ Emit(Event("run_started", N, "scenario"))
  BY DEF Start, Sealed
<1>4. \A E \in Seq(Events), e \in Events :
        Tells(E) /\ What(e) = <<"run_started", N, "scenario">> => Tells(Append(E, e))'
  <2>1. SUFFICES ASSUME NEW E \in Seq(Events), NEW e \in Events,
                        Tells(E), What(e) = <<"run_started", N, "scenario">>
                 PROVE  Tells(Append(E, e))'
    OBVIOUS
  <2>2. e.type = "run_started"
    BY <2>1 DEF What
  <2>3. QED BY <1>2, <1>3, <2>1, <2>2, AppendEnd
<1>5. QED BY <1>1, <1>3, <1>4, EmitRecords DEF Inv

LEMMA AnswerRecords ==
  ASSUME Inv, NEW type \in Types \ Ends, NEW index \in Nat, NEW body \in Bodies,
         Emit(Event(type, index, body)), UNCHANGED <<run, raised>>, run # "start", ~Sealed \/ raised,
         Answers' = Answers \union {<<type, index, body>>}, <<type, index, body>> \notin Answers,
         type = "shadow_response" =>
           \A a \in Answers : a[1] = "shadow_response" => a[2] # index
  PROVE  Recorded'
<1>1. \A E \in Seq(Events), e \in Events :
        Tells(E) /\ What(e) = <<type, index, body>> => Tells(Append(E, e))'
  <2>1. SUFFICES ASSUME NEW E \in Seq(Events), NEW e \in Events,
                        Tells(E), What(e) = <<type, index, body>>
                 PROVE  Tells(Append(E, e))'
    OBVIOUS
  <2>2. e.type = type /\ e.index = index
    BY <2>1 DEF What
  <2>3. QED BY <2>1, <2>2, AppendTells
<1>2. ~Sealed \/ (Sealed' /\ raised)
  BY DEF Sealed
<1>3. QED BY <1>1, <1>2, EmitRecords DEF Inv, Ends

LEMMA RouteRecords ==
  ASSUME Inv, Route
  PROVE  Recorded'
<1>1. /\ run = "routing" /\ arrived \in 0 .. N - 1 /\ arrived \in Nat /\ arrived' = arrived + 1
      /\ routes' = routes \union {arrived} /\ shadows' = shadows \union ({arrived} \cap Sampled)
      /\ UNCHANGED <<failing, run, raised>>
      /\ Emit(Event("request_received", arrived, Topic(arrived)))
  BY ScenarioAssumption DEF Route, Inv, Underway
<1>2. Topic(arrived) \in Bodies /\ "request_received" \in Types \ Ends
  BY <1>1, TypesAssumption DEF Topic, Bodies, Topics, Ends
<1>3. Served' = Served
  BY <1>1 DEF Served
<1>4. Shadowed' = Shadowed
  <2>1. \A i \in Sampled : i \in Int
    BY ScenarioAssumption
  <2>2. \A i \in shadows : i # arrived
    BY <1>1 DEF Inv, Underway
  <2>3. \A i \in Sampled : (i < arrived' /\ i \notin shadows') <=> (i < arrived /\ i \notin shadows)
    BY <1>1, <2>1, <2>2
  <2>4. QED BY <1>1, <2>3 DEF Shadowed
<1>5. 0 .. arrived' - 1 = (0 .. arrived - 1) \union {arrived} /\ arrived \notin 0 .. arrived - 1
  BY <1>1
<1>6. Answers' = Answers \union {<<"request_received", arrived, Topic(arrived)>>}
  BY <1>3, <1>4, <1>5 DEF Answers
<1>7. <<"request_received", arrived, Topic(arrived)>> \notin Answers
  BY <1>5 DEF Answers
<1>8. QED BY <1>1, <1>2, <1>6, <1>7, AnswerRecords DEF Sealed

LEMMA ChampionRecords ==
  ASSUME Inv, NEW i \in Requests, ChampionReturns(i)
  PROVE  Recorded'
<1>1. /\ i \in routes /\ <<"champion", i>> \notin failing /\ routes' = routes \ {i}
      /\ UNCHANGED <<failing, run, raised, arrived, shadows>>
      /\ Emit(Event("champion_response", i, "good")) /\ i \in Nat /\ i \in 0 .. arrived - 1
  BY ScenarioAssumption DEF ChampionReturns, Inv, Underway, Requests
<1>2. "good" \in Bodies /\ "champion_response" \in Types \ Ends
  BY TypesAssumption DEF Bodies, Ends
<1>3. Served' = Served \union {i} /\ i \notin Served /\ Shadowed' = Shadowed
  BY <1>1 DEF Served, Shadowed
<1>4. Answers' = Answers \union {<<"champion_response", i, "good">>}
  BY <1>1, <1>3 DEF Answers
<1>5. <<"champion_response", i, "good">> \notin Answers
  BY <1>3 DEF Answers
<1>6. run # "start" /\ (~Sealed \/ raised)
  <2>1. arrived # 0
    BY <1>1
  <2>2. routes # {}
    BY <1>1
  <2>3. QED BY <2>1, <2>2, Zenon DEF Inv, Underway
<1>7. QED BY <1>1, <1>2, <1>4, <1>5, <1>6, AnswerRecords

LEMMA ShadowRecords ==
  ASSUME Inv, NEW i \in Requests, ShadowReturns(i)
  PROVE  Recorded'
<1>1. /\ i \in shadows /\ <<"challenger", i>> \notin failing /\ shadows' = shadows \ {i}
      /\ UNCHANGED <<failing, run, raised, arrived, routes>>
      /\ Emit(Event("shadow_response", i, Pool(i))) /\ i \in Nat /\ i \in Sampled /\ i < arrived
  BY ScenarioAssumption DEF ShadowReturns, Inv, Underway, Requests
<1>2. Pool(i) \in Bodies /\ "shadow_response" \in Types \ Ends
  BY TypesAssumption DEF Pool, Bodies, Ends
<1>3. Shadowed' = Shadowed \union {i} /\ i \notin Shadowed /\ Served' = Served
  BY <1>1 DEF Served, Shadowed
<1>4. Answers' = Answers \union {<<"shadow_response", i, Pool(i)>>}
  BY <1>1, <1>3 DEF Answers
<1>5. \A a \in Answers : a[1] = "shadow_response" => a[2] # i
  BY <1>3 DEF Answers
<1>6. <<"shadow_response", i, Pool(i)>> \notin Answers
  BY <1>5
<1>7. run # "start" /\ (~Sealed \/ raised)
  <2>1. arrived # 0
    BY <1>1
  <2>2. shadows # {}
    BY <1>1
  <2>3. QED BY <2>1, <2>2, Zenon DEF Inv, Underway
<1>8. QED BY <1>1, <1>2, <1>4, <1>5, <1>6, <1>7, AnswerRecords

LEMMA Steps == Inv /\ [Next]_vars => Inv'
<1>1. SUFFICES ASSUME Inv, [Next]_vars PROVE Recorded'
  BY SerialStays, UnderwayStays DEF Inv
<1>2. Serial /\ Underway /\ Recorded
  BY <1>1 DEF Inv
<1>3. CASE Start
  BY <1>1, <1>3, StartRecords
<1>4. CASE Route
  BY <1>1, <1>4, RouteRecords
<1>5. CASE Finally
  BY <1>2, <1>5, FinallyRecords
<1>6. CASE Gather \/ Drain \/ Closed
  <2>1. /\ UNCHANGED logVars /\ UNCHANGED <<failing, arrived, routes, shadows>>
        /\ Sealed' = Sealed /\ (Sealed /\ ~raised' => ~raised) /\ (run = "start" <=> run' = "start")
    BY <1>6 DEF Gather, Drain, Closed, Sealed
  <2>2. Answers' = Answers
    BY <2>1, SameAnswers DEF Served, Shadowed
  <2>3. QED BY <1>2, <2>1, <2>2, QuietRecords
<1>7. ASSUME NEW i \in Requests, ChampionReturns(i) PROVE Recorded'
  BY <1>1, <1>7, ChampionRecords
<1>8. ASSUME NEW i \in Requests, ChampionRaises(i) PROVE Recorded'
  <2>1. /\ UNCHANGED logVars /\ UNCHANGED <<failing, arrived, shadows>>
        /\ Sealed' = Sealed /\ (Sealed /\ ~raised' => ~raised) /\ (run = "start" <=> run' = "start")
    BY <1>2, <1>8, ScenarioAssumption DEF ChampionRaises, Sealed, Serial, Underway
  <2>2. Answers' = Answers
    BY <1>8, <2>1, SameAnswers DEF ChampionRaises, Served, Shadowed
  <2>3. QED BY <1>2, <2>1, <2>2, QuietRecords
<1>9. ASSUME NEW i \in Requests, ShadowReturns(i) PROVE Recorded'
  BY <1>1, <1>9, ShadowRecords
<1>10. ASSUME NEW i \in Requests, ShadowRaises(i) \/ Discard(i) PROVE Recorded'
  <2>1. UNCHANGED logVars /\ UNCHANGED <<failing, arrived, routes, run, raised>> /\ Sealed' = Sealed
    BY <1>10 DEF ShadowRaises, Discard, Sealed
  <2>2. Answers' = Answers
    BY <1>10, <2>1, SameAnswers DEF ShadowRaises, Discard, Served, Shadowed
  <2>3. QED BY <1>2, <2>1, <2>2, QuietRecords
<1>11. CASE Writer /\ UNCHANGED simVars
  BY <1>2, <1>11, WriterRecords
<1>12. CASE UNCHANGED vars
  <2>1. UNCHANGED logVars /\ UNCHANGED <<failing, arrived, routes, shadows, run, raised>>
        /\ Sealed' = Sealed
    BY <1>12 DEF vars, simVars, Sealed
  <2>2. Answers' = Answers
    BY <2>1, SameAnswers DEF Served, Shadowed
  <2>3. QED BY <1>2, <2>1, <2>2, QuietRecords
<1>13. QED BY <1>1, <1>3, <1>4, <1>5, <1>6, <1>7, <1>8, <1>9, <1>10, <1>11, <1>12
           DEF Next, RunStep, ShadowEnds

LEMMA Starts == Init => Inv
<1>1. SUFFICES ASSUME Init PROVE Inv
  OBVIOUS
<1>2. Serial /\ Underway
  BY <1>1, ScenarioAssumption DEF Init, Serial, Underway, Sealed
<1>3. Logged(<<>>, 0) /\ Ended(<<>>, 0)
  BY <1>1 DEF Init, LogInit, Logged, Stored, Taken, Awaiting, Plain, Ended
<1>4. Counted(<<>>)
  <2>1. \A t \in Types : Seen(<<>>, 0, t) = 0
    <3>1. 0 .. 0 - 1 = {}
      OBVIOUS
    <3>2. QED BY <3>1, FS_EmptySet DEF Seen
  <2>2. counts = [t \in Types |-> 0]
    BY <1>1 DEF Init, LogInit
  <2>3. QED BY <2>1, <2>2 DEF Counted
<1>5. <<>> \in Seq(Events) /\ 0 \in Nat
  OBVIOUS
<1>6. Tells(<<>>)
  <2>1. 0 .. arrived - 1 = {} /\ run = "start" /\ arrived = 0
    BY <1>1 DEF Init
  <2>2. Served = {} /\ Shadowed = {}
    <3>1. \A i \in Sampled : ~(i < 0)
      BY ScenarioAssumption
    <3>2. QED BY <2>1, <3>1 DEF Served, Shadowed
  <2>3. Answers = {}
    BY <2>1, <2>2 DEF Answers
  <2>4. IsFiniteSet(Answers) /\ Cardinality(Answers) = 0
    BY <2>3, FS_EmptySet
  <2>5. {What(<<>>[k]) : k \in {n \in 1 .. Len(<<>>) : <<>>[n].type \notin Ends}} = {}
    OBVIOUS
  <2>6. QED BY <2>1, <2>3, <2>4, <2>5 DEF Tells, Sealed
<1>7. Record(<<>>, 0)
  BY <1>3, <1>4, <1>6 DEF Record
<1>8. Recorded
  BY <1>5, <1>7 DEF Recorded
<1>9. QED BY <1>2, <1>8 DEF Inv
-----------------------------------------------------------------------------
(* In every behaviour, whatever raises and whenever the store fails: the   *)
(* record is a prefix of what was emitted.                                 *)
THEOREM NoHoles == Spec => []PrefixRecorded
<1>1. Inv => PrefixRecorded
  <2>1. SUFFICES ASSUME Inv PROVE PrefixRecorded
    OBVIOUS
  <2>2. PICK E \in Seq(Events), R \in Nat : Logged(E, R)
    BY <2>1 DEF Inv, Recorded, Record
  <2>3. /\ R \in 0 .. Len(E) /\ DOMAIN rows = 0 .. R - 1 /\ Len(E) \in Nat
        /\ \A q \in 0 .. R - 1 : rows[q] = E[q + 1]
        /\ \A k \in 1 .. Len(E) : E[k].seq = k - 1
    BY <2>2, SMTT(30) DEF Logged, Stored
  <2>4. Cardinality(DOMAIN rows) = R
    BY <2>3, FS_Interval
  <2>5. \A q \in 0 .. R - 1 : rows[q].seq = q
    <3>1. SUFFICES ASSUME NEW q \in 0 .. R - 1 PROVE rows[q].seq = q
      OBVIOUS
    <3>2. q + 1 \in 1 .. Len(E) /\ (q + 1) - 1 = q
      BY <2>3
    <3>3. QED BY <2>3, <3>2
  <2>6. QED BY <2>3, <2>4, <2>5 DEF PrefixRecorded
<1>2. QED BY <1>1, Starts, Steps, PTL DEF Spec

(* In every behaviour: a run_finished that is in the store counts the rows *)
(* before it, type by type.                                                *)
THEOREM FinishedIsCertified == Spec => []FinishedCounts
<1>1. Inv => FinishedCounts
  <2>1. SUFFICES ASSUME Inv, NEW q \in DOMAIN rows, rows[q].type = "run_finished", NEW t \in Types
                 PROVE  rows[q].body[t] =
                          Cardinality({p \in 0 .. q - 1 : p \in DOMAIN rows /\ rows[p].type = t})
    BY DEF FinishedCounts
  <2>2. PICK E \in Seq(Events), R \in Nat : Logged(E, R) /\ Counted(E)
    BY <2>1 DEF Inv, Recorded, Record
  <2>3. /\ R \in 0 .. Len(E) /\ DOMAIN rows = 0 .. R - 1 /\ Len(E) \in Nat
        /\ \A p \in 0 .. R - 1 : rows[p] = E[p + 1]
    BY <2>2 DEF Logged, Stored
  <2>4. q \in 0 .. R - 1 /\ q + 1 \in 1 .. Len(E) /\ (q + 1) - 1 = q
    BY <2>1, <2>3
  <2>5. rows[q].body[t] = Seen(E, q, t)
    <3>1. E[q + 1].body = [u \in Types |-> Seen(E, (q + 1) - 1, u)]
      BY <2>1, <2>2, <2>3, <2>4 DEF Counted
    <3>2. QED BY <2>1, <2>3, <2>4, <3>1
  <2>6. {p \in 0 .. q - 1 : E[p + 1].type = t}
          = {p \in 0 .. q - 1 : p \in DOMAIN rows /\ rows[p].type = t}
    BY <2>3, <2>4
  <2>7. QED BY <2>5, <2>6 DEF Seen
<1>2. QED BY <1>1, Starts, Steps, PTL DEF Spec
-----------------------------------------------------------------------------
(* The record of a run that returned is all of E.                          *)
LEMMA WholeRecord ==
  ASSUME Inv, run = "returned"
  PROVE  /\ arrived = N /\ routes = {} /\ shadows = {} /\ Served = Requests
         /\ nextSeq \in Nat /\ DOMAIN rows = 0 .. nextSeq - 1 /\ nextSeq = Cardinality(Answers) + 2
         /\ IsFiniteSet(Answers) /\ Content = Answers
         /\ rows[nextSeq - 1].type = "run_finished"
         /\ \A p, q \in ShadowRows : rows[p].index = rows[q].index => p = q
<1>1. PICK E \in Seq(Events), R \in Nat : Record(E, R)
  BY DEF Inv, Recorded
<1>2. /\ Logged(E, R) /\ Ended(E, R) /\ Tells(E) /\ Sealed /\ ~raised /\ writer = "done"
      /\ arrived = N /\ routes = {} /\ shadows = {} /\ Len(E) \in Nat
  BY <1>1 DEF Record, Inv, Underway, Sealed
<1>3. R = Len(E) /\ nextSeq = Len(E)
  BY <1>2 DEF Ended, Logged
<1>4. DOMAIN rows = 0 .. nextSeq - 1 /\ \A q \in 0 .. nextSeq - 1 : rows[q] = E[q + 1]
  BY <1>2, <1>3 DEF Logged, Stored
<1>5. Served = Requests
  BY <1>2 DEF Inv, Underway, Served, Requests
<1>6. /\ IsFiniteSet(Answers) /\ Cardinality(Answers) \in Nat
      /\ nextSeq = Cardinality(Answers) + 2 /\ E[nextSeq].type = "run_finished"
  BY <1>2, <1>3, FS_CardinalityType DEF Tells
<1>7. rows[nextSeq - 1].type = "run_finished"
  <2>1. nextSeq - 1 \in 0 .. nextSeq - 1 /\ (nextSeq - 1) + 1 = nextSeq
    BY <1>2, <1>3, <1>6
  <2>2. QED BY <1>4, <1>6, <2>1
<1>8. Content = Answers
  <2> DEFINE K == {n \in 1 .. Len(E) : E[n].type \notin Ends}
             P == {p \in DOMAIN rows : rows[p].type \notin Ends}
  <2>1. {What(E[k]) : k \in K} = Answers
    BY <1>2 DEF Tells
  <2>2. Content = {What(rows[q]) : q \in P}
    BY DEF Content, What, Ends
  <2>3. \A q \in P : q + 1 \in K /\ rows[q] = E[q + 1]
    BY <1>2, <1>3, <1>4
  <2>4. \A k \in K : k - 1 \in P /\ rows[k - 1] = E[k]
    <3>1. SUFFICES ASSUME NEW k \in K PROVE k - 1 \in P /\ rows[k - 1] = E[k]
      OBVIOUS
    <3>2. k - 1 \in 0 .. nextSeq - 1 /\ (k - 1) + 1 = k
      BY <1>2, <1>3
    <3>3. rows[k - 1] = E[k]
      BY <1>4, <3>2
    <3>4. QED BY <1>4, <3>2, <3>3
  <2> HIDE DEF K, P
  <2>5. {What(rows[q]) : q \in P} = {What(E[k]) : k \in K}
    <3>1. \A q \in P : What(rows[q]) \in {What(E[k]) : k \in K}
      BY <2>3
    <3>2. \A k \in K : What(E[k]) \in {What(rows[q]) : q \in P}
      BY <2>4
    <3>3. QED BY <3>1, <3>2
  <2>6. QED BY <2>1, <2>2, <2>5
<1>9. ASSUME NEW p \in ShadowRows, NEW q \in ShadowRows, rows[p].index = rows[q].index PROVE p = q
  <2>1. /\ p \in 0 .. nextSeq - 1 /\ q \in 0 .. nextSeq - 1
        /\ rows[p].type = "shadow_response" /\ rows[q].type = "shadow_response"
    BY <1>4 DEF ShadowRows
  <2>2. /\ p + 1 \in 1 .. Len(E) /\ q + 1 \in 1 .. Len(E)
        /\ rows[p] = E[p + 1] /\ rows[q] = E[q + 1]
    BY <1>2, <1>3, <1>4, <2>1
  <2>3. p + 1 = q + 1
    BY <1>2, <1>9, <2>1, <2>2 DEF Tells
  <2>4. QED BY <1>2, <1>3, <2>1, <2>3
<1>10. QED BY <1>2, <1>3, <1>4, <1>5, <1>6, <1>7, <1>8, <1>9

(* In every behaviour: a run that returns has a complete record, of the    *)
(* scenario and of which challengers answered, and of nothing else.        *)
THEOREM RecordIsComplete == Spec => []Complete
<1>1. Inv => Complete
  <2>1. SUFFICES ASSUME Inv, run = "returned"
                 PROVE  /\ Cardinality(DOMAIN rows) = nextSeq
                        /\ rows[nextSeq - 1].type = "run_finished"
                        /\ Content = {<<"request_received", i, Topic(i)>> : i \in Requests}
                             \union {<<"champion_response", i, "good">> : i \in Requests}
                             \union {<<"shadow_response", i, Pool(i)>> :
                                      i \in {j \in Sampled : <<"challenger", j>> \notin failing}}
                        /\ Cardinality(Content) = nextSeq - 2
    BY DEF Complete
  <2>2. Cardinality(DOMAIN rows) = nextSeq
    <3>1. DOMAIN rows = 0 .. nextSeq - 1 /\ nextSeq \in Nat
      BY <2>1, WholeRecord
    <3>2. QED BY <3>1, FS_Interval
  <2>3. Shadowed = {j \in Sampled : <<"challenger", j>> \notin failing}
    <3>1. \A j \in Sampled : j < N
      BY ScenarioAssumption
    <3>2. arrived = N /\ shadows = {}
      BY <2>1, WholeRecord
    <3>3. QED BY <3>1, <3>2 DEF Shadowed
  <2>4. Content = Answers /\ Served = Requests /\ 0 .. arrived - 1 = Requests
    BY <2>1, WholeRecord DEF Requests
  <2>5. Cardinality(Content) = nextSeq - 2
    <3>1. nextSeq = Cardinality(Answers) + 2 /\ Cardinality(Answers) \in Nat
      BY <2>1, WholeRecord, FS_CardinalityType
    <3>2. QED BY <2>4, <3>1
  <2>6. QED BY <2>1, <2>2, <2>3, <2>4, <2>5, WholeRecord DEF Answers
<1>2. QED BY <1>1, Starts, Steps, PTL DEF Spec

(* The bad answers in such a record are as many as the scenario injects.   *)
LEMMA BadRows ==
  ASSUME Inv, run = "returned", NEW from, NEW to
  PROVE  BadIn(from, to) =
           Cardinality({i \in Sampled : /\ <<"challenger", i>> \notin failing /\ Pool(i) = "bad"
                                        /\ i \in from .. to - 1})
<1> DEFINE S == {q \in ShadowRows : rows[q].body = "bad" /\ rows[q].index \in from .. to - 1}
           T == {i \in Sampled : /\ <<"challenger", i>> \notin failing /\ Pool(i) = "bad"
                                 /\ i \in from .. to - 1}
           f == [q \in S |-> rows[q].index]
<1>1. /\ DOMAIN rows = 0 .. nextSeq - 1 /\ nextSeq \in Nat /\ Content = Answers
      /\ arrived = N /\ shadows = {}
      /\ \A p, q \in ShadowRows : rows[p].index = rows[q].index => p = q
  BY WholeRecord
<1>2. \A j \in Sampled : j < N
  BY ScenarioAssumption
<1>3. IsFiniteSet(S)
  <2>1. IsFiniteSet(0 .. nextSeq - 1)
    BY <1>1, FS_Interval
  <2>2. S \subseteq 0 .. nextSeq - 1
    BY <1>1 DEF ShadowRows
  <2>3. QED BY <2>1, <2>2, FS_Subset
<1>4. ASSUME NEW q \in S PROVE rows[q].index \in T
  <2>1. q \in DOMAIN rows /\ rows[q].type = "shadow_response" /\ rows[q].body = "bad"
        /\ rows[q].index \in from .. to - 1
    BY DEF ShadowRows
  <2>2. <<"shadow_response", rows[q].index, "bad">> \in Content
    BY <2>1 DEF Content
  <2>3. <<"shadow_response", rows[q].index, "bad">> \in Answers
    BY <1>1, <2>2
  <2>4. \E i \in Shadowed : i = rows[q].index /\ Pool(i) = "bad"
    BY <2>3 DEF Answers
  <2>5. QED BY <2>1, <2>4 DEF Shadowed
<1>5. ASSUME NEW i \in T PROVE \E q \in S : rows[q].index = i
  <2>1. i \in Shadowed
    BY <1>1, <1>2 DEF Shadowed
  <2>2. <<"shadow_response", i, Pool(i)>> \in Content
    BY <1>1, <2>1 DEF Answers
  <2>3. PICK q \in DOMAIN rows : rows[q].type = "shadow_response" /\ rows[q].index = i
                                 /\ rows[q].body = Pool(i)
    BY <2>2 DEF Content
  <2>4. QED BY <2>3 DEF ShadowRows
<1>6. f \in Bijection(S, T)
  <2>1. f \in [S -> T] /\ \A q \in S : f[q] = rows[q].index
    BY <1>4
  <2>2. \A p, q \in S : f[p] = f[q] => p = q
    <3>1. \A q \in S : q \in ShadowRows
      OBVIOUS
    <3>2. QED BY <1>1, <2>1, <3>1
  <2>3. \A i \in T : \E q \in S : f[q] = i
    BY <1>5, <2>1
  <2> HIDE DEF f, S, T
  <2>4. f \in Injection(S, T)
    BY <2>1, <2>2, Fun_IsInj
  <2>5. f \in Surjection(S, T)
    BY <2>1, <2>3, Fun_IsSurj
  <2>6. QED BY <2>4, <2>5, Fun_IsBij
<1>7. Cardinality(T) = Cardinality(S)
  <2> HIDE DEF f, S, T
  <2>1. ExistsBijection(S, T)
    BY <1>6 DEF ExistsBijection
  <2>2. QED BY <1>3, <2>1, FS_Bijection
<1>8. QED BY <1>7 DEF BadIn

(* In every behaviour: what was injected can be read back from the record. *)
THEOREM TruthIsRecovered == Spec => []GroundTruth
<1>1. Inv => GroundTruth
  <2> DEFINE BadRecorded(from, to) == {i \in Sampled : /\ <<"challenger", i>> \notin failing /\ Pool(i) = "bad"
                                              /\ i \in from .. to - 1}
  <2>1. SUFFICES ASSUME Inv, run = "returned"
                 PROVE  /\ BadIn(0, Changepoint) = 0
                        /\ BadIn(Changepoint, N) =
                             Cardinality({i \in Sampled :
                               /\ i >= Changepoint /\ Coin[i] < Epsilon
                               /\ RegressedTopic \in {AllTopics, Topic(i)}
                               /\ <<"challenger", i>> \notin failing})
    BY DEF GroundTruth
  <2>2. N \in Nat /\ Changepoint \in Nat /\ \A i \in Sampled : i \in 0 .. N - 1 /\ Coin[i] \in 0 .. 9
    BY ScenarioAssumption
  <2>3. ASSUME NEW i \in Sampled
        PROVE  Pool(i) = "bad" <=> /\ i >= Changepoint /\ Coin[i] < Epsilon
                                   /\ RegressedTopic \in {AllTopics, Topic(i)}
    <3>1. ~(Coin[i] < 0) /\ (i < Changepoint <=> ~(i >= Changepoint))
      BY <2>2
    <3>2. QED BY <3>1 DEF Pool, Schedule
  <2>4. BadRecorded(0, Changepoint) = {}
    BY <2>2, <2>3
  <2>5. BadRecorded(Changepoint, N) = {i \in Sampled : /\ i >= Changepoint /\ Coin[i] < Epsilon
                                               /\ RegressedTopic \in {AllTopics, Topic(i)}
                                               /\ <<"challenger", i>> \notin failing}
    <3>1. \A i \in Sampled : i \in Changepoint .. N - 1 <=> i >= Changepoint
      BY <2>2
    <3>2. QED BY <2>3, <3>1
  <2>6. BadIn(0, Changepoint) = Cardinality(BadRecorded(0, Changepoint))
        /\ BadIn(Changepoint, N) = Cardinality(BadRecorded(Changepoint, N))
    BY <2>1, BadRows
  <2> HIDE DEF BadRecorded
  <2>7. QED BY <2>4, <2>5, <2>6, FS_EmptySet
<1>2. QED BY <1>1, Starts, Steps, PTL DEF Spec
-----------------------------------------------------------------------------
(***************************************************************************)
(* Detectors: the loop a vectorised test runs over a stream is the scalar  *)
(* test fed verdict by verdict.  The inductive invariant says what each    *)
(* scalar test holds of the stream since it was reset.                     *)
(***************************************************************************)

Num == INSTANCE BusProofs WITH
  Streams <- {}, Payloads <- {}, Consumers <- {}, GroupOf <- <<>>, Subs <- <<>>, ReclaimIdle <- 1,
  Punctual <- TRUE, Nothing <- 0, MaxPublish <- 0, MaxCrashes <- 0,
  log <- <<>>, cursor <- <<>>, pending <- <<>>, acked <- <<>>, held <- <<>>, live <- {}, crashes <- 0

LEMMA NumberFacts ==
  /\ 0 \notin Num!Channels \X Nat
  /\ \A c \in {} : <<>>[c] \in Seq({})
  /\ 1 \in Nat \ {0} /\ TRUE \in BOOLEAN /\ 0 \in Nat
  BY DEF Num!Channels

LEMMA Counting ==
  ASSUME NEW G, 0 \in G, \A k \in Nat : k \in G => k + 1 \in G
  PROVE  Nat \subseteq G
  BY Num!Counting, NumberFacts

LEMMA Recursion ==
  ASSUME NEW D, NEW z \in D, NEW F \in [Nat -> [D -> D]], NEW i \in Nat \ {0}, NEW I, Num!Downward(I)
  PROVE  \E f \in [I -> D] : Num!Recurs(f, I, i, z, F)
  BY Num!Recursion, NumberFacts

(* Among numbers there is a least.                                         *)
LEMMA Least ==
  ASSUME NEW S, S \subseteq Nat, S # {}
  PROVE  \E k \in S : \A j \in S : k <= j
<1>1. SUFFICES ASSUME \A k \in S : \E j \in S : j < k PROVE FALSE
  OBVIOUS
<1> DEFINE G == {k \in Nat : \A j \in 0 .. k : j \notin S}
<1>2. \A j \in S : j \in Nat /\ ~(j < 0)
  OBVIOUS
<1>3. 0 \in G
  BY <1>1, <1>2
<1>4. ASSUME NEW k \in Nat, k \in G PROVE k + 1 \in G
  <2>1. \A j \in 0 .. k : j \notin S
    BY <1>4
  <2>2. k + 1 \notin S
    BY <1>1, <1>2, <2>1
  <2>3. QED BY <2>1, <2>2
<1>5. Nat \subseteq G
  <2> HIDE DEF G
  <2>1. QED BY <1>3, <1>4, Counting
<1>6. \A j \in S : j \in G
  BY <1>2, <1>5
<1>7. \A j \in S : j \in 0 .. j
  BY <1>2
<1>8. QED BY <1>6, <1>7

LEMMA Inside ==
  ASSUME NEW n \in Nat, NEW i \in 1 .. n
  PROVE  i \in 0 .. n /\ i # 0 /\ (i - 1 = 0 \/ i - 1 \in 1 .. n) /\ 0 \in 0 .. n
OBVIOUS

-----------------------------------------------------------------------------
(* The first crossing of a row.                                            *)
LEMMA CrossedAt ==
  ASSUME NEW n \in Nat, NEW hits, DOMAIN hits = 1 .. n, NEW s, NEW k \in 1 .. n,
         hits[k], \A j \in 1 .. k - 1 : ~hits[j]
  PROVE  FirstCrossing(hits, s) = k - 1
<1> DEFINE P(i) == hits[i] /\ \A j \in 1 .. i - 1 : ~hits[j]
           c == CHOOSE i \in DOMAIN hits : P(i)
<1>1. P(k)
  OBVIOUS
<1>2. c \in 1 .. n /\ P(c)
  <2> HIDE DEF P
  <2>1. QED BY <1>1
<1>3. \A i \in 1 .. n : P(i) => i = k
  <2>1. SUFFICES ASSUME NEW i \in 1 .. n, P(i) PROVE i = k
    OBVIOUS
  <2>2. ~(i < k)
    <3>1. i < k => i \in 1 .. k - 1
      OBVIOUS
    <3>2. QED BY <2>1, <3>1
  <2>3. ~(k < i)
    <3>1. k < i => k \in 1 .. i - 1
      OBVIOUS
    <3>2. QED BY <2>1, <3>1
  <2>4. QED BY <2>2, <2>3
<1>4. c = k
  BY <1>2, <1>3
<1>5. QED
  <2>1. \E i \in DOMAIN hits : hits[i]
    OBVIOUS
  <2>2. QED BY <1>4, <2>1 DEF FirstCrossing

LEMMA NeverCrossed ==
  ASSUME NEW hits, NEW s, \A j \in DOMAIN hits : ~hits[j]
  PROVE  FirstCrossing(hits, s) = s
BY DEF FirstCrossing

(* It is not before a place up to which nothing was hit.                   *)
LEMMA CrossedLater ==
  ASSUME NEW n \in Nat, NEW hits, DOMAIN hits = 1 .. n, NEW k \in 0 .. n, \A j \in 1 .. k : ~hits[j]
  PROVE  FirstCrossing(hits, n) \in k .. n
<1> DEFINE S == {i \in 1 .. n : hits[i]}
<1>1. CASE S = {}
  <2>1. \A j \in DOMAIN hits : ~hits[j]
    BY <1>1
  <2>2. FirstCrossing(hits, n) = n
    BY <2>1, NeverCrossed
  <2>3. QED BY <2>2
<1>2. CASE S # {}
  <2>1. PICK i \in S : \A j \in S : i <= j
    <3> HIDE DEF S
    <3>1. S \subseteq Nat
      BY DEF S
    <3>2. QED BY <1>2, <3>1, Least
  <2>2. i \in 1 .. n /\ hits[i]
    OBVIOUS
  <2>3. \A j \in 1 .. i - 1 : ~hits[j]
    <3>1. SUFFICES ASSUME NEW j \in 1 .. i - 1, hits[j] PROVE FALSE
      OBVIOUS
    <3>2. j \in 1 .. n /\ ~(i <= j)
      BY <2>2
    <3>3. QED BY <2>1, <3>1, <3>2
  <2>4. FirstCrossing(hits, n) = i - 1
    BY <2>2, <2>3, CrossedAt
  <2>5. ~(i <= k)
    <3>1. i <= k => i \in 1 .. k
      BY <2>2
    <3>2. QED BY <2>2, <3>1
  <2>6. QED BY <2>2, <2>4, <2>5
<1>3. QED BY <1>1, <1>2

-----------------------------------------------------------------------------
(* Running sums: a row of numbers in which each follows from the one       *)
(* before, the first from 0.                                               *)
At(f, i) == IF i = 0 THEN 0 ELSE f[i]

Row(f, n, F) == f \in [1 .. n -> Int] /\ \A i \in 1 .. n : f[i] = F[i][At(f, i - 1)]

LEMMA RowExists ==
  ASSUME NEW n \in Nat, NEW F \in [Nat -> [Int -> Int]]
  PROVE  \E g \in [0 .. n -> Int] : g[0] = 0 /\ \A i \in 1 .. n : g[i] = F[i][g[i - 1]]
<1>1. PICK g \in [0 .. n -> Int] : Num!Recurs(g, 0 .. n, 1, 0, F)
  <2>1. Num!Downward(0 .. n) /\ 0 \in Int /\ 1 \in Nat \ {0}
    BY DEF Num!Downward
  <2>2. QED BY <2>1, Recursion
<1>2. \A i \in 0 .. n : g[i] = IF i < 1 THEN 0 ELSE F[i][g[i - 1]]
  BY <1>1 DEF Num!Recurs
<1>3. 0 \in 0 .. n /\ 0 < 1 /\ \A i \in 1 .. n : i \in 0 .. n /\ ~(i < 1)
  BY ONLY n \in Nat
<1>4. QED BY ONLY <1>2, <1>3, g \in [0 .. n -> Int]

LEMMA RowIs ==
  ASSUME NEW n \in Nat, NEW F \in [Nat -> [Int -> Int]], NEW f, f[0] = 0,
         \A i \in 1 .. n : f[i - 1] \in Int => f[i] = F[i][f[i - 1]]
  PROVE  Row([i \in 1 .. n |-> f[i]], n, F)
<1> DEFINE G == {k \in Nat : k <= n => f[k] \in Int}
<1>1. 0 \in G
  OBVIOUS
<1>2. ASSUME NEW k \in Nat, k \in G PROVE k + 1 \in G
  <2>1. SUFFICES ASSUME k + 1 <= n PROVE f[k + 1] \in Int
    OBVIOUS
  <2>2. k + 1 \in 1 .. n /\ k + 1 - 1 = k /\ k + 1 \in Nat /\ k <= n
    BY ONLY <2>1, k \in Nat, n \in Nat
  <2>3. f[k] \in Int
    BY ONLY <1>2, <2>2
  <2>4. f[k + 1] = F[k + 1][f[k]]
    BY <2>2, <2>3
  <2>5. QED BY ONLY <2>2, <2>3, <2>4, F \in [Nat -> [Int -> Int]]
<1>3. Nat \subseteq G
  <2> HIDE DEF G
  <2>1. QED BY ONLY <1>1, <1>2, Counting
<1>4. \A i \in 0 .. n : f[i] \in Int
  <2>1. \A i \in 0 .. n : i \in Nat /\ i <= n
    BY ONLY n \in Nat
  <2>2. QED BY ONLY <1>3, <2>1
<1> DEFINE r == [i \in 1 .. n |-> f[i]]
<1>5. r \in [1 .. n -> Int]
  <2>1. \A i \in 1 .. n : i \in 0 .. n
    BY ONLY n \in Nat
  <2>2. QED BY ONLY <1>4, <2>1
<1>6. \A i \in 1 .. n : r[i] = F[i][At(r, i - 1)]
  <2>1. SUFFICES ASSUME NEW i \in 1 .. n PROVE r[i] = F[i][At(r, i - 1)]
    OBVIOUS
  <2>2. i \in 0 .. n /\ i # 0 /\ (i - 1 = 0 \/ i - 1 \in 1 .. n) /\ 0 \in 0 .. n
    BY Inside
  <2>3. i - 1 \in 0 .. n
    BY ONLY n \in Nat, i \in 1 .. n
  <2>4. f[i] = F[i][f[i - 1]]
    BY <1>4, <2>3
  <2>5. At(r, i - 1) = f[i - 1]
    BY <2>2 DEF At
  <2>6. r[i] = f[i]
    BY ONLY i \in 1 .. n
  <2>7. QED BY ONLY <2>4, <2>5, <2>6
<1>7. QED BY ONLY <1>5, <1>6 DEF Row

(* Rows that go by the same rule begin alike.                              *)
LEMMA RowsAgree ==
  ASSUME NEW n \in Nat, NEW m \in Nat, NEW l \in Nat, l <= n, l <= m,
         NEW F, NEW E, \A i \in 1 .. l : F[i] = E[i],
         NEW f, Row(f, n, F), NEW g, Row(g, m, E)
  PROVE  \A i \in 0 .. l : At(f, i) = At(g, i) /\ At(f, i) \in Int
<1> DEFINE G == {k \in Nat : k <= l => At(f, k) = At(g, k)}
<1>1. 0 \in G
  BY DEF At
<1>2. ASSUME NEW k \in Nat, k \in G PROVE k + 1 \in G
  <2>1. SUFFICES ASSUME k + 1 <= l PROVE At(f, k + 1) = At(g, k + 1)
    OBVIOUS
  <2>2. k + 1 \in 1 .. n /\ k + 1 \in 1 .. m /\ k + 1 \in 1 .. l /\ k + 1 - 1 = k /\ k <= l /\ k + 1 # 0
    BY <2>1
  <2>3. f[k + 1] = F[k + 1][At(f, k)] /\ g[k + 1] = E[k + 1][At(g, k)]
    BY <2>2 DEF Row
  <2>4. At(f, k) = At(g, k)
    BY <1>2, <2>2
  <2>5. QED BY <2>2, <2>3, <2>4 DEF At
<1>3. Nat \subseteq G
  <2> HIDE DEF G
  <2>1. QED BY <1>1, <1>2, Counting
<1>4. \A i \in 0 .. l : At(f, i) \in Int
  BY DEF Row, At
<1>5. QED BY <1>3, <1>4

(* What verdict k moves a statistic by.                                    *)
Moved(ws, inc, k) == IF k \in 1 .. Len(ws) THEN Step(inc, ws[k]) ELSE 0

Moves(ws, inc) == [k \in Nat |-> [x \in Int |-> x + Moved(ws, inc, k)]]
Bounces(ws, inc) == [k \in Nat |-> [x \in Int |-> NonNegative(x + Moved(ws, inc, k))]]

Increments(inc) == inc.win \in Int /\ inc.loss \in Int

LEMMA MovesFact ==
  ASSUME NEW ws, NEW inc, Increments(inc)
  PROVE  /\ \A k \in Nat : Moved(ws, inc, k) \in Int
         /\ Moves(ws, inc) \in [Nat -> [Int -> Int]]
         /\ Bounces(ws, inc) \in [Nat -> [Int -> Int]]
<1>1. \A k \in Nat : Moved(ws, inc, k) \in Int
  BY DEF Moved, Step, Increments
<1>2. \A x \in Int : NonNegative(x) \in Int
  BY DEF NonNegative
<1>3. \A k \in Nat : [x \in Int |-> x + Moved(ws, inc, k)] \in [Int -> Int]
  BY <1>1
<1>4. \A k \in Nat : [x \in Int |-> NonNegative(x + Moved(ws, inc, k))] \in [Int -> Int]
  BY <1>1, <1>2
<1>5. QED BY <1>1, <1>3, <1>4 DEF Moves, Bounces

LEMMA SumsRow ==
  ASSUME NEW ws \in Seq(BOOLEAN), NEW inc, Increments(inc)
  PROVE  Row(CumSum(ws, inc), Len(ws), Moves(ws, inc))
<1>1. PICK n \in Nat : n = Len(ws)
  OBVIOUS
<1> DEFINE F == Moves(ws, inc)
           body(f) == [i \in 0 .. n |-> IF i = 0 THEN 0 ELSE f[i - 1] + Step(inc, ws[i])]
           f == CHOOSE g : g = body(g)
<1>2. F \in [Nat -> [Int -> Int]]
  BY MovesFact
<1>3. \A k \in 1 .. n, x \in Int : F[k][x] = x + Step(inc, ws[k])
  BY <1>1 DEF Moves, Moved
<1>4. \E g : g = body(g)
  <2> HIDE DEF F
  <2>1. PICK g \in [0 .. n -> Int] : g[0] = 0 /\ \A i \in 1 .. n : g[i] = F[i][g[i - 1]]
    BY <1>2, RowExists
  <2>2. ASSUME NEW i \in 0 .. n PROVE g[i] = body(g)[i]
    <3>1. CASE i = 0
      BY <2>1, <3>1
    <3>2. CASE i # 0
      <4>1. i \in 1 .. n /\ i - 1 \in 0 .. n
        BY ONLY <3>2, n \in Nat, i \in 0 .. n
      <4>2. g[i - 1] \in Int
        BY <4>1
      <4>3. QED BY <1>3, <2>1, <3>2, <4>1, <4>2
    <3>3. QED BY <3>1, <3>2
  <2>3. g = body(g)
    BY <2>2
  <2>4. QED BY <2>3
<1>5. f = body(f)
  <2> HIDE DEF body
  <2>1. QED BY <1>4
<1>6. CumSum(ws, inc) = [i \in 1 .. n |-> f[i]]
  BY <1>1 DEF CumSum
<1> HIDE DEF f, F
<1>7. f[0] = 0 /\ \A i \in 1 .. n : f[i] = f[i - 1] + Step(inc, ws[i])
  <2>1. 0 \in 0 .. n /\ \A i \in 1 .. n : i \in 0 .. n /\ i # 0
    BY ONLY n \in Nat
  <2>2. QED BY <1>5, <2>1
<1>8. \A i \in 1 .. n : f[i - 1] \in Int => f[i] = F[i][f[i - 1]]
  BY <1>3, <1>7
<1>9. Row([i \in 1 .. n |-> f[i]], n, F)
  BY <1>2, <1>7, <1>8, RowIs
<1>10. QED BY <1>1, <1>6, <1>9 DEF F

LEMMA ReflectedRow ==
  ASSUME NEW ws \in Seq(BOOLEAN), NEW inc, Increments(inc)
  PROVE  Row(Reflected(ws, inc), Len(ws), Bounces(ws, inc))
<1>1. PICK n \in Nat : n = Len(ws)
  OBVIOUS
<1> DEFINE F == Bounces(ws, inc)
           body(f) == [i \in 0 .. n |-> IF i = 0 THEN 0 ELSE NonNegative(f[i - 1] + Step(inc, ws[i]))]
           f == CHOOSE g : g = body(g)
<1>2. F \in [Nat -> [Int -> Int]]
  BY MovesFact
<1>3. \A k \in 1 .. n, x \in Int : F[k][x] = NonNegative(x + Step(inc, ws[k]))
  BY <1>1 DEF Bounces, Moved
<1>4. \E g : g = body(g)
  <2> HIDE DEF F
  <2>1. PICK g \in [0 .. n -> Int] : g[0] = 0 /\ \A i \in 1 .. n : g[i] = F[i][g[i - 1]]
    BY <1>2, RowExists
  <2>2. ASSUME NEW i \in 0 .. n PROVE g[i] = body(g)[i]
    <3>1. CASE i = 0
      BY <2>1, <3>1
    <3>2. CASE i # 0
      <4>1. i \in 1 .. n /\ i - 1 \in 0 .. n
        BY ONLY <3>2, n \in Nat, i \in 0 .. n
      <4>2. g[i - 1] \in Int
        BY <4>1
      <4>3. QED BY <1>3, <2>1, <3>2, <4>1, <4>2
    <3>3. QED BY <3>1, <3>2
  <2>3. g = body(g)
    BY <2>2
  <2>4. QED BY <2>3
<1>5. f = body(f)
  <2> HIDE DEF body
  <2>1. QED BY <1>4
<1>6. Reflected(ws, inc) = [i \in 1 .. n |-> f[i]]
  BY <1>1 DEF Reflected
<1> HIDE DEF f, F
<1>7. f[0] = 0 /\ \A i \in 1 .. n : f[i] = NonNegative(f[i - 1] + Step(inc, ws[i]))
  <2>1. 0 \in 0 .. n /\ \A i \in 1 .. n : i \in 0 .. n /\ i # 0
    BY ONLY n \in Nat
  <2>2. QED BY <1>5, <2>1
<1>8. \A i \in 1 .. n : f[i - 1] \in Int => f[i] = F[i][f[i - 1]]
  BY <1>3, <1>7
<1>9. Row([i \in 1 .. n |-> f[i]], n, F)
  BY <1>2, <1>7, <1>8, RowIs
<1>10. QED BY <1>1, <1>6, <1>9 DEF F

(* One verdict more.                                                       *)
LEMMA MovesMore ==
  ASSUME NEW ws \in Seq(BOOLEAN), NEW us \in Seq(BOOLEAN), NEW inc, NEW m \in Nat,
         m <= Len(ws), m <= Len(us), \A k \in 1 .. m : ws[k] = us[k]
  PROVE  \A k \in 1 .. m : Moves(ws, inc)[k] = Moves(us, inc)[k] /\ Bounces(ws, inc)[k] = Bounces(us, inc)[k]
<1>1. SUFFICES ASSUME NEW k \in 1 .. m
               PROVE  Moves(ws, inc)[k] = Moves(us, inc)[k] /\ Bounces(ws, inc)[k] = Bounces(us, inc)[k]
  OBVIOUS
<1>2. k \in 1 .. Len(ws) /\ k \in 1 .. Len(us) /\ k \in Nat
  OBVIOUS
<1>3. Moved(ws, inc, k) = Moved(us, inc, k)
  BY <1>2 DEF Moved
<1>4. QED BY <1>2, <1>3 DEF Moves, Bounces

(* A verdict more: the rows go on by it.                                   *)
Grows(ws, w, us, n, inc) ==
  /\ us \in Seq(BOOLEAN) /\ Len(us) = n + 1
  /\ CumSum(us, inc) \in [1 .. n + 1 -> Int] /\ Reflected(us, inc) \in [1 .. n + 1 -> Int]
  /\ \A i \in 0 .. n : /\ At(CumSum(us, inc), i) = At(CumSum(ws, inc), i)
                       /\ At(Reflected(us, inc), i) = At(Reflected(ws, inc), i)
                       /\ At(CumSum(ws, inc), i) \in Int /\ At(Reflected(ws, inc), i) \in Int
  /\ CumSum(us, inc)[n + 1] = At(CumSum(ws, inc), n) + Step(inc, w)
  /\ Reflected(us, inc)[n + 1] = NonNegative(At(Reflected(ws, inc), n) + Step(inc, w))

LEMMA Grown ==
  ASSUME NEW ws \in Seq(BOOLEAN), NEW w \in BOOLEAN, NEW inc, Increments(inc),
         NEW n \in Nat, n = Len(ws), NEW us, us = Append(ws, w)
  PROVE  Grows(ws, w, us, n, inc)
<1>1. us \in Seq(BOOLEAN) /\ Len(us) = n + 1 /\ us[n + 1] = w
  OBVIOUS
<1>2. \A k \in 1 .. n : ws[k] = us[k]
  OBVIOUS
<1>3. /\ Row(CumSum(us, inc), n + 1, Moves(us, inc)) /\ Row(CumSum(ws, inc), n, Moves(ws, inc))
      /\ Row(Reflected(us, inc), n + 1, Bounces(us, inc)) /\ Row(Reflected(ws, inc), n, Bounces(ws, inc))
  BY <1>1, SumsRow, ReflectedRow
<1>4. \A k \in 1 .. n : Moves(us, inc)[k] = Moves(ws, inc)[k] /\ Bounces(us, inc)[k] = Bounces(ws, inc)[k]
  <2>1. n <= Len(ws)
    OBVIOUS
  <2>2. n <= Len(us)
    BY <1>1
  <2>3. us \in Seq(BOOLEAN)
    BY <1>1
  <2>4. \A k \in 1 .. n : us[k] = ws[k]
    BY ONLY <1>2, Zenon
  <2>5. QED BY ONLY <2>1, <2>2, <2>3, <2>4, n \in Nat, ws \in Seq(BOOLEAN), MovesMore, ZenonT(60)
<1>5. n \in Nat /\ n + 1 \in Nat /\ n <= n /\ n <= n + 1 /\ n + 1 \in 1 .. n + 1 /\ n + 1 - 1 = n
  OBVIOUS
<1>6. \A i \in 0 .. n : At(CumSum(us, inc), i) = At(CumSum(ws, inc), i) /\ At(CumSum(us, inc), i) \in Int
  <2>1. PICK f, g, F, E : /\ f = CumSum(us, inc) /\ g = CumSum(ws, inc)
                          /\ F = Moves(us, inc) /\ E = Moves(ws, inc)
    OBVIOUS
  <2>2. Row(f, n + 1, F)
    BY <1>3, <2>1
  <2>3. Row(g, n, E)
    BY <1>3, <2>1
  <2>4. \A i \in 1 .. n : F[i] = E[i]
    BY <1>4, <2>1
  <2>5. n + 1 \in Nat
    BY <1>5
  <2>6. n <= n + 1
    BY <1>5
  <2>7. n <= n
    BY <1>5
  <2>8. \A i \in 0 .. n : At(f, i) = At(g, i) /\ At(f, i) \in Int
    BY ONLY <2>2, <2>3, <2>4, <2>5, <2>6, <2>7, n \in Nat, RowsAgree
  <2>9. QED BY <2>1, <2>8
<1>7. \A i \in 0 .. n : At(Reflected(us, inc), i) = At(Reflected(ws, inc), i) /\ At(Reflected(us, inc), i) \in Int
  <2>1. PICK f, g, F, E : /\ f = Reflected(us, inc) /\ g = Reflected(ws, inc)
                          /\ F = Bounces(us, inc) /\ E = Bounces(ws, inc)
    OBVIOUS
  <2>2. Row(f, n + 1, F)
    BY <1>3, <2>1
  <2>3. Row(g, n, E)
    BY <1>3, <2>1
  <2>4. \A i \in 1 .. n : F[i] = E[i]
    BY <1>4, <2>1
  <2>5. n + 1 \in Nat
    BY <1>5
  <2>6. n <= n + 1
    BY <1>5
  <2>7. n <= n
    BY <1>5
  <2>8. \A i \in 0 .. n : At(f, i) = At(g, i) /\ At(f, i) \in Int
    BY ONLY <2>2, <2>3, <2>4, <2>5, <2>6, <2>7, n \in Nat, RowsAgree
  <2>9. QED BY <2>1, <2>8
<1>8. n \in 0 .. n /\ n + 1 \in 1 .. Len(us) /\ n + 1 \in Nat
  BY <1>1, <1>5
<1>9. Moved(us, inc, n + 1) = Step(inc, w)
  BY <1>1, <1>8 DEF Moved
<1>10. \A x \in Int : /\ Moves(us, inc)[n + 1][x] = x + Step(inc, w)
                      /\ Bounces(us, inc)[n + 1][x] = NonNegative(x + Step(inc, w))
  BY <1>8, <1>9 DEF Moves, Bounces
<1>11. CumSum(us, inc)[n + 1] = At(CumSum(ws, inc), n) + Step(inc, w)
  <2>1. CumSum(us, inc)[n + 1] = Moves(us, inc)[n + 1][At(CumSum(us, inc), n)]
    BY <1>3, <1>5 DEF Row
  <2>2. QED BY <1>6, <1>8, <1>10, <2>1
<1>12. Reflected(us, inc)[n + 1] = NonNegative(At(Reflected(ws, inc), n) + Step(inc, w))
  <2>1. Reflected(us, inc)[n + 1] = Bounces(us, inc)[n + 1][At(Reflected(us, inc), n)]
    BY <1>3, <1>5 DEF Row
  <2>2. QED BY <1>7, <1>8, <1>10, <2>1
<1>13. CumSum(us, inc) \in [1 .. n + 1 -> Int] /\ Reflected(us, inc) \in [1 .. n + 1 -> Int]
  BY <1>3 DEF Row
<1>14. QED BY <1>1, <1>6, <1>7, <1>11, <1>12, <1>13 DEF Grows

-----------------------------------------------------------------------------
(* What a test that was fed the verdicts ws says of them: where it         *)
(* stopped, which is the end if it did not decide, and that nothing        *)
(* crossed before.                                                         *)
CusumSays(c, ws, inc, h) ==
  LET s == Reflected(ws, inc) IN
    /\ c.n \in 0 .. Len(ws) /\ c.alarmed \in BOOLEAN
    /\ c.stat = At(s, c.n)
    /\ \A i \in 1 .. c.n : s[i] >= h <=> c.alarmed /\ i = c.n
    /\ c.alarmed => c.n > 0
    /\ ~c.alarmed => c.n = Len(ws)

LEMMA CusumBegins ==
  ASSUME NEW inc, NEW h PROVE CusumSays(FreshCusum, <<>>, inc, h)
BY DEF CusumSays, FreshCusum, At

LEMMA CusumGoesOn ==
  ASSUME NEW ws \in Seq(BOOLEAN), NEW w \in BOOLEAN, NEW inc, Increments(inc), NEW h \in Nat,
         NEW c, CusumSays(c, ws, inc, h)
  PROVE  CusumSays(CusumUpdate(c, inc, h, w), Append(ws, w), inc, h)
<1>1. PICK n \in Nat : n = Len(ws)
  OBVIOUS
<1>2. PICK us : us = Append(ws, w)
  OBVIOUS
<1>3. PICK s, r : s = Reflected(ws, inc) /\ r = Reflected(us, inc)
  OBVIOUS
<1>4. /\ Len(us) = n + 1
      /\ \A i \in 0 .. n : At(r, i) = At(s, i) /\ At(s, i) \in Int
      /\ r[n + 1] = NonNegative(At(s, n) + Step(inc, w))
  <2>1. Increments(inc)
    OBVIOUS
  <2>2. Grows(ws, w, us, n, inc)
    BY ONLY <1>1, <1>2, <2>1, n \in Nat, ws \in Seq(BOOLEAN), w \in BOOLEAN, Grown, Zenon
  <2>3. QED BY <1>3, <2>2 DEF Grows
<1>5. PICK k \in 0 .. n : k = c.n
  BY <1>1 DEF CusumSays
<1>6. /\ c.alarmed \in BOOLEAN /\ c.stat = At(s, k)
      /\ \A i \in 1 .. k : s[i] >= h <=> c.alarmed /\ i = k
      /\ c.alarmed => k > 0
      /\ ~c.alarmed => k = n
  BY <1>1, <1>3, <1>5 DEF CusumSays
<1>7. \A i \in 1 .. k : r[i] = s[i]
  <2>1. \A i \in 1 .. k : i \in 0 .. n /\ i # 0
    OBVIOUS
  <2>2. QED BY <1>4, <2>1 DEF At
<1>8. CASE c.alarmed
  <2>1. CusumUpdate(c, inc, h, w) = c
    BY <1>8 DEF CusumUpdate
  <2>2. c.n \in 0 .. Len(us) /\ c.stat = At(r, c.n)
    BY <1>4, <1>5, <1>6
  <2>3. \A i \in 1 .. c.n : r[i] >= h <=> c.alarmed /\ i = c.n
    BY <1>5, <1>6, <1>7
  <2>4. QED BY <1>2, <1>3, <1>5, <1>6, <1>8, <2>1, <2>2, <2>3 DEF CusumSays
<1>9. CASE ~c.alarmed
  <2>1. k = n
    BY <1>6, <1>9
  <2>2. PICK x \in Int : x = r[n + 1] /\ x = NonNegative(c.stat + Step(inc, w))
    <3>1. n \in 0 .. n
      OBVIOUS
    <3>2. Step(inc, w) \in Int /\ At(s, n) \in Int
      BY <1>4, <3>1 DEF Step, Increments
    <3>3. NonNegative(At(s, n) + Step(inc, w)) \in Int
      BY <3>2 DEF NonNegative
    <3>4. QED BY <1>4, <1>6, <2>1, <3>3
  <2>3. PICK d : d = CusumUpdate(c, inc, h, w)
    OBVIOUS
  <2>4. d.stat = x /\ d.n = n + 1 /\ d.alarmed = (x >= h)
    BY <1>5, <1>9, <2>1, <2>2, <2>3 DEF CusumUpdate
  <2>5. \A i \in 1 .. n + 1 : i \in 1 .. n \/ i = n + 1
    OBVIOUS
  <2>6. \A i \in 1 .. n : ~(r[i] >= h) /\ i # n + 1
    BY <1>6, <1>7, <1>9, <2>1
  <2>7. \A i \in 1 .. d.n : r[i] >= h <=> d.alarmed /\ i = d.n
    BY <2>2, <2>4, <2>5, <2>6
  <2>8. d.stat = At(r, d.n) /\ d.n \in 0 .. Len(us) /\ d.n > 0 /\ d.n = Len(us) /\ d.alarmed \in BOOLEAN
    BY <1>4, <2>2, <2>4 DEF At
  <2>9. QED BY <1>2, <1>3, <2>3, <2>7, <2>8 DEF CusumSays
<1>10. QED BY <1>6, <1>8, <1>9

(* The vectorised CUSUM stops where the scalar one does.                   *)
LEMMA CusumsAgree ==
  ASSUME NEW ws \in Seq(BOOLEAN), NEW inc, Increments(inc), NEW h \in Nat,
         NEW c, CusumSays(c, ws, inc, h)
  PROVE  RunCusum(ws, inc, h) = IF c.alarmed THEN c.n ELSE -1
<1>1. PICK n \in Nat : n = Len(ws)
  OBVIOUS
<1>2. PICK s \in [1 .. n -> Int] : s = Reflected(ws, inc)
  BY <1>1, ReflectedRow DEF Row
<1>3. PICK k \in 0 .. n : k = c.n
  BY <1>1 DEF CusumSays
<1>4. /\ \A i \in 1 .. k : s[i] >= h <=> c.alarmed /\ i = k
      /\ c.alarmed => k > 0
      /\ ~c.alarmed => k = n
  BY <1>1, <1>2, <1>3 DEF CusumSays
<1> DEFINE hits == [i \in DOMAIN s |-> s[i] >= h]
<1>5. RunCusum(ws, inc, h) = LET t == FirstCrossing(hits, -1) IN IF t = -1 THEN -1 ELSE t + 1
  BY <1>2 DEF RunCusum
<1>6. DOMAIN hits = 1 .. n /\ \A i \in 1 .. n : hits[i] <=> s[i] >= h
  OBVIOUS
<1> HIDE DEF hits
<1>7. CASE c.alarmed
  <2>1. k \in 1 .. n /\ k - 1 # -1 /\ k - 1 + 1 = k
    BY <1>4, <1>7
  <2>2. hits[k] /\ \A i \in 1 .. k - 1 : ~hits[i]
    <3>1. k \in 1 .. k /\ \A i \in 1 .. k - 1 : i \in 1 .. k /\ i # k /\ i \in 1 .. n
      BY <2>1
    <3>2. QED BY <1>4, <1>6, <1>7, <2>1, <3>1
  <2>3. FirstCrossing(hits, -1) = k - 1
    BY <1>6, <2>1, <2>2, CrossedAt
  <2>4. QED BY <1>3, <1>5, <1>7, <2>1, <2>3
<1>8. CASE ~c.alarmed
  <2>1. \A i \in DOMAIN hits : ~hits[i]
    BY <1>4, <1>6, <1>8
  <2>2. FirstCrossing(hits, -1) = -1
    BY <2>1, NeverCrossed
  <2>3. QED BY <1>5, <1>8, <2>2
<1>9. QED BY <1>7, <1>8 DEF CusumSays

SprtSays(t, ws, d) ==
  LET l == CumSum(ws, d) IN
    /\ t.n \in 0 .. Len(ws) /\ t.decision \in {-1, 0, 1}
    /\ t.llr = At(l, t.n)
    /\ \A i \in 1 .. t.n : /\ l[i] >= d.upper <=> t.decision = 1 /\ i = t.n
                           /\ l[i] <= d.lower <=> t.decision = -1 /\ i = t.n
    /\ t.decision # 0 => t.n > 0
    /\ t.decision = 0 => t.n = Len(ws)

Boundaries(d) == Increments(d) /\ d.lower \in Int /\ d.upper \in Int /\ d.lower < d.upper

LEMMA SprtBegins ==
  ASSUME NEW d PROVE SprtSays(FreshSprt, <<>>, d)
BY DEF SprtSays, FreshSprt, At

LEMMA SprtGoesOn ==
  ASSUME NEW ws \in Seq(BOOLEAN), NEW w \in BOOLEAN, NEW d, Boundaries(d),
         NEW t, SprtSays(t, ws, d)
  PROVE  SprtSays(SprtUpdate(t, d, w), Append(ws, w), d)
<1>1. PICK n \in Nat : n = Len(ws)
  OBVIOUS
<1>2. PICK us : us = Append(ws, w)
  OBVIOUS
<1>3. PICK l, r : l = CumSum(ws, d) /\ r = CumSum(us, d)
  OBVIOUS
<1>4. /\ Len(us) = n + 1
      /\ \A i \in 0 .. n : At(r, i) = At(l, i) /\ At(l, i) \in Int
      /\ r[n + 1] = At(l, n) + Step(d, w)
  <2>1. Increments(d)
    BY DEF Boundaries
  <2>2. Grows(ws, w, us, n, d)
    BY ONLY <1>1, <1>2, <2>1, n \in Nat, ws \in Seq(BOOLEAN), w \in BOOLEAN, Grown, Zenon
  <2>3. QED BY <1>3, <2>2 DEF Grows
<1>5. PICK k \in 0 .. n : k = t.n
  BY <1>1 DEF SprtSays
<1>6. /\ t.decision \in {-1, 0, 1} /\ t.llr = At(l, k)
      /\ \A i \in 1 .. k : /\ l[i] >= d.upper <=> t.decision = 1 /\ i = k
                           /\ l[i] <= d.lower <=> t.decision = -1 /\ i = k
      /\ t.decision # 0 => k > 0
      /\ t.decision = 0 => k = n
  BY <1>1, <1>3, <1>5 DEF SprtSays
<1>7. \A i \in 1 .. k : r[i] = l[i]
  <2>1. \A i \in 1 .. k : i \in 0 .. n /\ i # 0
    OBVIOUS
  <2>2. QED BY <1>4, <2>1 DEF At
<1>8. CASE t.decision # 0
  <2>1. SprtUpdate(t, d, w) = t
    BY <1>8 DEF SprtUpdate
  <2>2. t.n \in 0 .. Len(us) /\ t.llr = At(r, t.n)
    BY <1>4, <1>5, <1>6
  <2>3. \A i \in 1 .. t.n : /\ r[i] >= d.upper <=> t.decision = 1 /\ i = t.n
                            /\ r[i] <= d.lower <=> t.decision = -1 /\ i = t.n
    BY <1>5, <1>6, <1>7
  <2>4. QED BY <1>2, <1>3, <1>5, <1>6, <1>8, <2>1, <2>2, <2>3 DEF SprtSays
<1>9. CASE t.decision = 0
  <2>1. k = n
    BY <1>6, <1>9
  <2>2. PICK x \in Int : x = r[n + 1] /\ x = t.llr + Step(d, w)
    <3>1. n \in 0 .. n
      OBVIOUS
    <3>2. Step(d, w) \in Int /\ At(l, n) \in Int
      BY <1>4, <3>1 DEF Step, Increments, Boundaries
    <3>3. QED BY <1>4, <1>6, <2>1, <3>2
  <2>3. PICK e : e = SprtUpdate(t, d, w)
    OBVIOUS
  <2>4. /\ e.llr = x /\ e.n = n + 1
        /\ e.decision = CASE x >= d.upper -> 1 [] x <= d.lower -> -1 [] OTHER -> 0
    BY <1>5, <1>9, <2>1, <2>2, <2>3 DEF SprtUpdate
  <2>5. /\ e.decision \in {-1, 0, 1}
        /\ x >= d.upper <=> e.decision = 1
        /\ x <= d.lower <=> e.decision = -1
    BY <2>4 DEF Boundaries
  <2>6. \A i \in 1 .. n + 1 : i \in 1 .. n \/ i = n + 1
    OBVIOUS
  <2>7. \A i \in 1 .. n : ~(r[i] >= d.upper) /\ ~(r[i] <= d.lower) /\ i # n + 1
    BY <1>6, <1>7, <1>9, <2>1
  <2>8. \A i \in 1 .. e.n : /\ r[i] >= d.upper <=> e.decision = 1 /\ i = e.n
                            /\ r[i] <= d.lower <=> e.decision = -1 /\ i = e.n
    BY <2>2, <2>4, <2>5, <2>6, <2>7
  <2>9. e.llr = At(r, e.n) /\ e.n \in 0 .. Len(us) /\ e.n > 0 /\ e.n = Len(us)
    BY <1>4, <2>2, <2>4 DEF At
  <2>10. QED BY <1>2, <1>3, <2>3, <2>5, <2>8, <2>9 DEF SprtSays
<1>10. QED BY <1>8, <1>9

(* The vectorised SPRT decides as the scalar one does, and where.          *)
LEMMA SprtsAgree ==
  ASSUME NEW ws \in Seq(BOOLEAN), NEW d, Boundaries(d), NEW t, SprtSays(t, ws, d)
  PROVE  RunSprt(ws, d).decision = t.decision /\ RunSprt(ws, d).stop = t.n
<1>1. PICK n \in Nat : n = Len(ws)
  OBVIOUS
<1>2. PICK l \in [1 .. n -> Int] : l = CumSum(ws, d)
  BY <1>1, SumsRow DEF Row, Boundaries
<1>3. PICK k \in 0 .. n : k = t.n
  BY <1>1 DEF SprtSays
<1>4. /\ t.decision \in {-1, 0, 1}
      /\ \A i \in 1 .. k : /\ l[i] >= d.upper <=> t.decision = 1 /\ i = k
                           /\ l[i] <= d.lower <=> t.decision = -1 /\ i = k
      /\ t.decision # 0 => k > 0
      /\ t.decision = 0 => k = n
  BY <1>1, <1>2, <1>3 DEF SprtSays
<1> DEFINE ups == [i \in 1 .. n |-> l[i] >= d.upper]
           downs == [i \in 1 .. n |-> l[i] <= d.lower]
           up == FirstCrossing(ups, n)
           down == FirstCrossing(downs, n)
<1>5. RunSprt(ws, d) =
        LET stop == IF up < down THEN up ELSE down
        IN [decision |-> IF stop < n THEN (IF up < down THEN 1 ELSE -1) ELSE 0,
            stop |-> IF stop < n THEN stop + 1 ELSE n]
  BY <1>1, <1>2 DEF RunSprt
<1>6. /\ DOMAIN ups = 1 .. n /\ DOMAIN downs = 1 .. n
      /\ \A i \in 1 .. n : (ups[i] <=> l[i] >= d.upper) /\ (downs[i] <=> l[i] <= d.lower)
  OBVIOUS
<1> HIDE DEF ups, downs
<1>7. \A i \in 1 .. k : i \in 1 .. n
  OBVIOUS
<1>8. CASE t.decision = 1
  <2>1. k \in 1 .. n /\ k \in 1 .. k /\ k - 1 \in Int /\ k - 1 < k /\ k - 1 < n /\ k - 1 + 1 = k
    BY <1>4, <1>8
  <2>2. \A i \in 1 .. k - 1 : i \in 1 .. k /\ i # k
    BY <2>1
  <2>3. ups[k] /\ \A i \in 1 .. k - 1 : ~ups[i]
    BY <1>4, <1>6, <1>7, <1>8, <2>1, <2>2
  <2>4. up = k - 1
    BY <1>6, <2>1, <2>3, CrossedAt
  <2>5. \A i \in 1 .. k : ~downs[i]
    BY <1>4, <1>6, <1>7, <1>8
  <2>6. down \in k .. n
    BY <1>6, <2>5, CrossedLater
  <2> HIDE DEF up, down
  <2>7. up < down
    BY <2>1, <2>4, <2>6
  <2>8. RunSprt(ws, d) = [decision |-> 1, stop |-> k]
    BY <1>5, <2>1, <2>4, <2>7
  <2>9. QED BY <1>3, <1>8, <2>8
<1>9. CASE t.decision = -1
  <2>1. k \in 1 .. n /\ k \in 1 .. k /\ k - 1 \in Int /\ k - 1 < k /\ k - 1 < n /\ k - 1 + 1 = k
    BY <1>4, <1>9
  <2>2. \A i \in 1 .. k - 1 : i \in 1 .. k /\ i # k
    BY <2>1
  <2>3. downs[k] /\ \A i \in 1 .. k - 1 : ~downs[i]
    BY <1>4, <1>6, <1>7, <1>9, <2>1, <2>2
  <2>4. down = k - 1
    BY <1>6, <2>1, <2>3, CrossedAt
  <2>5. \A i \in 1 .. k : ~ups[i]
    BY <1>4, <1>6, <1>7, <1>9
  <2>6. up \in k .. n
    BY <1>6, <2>5, CrossedLater
  <2> HIDE DEF up, down
  <2>7. ~(up < down)
    BY <2>1, <2>4, <2>6
  <2>8. RunSprt(ws, d) = [decision |-> -1, stop |-> k]
    BY <1>5, <2>1, <2>4, <2>7
  <2>9. QED BY <1>3, <1>9, <2>8
<1>10. CASE t.decision = 0
  <2>1. \A i \in 1 .. n : ~ups[i] /\ ~downs[i]
    BY <1>4, <1>6, <1>10
  <2>2. up = n
    BY <1>6, <2>1, NeverCrossed
  <2>3. down = n
    BY <1>6, <2>1, NeverCrossed
  <2> HIDE DEF up, down
  <2>4. RunSprt(ws, d) = [decision |-> 0, stop |-> n]
    BY <1>5, <2>2, <2>3
  <2>5. QED BY <1>3, <1>4, <1>10, <2>4
<1>11. QED BY <1>4, <1>8, <1>9, <1>10

-----------------------------------------------------------------------------
(* The anytime tests count the wins.                                       *)
LEMMA CountGrows ==
  ASSUME NEW ws \in Seq(BOOLEAN), NEW w \in BOOLEAN
  PROVE  Count(Append(ws, w)) = Count(ws) + (IF w THEN 1 ELSE 0) /\ Count(ws) \in Nat
<1> DEFINE us == Append(ws, w)
           m == Len(ws) + 1
           S == {i \in DOMAIN ws : ws[i]}
           U == {i \in DOMAIN us : us[i]}
<1>1. IsFiniteSet(S) /\ Cardinality(S) \in Nat
  <2>1. IsFiniteSet(1 .. Len(ws))
    BY FS_Interval
  <2>2. S \subseteq 1 .. Len(ws)
    OBVIOUS
  <2>3. QED BY <2>1, <2>2, FS_Subset, FS_CardinalityType
<1>2. DOMAIN ws = 1 .. Len(ws) /\ DOMAIN us = 1 .. m /\ us[m] = w /\ \A i \in 1 .. Len(ws) : us[i] = ws[i]
  OBVIOUS
<1>3. m \notin S /\ m \in 1 .. m /\ Len(ws) \in Nat
  OBVIOUS
<1>4. \A i : i \in 1 .. m <=> i \in 1 .. Len(ws) \/ i = m
  OBVIOUS
<1>5. CASE w
  <2>1. U = S \cup {m}
    <3> HIDE DEF m, us
    <3>1. QED BY <1>2, <1>4, <1>5
  <2>2. Cardinality(S \cup {m}) = Cardinality(S) + 1
    <3> HIDE DEF S
    <3>1. QED BY <1>1, <1>3, FS_AddElement
  <2>3. QED BY <1>1, <1>5, <2>1, <2>2 DEF Count
<1>6. CASE ~w
  <2>1. U = S
    <3> HIDE DEF m, us
    <3>1. QED BY <1>2, <1>3, <1>4, <1>6
  <2>2. Count(us) = Cardinality(S) /\ Count(ws) = Cardinality(S)
    BY <2>1 DEF Count
  <2>3. (IF w THEN 1 ELSE 0) = 0
    BY <1>6
  <2> HIDE DEF S, U, us
  <2>4. Count(us) = Count(ws) + 0 /\ Count(ws) \in Nat
    BY <1>1, <2>2
  <2>5. QED BY <2>3, <2>4 DEF us
<1>7. QED BY <1>5, <1>6

TestSays(t, ws, d) ==
  /\ t.n \in 0 .. Len(ws) /\ t.rejected \in BOOLEAN
  /\ t.successes = Count(SubSeq(ws, 1, t.n))
  /\ \A i \in 1 .. t.n : Count(SubSeq(ws, 1, i)) >= d.bar[i] <=> t.rejected /\ i = t.n
  /\ t.rejected => t.n > 0
  /\ ~t.rejected => t.n = Len(ws)

LEMMA TestBegins ==
  ASSUME NEW d PROVE TestSays(FreshTest, <<>>, d)
<1>1. SubSeq(<<>>, 1, 0) = <<>>
  OBVIOUS
<1>2. {i \in DOMAIN <<>> : <<>>[i]} = {}
  OBVIOUS
<1>3. Count(<<>>) = 0
  BY <1>2, FS_EmptySet DEF Count
<1>4. PICK t : t = FreshTest
  OBVIOUS
<1>5. t.n = 0 /\ t.rejected = FALSE /\ t.successes = 0
  BY <1>4 DEF FreshTest
<1>6. t.successes = Count(SubSeq(<<>>, 1, t.n))
  BY <1>1, <1>3, <1>5
<1>7. t.n \in 0 .. Len(<<>>) /\ t.n = Len(<<>>) /\ 1 .. t.n = {}
  BY <1>5
<1>8. QED BY <1>4, <1>5, <1>6, <1>7 DEF TestSays

LEMMA TestGoesOn ==
  ASSUME NEW ws \in Seq(BOOLEAN), NEW w \in BOOLEAN, NEW d, NEW t, TestSays(t, ws, d)
  PROVE  TestSays(TestUpdate(t, d, w), Append(ws, w), d)
<1>1. PICK n \in Nat : n = Len(ws)
  OBVIOUS
<1>2. PICK us : us = Append(ws, w)
  OBVIOUS
<1> DEFINE K(i) == Count(SubSeq(ws, 1, i))
           L(i) == Count(SubSeq(us, 1, i))
<1>3. /\ Len(us) = n + 1
      /\ \A i \in 0 .. n : L(i) = K(i)
      /\ L(n + 1) = K(n) + (IF w THEN 1 ELSE 0)
  <2> HIDE DEF K, L
  <2>0. /\ \A i \in 0 .. Len(ws) : SubSeq(Append(ws, w), 1, i) = SubSeq(ws, 1, i)
        /\ SubSeq(ws, 1, Len(ws)) = ws
        /\ SubSeq(Append(ws, w), 1, Len(ws) + 1) = Append(ws, w)
        /\ Len(Append(ws, w)) = Len(ws) + 1
    BY ONLY ws \in Seq(BOOLEAN), w \in BOOLEAN
  <2>1. Len(us) = n + 1 /\ \A i \in 0 .. n : SubSeq(us, 1, i) = SubSeq(ws, 1, i)
    BY ONLY <1>1, <1>2, <2>0, Zenon
  <2>2. SubSeq(us, 1, n + 1) = us /\ SubSeq(ws, 1, n) = ws
    BY ONLY <1>1, <1>2, <2>0, Zenon
  <2>3. Count(us) = Count(ws) + (IF w THEN 1 ELSE 0)
    BY <1>2, CountGrows, Zenon
  <2>4. QED BY <2>1, <2>2, <2>3, Zenon DEF K, L
<1>4. PICK k \in 0 .. n : k = t.n
  BY <1>1 DEF TestSays
<1>5. /\ t.rejected \in BOOLEAN /\ t.successes = K(k)
      /\ \A i \in 1 .. k : K(i) >= d.bar[i] <=> t.rejected /\ i = k
      /\ t.rejected => k > 0
      /\ ~t.rejected => k = n
  BY <1>1, <1>4 DEF TestSays
<1>6. \A e : /\ e.n \in 0 .. n + 1 /\ e.rejected \in BOOLEAN /\ e.successes = L(e.n)
             /\ \A i \in 1 .. e.n : L(i) >= d.bar[i] <=> e.rejected /\ i = e.n
             /\ e.rejected => e.n > 0
             /\ ~e.rejected => e.n = n + 1
             => TestSays(e, us, d)
  BY <1>3 DEF TestSays
<1> HIDE DEF K, L
<1>7. CASE t.rejected
  <2>1. TestUpdate(t, d, w) = t
    BY <1>7 DEF TestUpdate
  <2>2. \A i \in 1 .. k : i \in 0 .. n
    OBVIOUS
  <2>3. k \in 0 .. n + 1
    OBVIOUS
  <2>4. \A i \in 1 .. k : L(i) >= d.bar[i] <=> t.rejected /\ i = k
    BY <1>3, <1>5, <2>2
  <2>5. TestSays(t, us, d)
    BY <1>3, <1>4, <1>5, <1>6, <1>7, <2>3, <2>4
  <2>6. QED BY <1>2, <2>1, <2>5
<1>8. CASE ~t.rejected
  <2>1. k = n
    BY <1>5, <1>8
  <2>2. PICK e : e = TestUpdate(t, d, w)
    OBVIOUS
  <2>3. e.successes = L(n + 1) /\ e.n = n + 1 /\ e.rejected = (L(n + 1) >= d.bar[n + 1])
    BY <1>3, <1>4, <1>5, <1>8, <2>1, <2>2 DEF TestUpdate
  <2>4. \A i \in 1 .. n + 1 : (i \in 1 .. n /\ i \in 0 .. n) \/ i = n + 1
    OBVIOUS
  <2>5. \A i \in 1 .. n : ~(L(i) >= d.bar[i]) /\ i # n + 1
    BY <1>3, <1>5, <1>8, <2>1, <2>4
  <2>6. \A i \in 1 .. e.n : L(i) >= d.bar[i] <=> e.rejected /\ i = e.n
    BY <2>3, <2>4, <2>5
  <2>7. e.n \in 0 .. n + 1 /\ e.n > 0 /\ e.rejected \in BOOLEAN /\ e.n = n + 1
    BY <2>3
  <2>8. TestSays(e, us, d)
    BY <1>6, <2>3, <2>6, <2>7
  <2>9. QED BY <1>2, <2>2, <2>8
<1>9. QED BY <1>5, <1>7, <1>8

LEMMA TestsAgree ==
  ASSUME NEW ws \in Seq(BOOLEAN), NEW d, NEW t, TestSays(t, ws, d)
  PROVE  RunTest(ws, d) = IF t.rejected THEN t.n ELSE -1
<1>1. PICK n \in Nat : n = Len(ws)
  OBVIOUS
<1>2. PICK k \in 0 .. n : k = t.n
  BY <1>1 DEF TestSays
<1> DEFINE hits == [i \in 1 .. n |-> Count(SubSeq(ws, 1, i)) >= d.bar[i]]
<1>3. RunTest(ws, d) = LET u == FirstCrossing(hits, n) IN IF u = n THEN -1 ELSE u + 1
  BY <1>1 DEF RunTest
<1>4. DOMAIN hits = 1 .. n
  OBVIOUS
<1>5. \A i \in 1 .. k : i \in 1 .. n
  OBVIOUS
<1>6. /\ \A i \in 1 .. k : hits[i] <=> t.rejected /\ i = k
      /\ t.rejected => k > 0
      /\ ~t.rejected => k = n
  BY <1>1, <1>2, <1>5 DEF TestSays
<1> HIDE DEF hits
<1>7. CASE t.rejected
  <2>1. k \in 1 .. n /\ k \in 1 .. k /\ k - 1 # n /\ k - 1 + 1 = k /\ \A i \in 1 .. k - 1 : i \in 1 .. k /\ i # k
    BY <1>6, <1>7
  <2>2. hits[k] /\ \A i \in 1 .. k - 1 : ~hits[i]
    BY <1>6, <1>7, <2>1
  <2>3. FirstCrossing(hits, n) = k - 1
    BY <1>4, <2>1, <2>2, CrossedAt
  <2>4. QED BY <1>2, <1>3, <1>7, <2>1, <2>3
<1>8. CASE ~t.rejected
  <2>1. \A i \in DOMAIN hits : ~hits[i]
    BY <1>4, <1>6, <1>8
  <2>2. FirstCrossing(hits, n) = n
    BY <2>1, NeverCrossed
  <2>3. QED BY <1>3, <1>8, <2>2
<1>9. QED BY <1>7, <1>8 DEF TestSays

(* The design in use, its numbers typed.                                   *)
LEMMA DesignFacts ==
  ASSUME NEW d \in Designs
  PROVE  /\ Boundaries(d) /\ d.h \in Nat
         /\ Increments(Baseline(d))
<1>1. d \in Design /\ d.lower < d.upper
  BY DesignAssumption
<1>2. Boundaries(d) /\ d.h \in Nat
  BY <1>1 DEF Design, Boundaries, Increments
<1>3. Rebaseline \div 2 \in 0 .. Rebaseline
  <2>1. Rebaseline \in Nat \ {0}
    BY SizesAssumption
  <2>2. QED BY ONLY <2>1
<1>4. d.inc \in [0 .. Rebaseline -> [win : Int, loss : Int]]
  BY <1>1 DEF Design
<1>5. d.inc[Rebaseline \div 2] \in [win : Int, loss : Int]
  BY ONLY <1>3, <1>4, Zenon
<1>6. \A b \in [win : Int, loss : Int] : Increments(b)
  BY DEF Increments
<1>7. Increments(Baseline(d))
  BY <1>5, <1>6, Zenon DEF Baseline
<1>8. QED BY <1>2, <1>7

(* Each test has seen the verdicts since the last reset.                   *)
TestsSay ==
  /\ design \in Designs /\ wins \in Seq(BOOLEAN)
  /\ CusumSays(cusum, wins, Baseline(design), design.h)
  /\ SprtSays(sprt, wins, design)
  /\ TestSays(anytime, wins, design)

LEMMA TestsSayInit ==
  ASSUME DetectorsInit PROVE TestsSay
<1>1. CusumSays(FreshCusum, <<>>, Baseline(design), design.h)
  BY CusumBegins
<1>2. SprtSays(FreshSprt, <<>>, design) /\ TestSays(FreshTest, <<>>, design)
  BY SprtBegins, TestBegins
<1>3. <<>> \in Seq(BOOLEAN)
  OBVIOUS
<1>4. QED BY <1>1, <1>2, <1>3, Zenon DEF DetectorsInit, TestsSay

LEMMA TestsSayObserve ==
  ASSUME TestsSay, NEW a \in Arms, NEW win \in BOOLEAN, Observe(a, win)
  PROVE  TestsSay'
<1>1. PICK d, ws, c, s, t : d = design /\ ws = wins /\ c = cusum /\ s = sprt /\ t = anytime
  OBVIOUS
<1>2. /\ d \in Designs /\ ws \in Seq(BOOLEAN)
      /\ CusumSays(c, ws, Baseline(d), d.h) /\ SprtSays(s, ws, d) /\ TestSays(t, ws, d)
  BY <1>1 DEF TestsSay
<1>3. /\ design' = d /\ wins' = Append(ws, win) /\ cusum' = CusumUpdate(c, Baseline(d), d.h, win)
      /\ sprt' = SprtUpdate(s, d, win) /\ anytime' = TestUpdate(t, d, win)
  BY <1>1, Zenon DEF Observe
<1>4. Boundaries(d) /\ d.h \in Nat /\ Increments(Baseline(d))
  BY <1>2, DesignFacts
<1>5. CusumSays(CusumUpdate(c, Baseline(d), d.h, win), Append(ws, win), Baseline(d), d.h)
  <2>1. PICK inc, h : inc = Baseline(d) /\ h = d.h
    OBVIOUS
  <2>2. CusumSays(c, ws, inc, h)
    BY <1>2, <2>1
  <2>3. Increments(inc)
    BY <1>4, <2>1
  <2>4. h \in Nat
    BY <1>4, <2>1
  <2>5. ws \in Seq(BOOLEAN)
    BY <1>2
  <2>6. CusumSays(CusumUpdate(c, inc, h, win), Append(ws, win), inc, h)
    BY ONLY <2>2, <2>3, <2>4, <2>5, win \in BOOLEAN, CusumGoesOn, Zenon
  <2>7. QED BY <2>1, <2>6
<1>6. SprtSays(SprtUpdate(s, d, win), Append(ws, win), d)
  BY <1>2, <1>4, SprtGoesOn, Zenon
<1>7. TestSays(TestUpdate(t, d, win), Append(ws, win), d)
  BY <1>2, TestGoesOn, Zenon
<1>8. Append(ws, win) \in Seq(BOOLEAN)
  BY <1>2
<1>9. QED BY <1>2, <1>3, <1>5, <1>6, <1>7, <1>8, Zenon DEF TestsSay

LEMMA TestsSayReset ==
  ASSUME TestsSay, Reset
  PROVE  TestsSay'
<1>1. PICK d : d = design
  OBVIOUS
<1>2. d \in Designs
  BY <1>1 DEF TestsSay
<1>3. design' = d /\ wins' = <<>> /\ cusum' = FreshCusum /\ sprt' = FreshSprt /\ anytime' = FreshTest
  BY <1>1 DEF Reset, CusumReset
<1>4. CusumSays(FreshCusum, <<>>, Baseline(d), d.h)
  BY CusumBegins
<1>5. SprtSays(FreshSprt, <<>>, d) /\ TestSays(FreshTest, <<>>, d)
  BY SprtBegins, TestBegins
<1>6. <<>> \in Seq(BOOLEAN)
  OBVIOUS
<1>7. QED BY <1>2, <1>3, <1>4, <1>5, <1>6, Zenon DEF TestsSay

LEMMA TestsSayAgree ==
  ASSUME TestsSay PROVE BatchIsScalar
<1>1. PICK d, ws, c, s, t : d = design /\ ws = wins /\ c = cusum /\ s = sprt /\ t = anytime
  OBVIOUS
<1>2. /\ d \in Designs /\ ws \in Seq(BOOLEAN)
      /\ CusumSays(c, ws, Baseline(d), d.h) /\ SprtSays(s, ws, d) /\ TestSays(t, ws, d)
  BY <1>1 DEF TestsSay
<1>3. Boundaries(d) /\ d.h \in Nat /\ Increments(Baseline(d))
  BY <1>2, DesignFacts
<1>4. RunCusum(ws, Baseline(d), d.h) = IF c.alarmed THEN c.n ELSE -1
  <2>1. PICK inc, h : inc = Baseline(d) /\ h = d.h
    OBVIOUS
  <2>2. CusumSays(c, ws, inc, h)
    BY <1>2, <2>1
  <2>3. Increments(inc)
    BY <1>3, <2>1
  <2>4. h \in Nat
    BY <1>3, <2>1
  <2>5. ws \in Seq(BOOLEAN)
    BY <1>2
  <2>6. RunCusum(ws, inc, h) = IF c.alarmed THEN c.n ELSE -1
    BY ONLY <2>2, <2>3, <2>4, <2>5, CusumsAgree, Zenon
  <2>7. QED BY <2>1, <2>6
<1>5. RunSprt(ws, d).decision = s.decision /\ RunSprt(ws, d).stop = s.n
  BY <1>2, <1>3, SprtsAgree, Zenon
<1>6. RunTest(ws, d) = IF t.rejected THEN t.n ELSE -1
  BY <1>2, TestsAgree, Zenon
<1>7. QED BY <1>1, <1>4, <1>5, <1>6, Zenon DEF BatchIsScalar

(* The tests hold the evidence they were given, whatever comes and however *)
(* often they are reset.                                                   *)
LEMMA TestsAlwaysSay == DetectorsSpec => []TestsSay
<1>1. DetectorsInit => TestsSay
  BY TestsSayInit
<1>2. TestsSay /\ [DetectorsNext]_detectorVars => TestsSay'
  <2>1. SUFFICES ASSUME TestsSay, [DetectorsNext]_detectorVars PROVE TestsSay'
    OBVIOUS
  <2>2. CASE UNCHANGED detectorVars
    BY <2>1, <2>2, Zenon DEF TestsSay, detectorVars
  <2>3. ASSUME NEW a \in Arms, NEW win \in BOOLEAN, Observe(a, win) PROVE TestsSay'
    BY <2>1, <2>3, TestsSayObserve
  <2>4. CASE Reset
    BY <2>1, <2>4, TestsSayReset
  <2>5. QED BY <2>1, <2>2, <2>3, <2>4 DEF DetectorsNext
<1>3. QED BY <1>1, <1>2, PTL DEF DetectorsSpec

(* The vectorised tests of the simulations and the scalar ones of the      *)
(* online monitors are the same tests: for any designs, any number of      *)
(* verdicts, any number of wins and losses in any order and resets in      *)
(* between, run_sprt_batch, run_cusum_batch and the batches of the anytime *)
(* tests (src/coalmine/sim/runner.py) give the decision and the verdict    *)
(* that update() of src/coalmine/stats gives.                              *)
THEOREM BatchAgreesExactly == DetectorsSpec => []BatchIsScalar
<1>1. TestsSay => BatchIsScalar
  BY TestsSayAgree
<1>2. QED BY <1>1, TestsAlwaysSay, PTL

(***************************************************************************)
(* The gate on drift.  The walk over the verdicts is unrolled into one     *)
(* step per verdict; the walks it goes through before the gate, while it   *)
(* takes the new baseline and after that are each the test of their part   *)
(* of the evidence.                                                        *)
(***************************************************************************)

(* A slice of the verdicts, one verdict longer.                            *)
LEMMA SliceGrows ==
  ASSUME NEW ws \in Seq(BOOLEAN), NEW a \in Nat \ {0}, NEW b \in Nat, a <= b + 1, b + 1 <= Len(ws)
  PROVE  /\ SubSeq(ws, a, b + 1) = Append(SubSeq(ws, a, b), ws[b + 1])
         /\ SubSeq(ws, a, b) \in Seq(BOOLEAN) /\ Len(SubSeq(ws, a, b)) = b + 1 - a
         /\ ws[b + 1] \in BOOLEAN
<1> DEFINE s == SubSeq(ws, a, b)
           t == SubSeq(ws, a, b + 1)
<1>1. s \in Seq(BOOLEAN) /\ Len(s) = b + 1 - a
  OBVIOUS
<1>2. t \in Seq(BOOLEAN) /\ Len(t) = b + 2 - a
  OBVIOUS
<1>3. ws[b + 1] \in BOOLEAN
  OBVIOUS
<1>4. \A k \in 1 .. b + 2 - a : t[k] = Append(s, ws[b + 1])[k]
  <2>1. SUFFICES ASSUME NEW k \in 1 .. b + 2 - a PROVE t[k] = Append(s, ws[b + 1])[k]
    OBVIOUS
  <2>2. t[k] = ws[a + k - 1]
    OBVIOUS
  <2>3. CASE k = b + 2 - a
    <3>1. a + k - 1 = b + 1 /\ k = Len(s) + 1
      BY <1>1, <2>3
    <3>2. Append(s, ws[b + 1])[k] = ws[b + 1]
      <4> HIDE DEF s
      <4>1. QED BY <1>1, <3>1
    <3>3. QED BY <2>2, <3>1, <3>2
  <2>4. CASE k # b + 2 - a
    <3>1. k \in 1 .. b + 1 - a
      BY <2>4
    <3>2. s[k] = ws[a + k - 1]
      BY <3>1
    <3>3. Append(s, ws[b + 1])[k] = s[k]
      <4> HIDE DEF s
      <4>1. QED BY <1>1, <3>1
    <3>4. QED BY <2>2, <3>2, <3>3
  <2>5. QED BY <2>3, <2>4
<1>5. Append(s, ws[b + 1]) \in Seq(BOOLEAN) /\ Len(Append(s, ws[b + 1])) = b + 2 - a
  <2> HIDE DEF s
  <2>1. QED BY <1>1, <1>3
<1>6. t = Append(s, ws[b + 1])
  <2> HIDE DEF s, t
  <2>1. QED BY <1>2, <1>4, <1>5
<1>7. QED BY <1>1, <1>3, <1>6

-----------------------------------------------------------------------------
(* One verdict of the gated walk.                                          *)
Stepped(w, d, gate, i, win) ==
  LET g == Gated(w, i, gate) IN
    CASE w.alarm # 0 -> w
      [] w.alarm = 0 /\ g.mode = "estimate" -> Estimate(g, d, win)
      [] OTHER -> Watch(g, d, i, win)

(* What a walk may be.                                                     *)
Walks == [mode : {"run", "estimate", "run2"}, inc : [win : Int, loss : Int],
          det : [stat : Int, n : Nat, alarmed : BOOLEAN], taken : Seq(BOOLEAN), alarm : Nat]

(* An update keeps the types.                                              *)
LEMMA CusumType ==
  ASSUME NEW c \in [stat : Int, n : Nat, alarmed : BOOLEAN], NEW inc \in [win : Int, loss : Int],
         NEW h \in Nat, NEW win \in BOOLEAN
  PROVE  CusumUpdate(c, inc, h, win) \in [stat : Int, n : Nat, alarmed : BOOLEAN]
<1>1. Step(inc, win) \in Int
  BY DEF Step
<1>2. NonNegative(c.stat + Step(inc, win)) \in Int
  BY <1>1 DEF NonNegative
<1>3. QED BY <1>2 DEF CusumUpdate

LEMMA FreshType ==
  FreshCusum \in [stat : Int, n : Nat, alarmed : BOOLEAN] /\ ~FreshCusum.alarmed
BY DEF FreshCusum

LEMMA DesignIncs ==
  ASSUME NEW d \in Designs
  PROVE  /\ d.inc \in [0 .. Rebaseline -> [win : Int, loss : Int]] /\ d.h \in Nat
         /\ Baseline(d) \in [win : Int, loss : Int] /\ Rebaseline \in Nat \ {0}
<1>1. d \in Design /\ Rebaseline \in Nat \ {0}
  BY DesignAssumption, SizesAssumption
<1>2. d.inc \in [0 .. Rebaseline -> [win : Int, loss : Int]] /\ d.h \in Nat
  BY <1>1 DEF Design
<1>3. Rebaseline \div 2 \in 0 .. Rebaseline
  BY ONLY <1>1
<1>4. Baseline(d) \in [win : Int, loss : Int]
  BY ONLY <1>2, <1>3, Zenon DEF Baseline
<1>5. QED BY <1>1, <1>2, <1>4

(* The wins of a baseline are a number between none and all of it.         *)
LEMMA CountBounds ==
  ASSUME NEW ws \in Seq(BOOLEAN)
  PROVE  Count(ws) \in 0 .. Len(ws)
<1> DEFINE S == {i \in DOMAIN ws : ws[i]}
<1>1. PICK n \in Nat : n = Len(ws)
  OBVIOUS
<1>2. IsFiniteSet(1 .. n) /\ Cardinality(1 .. n) = n
  BY FS_Interval
<1>3. S \subseteq 1 .. n
  BY <1>1
<1>4. Cardinality(S) \in Nat /\ Cardinality(S) <= n
  <2> HIDE DEF S
  <2>1. QED BY <1>2, <1>3, FS_Subset, FS_CardinalityType
<1>5. Count(ws) = Cardinality(S)
  BY DEF Count
<1>6. QED BY <1>1, <1>4, <1>5

(* The walk begins with the design's own baseline.                         *)
LEMMA WalkStarts ==
  ASSUME NEW d \in Designs
  PROVE  StartWalk(d) \in Walks
<1>1. Baseline(d) \in [win : Int, loss : Int]
  BY DesignIncs
<1>2. QED BY <1>1, FreshType DEF StartWalk, Walks

(* The walk reaches the gate, or is past it, or not there yet.             *)
LEMMA GatedIs ==
  ASSUME NEW w \in Walks, NEW i, NEW gate
  PROVE  LET g == Gated(w, i, gate) IN
           /\ g \in Walks /\ g.taken = w.taken /\ g.inc = w.inc /\ g.alarm = w.alarm
           /\ (w.mode = "run" /\ i >= gate) => g.mode = "estimate"
           /\ ~(w.mode = "run" /\ i >= gate) => g = w
<1>1. CASE w.mode = "run" /\ i >= gate
  <2>1. Gated(w, i, gate) = [w EXCEPT !.mode = "estimate", !.det = FreshCusum]
    BY <1>1 DEF Gated, CusumReset
  <2>2. QED BY <1>1, <2>1, FreshType DEF Walks
<1>2. CASE ~(w.mode = "run" /\ i >= gate)
  <2>1. Gated(w, i, gate) = w
    BY <1>2 DEF Gated
  <2>2. QED BY <1>2, <2>1
<1>3. QED BY <1>1, <1>2

(* One verdict of the new baseline: the last one starts the test afresh.   *)
LEMMA EstimateIs ==
  ASSUME NEW w \in Walks, NEW d \in Designs, NEW win \in BOOLEAN
  PROVE  LET v == Estimate(w, d, win)
             r == Append(w.taken, win)
         IN /\ v \in Walks /\ v.taken = r /\ v.alarm = w.alarm
            /\ Len(r) < Rebaseline => v.mode = w.mode
            /\ Len(r) >= Rebaseline =>
                 /\ v.mode = "run2" /\ v.det = FreshCusum
                 /\ v.inc = d.inc[Count(SubSeq(r, 1, Rebaseline))]
<1>1. PICK r : r = Append(w.taken, win)
  OBVIOUS
<1>2. r \in Seq(BOOLEAN) /\ Len(r) \in Nat /\ Rebaseline \in Nat
  BY <1>1, DesignIncs DEF Walks
<1>3. CASE Len(r) < Rebaseline
  <2>1. Estimate(w, d, win) = [w EXCEPT !.taken = r]
    BY <1>1, <1>3 DEF Estimate
  <2>2. PICK v : v = [w EXCEPT !.taken = r]
    OBVIOUS
  <2>3. v \in Walks
    BY <1>2, <2>2 DEF Walks
  <2>4. v.taken = r /\ v.alarm = w.alarm /\ v.mode = w.mode
    BY <2>2 DEF Walks
  <2>5. Estimate(w, d, win) = v
    BY <2>1, <2>2
  <2>6. QED BY ONLY <1>1, <1>2, <1>3, <2>3, <2>4, <2>5
<1>4. CASE Len(r) >= Rebaseline
  <2>1. PICK inc : inc = d.inc[Count(SubSeq(r, 1, Rebaseline))]
    OBVIOUS
  <2>2. Estimate(w, d, win) = [w EXCEPT !.taken = r, !.inc = inc, !.det = FreshCusum, !.mode = "run2"]
    BY <1>1, <1>2, <1>4, <2>1 DEF Estimate, Resumed
  <2>3. inc \in [win : Int, loss : Int]
    <3>1. PICK s : s = SubSeq(r, 1, Rebaseline)
      OBVIOUS
    <3>2. s \in Seq(BOOLEAN) /\ Len(s) = Rebaseline
      BY <1>2, <1>4, <3>1
    <3>3. Count(s) \in 0 .. Rebaseline
      BY <3>2, CountBounds
    <3>4. QED BY <2>1, <3>1, <3>3, DesignIncs
  <2>4. PICK v : v = [w EXCEPT !.taken = r, !.inc = inc, !.det = FreshCusum, !.mode = "run2"]
    OBVIOUS
  <2>5. v \in Walks
    BY <1>2, <2>3, <2>4, FreshType DEF Walks
  <2>6. v.taken = r /\ v.alarm = w.alarm /\ v.mode = "run2" /\ v.det = FreshCusum /\ v.inc = inc
    BY <2>4 DEF Walks
  <2>7. Estimate(w, d, win) = v
    BY <2>2, <2>4
  <2>8. QED BY ONLY <1>1, <1>2, <1>4, <2>1, <2>5, <2>6, <2>7
<1>5. QED BY <1>2, <1>3, <1>4

(* One verdict of the test.                                                *)
LEMMA WatchIs ==
  ASSUME NEW w \in Walks, NEW d \in Designs, NEW i \in Nat, NEW win \in BOOLEAN
  PROVE  LET v == Watch(w, d, i, win)
             c == CusumUpdate(w.det, w.inc, d.h, win)
         IN /\ v \in Walks /\ v.det = c /\ v.inc = w.inc /\ v.mode = w.mode /\ v.taken = w.taken
            /\ v.alarm = IF c.alarmed THEN i ELSE 0
<1>1. PICK c : c = CusumUpdate(w.det, w.inc, d.h, win)
  OBVIOUS
<1>2. c \in [stat : Int, n : Nat, alarmed : BOOLEAN]
  <2>1. w.det \in [stat : Int, n : Nat, alarmed : BOOLEAN] /\ w.inc \in [win : Int, loss : Int]
    BY DEF Walks
  <2>2. QED BY <1>1, <2>1, CusumType, DesignIncs
<1>3. Watch(w, d, i, win) = [w EXCEPT !.det = c, !.alarm = IF c.alarmed THEN i ELSE 0]
  BY <1>1 DEF Watch
<1>4. PICK a \in Nat : a = IF c.alarmed THEN i ELSE 0
  OBVIOUS
<1>5. PICK v : v = [w EXCEPT !.det = c, !.alarm = a]
  OBVIOUS
<1>6. v \in Walks
  BY <1>2, <1>5 DEF Walks
<1>7. v.det = c /\ v.inc = w.inc /\ v.mode = w.mode /\ v.taken = w.taken /\ v.alarm = a
  BY <1>5 DEF Walks
<1>8. Watch(w, d, i, win) = v
  BY <1>3, <1>4, <1>5
<1>9. QED BY ONLY <1>1, <1>4, <1>6, <1>7, <1>8

LEMMA SteppedType ==
  ASSUME NEW w \in Walks, NEW d \in Designs, NEW gate, NEW i \in Nat, NEW win \in BOOLEAN
  PROVE  Stepped(w, d, gate, i, win) \in Walks
<1>1. PICK g : g = Gated(w, i, gate)
  OBVIOUS
<1>2. g \in Walks
  BY <1>1, GatedIs
<1>3. Estimate(g, d, win) \in Walks /\ Watch(g, d, i, win) \in Walks
  BY <1>2, EstimateIs, WatchIs
<1>4. QED BY <1>1, <1>2, <1>3 DEF Stepped

(* The walks after each verdict.                                           *)
Walking(f, ws, d, gate, n) == \A i \in 1 .. n : f[i] = Stepped(f[i - 1], d, gate, i, ws[i])

(* The gated walk is its step, verdict after verdict.                      *)
LEMMA WalkIs ==
  ASSUME NEW ws \in Seq(BOOLEAN), NEW d \in Designs, NEW gate, NEW n \in Nat, n = Len(ws)
  PROVE  \E f \in [0 .. n -> Walks] :
           /\ f[0] = StartWalk(d)
           /\ Walking(f, ws, d, gate, n)
           /\ Walk(ws, d, gate) = f[n].alarm
<1> DEFINE body(f) == [i \in 0 .. n |->
              IF i = 0 THEN StartWalk(d)
              ELSE LET w == Gated(f[i - 1], i, gate) IN
                     CASE f[i - 1].alarm # 0 -> f[i - 1]
                       [] f[i - 1].alarm = 0 /\ w.mode = "estimate" -> Estimate(w, d, ws[i])
                       [] OTHER -> Watch(w, d, i, ws[i])]
           F == [k \in Nat |-> [w \in Walks |->
                   IF k \in 1 .. n THEN Stepped(w, d, gate, k, ws[k]) ELSE w]]
           f == CHOOSE g : g = body(g)
<1>1. F \in [Nat -> [Walks -> Walks]]
  <2>1. ASSUME NEW k \in Nat, NEW w \in Walks
        PROVE  (IF k \in 1 .. n THEN Stepped(w, d, gate, k, ws[k]) ELSE w) \in Walks
    <3>1. CASE k \in 1 .. n
      <4>1. ws[k] \in BOOLEAN
        BY <3>1
      <4>2. Stepped(w, d, gate, k, ws[k]) \in Walks
        BY <4>1, SteppedType
      <4>3. QED BY <3>1, <4>2
    <3>2. QED BY <3>1
  <2> HIDE DEF Walks
  <2>2. QED BY <2>1
<1>2. \A g : body(g) = [i \in 0 .. n |-> IF i = 0 THEN StartWalk(d)
                                         ELSE Stepped(g[i - 1], d, gate, i, ws[i])]
  BY DEF Stepped
<1> DEFINE rest(g) == [i \in 0 .. n |-> IF i = 0 THEN StartWalk(d)
                                         ELSE Stepped(g[i - 1], d, gate, i, ws[i])]
<1>3. PICK g \in [0 .. n -> Walks] : Num!Recurs(g, 0 .. n, 1, StartWalk(d), F)
  <2>1. Num!Downward(0 .. n) /\ 1 \in Nat \ {0} /\ StartWalk(d) \in Walks
    BY WalkStarts DEF Num!Downward
  <2> HIDE DEF F
  <2>2. QED BY <1>1, <2>1, Recursion
<1>4. \A i \in 0 .. n : g[i] = rest(g)[i]
  <2>1. SUFFICES ASSUME NEW i \in 0 .. n PROVE g[i] = rest(g)[i]
    OBVIOUS
  <2>2. g[i] = IF i < 1 THEN StartWalk(d) ELSE F[i][g[i - 1]]
    BY <1>3 DEF Num!Recurs
  <2>3. CASE i = 0
    BY <2>2, <2>3
  <2>4. CASE i # 0
    <3>1. i \in 1 .. n /\ i \in Nat /\ ~(i < 1) /\ i - 1 \in 0 .. n
      BY ONLY <2>4, i \in 0 .. n, n \in Nat
    <3>2. g[i - 1] \in Walks
      BY <3>1
    <3>3. F[i][g[i - 1]] = Stepped(g[i - 1], d, gate, i, ws[i])
      <4> HIDE DEF Walks
      <4>1. QED BY <3>1, <3>2
    <3>4. rest(g)[i] = Stepped(g[i - 1], d, gate, i, ws[i])
      BY <2>4
    <3>5. QED BY ONLY <2>2, <3>1, <3>3, <3>4
  <2>5. QED BY <2>3, <2>4
<1>5. g = rest(g)
  <2>1. rest(g) = [i \in 0 .. n |-> rest(g)[i]] /\ g = [i \in 0 .. n |-> g[i]]
    OBVIOUS
  <2> HIDE DEF rest
  <2>2. QED BY <1>4, <2>1
<1>6. g = body(g)
  <2> HIDE DEF body
  <2>1. QED BY <1>2, <1>5
<1>7. f = body(f)
  <2> HIDE DEF body
  <2>1. QED BY <1>6
<1>8. f = rest(f)
  <2> HIDE DEF body, f
  <2>1. QED BY <1>2, <1>7
<1> DEFINE G == {k \in Nat : k <= n => f[k] = g[k]}
<1>9. Nat \subseteq G
  <2>1. 0 \in G
    <3> HIDE DEF f
    <3>1. f[0] = StartWalk(d) /\ g[0] = StartWalk(d)
      BY <1>8, <1>5
    <3>2. QED BY <3>1
  <2>2. ASSUME NEW k \in Nat, k \in G PROVE k + 1 \in G
    <3>1. SUFFICES ASSUME k + 1 <= n PROVE f[k + 1] = g[k + 1]
      OBVIOUS
    <3>2. k + 1 \in 0 .. n /\ k + 1 # 0 /\ k + 1 - 1 = k /\ k <= n
      BY <3>1
    <3> HIDE DEF f
    <3>3. f[k + 1] = Stepped(f[k], d, gate, k + 1, ws[k + 1])
      BY <1>8, <3>2
    <3>4. g[k + 1] = Stepped(g[k], d, gate, k + 1, ws[k + 1])
      BY <1>5, <3>2
    <3>5. QED BY <2>2, <3>2, <3>3, <3>4
  <2>3. QED
    <3> HIDE DEF G
    <3>1. QED BY <2>1, <2>2, Counting
<1>10. f[n] = g[n]
  <2> HIDE DEF f
  <2>1. QED BY <1>9
<1>11. Walk(ws, d, gate) = f[n].alarm
  BY Zenon DEF Walk
<1>12. \A i \in 1 .. n : g[i] = Stepped(g[i - 1], d, gate, i, ws[i])
  <2>1. \A i \in 1 .. n : i \in 0 .. n /\ i # 0
    BY ONLY n \in Nat
  <2>2. QED BY <1>5, <2>1
<1>13. g[0] = StartWalk(d)
  BY <1>5
<1> HIDE DEF f
<1>14. Walking(g, ws, d, gate, n)
  BY <1>12 DEF Walking
<1>15. QED BY <1>10, <1>11, <1>13, <1>14

(* Before the gate the walk is the test on the verdicts so far; past it,   *)
(* if it has not alarmed, it takes a baseline; then it is the test on the  *)
(* verdicts after that.                                                    *)
Running(w, ws, d, i) ==
  /\ w.mode = "run" /\ w.inc = Baseline(d) /\ w.taken = <<>>
  /\ CusumSays(w.det, SubSeq(ws, 1, i), Baseline(d), d.h)
  /\ w.alarm = IF w.det.alarmed THEN w.det.n ELSE 0

(* Past the gate it has the verdicts since, fewer than a baseline.         *)
Collecting(w, ws, gate, i) ==
  /\ w.mode = IF i < gate THEN "run" ELSE "estimate"
  /\ w.taken = SubSeq(ws, gate, i) /\ w.alarm = 0

(* The increments of the baseline taken at the gate.                       *)
Rebased(ws, d, gate) == d.inc[Count(SubSeq(ws, gate, gate + Rebaseline - 1))]

(* Then the test has the verdicts since the baseline.                      *)
Watching(w, ws, d, gate, i) ==
  /\ w.mode = "run2" /\ w.inc = Rebased(ws, d, gate)
  /\ CusumSays(w.det, SubSeq(ws, gate + Rebaseline, i), Rebased(ws, d, gate), d.h)
  /\ w.alarm = IF w.det.alarmed THEN gate + Rebaseline - 1 + w.det.n ELSE 0

LEMMA RebasedType ==
  ASSUME NEW ws \in Seq(BOOLEAN), NEW d \in Designs, NEW gate \in Nat \ {0},
         gate + Rebaseline - 1 <= Len(ws)
  PROVE  Rebased(ws, d, gate) \in [win : Int, loss : Int]
<1>1. PICK s : s = SubSeq(ws, gate, gate + Rebaseline - 1)
  OBVIOUS
<1>2. Rebaseline \in Nat \ {0}
  BY DesignIncs
<1>3. s \in Seq(BOOLEAN) /\ Len(s) = Rebaseline
  BY <1>1, <1>2
<1>4. Count(s) \in 0 .. Rebaseline
  BY <1>3, CountBounds
<1>5. QED BY <1>1, <1>4, DesignIncs DEF Rebased

LEMMA IncsIncrement ==
  ASSUME NEW inc \in [win : Int, loss : Int] PROVE Increments(inc)
BY DEF Increments

(* The test goes on as long as it has not alarmed, and stays as it is then.*)
LEMMA SaysMore ==
  ASSUME NEW ws \in Seq(BOOLEAN), NEW a \in Nat \ {0}, NEW b \in Nat, a <= b + 1, b + 1 <= Len(ws),
         NEW inc \in [win : Int, loss : Int], NEW h \in Nat, NEW c, CusumSays(c, SubSeq(ws, a, b), inc, h)
  PROVE  LET e == CusumUpdate(c, inc, h, ws[b + 1]) IN
           /\ CusumSays(e, SubSeq(ws, a, b + 1), inc, h)
           /\ c.alarmed => e = c
           /\ ~c.alarmed /\ e.alarmed => e.n = b + 2 - a
<1>1. PICK s, t, win : s = SubSeq(ws, a, b) /\ t = SubSeq(ws, a, b + 1) /\ win = ws[b + 1]
  OBVIOUS
<1>2. t = Append(s, win) /\ s \in Seq(BOOLEAN) /\ win \in BOOLEAN /\ Len(s) = b + 1 - a
  BY <1>1, SliceGrows
<1>3. CusumSays(c, s, inc, h)
  BY <1>1
<1>4. PICK e : e = CusumUpdate(c, inc, h, win)
  OBVIOUS
<1>5. CusumSays(e, t, inc, h)
  BY <1>2, <1>3, <1>4, CusumGoesOn, IncsIncrement
<1>6. c.alarmed => e = c
  BY <1>4 DEF CusumUpdate
<1>7. ~c.alarmed /\ e.alarmed => e.n = b + 2 - a
  <2>1. SUFFICES ASSUME ~c.alarmed PROVE e.n = b + 2 - a
    OBVIOUS
  <2>2. c.n = b + 1 - a
    BY <1>2, <1>3, <2>1 DEF CusumSays
  <2>3. e.n = c.n + 1
    BY <1>4, <2>1 DEF CusumUpdate
  <2>4. QED BY <2>2, <2>3
<1>8. QED BY <1>1, <1>4, <1>5, <1>6, <1>7

(* One more verdict in each of the three.                                  *)
LEMMA RunningOn ==
  ASSUME NEW ws \in Seq(BOOLEAN), NEW d \in Designs, NEW gate \in Nat \ {0}, NEW i \in Nat,
         i + 1 < gate, i + 1 <= Len(ws), NEW w \in Walks, Running(w, ws, d, i)
  PROVE  Running(Stepped(w, d, gate, i + 1, ws[i + 1]), ws, d, i + 1)
<1>1. PICK v, win, c : /\ v = Stepped(w, d, gate, i + 1, ws[i + 1]) /\ win = ws[i + 1]
                       /\ c = CusumUpdate(w.det, w.inc, d.h, win)
  OBVIOUS
<1>2. win \in BOOLEAN /\ i + 1 \in Nat /\ ~(i + 1 >= gate)
  BY <1>1
<1>3. Gated(w, i + 1, gate) = w
  BY <1>2, GatedIs
<1>4. /\ CusumSays(c, SubSeq(ws, 1, i + 1), Baseline(d), d.h)
      /\ w.det.alarmed => c = w.det
      /\ ~w.det.alarmed /\ c.alarmed => c.n = i + 1
  <2>1. Baseline(d) \in [win : Int, loss : Int] /\ d.h \in Nat
    BY DesignIncs
  <2>2. 1 \in Nat \ {0} /\ 1 <= i + 1 /\ i + 2 - 1 = i + 1
    OBVIOUS
  <2>3. w.inc = Baseline(d) /\ CusumSays(w.det, SubSeq(ws, 1, i), Baseline(d), d.h)
    BY DEF Running
  <2>4. PICK e, k : e = CusumUpdate(w.det, Baseline(d), d.h, ws[i + 1]) /\ k = 1
    OBVIOUS
  <2>5. i + 1 <= Len(ws) /\ i \in Nat
    OBVIOUS
  <2>6. CusumSays(w.det, SubSeq(ws, k, i), Baseline(d), d.h)
    BY ONLY <2>3, <2>4
  <2>7. /\ CusumSays(e, SubSeq(ws, k, i + 1), Baseline(d), d.h)
        /\ w.det.alarmed => e = w.det
        /\ ~w.det.alarmed /\ e.alarmed => e.n = i + 2 - k
    <3>1. k \in Nat \ {0} /\ k <= i + 1
      BY ONLY <2>4, <2>5
    <3>2. QED BY ONLY <2>1, <2>4, <2>5, <2>6, <3>1, ws \in Seq(BOOLEAN), SaysMore
  <2>8. e = c
    BY ONLY <1>1, <2>3, <2>4
  <2>9. QED BY ONLY <2>2, <2>4, <2>7, <2>8
<1>5. CASE w.alarm # 0
  <2>1. v = w
    BY <1>1, <1>5 DEF Stepped
  <2>2. w.det.alarmed
    BY <1>5 DEF Running
  <2>3. QED BY <1>1, <1>4, <2>1, <2>2 DEF Running
<1>6. CASE w.alarm = 0
  <2>1. v = Watch(w, d, i + 1, win)
    BY <1>1, <1>3, <1>6 DEF Stepped, Running
  <2>2. /\ v.det = c /\ v.inc = w.inc /\ v.mode = w.mode /\ v.taken = w.taken
        /\ v.alarm = IF c.alarmed THEN i + 1 ELSE 0
    BY <1>1, <1>2, <2>1, WatchIs
  <2>3. ~w.det.alarmed
    BY <1>6 DEF Running, CusumSays
  <2>4. v.alarm = IF v.det.alarmed THEN v.det.n ELSE 0
    BY <1>4, <2>2, <2>3
  <2>5. Running(v, ws, d, i + 1)
    BY <1>4, <2>2, <2>4 DEF Running
  <2>6. QED BY <1>1, <2>5
<1>7. QED BY <1>5, <1>6

LEMMA CollectingOn ==
  ASSUME NEW ws \in Seq(BOOLEAN), NEW d \in Designs, NEW gate \in Nat \ {0}, NEW i \in Nat,
         gate <= i + 1, i + 1 <= Len(ws), i + 1 < gate + Rebaseline,
         NEW w \in Walks, Collecting(w, ws, gate, i)
  PROVE  LET v == Stepped(w, d, gate, i + 1, ws[i + 1]) IN
           IF i + 2 < gate + Rebaseline THEN Collecting(v, ws, gate, i + 1)
           ELSE Watching(v, ws, d, gate, i + 1)
<1>1. PICK v, win, g : /\ v = Stepped(w, d, gate, i + 1, ws[i + 1]) /\ win = ws[i + 1]
                       /\ g = Gated(w, i + 1, gate)
  OBVIOUS
<1>2. win \in BOOLEAN /\ i + 1 \in Nat /\ i + 1 >= gate /\ Rebaseline \in Nat \ {0}
  BY <1>1, DesignIncs
<1>3. g \in Walks /\ g.mode = "estimate" /\ g.taken = w.taken /\ g.alarm = w.alarm
  <2>1. w.mode \in {"run", "estimate"}
    BY DEF Collecting
  <2>2. g \in Walks /\ g.taken = w.taken /\ g.alarm = w.alarm
    BY <1>1, GatedIs
  <2>3. CASE w.mode = "run"
    BY <1>1, <1>2, <2>2, <2>3, GatedIs
  <2>4. CASE w.mode = "estimate"
    <3>1. w.mode # "run"
      BY <2>4
    <3>2. g = w
      BY <1>1, <3>1, GatedIs
    <3>3. QED BY <2>2, <2>4, <3>2
  <2>5. QED BY <2>1, <2>3, <2>4
<1>4. v = Estimate(g, d, win)
  BY <1>1, <1>3 DEF Stepped, Collecting
<1>5. PICK r : r = SubSeq(ws, gate, i + 1)
  OBVIOUS
<1>6. r = Append(g.taken, win) /\ Len(r) = i + 2 - gate /\ r \in Seq(BOOLEAN)
  <2>1. g.taken = SubSeq(ws, gate, i)
    BY <1>3 DEF Collecting
  <2>2. r = Append(SubSeq(ws, gate, i), win)
    BY <1>1, <1>5, SliceGrows
  <2>3. r \in Seq(BOOLEAN) /\ Len(r) = i + 2 - gate
    BY <1>5
  <2>4. QED BY <2>1, <2>2, <2>3
<1>7. v.taken = r /\ v.alarm = 0
  BY <1>2, <1>3, <1>4, <1>6, EstimateIs DEF Collecting
<1>8. CASE i + 2 < gate + Rebaseline
  <2>1. Len(r) < Rebaseline
    BY <1>2, <1>6, <1>8
  <2>2. v.mode = "estimate"
    BY <1>2, <1>3, <1>4, <1>6, <2>1, EstimateIs
  <2>3. ~(i + 1 < gate)
    BY <1>2
  <2>4. Collecting(v, ws, gate, i + 1)
    BY <1>5, <1>7, <2>2, <2>3 DEF Collecting
  <2>5. QED BY <1>1, <1>8, <2>4
<1>9. CASE ~(i + 2 < gate + Rebaseline)
  <2>1. i + 1 = gate + Rebaseline - 1 /\ Len(r) = Rebaseline
    BY <1>2, <1>6, <1>9
  <2>2. SubSeq(r, 1, Rebaseline) = r
    <3>1. SubSeq(r, 1, Len(r)) = r
      BY ONLY <1>6, SubSeqFull
    <3>2. QED BY ONLY <2>1, <3>1, Zenon
  <2>3. v.mode = "run2" /\ v.det = FreshCusum /\ v.inc = d.inc[Count(SubSeq(r, 1, Rebaseline))]
    <3>1. Len(r) >= Rebaseline
      BY ONLY <1>2, <2>1
    <3>2. QED BY ONLY <1>2, <1>3, <1>4, <1>6, <3>1, d \in Designs, EstimateIs
  <2>4. v.inc = Rebased(ws, d, gate)
    BY <1>5, <2>1, <2>2, <2>3 DEF Rebased
  <2>5. SubSeq(ws, gate + Rebaseline, i + 1) = <<>>
    BY <1>2, <2>1
  <2>6. CusumSays(v.det, SubSeq(ws, gate + Rebaseline, i + 1), Rebased(ws, d, gate), d.h)
    BY <2>3, <2>5, CusumBegins
  <2>7. Watching(v, ws, d, gate, i + 1)
    BY <1>7, <2>3, <2>4, <2>6, FreshType DEF Watching
  <2>8. QED BY <1>1, <1>9, <2>7
<1>10. QED BY <1>8, <1>9

LEMMA WatchingOn ==
  ASSUME NEW ws \in Seq(BOOLEAN), NEW d \in Designs, NEW gate \in Nat \ {0}, NEW i \in Nat,
         gate + Rebaseline <= i + 1, i + 1 <= Len(ws), NEW w \in Walks, Watching(w, ws, d, gate, i)
  PROVE  Watching(Stepped(w, d, gate, i + 1, ws[i + 1]), ws, d, gate, i + 1)
<1>1. PICK v, win, c, inc, a : /\ v = Stepped(w, d, gate, i + 1, ws[i + 1]) /\ win = ws[i + 1]
                               /\ c = CusumUpdate(w.det, w.inc, d.h, win)
                               /\ inc = Rebased(ws, d, gate) /\ a = gate + Rebaseline
  OBVIOUS
<1>2. win \in BOOLEAN /\ i + 1 \in Nat /\ Rebaseline \in Nat \ {0} /\ a \in Nat \ {0} /\ a <= i + 1
  BY <1>1, DesignIncs
<1>3. Gated(w, i + 1, gate) = w
  BY GatedIs DEF Watching
<1>4. /\ CusumSays(c, SubSeq(ws, a, i + 1), inc, d.h)
      /\ w.det.alarmed => c = w.det
      /\ ~w.det.alarmed /\ c.alarmed => c.n = i + 2 - a
  <2>1. inc \in [win : Int, loss : Int] /\ d.h \in Nat
    BY <1>1, <1>2, DesignIncs, RebasedType
  <2>2. w.inc = inc /\ CusumSays(w.det, SubSeq(ws, a, i), inc, d.h)
    BY <1>1 DEF Watching
  <2>3. PICK e : e = CusumUpdate(w.det, inc, d.h, ws[i + 1])
    OBVIOUS
  <2>4. i + 1 <= Len(ws) /\ i \in Nat
    OBVIOUS
  <2>5. /\ CusumSays(e, SubSeq(ws, a, i + 1), inc, d.h)
        /\ w.det.alarmed => e = w.det
        /\ ~w.det.alarmed /\ e.alarmed => e.n = i + 2 - a
    BY ONLY <1>2, <2>1, <2>2, <2>3, <2>4, ws \in Seq(BOOLEAN), SaysMore
  <2>6. e = c
    BY ONLY <1>1, <2>2, <2>3
  <2>7. QED BY ONLY <2>5, <2>6
<1>5. CASE w.alarm # 0
  <2>1. v = w
    BY <1>1, <1>5 DEF Stepped
  <2>2. w.det.alarmed
    BY <1>5 DEF Watching
  <2>3. QED BY <1>1, <1>4, <2>1, <2>2 DEF Watching
<1>6. CASE w.alarm = 0
  <2>1. v = Watch(w, d, i + 1, win)
    BY <1>1, <1>3, <1>6 DEF Stepped, Watching
  <2>2. /\ v.det = c /\ v.inc = w.inc /\ v.mode = w.mode
        /\ v.alarm = IF c.alarmed THEN i + 1 ELSE 0
    <3>1. PICK j \in Nat : j = i + 1
      BY <1>2
    <3>2. v = Watch(w, d, j, win)
      BY ONLY <2>1, <3>1
    <3>3. /\ v.det = c /\ v.inc = w.inc /\ v.mode = w.mode
          /\ v.alarm = IF c.alarmed THEN j ELSE 0
      <4>1. c = CusumUpdate(w.det, w.inc, d.h, win)
        BY <1>1
      <4>2. QED BY ONLY <1>2, <3>2, <4>1, w \in Walks, d \in Designs, j \in Nat, WatchIs
    <3>4. QED BY ONLY <3>1, <3>3
  <2>3. ~w.det.alarmed
    <3>1. SUFFICES ASSUME w.det.alarmed PROVE FALSE
      OBVIOUS
    <3>3. w.det.n \in Nat
      BY DEF Walks
    <3>2. w.alarm = a - 1 + w.det.n
      BY ONLY <1>1, <1>2, <3>1, <3>3, gate \in Nat, Watching(w, ws, d, gate, i) DEF Watching
    <3>4. a - 1 + w.det.n = 0 /\ w.det.n > 0
      BY <1>6, <3>1, <3>2 DEF Watching, CusumSays
    <3>5. QED BY ONLY <1>2, <3>3, <3>4
  <2>4. v.alarm = IF v.det.alarmed THEN a - 1 + v.det.n ELSE 0
    BY <1>2, <1>4, <2>2, <2>3
  <2>5. Watching(v, ws, d, gate, i + 1)
    <3>0. v.det.n \in Nat
      <4>1. v \in Walks
        BY <1>1, <1>2, SteppedType
      <4>2. QED BY ONLY <4>1 DEF Walks
    <3>1. v.mode = "run2" /\ v.inc = inc
      BY <1>1, <2>2 DEF Watching
    <3>2. v.alarm = IF v.det.alarmed THEN gate + Rebaseline - 1 + v.det.n ELSE 0
      BY ONLY <1>1, <1>2, <2>4, <3>0, gate \in Nat
    <3>3. CusumSays(v.det, SubSeq(ws, gate + Rebaseline, i + 1), Rebased(ws, d, gate), d.h)
      BY ONLY <1>1, <1>4, <2>2
    <3>4. QED BY ONLY <1>1, <3>1, <3>2, <3>3 DEF Watching
  <2>6. QED BY <1>1, <2>5
<1>7. QED BY <1>5, <1>6

(* The walk from its alarm on.                                             *)
LEMMA AlarmStays ==
  ASSUME NEW n \in Nat, NEW f, NEW ws, NEW d, NEW gate,
         Walking(f, ws, d, gate, n),
         NEW j \in 0 .. n, f[j].alarm # 0
  PROVE  f[n].alarm = f[j].alarm
<1> DEFINE G == {k \in Nat : j + k <= n => f[j + k] = f[j]}
<1>1. 0 \in G
  OBVIOUS
<1>2. ASSUME NEW k \in Nat, k \in G PROVE k + 1 \in G
  <2>1. SUFFICES ASSUME j + (k + 1) <= n PROVE f[j + (k + 1)] = f[j]
    OBVIOUS
  <2>2. j + (k + 1) \in 1 .. n /\ j + (k + 1) - 1 = j + k /\ j + k <= n
    BY ONLY <2>1, k \in Nat, n \in Nat, j \in 0 .. n
  <2>3. f[j + (k + 1)] = Stepped(f[j + k], d, gate, j + (k + 1), ws[j + (k + 1)])
    BY <2>2 DEF Walking
  <2>4. f[j + k] = f[j]
    BY <1>2, <2>2
  <2>5. QED BY <2>3, <2>4 DEF Stepped
<1>3. Nat \subseteq G
  <2> HIDE DEF G
  <2>1. QED BY <1>1, <1>2, Counting
<1>4. n - j \in Nat /\ j + (n - j) = n
  OBVIOUS
<1>5. QED BY <1>3, <1>4

(* Up to the gate the walk runs.                                           *)
LEMMA UpToTheGate ==
  ASSUME NEW ws \in Seq(BOOLEAN), NEW d \in Designs, NEW gate \in Nat \ {0}, NEW n \in Nat, n = Len(ws),
         gate <= n + 1, NEW f \in [0 .. n -> Walks], f[0] = StartWalk(d),
         Walking(f, ws, d, gate, n)
  PROVE  \A i \in 0 .. gate - 1 : Running(f[i], ws, d, i)
<1> DEFINE G == {k \in Nat : k < gate => Running(f[k], ws, d, k)}
<1>1. 0 \in G
  <2>1. SubSeq(ws, 1, 0) = <<>>
    OBVIOUS
  <2>2. /\ f[0].mode = "run" /\ f[0].inc = Baseline(d) /\ f[0].taken = <<>>
        /\ f[0].alarm = 0 /\ f[0].det = FreshCusum
    BY DEF StartWalk
  <2>3. CusumSays(FreshCusum, <<>>, Baseline(d), d.h)
    BY CusumBegins
  <2>4. Running(f[0], ws, d, 0)
    BY <2>1, <2>2, <2>3, FreshType DEF Running
  <2>5. QED BY <2>4
<1>2. ASSUME NEW k \in Nat, k \in G PROVE k + 1 \in G
  <2>1. SUFFICES ASSUME k + 1 < gate PROVE Running(f[k + 1], ws, d, k + 1)
    OBVIOUS
  <2>2. k + 1 \in 1 .. n /\ k + 1 - 1 = k /\ k < gate /\ k \in 0 .. n /\ k + 1 <= Len(ws)
    BY ONLY <2>1, k \in Nat, n \in Nat, n = Len(ws), gate <= n + 1, gate \in Nat \ {0}
  <2>3. f[k + 1] = Stepped(f[k], d, gate, k + 1, ws[k + 1])
    BY <2>2 DEF Walking
  <2>4. Running(f[k], ws, d, k) /\ f[k] \in Walks
    BY <1>2, <2>2
  <2> HIDE DEF G
  <2>5. Running(Stepped(f[k], d, gate, k + 1, ws[k + 1]), ws, d, k + 1)
    BY <2>1, <2>2, <2>4, RunningOn
  <2>6. QED BY <2>3, <2>5
<1>3. Nat \subseteq G
  <2> HIDE DEF G
  <2>1. QED BY <1>1, <1>2, Counting
<1>4. QED BY <1>3

(* Past the gate, k verdicts after it.                                     *)
Past(w, ws, d, gate, i) ==
  IF i + 1 < gate + Rebaseline THEN Collecting(w, ws, gate, i) ELSE Watching(w, ws, d, gate, i)

LEMMA PastTheGate ==
  ASSUME NEW ws \in Seq(BOOLEAN), NEW d \in Designs, NEW gate \in Nat \ {0}, NEW n \in Nat, n = Len(ws),
         gate <= n + 1, NEW f \in [0 .. n -> Walks],
         Walking(f, ws, d, gate, n),
         Running(f[gate - 1], ws, d, gate - 1), ~f[gate - 1].det.alarmed
  PROVE  Past(f[n], ws, d, gate, n)
<1>1. Rebaseline \in Nat \ {0}
  BY DesignIncs
<1>2. PICK j \in Nat : j = gate - 1 /\ gate = j + 1
  OBVIOUS
<1> DEFINE G == {k \in Nat : j + k <= n => Past(f[j + k], ws, d, gate, j + k)}
<1>3. 0 \in G
  <2>1. SubSeq(ws, gate, j) = <<>> /\ j < gate
    BY <1>2
  <2>2. Running(f[j], ws, d, j) /\ ~f[j].det.alarmed
    BY <1>2
  <2>3. Collecting(f[j], ws, gate, j)
    BY <2>1, <2>2 DEF Running, Collecting
  <2>4. j + 1 < gate + Rebaseline /\ j + 0 = j
    BY ONLY <1>1, <1>2
  <2>5. Past(f[j + 0], ws, d, gate, j + 0)
    BY ONLY <2>3, <2>4 DEF Past
  <2>6. QED BY <2>5
<1>4. ASSUME NEW k \in Nat, k \in G PROVE k + 1 \in G
  <2>1. SUFFICES ASSUME j + (k + 1) <= n PROVE Past(f[j + (k + 1)], ws, d, gate, j + (k + 1))
    OBVIOUS
  <2>2. PICK i \in Nat : i = j + k /\ i + 1 = j + (k + 1) /\ i + 1 <= n
    BY ONLY <2>1, k \in Nat, n \in Nat, j \in Nat
  <2>3. i + 1 \in 1 .. n /\ i + 1 - 1 = i /\ i \in 0 .. n /\ i + 1 <= Len(ws) /\ gate <= i + 1
        /\ i + 1 + 1 = i + 2
    BY ONLY <1>2, <2>2, k \in Nat, n \in Nat, n = Len(ws), i \in Nat, j \in Nat
  <2>4. f[i + 1] = Stepped(f[i], d, gate, i + 1, ws[i + 1]) /\ f[i] \in Walks
    BY <2>3 DEF Walking
  <2>5. Past(f[i], ws, d, gate, i)
    BY <1>4, <2>2
  <2> HIDE DEF G
  <2>6. Past(f[i + 1], ws, d, gate, i + 1)
    <3>1. CASE i + 1 < gate + Rebaseline
      <4>1. Collecting(f[i], ws, gate, i)
        BY <2>5, <3>1 DEF Past
      <4>2. IF i + 2 < gate + Rebaseline THEN Collecting(f[i + 1], ws, gate, i + 1)
            ELSE Watching(f[i + 1], ws, d, gate, i + 1)
        BY <2>3, <2>4, <3>1, <4>1, CollectingOn
      <4>3. QED BY ONLY <2>3, <4>2 DEF Past
    <3>2. CASE ~(i + 1 < gate + Rebaseline)
      <4>1. Watching(f[i], ws, d, gate, i)
        BY <2>5, <3>2 DEF Past
      <4>2. gate + Rebaseline <= i + 1 /\ ~(i + 1 + 1 < gate + Rebaseline)
        BY ONLY <1>1, <3>2, gate \in Nat \ {0}, i \in Nat
      <4>3. Watching(f[i + 1], ws, d, gate, i + 1)
        BY <2>3, <2>4, <4>1, <4>2, WatchingOn
      <4>4. QED BY ONLY <4>2, <4>3 DEF Past
    <3>3. QED BY <3>1, <3>2
  <2>7. QED BY <2>2, <2>6
<1>5. Nat \subseteq G
  <2> HIDE DEF G
  <2>1. QED BY <1>3, <1>4, Counting
<1>6. n - j \in Nat /\ j + (n - j) = n
  BY <1>2
<1>7. QED BY <1>5, <1>6

(* A walk that alarmed before the gate keeps its alarm; any other has none *)
(* until the baseline is taken, and then that of the evidence after it.    *)
LEMMA GateHolds ==
  ASSUME NEW ws \in Seq(BOOLEAN), NEW d \in Designs, NEW n \in Nat, n = Len(ws), NEW gate \in 1 .. n + 1
  PROVE  LET resume == gate + Rebaseline
             before == RunCusum(SubSeq(ws, 1, gate - 1), Baseline(d), d.h)
             after == IF resume > n THEN -1
                      ELSE RunCusum(SubSeq(ws, resume, n),
                                    d.inc[Count(SubSeq(ws, gate, resume - 1))], d.h)
         IN Walk(ws, d, gate) =
              CASE before # -1 -> before
                [] before = -1 /\ after # -1 -> resume - 1 + after
                [] OTHER -> 0
<1>1. PICK resume, before, after :
        /\ resume = gate + Rebaseline
        /\ before = RunCusum(SubSeq(ws, 1, gate - 1), Baseline(d), d.h)
        /\ after = IF resume > n THEN -1
                   ELSE RunCusum(SubSeq(ws, resume, n), Rebased(ws, d, gate), d.h)
  OBVIOUS
<1>2. PICK f \in [0 .. n -> Walks] :
        /\ f[0] = StartWalk(d)
        /\ Walking(f, ws, d, gate, n)
        /\ Walk(ws, d, gate) = f[n].alarm
  BY WalkIs, SMTT(60)
<1>3. gate \in Nat \ {0} /\ gate <= n + 1 /\ gate - 1 \in 0 .. n /\ gate - 1 \in 0 .. gate - 1
  OBVIOUS
<1>4. Rebaseline \in Nat \ {0} /\ d.h \in Nat /\ Baseline(d) \in [win : Int, loss : Int]
  BY DesignIncs
<1>5. PICK w \in Walks : w = f[gate - 1]
  BY <1>3
<1>6. Running(w, ws, d, gate - 1)
  BY <1>2, <1>3, <1>5, UpToTheGate
<1>7. before = IF w.det.alarmed THEN w.det.n ELSE -1
  <2>1. PICK s : s = SubSeq(ws, 1, gate - 1)
    OBVIOUS
  <2>2. s \in Seq(BOOLEAN)
    BY <1>3, <2>1
  <2>3. CusumSays(w.det, s, Baseline(d), d.h)
    BY <1>6, <2>1 DEF Running
  <2>4. RunCusum(s, Baseline(d), d.h) = IF w.det.alarmed THEN w.det.n ELSE -1
    BY <1>4, <2>2, <2>3, CusumsAgree, IncsIncrement
  <2>5. QED BY <1>1, <2>1, <2>4
<1>8. w.det.n \in Nat /\ (w.det.alarmed => w.det.n > 0)
  BY <1>6 DEF Running, CusumSays, Walks
<1>9. f[n].alarm = CASE before # -1 -> before
                     [] before = -1 /\ after # -1 -> resume - 1 + after
                     [] OTHER -> 0
  <2>1. CASE w.det.alarmed
    <3>1. w.alarm = w.det.n /\ before = w.det.n /\ before # -1
      BY <1>6, <1>7, <1>8, <2>1 DEF Running
    <3>2. w.alarm # 0
      BY <1>8, <2>1, <3>1
    <3>3. f[n].alarm = w.alarm
      <4>1. PICK j \in 0 .. n : j = gate - 1
        BY <1>3
      <4>2. f[j].alarm # 0
        BY <1>5, <3>2, <4>1
      <4>3. f[n].alarm = f[j].alarm
        BY ONLY <1>2, <4>2, n \in Nat, j \in 0 .. n, AlarmStays, Zenon
      <4>4. QED BY <1>5, <4>1, <4>3
    <3>4. QED BY ONLY <3>1, <3>3
  <2>2. CASE ~w.det.alarmed
    <3>1. before = -1
      BY <1>7, <2>2
    <3>2. Past(f[n], ws, d, gate, n)
      BY <1>2, <1>3, <1>5, <1>6, <2>2, PastTheGate
    <3>3. CASE resume > n + 1
      <4>1. n + 1 < gate + Rebaseline /\ resume > n
        BY ONLY <1>1, <1>4, <3>3, n \in Nat, gate \in 1 .. n + 1
      <4>2. f[n].alarm = 0
        BY <3>2, <4>1 DEF Past, Collecting
      <4>3. after = -1
        BY <1>1, <4>1
      <4>4. QED BY ONLY <3>1, <4>2, <4>3
    <3>4. CASE ~(resume > n + 1)
      <4>1. ~(n + 1 < gate + Rebaseline) /\ gate + Rebaseline - 1 <= n /\ resume \in Nat \ {0}
        BY ONLY <1>1, <1>4, <3>4, n \in Nat, gate \in 1 .. n + 1
      <4>2. PICK v \in Walks : v = f[n]
        BY n \in 0 .. n
      <4>3. Watching(v, ws, d, gate, n)
        BY <3>2, <4>1, <4>2 DEF Past
      <4>4. PICK t, inc : t = SubSeq(ws, resume, n) /\ inc = Rebased(ws, d, gate)
        OBVIOUS
      <4>5. t \in Seq(BOOLEAN) /\ (resume > n => t = <<>>)
        BY <4>1, <4>4
      <4>6. inc \in [win : Int, loss : Int]
        BY <1>3, <4>1, <4>4, RebasedType
      <4>7. CusumSays(v.det, t, inc, d.h)
        BY <1>1, <4>3, <4>4 DEF Watching
      <4>8. RunCusum(t, inc, d.h) = IF v.det.alarmed THEN v.det.n ELSE -1
        BY <1>4, <4>5, <4>6, <4>7, CusumsAgree, IncsIncrement
      <4>9. v.det.n \in Nat /\ (v.det.alarmed => v.det.n > 0) /\ (t = <<>> => ~v.det.alarmed)
        <5>1. v.det.n \in 0 .. Len(t) /\ (v.det.alarmed => v.det.n > 0)
          BY <4>7 DEF CusumSays
        <5>2. t = <<>> => Len(t) = 0
          OBVIOUS
        <5>3. v.det.n \in Nat
          BY DEF Walks
        <5>4. QED BY ONLY <5>1, <5>2, <5>3
      <4>10. after = IF v.det.alarmed THEN v.det.n ELSE -1
        <5>1. CASE resume > n
          BY <1>1, <4>5, <4>9, <5>1
        <5>2. CASE ~(resume > n)
          BY <1>1, <4>4, <4>8, <5>2
        <5>3. QED BY <5>1, <5>2
      <4>11. v.alarm = IF v.det.alarmed THEN resume - 1 + v.det.n ELSE 0
        BY <1>1, <4>3 DEF Watching
      <4>12. QED BY ONLY <3>1, <4>2, <4>9, <4>10, <4>11
    <3>5. QED BY <3>3, <3>4
  <2>3. QED BY <2>1, <2>2
<1>10. Walk(ws, d, gate) = CASE before # -1 -> before
                             [] before = -1 /\ after # -1 -> resume - 1 + after
                             [] OTHER -> 0
  BY <1>2, <1>9
<1>11. Rebased(ws, d, gate) = d.inc[Count(SubSeq(ws, gate, resume - 1))]
  BY <1>1 DEF Rebased
<1>12. QED BY ONLY <1>1, <1>10, <1>11

(* Wherever the drift alarm falls, the gated walk of the drift gate        *)
(* (src/coalmine/experiments/drift_gate.py:85) alarms on the evidence      *)
(* before it or, a whole baseline later, on the evidence after that, and   *)
(* never on the two together: for any design and any stream of verdicts.   *)
THEOREM GateNeverStraddles == DetectorsSpec => []GateSplits
<1>1. TestsSay => GateSplits
  <2>1. SUFFICES ASSUME TestsSay PROVE GateSplits
    OBVIOUS
  <2>2. design \in Designs /\ wins \in Seq(BOOLEAN) /\ Len(wins) \in Nat
    BY <2>1 DEF TestsSay
  <2>3. QED BY <2>2, GateHolds, Zenon DEF GateSplits
<1>2. QED BY <1>1, TestsAlwaysSay, PTL

(***************************************************************************)
(* The calibrated statistics: each monitor alarms exactly on the verdicts  *)
(* whose maximum reaches its threshold, and no earlier than the maximum of *)
(* the verdicts so far does.                                               *)
(***************************************************************************)

(* A row of numbers has a highest one, or nothing above zero.              *)
LEMMA HasHighest ==
  ASSUME NEW n \in Nat, NEW s, \A i \in 1 .. n : s[i] \in Int
  PROVE  \E m \in {0} \cup {s[i] : i \in 1 .. n} : m \in Int /\ m >= 0 /\ \A i \in 1 .. n : s[i] <= m
<1> DEFINE T(k) == {0} \cup {s[i] : i \in 1 .. k}
           G == {k \in Nat : k <= n => \E m \in T(k) : m \in Int /\ m >= 0 /\ \A i \in 1 .. k : s[i] <= m}
<1>1. 0 \in G
  <2>1. 0 \in T(0) /\ 0 \in Int /\ 0 >= 0 /\ \A i \in 1 .. 0 : s[i] <= 0
    OBVIOUS
  <2>2. QED BY <2>1
<1>2. ASSUME NEW k \in Nat, k \in G PROVE k + 1 \in G
  <2>1. SUFFICES ASSUME k + 1 <= n
                 PROVE  \E m \in T(k + 1) : m \in Int /\ m >= 0 /\ \A i \in 1 .. k + 1 : s[i] <= m
    OBVIOUS
  <2>2. PICK m \in T(k) : m \in Int /\ m >= 0 /\ \A i \in 1 .. k : s[i] <= m
    BY <1>2, <2>1
  <2>3. s[k + 1] \in Int /\ k + 1 \in 1 .. k + 1 /\ \A i \in 1 .. k + 1 : i \in 1 .. k \/ i = k + 1
    BY <2>1
  <2>4. m \in T(k + 1) /\ s[k + 1] \in T(k + 1)
    BY <2>2, <2>3
  <2> HIDE DEF T
  <2>5. CASE s[k + 1] <= m
    BY <2>2, <2>3, <2>4, <2>5
  <2>6. CASE ~(s[k + 1] <= m)
    <3>1. \A i \in 1 .. k + 1 : s[i] <= s[k + 1]
      <4>1. SUFFICES ASSUME NEW i \in 1 .. k PROVE s[i] <= s[k + 1]
        BY <2>3
      <4>2. s[i] \in Int /\ s[i] <= m
        BY <2>1, <2>2
      <4>3. QED BY <2>2, <2>3, <2>6, <4>2
    <3>2. s[k + 1] >= 0
      BY <2>2, <2>3, <2>6
    <3>3. QED BY <2>3, <2>4, <3>1, <3>2
  <2>7. QED BY <2>5, <2>6
<1>3. Nat \subseteq G
  <2> HIDE DEF G
  <2>1. QED BY <1>1, <1>2, Counting
<1>4. QED BY <1>3

LEMMA OverIs ==
  ASSUME NEW n \in Nat, NEW s, \A i \in 1 .. n : s[i] \in Int, NEW h \in Nat \ {0},
         NEW T, T = {0} \cup {s[i] : i \in 1 .. n},
         NEW q \in T, \A i \in 1 .. n : s[i] <= q
  PROVE  q >= h <=> \E i \in 1 .. n : s[i] >= h
<1>1. q = 0 \/ \E i \in 1 .. n : q = s[i]
  OBVIOUS
<1>2. q \in Int
  BY <1>1
<1>3. ASSUME q >= h PROVE \E i \in 1 .. n : s[i] >= h
  BY <1>1, <1>3
<1>4. ASSUME NEW i \in 1 .. n, s[i] >= h PROVE q >= h
  <2>1. s[i] \in Int /\ s[i] <= q
    OBVIOUS
  <2>2. QED BY ONLY <1>2, <1>4, <2>1, h \in Nat \ {0}
<1>5. QED BY <1>3, <1>4

(* The maximum is over a threshold if a number of the row is.              *)
LEMMA HighestReaches ==
  ASSUME NEW n \in Nat, NEW s, \A i \in 1 .. n : s[i] \in Int, NEW h \in Nat \ {0},
         NEW T, T = {0} \cup {s[i] : i \in 1 .. n}
  PROVE  Highest(T) >= h <=> \E i \in 1 .. n : s[i] >= h
<1>1. PICK m \in T : m \in Int /\ m >= 0 /\ \A i \in 1 .. n : s[i] <= m
  BY HasHighest
<1>2. \A x \in T : x \in Int /\ x <= m
  BY <1>1
<1>3. PICK q : q = Highest(T)
  OBVIOUS
<1>4. q \in T /\ \A x \in T : x <= q
  <2>1. \E y \in T : \A x \in T : x <= y
    BY <1>2
  <2>2. QED BY <1>3, <2>1 DEF Highest
<1>5. \A i \in 1 .. n : s[i] <= q
  BY <1>4
<1>6. QED BY <1>3, <1>4, <1>5, OverIs

(* The first number of a row that reaches a threshold.                     *)
Crossing(t, s, n, h) ==
  /\ t # -1 <=> \E i \in 1 .. n : s[i] >= h
  /\ t # -1 => /\ t \in Nat /\ t + 1 \in 1 .. n /\ s[t + 1] >= h
               /\ \A j \in 1 .. t : ~(s[j] >= h)

LEMMA CrossesWhen ==
  ASSUME NEW n \in Nat, NEW s, DOMAIN s = 1 .. n, NEW h
  PROVE  Crossing(FirstCrossing([i \in DOMAIN s |-> s[i] >= h], -1), s, n, h)
<1> DEFINE hits == [i \in 1 .. n |-> s[i] >= h]
<1>1. PICK t : t = FirstCrossing(hits, -1)
  OBVIOUS
<1>2. CASE \E i \in 1 .. n : s[i] >= h
  <2> DEFINE K == {i \in 1 .. n : s[i] >= h}
  <2>1. PICK k \in K : \A j \in K : k <= j
    <3>1. K \subseteq Nat /\ K # {}
      BY <1>2
    <3>2. QED BY <3>1, Least
  <2>2. k \in 1 .. n /\ hits[k] /\ \A j \in 1 .. k - 1 : ~hits[j] /\ ~(s[j] >= h)
    <3>1. k \in 1 .. n /\ s[k] >= h
      BY <2>1
    <3>2. ASSUME NEW j \in 1 .. k - 1 PROVE j \in 1 .. n /\ ~(s[j] >= h)
      <4>1. j \in 1 .. n /\ ~(k <= j)
        BY ONLY <3>1, n \in Nat, j \in 1 .. k - 1
      <4>2. j \notin K
        BY <2>1, <4>1
      <4>3. QED BY <4>1, <4>2
    <3>3. QED BY <3>1, <3>2
  <2>3. t = k - 1
    <3>1. DOMAIN hits = 1 .. n
      OBVIOUS
    <3> HIDE DEF hits
    <3>2. QED BY <1>1, <2>2, <3>1, CrossedAt
  <2>4. t # -1 /\ t + 1 = k /\ t \in Nat
    BY <2>2, <2>3
  <2>5. QED BY <1>1, <1>2, <2>1, <2>2, <2>3, <2>4 DEF Crossing
<1>3. CASE ~\E i \in 1 .. n : s[i] >= h
  <2>1. \A j \in DOMAIN hits : ~hits[j]
    BY <1>3
  <2>2. t = -1
    <3> HIDE DEF hits
    <3>1. QED BY <1>1, <2>1, NeverCrossed
  <2>3. QED BY <1>1, <1>3, <2>2 DEF Crossing
<1>4. QED BY <1>2, <1>3

(* The CUSUM alarms if the maximum of its statistic reaches the threshold. *)
LEMMA CusumCalibrates ==
  ASSUME NEW ws \in Seq(BOOLEAN), NEW inc, Increments(inc), NEW h \in Nat \ {0}
  PROVE  RunCusum(ws, inc, h) # -1 <=> CusumMax(ws, inc) >= h
<1>0. PICK n \in Nat : n = Len(ws)
  OBVIOUS
<1>1. PICK s : n = Len(ws) /\ s = Reflected(ws, inc)
  BY <1>0
<1>2. s \in [1 .. n -> Int]
  BY <1>1, ReflectedRow DEF Row
<1>3. PICK t : t = FirstCrossing([i \in DOMAIN s |-> s[i] >= h], -1)
  OBVIOUS
<1>4. Crossing(t, s, n, h)
  <2>1. DOMAIN s = 1 .. n
    BY <1>2
  <2>2. QED BY <1>3, <2>1, CrossesWhen, Zenon
<1>5. RunCusum(ws, inc, h) = IF t = -1 THEN -1 ELSE t + 1
  BY <1>1, <1>3, Zenon DEF RunCusum
<1>6. RunCusum(ws, inc, h) # -1 <=> \E i \in 1 .. n : s[i] >= h
  BY <1>4, <1>5 DEF Crossing
<1>7. PICK T : T = {0} \cup {s[i] : i \in 1 .. n}
  OBVIOUS
<1>8. PICK q : q = CusumMax(ws, inc)
  OBVIOUS
<1>9. \A i \in 1 .. n : s[i] \in Int
  BY <1>2
<1>10. q \in T /\ \A i \in 1 .. n : s[i] <= q
  <2>1. DOMAIN s = 1 .. n
    BY <1>2
  <2>2. q = CHOOSE m \in T : \A i \in 1 .. n : s[i] <= m
    BY <1>1, <1>7, <1>8, <2>1 DEF CusumMax
  <2>3. \E m \in T : \A i \in 1 .. n : s[i] <= m
    BY <1>7, <1>9, HasHighest
  <2>4. QED BY <2>2, <2>3
<1>11. QED BY <1>6, <1>7, <1>8, <1>9, <1>10, OverIs

LEMMA WindowSize == Window \in Nat \ {0} /\ Stride \in Nat \ {0}
BY SizesAssumption

(* A slice of a slice.                                                     *)
LEMMA SliceOfSlice ==
  ASSUME NEW ws \in Seq(BOOLEAN), NEW a \in Nat \ {0}, NEW b \in Nat, a <= b + 1, b <= Len(ws),
         NEW i \in Nat \ {0}, NEW j \in Nat, i <= j + 1, j <= b + 1 - a
  PROVE  /\ SubSeq(ws, a, b) \in Seq(BOOLEAN) /\ Len(SubSeq(ws, a, b)) = b + 1 - a
         /\ SubSeq(SubSeq(ws, a, b), i, j) = SubSeq(ws, a + i - 1, a + j - 1)
<1>1. PICK s : s = SubSeq(ws, a, b)
  OBVIOUS
<1>2. s \in Seq(BOOLEAN) /\ Len(s) = b + 1 - a
  BY <1>1
<1>3. \A k \in 1 .. b + 1 - a : s[k] = ws[a + k - 1]
  BY <1>1
<1>4. PICK t, u : t = SubSeq(s, i, j) /\ u = SubSeq(ws, a + i - 1, a + j - 1)
  OBVIOUS
<1>5. t \in Seq(BOOLEAN) /\ Len(t) = j + 1 - i /\ \A k \in 1 .. j + 1 - i : t[k] = s[i + k - 1]
  BY <1>2, <1>4
<1>6. u \in Seq(BOOLEAN) /\ Len(u) = j + 1 - i /\ \A k \in 1 .. j + 1 - i : u[k] = ws[a + i - 1 + k - 1]
  <2>1. PICK e, f : e = a + i - 1 /\ f = a + j - 1
    OBVIOUS
  <2>2. e \in Nat \ {0} /\ f \in Nat /\ e <= f + 1 /\ f <= Len(ws) /\ f + 1 - e = j + 1 - i
    BY <2>1
  <2>3. u = SubSeq(ws, e, f)
    BY <1>4, <2>1
  <2>4. u \in Seq(BOOLEAN) /\ Len(u) = f + 1 - e /\ \A k \in 1 .. f + 1 - e : u[k] = ws[e + k - 1]
    BY ONLY <2>2, <2>3, ws \in Seq(BOOLEAN)
  <2>5. QED BY ONLY <2>1, <2>2, <2>4
<1>7. \A k \in 1 .. j + 1 - i : t[k] = u[k]
  <2>1. SUFFICES ASSUME NEW k \in 1 .. j + 1 - i PROVE t[k] = u[k]
    OBVIOUS
  <2>2. PICK l : l = i + k - 1
    OBVIOUS
  <2>3. l \in 1 .. b + 1 - a /\ a + l - 1 = a + i - 1 + k - 1
    BY <2>2
  <2>4. t[k] = s[l] /\ s[l] = ws[a + l - 1] /\ u[k] = ws[a + i - 1 + k - 1]
    BY <1>3, <1>5, <1>6, <2>2, <2>3
  <2>5. QED BY ONLY <2>3, <2>4
<1>8. t = u
  BY ONLY <1>5, <1>6, <1>7
<1>9. QED BY ONLY <1>1, <1>2, <1>4, <1>8

(* What one rolling window has, and how many windows there are.            *)
LEMMA RolledIs ==
  ASSUME NEW ws \in Seq(BOOLEAN), NEW n \in Nat, n = Len(ws)
  PROVE  \E m \in Nat :
           /\ m = IF n < Window THEN 0 ELSE n - Window + 1
           /\ DOMAIN Rolled(ws) = 1 .. m
           /\ \A i \in 1 .. m : Rolled(ws)[i] = Count(SubSeq(ws, i, i + Window - 1)) /\ Rolled(ws)[i] \in Int
<1>1. PICK m \in Nat : m = IF n < Window THEN 0 ELSE n - Window + 1
  <2>1. PICK w \in Nat \ {0} : w = Window
    BY WindowSize
  <2>2. ~(n < w) => n - w + 1 \in Nat
    BY ONLY n \in Nat, w \in Nat \ {0}
  <2>3. (IF n < Window THEN 0 ELSE n - Window + 1) \in Nat
    BY ONLY <2>1, <2>2
  <2>4. QED BY ONLY <2>3
<1>2. 1 .. Len(ws) - Window + 1 = 1 .. m
  BY <1>1, WindowSize
<1>3. PICK r : r = Rolled(ws)
  OBVIOUS
<1>4. r = [i \in 1 .. m |-> Count(SubSeq(ws, i, i + Window - 1))]
  BY <1>2, <1>3 DEF Rolled
<1>5. \A i \in 1 .. m : Count(SubSeq(ws, i, i + Window - 1)) \in Int
  <2>1. SUFFICES ASSUME NEW i \in 1 .. m PROVE Count(SubSeq(ws, i, i + Window - 1)) \in Int
    OBVIOUS
  <2>2. PICK s : s = SubSeq(ws, i, i + Window - 1)
    OBVIOUS
  <2>3. s \in Seq(BOOLEAN)
    BY <1>1, <2>2, WindowSize
  <2>4. Count(s) \in 0 .. Len(s)
    BY <2>3, CountBounds
  <2>5. QED BY <2>2, <2>3, <2>4
<1>6. DOMAIN r = 1 .. m /\ \A i \in 1 .. m : r[i] = Count(SubSeq(ws, i, i + Window - 1))
  BY <1>4
<1>7. QED BY <1>1, <1>3, <1>5, <1>6

(* The rolling rate alarms at the end of the first window over it.         *)
LEMMA RollingCalibrates ==
  ASSUME NEW ws \in Seq(BOOLEAN), NEW h \in Nat \ {0}
  PROVE  LET k == RollingAlarm(ws, h) IN
           /\ k # -1 <=> RollingMax(ws) >= h
           /\ k # -1 => /\ Count(SubSeq(ws, k - Window + 1, k)) >= h
                        /\ RollingMax(SubSeq(ws, 1, k - 1)) < h
<1>1. PICK n \in Nat : n = Len(ws)
  OBVIOUS
<1>1a. PICK m \in Nat :
        /\ DOMAIN Rolled(ws) = 1 .. m
        /\ m = IF n < Window THEN 0 ELSE n - Window + 1
        /\ \A i \in 1 .. m : Rolled(ws)[i] = Count(SubSeq(ws, i, i + Window - 1)) /\ Rolled(ws)[i] \in Int
  BY <1>1, RolledIs
<1>2. PICK r : /\ r = Rolled(ws) /\ DOMAIN r = 1 .. m
               /\ m = IF n < Window THEN 0 ELSE n - Window + 1
               /\ \A i \in 1 .. m : r[i] = Count(SubSeq(ws, i, i + Window - 1)) /\ r[i] \in Int
  BY <1>1a, Zenon
<1>3. PICK t : t = FirstCrossing([i \in DOMAIN r |-> r[i] >= h], -1)
  OBVIOUS
<1>4. Crossing(t, r, m, h)
  BY <1>2, <1>3, CrossesWhen, Zenon
<1>5. PICK k : k = RollingAlarm(ws, h)
  OBVIOUS
<1>6. k = IF t = -1 THEN -1 ELSE t + Window
  BY <1>2, <1>3, <1>5 DEF RollingAlarm
<1>7. Window \in Nat \ {0}
  BY WindowSize
<1>8. (k # -1 <=> t # -1) /\ (t # -1 => t \in Nat)
  BY ONLY <1>4, <1>6, <1>7, m \in Nat DEF Crossing
<1>9. RollingMax(ws) >= h <=> \E i \in 1 .. m : r[i] >= h
  <2>1. PICK T : T = {0} \cup {r[i] : i \in 1 .. m}
    OBVIOUS
  <2>2. RollingMax(ws) = Highest(T)
    BY <1>2, <2>1 DEF RollingMax
  <2>3. \A i \in 1 .. m : r[i] \in Int
    BY <1>2
  <2>4. Highest(T) >= h <=> \E i \in 1 .. m : r[i] >= h
    BY ONLY <2>1, <2>3, h \in Nat \ {0}, m \in Nat, HighestReaches
  <2>5. QED BY <2>2, <2>4
<1>10. ASSUME k # -1
       PROVE  Count(SubSeq(ws, k - Window + 1, k)) >= h /\ RollingMax(SubSeq(ws, 1, k - 1)) < h
  <2>1. /\ t \in Nat /\ t + 1 \in 1 .. m /\ r[t + 1] >= h
        /\ \A j \in 1 .. t : ~(r[j] >= h)
    BY <1>4, <1>8, <1>10 DEF Crossing
  <2>2. k = t + Window /\ k - Window + 1 = t + 1 /\ k = t + 1 + Window - 1 /\ k \in Nat /\ k > 0 /\ k <= n
        /\ k - 1 \in Nat
    <3>1. k = t + Window
      BY <1>6, <2>1
    <3>2. m = n - Window + 1
      BY ONLY <1>2, <2>1, m \in Nat
    <3>3. QED BY ONLY <1>7, <2>1, <3>1, <3>2, n \in Nat
  <2>3. Count(SubSeq(ws, k - Window + 1, k)) >= h
    <3>1. r[t + 1] = Count(SubSeq(ws, t + 1, t + 1 + Window - 1))
      BY <1>2, <2>1
    <3>2. SubSeq(ws, t + 1, t + 1 + Window - 1) = SubSeq(ws, k - Window + 1, k)
      BY ONLY <2>2
    <3>3. QED BY <2>1, <3>1, <3>2
  <2>4. PICK us : us = SubSeq(ws, 1, k - 1)
    OBVIOUS
  <2>5. us \in Seq(BOOLEAN) /\ Len(us) = k - 1
    BY <1>1, <2>2, <2>4
  <2>5a. PICK l \in Nat :
          /\ DOMAIN Rolled(us) = 1 .. l
          /\ l = IF k - 1 < Window THEN 0 ELSE k - 1 - Window + 1
          /\ \A i \in 1 .. l : Rolled(us)[i] = Count(SubSeq(us, i, i + Window - 1)) /\ Rolled(us)[i] \in Int
    BY <2>2, <2>5, RolledIs
  <2>6. PICK s : /\ s = Rolled(us) /\ DOMAIN s = 1 .. l
                 /\ l = IF k - 1 < Window THEN 0 ELSE k - 1 - Window + 1
                 /\ \A i \in 1 .. l : s[i] = Count(SubSeq(us, i, i + Window - 1)) /\ s[i] \in Int
    BY <2>5a, Zenon
  <2>7. l = t
    BY ONLY <1>7, <2>1, <2>2, <2>6
  <2>8. \A i \in 1 .. l : ~(s[i] >= h)
    <3>1. SUFFICES ASSUME NEW i \in 1 .. l PROVE ~(s[i] >= h)
      OBVIOUS
    <3>2. i \in 1 .. t /\ i \in 1 .. m /\ i \in Nat \ {0} /\ i + Window - 1 \in Nat
          /\ i <= i + Window - 1 + 1 /\ i + Window - 1 <= k - 1 + 1 - 1 /\ 1 + i - 1 = i
          /\ 1 + (i + Window - 1) - 1 = i + Window - 1
      BY ONLY <1>7, <2>1, <2>2, <2>7, m \in Nat, i \in 1 .. l
    <3>3. SubSeq(us, i, i + Window - 1) = SubSeq(ws, 1 + i - 1, 1 + (i + Window - 1) - 1)
      <4>1. 1 \in Nat \ {0} /\ k - 1 \in Nat /\ 1 <= k - 1 + 1 /\ k - 1 <= Len(ws)
        BY ONLY <1>1, <2>2, n \in Nat
      <4>2. QED BY ONLY <2>4, <3>2, <4>1, ws \in Seq(BOOLEAN), SliceOfSlice
    <3>4. s[i] = r[i]
      BY <1>2, <2>6, <3>2, <3>3
    <3>5. QED BY <2>1, <3>2, <3>4
  <2>9. PICK q : q = RollingMax(us)
    OBVIOUS
  <2>10. ~(q >= h) /\ q \in Int
    <3>1. PICK T : T = {0} \cup {s[i] : i \in 1 .. l}
      OBVIOUS
    <3>2. q = Highest(T)
      BY <2>6, <2>9, <3>1 DEF RollingMax
    <3>0. l \in Nat /\ \A i \in 1 .. l : s[i] \in Int
      BY <2>6
    <3>3. ~(q >= h)
      <4>1. Highest(T) >= h <=> \E i \in 1 .. l : s[i] >= h
        BY ONLY <3>0, <3>1, h \in Nat \ {0}, HighestReaches
      <4>2. QED BY <2>8, <3>2, <4>1
    <3>4. q \in Int
      <4>1. \E y \in T : \A x \in T : x <= y
        <5>1. PICK y \in T : y \in Int /\ y >= 0 /\ \A i \in 1 .. l : s[i] <= y
          BY ONLY <3>0, <3>1, HasHighest
        <5>2. QED BY <3>1, <5>1
      <4>2. q \in T
        BY <3>2, <4>1 DEF Highest
      <4>3. QED BY <2>6, <3>1, <4>2
    <3>5. QED BY <3>3, <3>4
  <2>11. QED BY <2>3, <2>4, <2>9, <2>10
<1>11. QED BY <1>4, <1>5, <1>8, <1>9, <1>10 DEF Crossing

(* A fold from the left takes the elements of a sequence in turn: the set  *)
(* of positions loses its highest, again and again.                        *)
Top(S) == CHOOSE x \in S : \A y \in S : x >= y

LEMMA TopIs ==
  ASSUME NEW k \in Nat, NEW S, S \subseteq 1 .. k, k \in S
  PROVE  Top(S) = k
<1>1. \A y \in S : k >= y /\ y \in Nat
  OBVIOUS
<1>2. PICK x : x = Top(S)
  OBVIOUS
<1>3. x \in S /\ \A y \in S : x >= y
  BY <1>1, <1>2 DEF Top
<1>4. x \in Nat /\ x >= k /\ k >= x
  BY <1>1, <1>3
<1>5. QED BY <1>2, <1>4

LEMMA TopExists ==
  ASSUME NEW n \in Nat, NEW S \in SUBSET (1 .. n), S # {}
  PROVE  \E x \in S : \A y \in S : x >= y
<1> DEFINE T == {n - x : x \in S}
<1>1. T \subseteq Nat /\ T # {}
  <2>1. \A x \in S : n - x \in Nat
    OBVIOUS
  <2>2. QED BY <2>1
<1>2. PICK k \in T : \A j \in T : k <= j
  <2> HIDE DEF T
  <2>1. QED BY <1>1, Least
<1>3. PICK x \in S : k = n - x
  BY <1>2
<1>4. \A y \in S : x >= y
  <2>1. SUFFICES ASSUME NEW y \in S PROVE x >= y
    OBVIOUS
  <2>2. n - y \in T /\ x \in Nat /\ y \in Nat
    OBVIOUS
  <2>3. n - x <= n - y
    BY <1>2, <1>3, <2>2
  <2>4. QED BY ONLY <2>2, <2>3, n \in Nat
<1>5. QED BY <1>4

(* What a fold gives on every set of positions, its value on none first.   *)
Folds(g, n, z, F) ==
  \A S \in SUBSET (1 .. n) : g[S] = IF S = {} THEN z ELSE F[Top(S)][g[S \ {Top(S)}]]

LEMMA FoldExists ==
  ASSUME NEW n \in Nat, NEW D, NEW z \in D, NEW F \in [1 .. n -> [D -> D]]
  PROVE  \E g \in [SUBSET (1 .. n) -> D] : Folds(g, n, z, F)
<1> DEFINE P(k) == \E g \in [SUBSET (1 .. k) -> D] : Folds(g, k, z, F)
           G == {k \in Nat : k <= n => P(k)}
<1>1. 0 \in G
  <2>1. [S \in SUBSET (1 .. 0) |-> z] \in [SUBSET (1 .. 0) -> D]
    OBVIOUS
  <2>2. \A S \in SUBSET (1 .. 0) : S = {}
    OBVIOUS
  <2>3. Folds([S \in SUBSET (1 .. 0) |-> z], 0, z, F)
    BY <2>2 DEF Folds
  <2>4. QED BY <2>1, <2>3
<1>2. ASSUME NEW k \in Nat, k \in G PROVE k + 1 \in G
  <2>1. SUFFICES ASSUME k + 1 <= n PROVE P(k + 1)
    <3> HIDE DEF P
    <3>1. QED OBVIOUS
  <2>0. P(k)
    <3> HIDE DEF P
    <3>1. QED BY <1>2, <2>1
  <2>2. PICK g \in [SUBSET (1 .. k) -> D] : Folds(g, k, z, F)
    BY <2>0
  <2>3. PICK m \in 1 .. n : m = k + 1
    BY <2>1
  <2>4. \A S \in SUBSET (1 .. m) : S \ {m} \in SUBSET (1 .. k) /\ (m \notin S => S \in SUBSET (1 .. k))
    <3>1. \A x : x \in 1 .. m /\ x # m => x \in 1 .. k
      BY <2>3
    <3>2. QED BY <3>1
  <2> DEFINE h == [S \in SUBSET (1 .. m) |-> IF m \in S THEN F[m][g[S \ {m}]] ELSE g[S]]
  <2>5. h \in [SUBSET (1 .. m) -> D]
    <3>1. ASSUME NEW S \in SUBSET (1 .. m) PROVE (IF m \in S THEN F[m][g[S \ {m}]] ELSE g[S]) \in D
      BY <2>4
    <3>2. QED BY <3>1
  <2>6. \A S \in SUBSET (1 .. k) : S \in SUBSET (1 .. m) /\ m \notin S /\ h[S] = g[S]
    <3>1. SUFFICES ASSUME NEW S \in SUBSET (1 .. k) PROVE S \in SUBSET (1 .. m) /\ m \notin S /\ h[S] = g[S]
      OBVIOUS
    <3>2. S \in SUBSET (1 .. m) /\ m \notin S
      <4>1. \A x \in 1 .. k : x \in 1 .. m /\ x # m
        BY <2>3
      <4>2. QED BY <4>1
    <3>3. QED BY <3>2
  <2>7. \A S \in SUBSET (1 .. m) : h[S] = IF S = {} THEN z ELSE F[Top(S)][h[S \ {Top(S)}]]
    <3>1. SUFFICES ASSUME NEW S \in SUBSET (1 .. m)
                   PROVE  h[S] = IF S = {} THEN z ELSE F[Top(S)][h[S \ {Top(S)}]]
      OBVIOUS
    <3>2. CASE m \in S
      <4>1. Top(S) = m /\ S # {}
        <5>1. m \in Nat /\ S \subseteq 1 .. m /\ S # {}
          BY <2>3, <3>2
        <5>2. QED BY ONLY <3>2, <5>1, TopIs
      <4>2. h[S] = F[m][g[S \ {m}]]
        BY <3>2
      <4>3. h[S \ {m}] = g[S \ {m}]
        BY <2>4, <2>6
      <4> HIDE DEF h
      <4>4. QED BY <4>1, <4>2, <4>3
    <3>3. CASE m \notin S
      <4>1. S \in SUBSET (1 .. k)
        BY <2>4, <3>3
      <4>2. h[S] = g[S] /\ g[S] = IF S = {} THEN z ELSE F[Top(S)][g[S \ {Top(S)}]]
        BY <2>2, <2>6, <4>1 DEF Folds
      <4>3. h[S \ {Top(S)}] = g[S \ {Top(S)}]
        BY <2>6, <4>1
      <4> HIDE DEF h
      <4>4. QED BY <4>2, <4>3
    <3>4. QED BY <3>2, <3>3
  <2>8. Folds(h, m, z, F)
    <3> HIDE DEF h
    <3>1. QED BY <2>7 DEF Folds
  <2>9. P(m)
    <3> HIDE DEF h
    <3>1. QED BY <2>5, <2>8
  <2>10. QED BY <2>3, <2>9
<1>3. Nat \subseteq G
  <2> HIDE DEF G
  <2>1. QED BY <1>1, <1>2, Counting
<1>4. P(n)
  <2> HIDE DEF P
  <2>1. QED BY <1>3
<1>5. QED BY <1>4

Chain(f, n, z, F, last) ==
  f[0] = z /\ f[n] = last /\ \A i \in 1 .. n : f[i] = F[i][f[i - 1]]

(* The values of a fold on the beginnings of the sequence.                 *)
LEMMA FoldSteps ==
  ASSUME NEW n \in Nat, NEW D, NEW z \in D, NEW F \in [1 .. n -> [D -> D]],
         NEW g, Folds(g, n, z, F)
  PROVE  \E f \in [0 .. n -> D] : Chain(f, n, z, F, g[1 .. n])
<1> DEFINE f == [i \in 0 .. n |-> g[1 .. i]]
           G == {k \in Nat : k <= n => g[1 .. k] \in D}
<1>1. g[1 .. 0] = z
  <2>1. 1 .. 0 = {} /\ {} \in SUBSET (1 .. n)
    OBVIOUS
  <2>2. QED BY <2>1 DEF Folds
<1>2. ASSUME NEW i \in 1 .. n PROVE g[1 .. i] = F[i][g[1 .. i - 1]]
  <2>1. 1 .. i \in SUBSET (1 .. n) /\ i \in 1 .. i /\ i \in Nat
    OBVIOUS
  <2>2. PICK S : S = 1 .. i
    OBVIOUS
  <2>3. Top(S) = i
    BY <2>1, <2>2, TopIs
  <2>4. S \ {i} = 1 .. i - 1
    BY <2>2
  <2>5. S \in SUBSET (1 .. n) /\ S # {}
    BY ONLY <2>1, <2>2
  <2>6. g[S] = F[Top(S)][g[S \ {Top(S)}]]
    BY <2>5 DEF Folds
  <2>7. QED BY ONLY <2>2, <2>3, <2>4, <2>6
<1>3. Nat \subseteq G
  <2>1. 0 \in G
    BY <1>1
  <2>2. ASSUME NEW k \in Nat, k \in G PROVE k + 1 \in G
    <3>1. SUFFICES ASSUME k + 1 <= n PROVE g[1 .. k + 1] \in D
      OBVIOUS
    <3>2. PICK i \in 1 .. n : i = k + 1 /\ i - 1 = k
      BY <3>1
    <3>3. g[1 .. i] = F[i][g[1 .. k]]
      BY <1>2, <3>2
    <3>4. g[1 .. k] \in D
      BY <2>2, <3>1
    <3>5. F[i] \in [D -> D]
      OBVIOUS
    <3>6. QED BY ONLY <3>2, <3>3, <3>4, <3>5
  <2>3. QED
    <3> HIDE DEF G
    <3>1. QED BY <2>1, <2>2, Counting
<1>4. f \in [0 .. n -> D]
  BY <1>3
<1>5. f[0] = z /\ f[n] = g[1 .. n]
  BY <1>1
<1>6. \A i \in 1 .. n : f[i] = F[i][f[i - 1]]
  <2>1. \A i \in 1 .. n : i \in 0 .. n /\ i - 1 \in 0 .. n
    OBVIOUS
  <2>2. QED BY <1>2, <2>1
<1>7. QED
  <2> HIDE DEF f
  <2>1. QED BY <1>4, <1>5, <1>6 DEF Chain

(* The drift monitor, one request after the other.                         *)
Monitors == [reference : Seq(BOOLEAN), buffer : Seq(BOOLEAN), seen : Nat, alarm : Nat]

LEMMA MonitorType ==
  ASSUME NEW m \in Monitors, NEW topic \in BOOLEAN, NEW h
  PROVE  MonitorObserve(m, topic, h) \in Monitors
<1>0. m.seen \in Nat /\ m.buffer \in Seq(BOOLEAN) /\ m.reference \in Seq(BOOLEAN) /\ m.alarm \in Nat
  BY DEF Monitors
<1>1. PICK seen \in Nat : seen = m.seen + 1
  BY ONLY <1>0
<1>2. PICK buffer \in Seq(BOOLEAN) : buffer = Append(m.buffer, topic)
  <2>1. PICK b \in Seq(BOOLEAN) : b = m.buffer
    BY ONLY <1>0
  <2>2. Append(b, topic) \in Seq(BOOLEAN)
    OBVIOUS
  <2>3. Append(m.buffer, topic) \in Seq(BOOLEAN)
    BY ONLY <2>1, <2>2
  <2>4. QED BY ONLY <2>3
<1>3. PICK latest \in Seq(BOOLEAN) : latest = IF Len(buffer) > Window THEN Tail(buffer) ELSE buffer
  <2>1. buffer # <<>> => Tail(buffer) \in Seq(BOOLEAN)
    OBVIOUS
  <2>2. buffer # <<>>
    BY <1>2 DEF Monitors
  <2>3. QED BY <2>1, <2>2
<1>4. PICK due \in BOOLEAN : due = (Len(latest) = Window /\ seen % Stride = 0 /\ Psi(m.reference, latest) >= h)
  OBVIOUS
<1>5. PICK alarm \in Nat : alarm = IF due THEN seen ELSE 0
  OBVIOUS
<1>6. /\ [m EXCEPT !.seen = seen, !.reference = buffer, !.buffer = <<>>] \in Monitors
      /\ [m EXCEPT !.seen = seen, !.buffer = buffer] \in Monitors
      /\ [m EXCEPT !.seen = seen, !.buffer = latest, !.alarm = alarm] \in Monitors
  <2>0. PICK Q : Q = Seq(BOOLEAN)
    OBVIOUS
  <2>1. buffer \in Q /\ latest \in Q /\ <<>> \in Q /\ seen \in Nat /\ alarm \in Nat
    BY <2>0
  <2>2. m \in [reference : Q, buffer : Q, seen : Nat, alarm : Nat]
    BY <2>0 DEF Monitors
  <2>3. [m EXCEPT !.seen = seen, !.reference = buffer, !.buffer = <<>>] \in [reference : Q, buffer : Q, seen : Nat, alarm : Nat]
    BY ONLY <2>1, <2>2
  <2>4. [m EXCEPT !.seen = seen, !.buffer = buffer] \in [reference : Q, buffer : Q, seen : Nat, alarm : Nat]
    BY ONLY <2>1, <2>2
  <2>5. [m EXCEPT !.seen = seen, !.buffer = latest, !.alarm = alarm] \in [reference : Q, buffer : Q, seen : Nat, alarm : Nat]
    BY ONLY <2>1, <2>2
  <2>6. QED BY ONLY <2>0, <2>3, <2>4, <2>5 DEF Monitors
<1>7. \/ MonitorObserve(m, topic, h) = m
      \/ MonitorObserve(m, topic, h) = [m EXCEPT !.seen = seen, !.reference = buffer, !.buffer = <<>>]
      \/ MonitorObserve(m, topic, h) = [m EXCEPT !.seen = seen, !.buffer = buffer]
      \/ MonitorObserve(m, topic, h) = [m EXCEPT !.seen = seen, !.buffer = latest, !.alarm = alarm]
  <2>1. CASE m.alarm # 0
    BY <2>1 DEF MonitorObserve
  <2>2. CASE m.alarm = 0 /\ m.reference = <<>>
    BY <1>1, <1>2, <2>2, Zenon DEF MonitorObserve
  <2>3. CASE m.alarm = 0 /\ m.reference # <<>>
    <3>1. alarm = IF (Len(latest) = Window /\ seen % Stride = 0) /\ Psi(m.reference, latest) >= h THEN seen ELSE 0
      BY <1>4, <1>5, Zenon
    <3>2. MonitorObserve(m, topic, h) = [m EXCEPT !.seen = seen, !.buffer = latest, !.alarm = alarm]
      BY <1>1, <1>2, <1>3, <2>3, <3>1 DEF MonitorObserve
    <3>3. QED BY <3>2
  <2>4. QED BY <2>1, <2>2, <2>3
<1>8. QED BY <1>6, <1>7

LEMMA FreshMonitorType == FreshMonitor \in Monitors
BY DEF FreshMonitor, Monitors

Observes(f, ws, h, n) == \A i \in 1 .. n : f[i] = MonitorObserve(f[i - 1], ws[i], h)

LEMMA MonitorIs ==
  ASSUME NEW ws \in Seq(BOOLEAN), NEW h, NEW n \in Nat, n = Len(ws)
  PROVE  \E f \in [0 .. n -> Monitors] :
           f[0] = FreshMonitor /\ Observes(f, ws, h, n) /\ DriftAlarmIndex(ws, h) = f[n].alarm
<1> DEFINE body(g) == [S \in SUBSET (1 .. n) |->
                         IF S = {} THEN FreshMonitor
                         ELSE MonitorObserve(g[S \ {Top(S)}], ws[Top(S)], h)]
           iter == CHOOSE g : g = body(g)
           F == [i \in 1 .. n |-> [m \in Monitors |-> MonitorObserve(m, ws[i], h)]]
<1>1. DriftAlarmIndex(ws, h) = iter[1 .. n].alarm
  <2>1. DOMAIN ws = 1 .. n
    OBVIOUS
  <2>2. DriftAlarmIndex(ws, h) =
          (CHOOSE g : g = [S \in SUBSET (DOMAIN ws) |->
                             IF S = {} THEN FreshMonitor
                             ELSE MonitorObserve(g[S \ {Top(S)}], ws[Top(S)], h)])[DOMAIN ws].alarm
    BY Zenon DEF DriftAlarmIndex, FoldLeft, MapThenFoldSet, Max, Top
  <2>3. QED BY <2>1, <2>2
<1>2. F \in [1 .. n -> [Monitors -> Monitors]]
  <2>1. ASSUME NEW i \in 1 .. n, NEW m \in Monitors PROVE MonitorObserve(m, ws[i], h) \in Monitors
    BY MonitorType
  <2> HIDE DEF Monitors
  <2>2. QED BY <2>1
<1>3. PICK g \in [SUBSET (1 .. n) -> Monitors] : Folds(g, n, FreshMonitor, F)
  <2> HIDE DEF F, Monitors
  <2>1. QED BY <1>2, FoldExists, FreshMonitorType
<1>4. ASSUME NEW S \in SUBSET (1 .. n), S # {}
      PROVE  Top(S) \in S /\ S \ {Top(S)} \in SUBSET (1 .. n)
             /\ F[Top(S)][g[S \ {Top(S)}]] = MonitorObserve(g[S \ {Top(S)}], ws[Top(S)], h)
  <2>1. Top(S) \in S
    <3>1. \E x \in S : \A y \in S : x >= y
      BY <1>4, TopExists
    <3>2. QED BY <3>1 DEF Top
  <2>2. PICK x \in 1 .. n : x = Top(S)
    BY <2>1
  <2>3. PICK R : R = S \ {Top(S)}
    OBVIOUS
  <2>4. R \in SUBSET (1 .. n)
    BY <2>3
  <2>5. g[R] \in Monitors
    BY <2>4
  <2>6. F[x][g[R]] = MonitorObserve(g[R], ws[x], h)
    <3> HIDE DEF Monitors
    <3>1. QED BY <2>5
  <2> HIDE DEF F
  <2>7. QED BY <2>1, <2>2, <2>3, <2>4, <2>6
<1>5. \A S \in SUBSET (1 .. n) : g[S] = body(g)[S]
  <2>1. SUFFICES ASSUME NEW S \in SUBSET (1 .. n) PROVE g[S] = body(g)[S]
    OBVIOUS
  <2>2. g[S] = IF S = {} THEN FreshMonitor ELSE F[Top(S)][g[S \ {Top(S)}]]
    BY <1>3 DEF Folds
  <2> HIDE DEF F
  <2>3. QED BY <1>4, <2>2
<1>6. g = body(g)
  <2>1. body(g) = [S \in SUBSET (1 .. n) |-> body(g)[S]] /\ g = [S \in SUBSET (1 .. n) |-> g[S]]
    OBVIOUS
  <2> HIDE DEF body
  <2>2. QED BY <1>5, <2>1
<1>7. iter = body(iter)
  <2> HIDE DEF body
  <2>1. QED BY <1>6
<1>8. PICK f \in [0 .. n -> Monitors] : Chain(f, n, FreshMonitor, F, g[1 .. n])
  <2> HIDE DEF F, Monitors
  <2>1. QED BY <1>2, <1>3, FoldSteps, FreshMonitorType
<1>9. Observes(f, ws, h, n)
  <2>1. SUFFICES ASSUME NEW i \in 1 .. n PROVE f[i] = MonitorObserve(f[i - 1], ws[i], h)
    BY DEF Observes
  <2>2. f[i - 1] \in Monitors
    <3>1. i - 1 \in 0 .. n
      OBVIOUS
    <3>2. QED BY <3>1
  <2>3. F[i][f[i - 1]] = MonitorObserve(f[i - 1], ws[i], h)
    <3> HIDE DEF Monitors
    <3>1. QED BY <2>2
  <2> HIDE DEF F
  <2>4. QED BY <1>8, <2>3 DEF Chain
<1> HIDE DEF iter, F
<1> DEFINE G == {k \in Nat : k <= n => iter[1 .. k] = g[1 .. k]}
<1>10. Nat \subseteq G
  <2>1. 0 \in G
    <3>1. 1 .. 0 = {} /\ {} \in SUBSET (1 .. n)
      OBVIOUS
    <3>2. iter[{}] = FreshMonitor /\ g[{}] = FreshMonitor
      BY <1>6, <1>7, <3>1
    <3>3. QED BY <3>1, <3>2
  <2>2. ASSUME NEW k \in Nat, k \in G PROVE k + 1 \in G
    <3>1. SUFFICES ASSUME k + 1 <= n PROVE iter[1 .. k + 1] = g[1 .. k + 1]
      OBVIOUS
    <3>2. PICK i \in 1 .. n : i = k + 1
      BY <3>1
    <3>3. PICK S : S = 1 .. i
      OBVIOUS
    <3>4. S \in SUBSET (1 .. n) /\ S # {} /\ i \in S /\ S \subseteq 1 .. i /\ i \in Nat /\ S \ {i} = 1 .. k
      BY <3>2, <3>3
    <3>5. Top(S) = i
      BY ONLY <3>4, TopIs
    <3>6. iter[S] = MonitorObserve(iter[S \ {Top(S)}], ws[Top(S)], h)
      BY <1>7, <3>4
    <3>7. g[S] = MonitorObserve(g[S \ {Top(S)}], ws[Top(S)], h)
      BY <1>6, <3>4
    <3>8. iter[1 .. k] = g[1 .. k]
      BY <2>2, <3>1
    <3>9. QED BY ONLY <3>2, <3>3, <3>4, <3>5, <3>6, <3>7, <3>8
  <2>3. QED
    <3> HIDE DEF G
    <3>1. QED BY <2>1, <2>2, Counting
<1>11. iter[1 .. n] = g[1 .. n]
  BY <1>10
<1>12. QED BY <1>1, <1>8, <1>9, <1>11 DEF Chain

-----------------------------------------------------------------------------
(* Division with remainder, in the few facts the proofs need.              *)
LEMMA Multiples ==
  ASSUME NEW b \in Nat \ {0}, NEW z \in Nat \ {0}
  PROVE  b * z >= b
<1> DEFINE G == {k \in Nat : b * (k + 1) >= b}
<1>1. 0 \in G
  OBVIOUS
<1>2. ASSUME NEW k \in Nat, k \in G PROVE k + 1 \in G
  <2>1. b * (k + 1 + 1) = b * (k + 1) + b /\ b * (k + 1) \in Nat
    OBVIOUS
  <2>2. QED BY <1>2, <2>1
<1>3. Nat \subseteq G
  <2> HIDE DEF G
  <2>1. QED BY <1>1, <1>2, Counting
<1>4. z - 1 \in Nat /\ z - 1 + 1 = z
  OBVIOUS
<1>5. b * (z - 1 + 1) >= b
  BY <1>3, <1>4
<1>6. QED BY <1>4, <1>5

LEMMA Division ==
  ASSUME NEW b \in Nat \ {0}, NEW n \in Nat
  PROVE  \E p \in Nat, s \in 0 .. b - 1 : n = b * p + s /\ p = n \div b /\ s = n % b
<1>1. n \div b \in Nat
  BY ONLY n \in Nat, b \in Nat \ {0}
<1>2. n % b \in 0 .. b - 1
  BY ONLY n \in Nat, b \in Nat \ {0}
<1>3. n \in Int /\ b > 0
  OBVIOUS
<1>4. n = b * (n \div b) + (n % b)
  BY <1>3, Z3
<1>5. PICK p, s : p = n \div b /\ s = n % b
  OBVIOUS
<1>6. p \in Nat /\ s \in 0 .. b - 1 /\ n = b * p + s
  BY ONLY <1>1, <1>2, <1>4, <1>5, Zenon
<1>7. QED BY ONLY <1>5, <1>6, Zenon

LEMMA Remainder ==
  ASSUME NEW b \in Nat \ {0}, NEW q \in Nat, NEW r \in 0 .. b - 1, NEW n, n = b * q + r
  PROVE  n % b = r
<1>1. n \in Nat
  OBVIOUS
<1>2. PICK p \in Int, s \in 0 .. b - 1 : n = b * p + s /\ s = n % b
  BY <1>1, Division
<1>3. b * p - b * q = r - s
  <2>1. PICK x, y \in Int : x = b * p /\ y = b * q
    BY <1>2
  <2>2. y + r = x + s
    BY <1>2, <2>1
  <2>3. x - y = r - s
    BY ONLY <2>2, x \in Int, y \in Int, r \in 0 .. b - 1, s \in 0 .. b - 1, b \in Nat \ {0}
  <2>4. QED BY <2>1, <2>3
<1>4. b * (p - q) = b * p - b * q
  BY <1>2
<1>5. ~(p > q)
  <2>1. SUFFICES ASSUME p > q PROVE FALSE
    OBVIOUS
  <2>2. p - q \in Nat \ {0}
    BY <1>2, <2>1
  <2>3. b * (p - q) >= b
    BY <2>2, Multiples
  <2>4. r - s < b
    BY <1>2
  <2>5. QED BY <1>2, <1>3, <1>4, <2>3, <2>4
<1>6. ~(q > p)
  <2>1. SUFFICES ASSUME q > p PROVE FALSE
    OBVIOUS
  <2>2. q - p \in Nat \ {0}
    BY <1>2, <2>1
  <2>3. b * (q - p) >= b
    BY <2>2, Multiples
  <2>4. b * (q - p) = s - r
    BY <1>2, <1>3
  <2>5. s - r < b
    BY <1>2
  <2>6. QED BY <1>2, <2>3, <2>4, <2>5
<1>7. p = q
  BY <1>2, <1>5, <1>6
<1>8. r - s = 0
  <2>1. PICK x \in Int : x = b * p
    BY <1>2
  <2>2. x - x = r - s
    BY <1>3, <1>7, <2>1
  <2>3. QED BY ONLY <2>2, x \in Int, r \in 0 .. b - 1, s \in 0 .. b - 1, b \in Nat \ {0}
<1>9. s = r
  BY ONLY <1>8, r \in 0 .. b - 1, s \in 0 .. b - 1, b \in Nat \ {0}
<1>10. QED BY ONLY <1>2, <1>9, Zenon

LEMMA SameRemainder ==
  ASSUME NEW b \in Nat \ {0}, NEW x \in Nat, NEW y \in Nat, y % b = 0
  PROVE  (x + y) % b = x % b
<1>1. PICK q \in Nat, r \in 0 .. b - 1 : x = b * q + r /\ r = x % b
  BY Division
<1>2. PICK p \in Nat, s \in 0 .. b - 1 : y = b * p + s /\ s = y % b
  BY Division
<1>3. PICK k \in Nat, m \in Nat : k = x + y /\ m = q + p
  OBVIOUS
<1>4. k = b * m + r
  <2>1. b * m = b * q + b * p
    BY ONLY <1>3, b \in Nat \ {0}, q \in Nat, p \in Nat
  <2>2. PICK u \in Nat, v \in Nat, w \in Nat : u = b * q /\ v = b * p /\ w = b * m
    BY ONLY b \in Nat \ {0}, q \in Nat, p \in Nat, m \in Nat
  <2>3. x = u + r /\ y = v + s /\ w = u + v /\ s = 0
    BY ONLY <1>1, <1>2, <2>1, <2>2, y % b = 0
  <2>4. k = w + r
    BY ONLY <1>3, <2>3, r \in 0 .. b - 1, u \in Nat, v \in Nat, w \in Nat, b \in Nat \ {0}
  <2>5. QED BY ONLY <2>2, <2>4
<1>5. k % b = r
  BY ONLY <1>4, b \in Nat \ {0}, k \in Nat, m \in Nat, r \in 0 .. b - 1, Remainder
<1>6. QED BY ONLY <1>1, <1>3, <1>5

-----------------------------------------------------------------------------
(* The first request of the buffer, once the reference is taken.           *)
From(i) == IF i < 2 * Window THEN Window + 1 ELSE i - Window + 1

(* A check among the first i requests over the threshold.                  *)
Exceeds(ws, h, c) == Psi(SubSeq(ws, 1, Window), SubSeq(ws, c + 1, c + Window)) >= h
Due(c) == (c - Window) % Stride = 0
Alarming(ws, h, i) == \E c \in Window .. i - Window : Due(c) /\ Exceeds(ws, h, c)

(* The monitor after i requests, until it alarms.                          *)
MonitorAt(m, ws, h, i) ==
  /\ m.alarm # 0 <=> Alarming(ws, h, i)
  /\ m.alarm = 0 =>
       /\ m.seen = i
       /\ m.reference = IF i < Window THEN <<>> ELSE SubSeq(ws, 1, Window)
       /\ m.buffer = IF i < Window THEN SubSeq(ws, 1, i) ELSE SubSeq(ws, From(i), i)

(* Requests come: none is checked before there are two windows of them.    *)
LEMMA NoneDue ==
  ASSUME NEW ws, NEW h, NEW i \in Nat, i < 2 * Window
  PROVE  ~Alarming(ws, h, i)
<1>1. PICK w \in Nat \ {0} : w = Window
  BY WindowSize
<1>2. Window .. i - Window = {}
  BY ONLY <1>1, i \in Nat, i < 2 * Window
<1>3. QED BY ONLY <1>2 DEF Alarming

LEMMA OneMoreDue ==
  ASSUME NEW ws, NEW h, NEW i \in Nat, i + 1 >= 2 * Window, NEW c, c = (i + 1) - Window
  PROVE  Alarming(ws, h, i + 1) <=> Alarming(ws, h, i) \/ (Due(c) /\ Exceeds(ws, h, c))
<1>1. PICK w \in Nat \ {0} : w = Window
  BY WindowSize
<1>2. \A x : x \in Window .. (i + 1) - Window <=> x \in Window .. i - Window \/ x = c
  BY ONLY <1>1, i \in Nat, i + 1 >= 2 * Window, c = (i + 1) - Window
<1>3. ASSUME Alarming(ws, h, i + 1) PROVE Alarming(ws, h, i) \/ (Due(c) /\ Exceeds(ws, h, c))
  <2>1. PICK x \in Window .. (i + 1) - Window : Due(x) /\ Exceeds(ws, h, x)
    BY ONLY <1>3 DEF Alarming
  <2>2. x = c \/ x \in Window .. i - Window
    BY <1>2, <2>1
  <2>3. QED BY ONLY <2>1, <2>2 DEF Alarming
<1>4. ASSUME Alarming(ws, h, i) PROVE Alarming(ws, h, i + 1)
  <2>1. PICK x \in Window .. i - Window : Due(x) /\ Exceeds(ws, h, x)
    BY ONLY <1>4 DEF Alarming
  <2>2. x \in Window .. (i + 1) - Window
    BY <1>2, <2>1
  <2>3. QED BY ONLY <2>1, <2>2 DEF Alarming
<1>5. ASSUME Due(c), Exceeds(ws, h, c) PROVE Alarming(ws, h, i + 1)
  <2>1. c \in Window .. (i + 1) - Window
    BY <1>2
  <2>2. QED BY ONLY <1>5, <2>1 DEF Alarming
<1>6. QED BY <1>3, <1>4, <1>5

(* A check falls due with the request that completes its window.           *)
LEMMA DueWhen ==
  ASSUME NEW i \in Nat, i >= 2 * Window, NEW c, c = i - Window
  PROVE  Due(c) <=> i % Stride = 0
<1>1. PICK w \in Nat \ {0}, s \in Nat \ {0}, x \in Nat, y \in Nat :
        w = Window /\ s = Stride /\ x = c - Window /\ y = 2 * Window /\ i = x + y
  <2>1. Window \in Nat \ {0} /\ Stride \in Nat \ {0}
    BY WindowSize
  <2>2. c - Window \in Nat /\ 2 * Window \in Nat /\ i = (c - Window) + (2 * Window)
    BY ONLY <2>1, i \in Nat, i >= 2 * Window, c = i - Window
  <2>3. QED BY ONLY <2>1, <2>2
<1>2. y % s = 0
  BY ONLY <1>1, StrideAssumption
<1>3. (x + y) % s = x % s
  BY ONLY <1>2, s \in Nat \ {0}, x \in Nat, y \in Nat, SameRemainder
<1>4. QED BY ONLY <1>1, <1>3 DEF Due

LEMMA MonitorMore ==
  ASSUME NEW ws \in Seq(BOOLEAN), NEW h, NEW i \in Nat, i + 1 <= Len(ws),
         NEW m \in Monitors, MonitorAt(m, ws, h, i)
  PROVE  MonitorAt(MonitorObserve(m, ws[i + 1], h), ws, h, i + 1)
<1>1. PICK v, win : v = MonitorObserve(m, win, h) /\ win = ws[i + 1]
  OBVIOUS
<1>2. Window \in Nat \ {0} /\ Stride \in Nat \ {0} /\ Len(ws) \in Nat
  BY WindowSize
<1>3. CASE m.alarm # 0
  <2>1. v = m
    BY <1>1, <1>3 DEF MonitorObserve
  <2>2. Alarming(ws, h, i)
    BY <1>3 DEF MonitorAt
  <2>3. Alarming(ws, h, i + 1)
    <3>1. Window .. i - Window \subseteq Window .. (i + 1) - Window
      BY ONLY <1>2, i \in Nat
    <3>2. PICK x \in Window .. i - Window : Due(x) /\ Exceeds(ws, h, x)
      BY ONLY <2>2 DEF Alarming
    <3>3. x \in Window .. (i + 1) - Window
      BY ONLY <3>1, <3>2
    <3>4. QED BY ONLY <3>2, <3>3 DEF Alarming
  <2>4. QED BY <1>1, <1>3, <2>1, <2>3 DEF MonitorAt
<1>4. CASE m.alarm = 0
  <2>1. m.seen = i /\ ~Alarming(ws, h, i)
    BY <1>4 DEF MonitorAt
  <2>2. CASE i < Window
    <3>1. m.reference = <<>> /\ m.buffer = SubSeq(ws, 1, i)
      BY <1>4, <2>2 DEF MonitorAt
    <3>2. PICK b : b = SubSeq(ws, 1, i + 1)
      OBVIOUS
    <3>3. b = Append(m.buffer, win)
      <4>1. PICK k \in Nat \ {0} : k = 1 /\ k <= i + 1
        OBVIOUS
      <4>2. i + 1 <= Len(ws) /\ i \in Nat
        OBVIOUS
      <4>3. SubSeq(ws, k, i + 1) = Append(SubSeq(ws, k, i), ws[i + 1])
        BY ONLY <4>1, <4>2, ws \in Seq(BOOLEAN), SliceGrows
      <4>4. QED BY ONLY <1>1, <3>1, <3>2, <4>1, <4>3
    <3>4. ~Alarming(ws, h, i + 1)
      <4>1. i + 1 \in Nat /\ i + 1 < 2 * Window
        BY ONLY <1>2, <2>2, i \in Nat
      <4>2. QED BY <4>1, NoneDue
    <3>5. CASE i + 1 = Window
      <4>1. v = [m EXCEPT !.seen = i + 1, !.reference = b, !.buffer = <<>>]
        BY <1>1, <1>4, <2>1, <3>1, <3>3, <3>5 DEF MonitorObserve
      <4>2. v.alarm = 0 /\ v.seen = i + 1 /\ v.reference = b /\ v.buffer = <<>>
        BY <1>4, <4>1 DEF Monitors
      <4>3. b = SubSeq(ws, 1, Window)
        BY ONLY <3>2, <3>5
      <4>4. SubSeq(ws, From(i + 1), i + 1) = <<>>
        <5>1. From(i + 1) = Window + 1 /\ i + 1 = Window
          BY ONLY <1>2, <3>5 DEF From
        <5>2. SubSeq(ws, Window + 1, Window) = <<>>
          BY <1>2
        <5>3. QED BY ONLY <5>1, <5>2
      <4>5. ~(i + 1 < Window)
        BY ONLY <1>2, <3>5
      <4>6. MonitorAt(v, ws, h, i + 1)
        BY ONLY <3>4, <4>2, <4>3, <4>4, <4>5 DEF MonitorAt
      <4>7. QED BY <1>1, <4>6
    <3>6. CASE i + 1 # Window
      <4>1. v = [m EXCEPT !.seen = i + 1, !.buffer = b]
        BY <1>1, <1>4, <2>1, <3>1, <3>3, <3>6 DEF MonitorObserve
      <4>2. v.alarm = 0 /\ v.seen = i + 1 /\ v.reference = <<>> /\ v.buffer = b
        BY <1>4, <3>1, <4>1 DEF Monitors
      <4>3. i + 1 < Window
        BY ONLY <1>2, <2>2, <3>6, i \in Nat
      <4>4. MonitorAt(v, ws, h, i + 1)
        BY ONLY <3>2, <3>4, <4>2, <4>3 DEF MonitorAt
      <4>5. QED BY <1>1, <4>4
    <3>7. QED BY <3>5, <3>6
  <2>3. CASE ~(i < Window)
    <3>1. m.reference = SubSeq(ws, 1, Window) /\ m.buffer = SubSeq(ws, From(i), i)
      BY <1>4, <2>3 DEF MonitorAt
    <3>2. m.reference # <<>>
      <4>1. PICK s : s = SubSeq(ws, 1, Window)
        OBVIOUS
      <4>2. Len(s) = Window
        BY <1>2, <2>3, <4>1
      <4>3. s # <<>>
        BY ONLY <1>2, <4>2
      <4>4. QED BY ONLY <3>1, <4>1, <4>3
    <3>3. PICK a \in Nat \ {0} : /\ a = From(i) /\ a <= i + 1
                                 /\ From(i + 1) = (IF i < 2 * Window THEN a ELSE a + 1)
                                 /\ a = IF i < 2 * Window THEN Window + 1 ELSE i - Window + 1
      <4>1. PICK w \in Nat \ {0} : w = Window /\ ~(i < w)
        BY ONLY <1>2, <2>3
      <4>2. CASE i < 2 * w
        <5>1. From(i) = w + 1 /\ From(i + 1) = w + 1 /\ w + 1 \in Nat \ {0} /\ w + 1 <= i + 1
          BY ONLY <4>1, <4>2, i \in Nat DEF From
        <5>2. QED BY ONLY <4>1, <4>2, <5>1
      <4>3. CASE ~(i < 2 * w)
        <5>1. /\ From(i) = i - w + 1 /\ From(i + 1) = i - w + 1 + 1
              /\ i - w + 1 \in Nat \ {0} /\ i - w + 1 <= i + 1
          BY ONLY <4>1, <4>3, i \in Nat DEF From
        <5>2. QED BY ONLY <4>1, <4>3, <5>1
      <4>4. QED BY <4>2, <4>3
    <3>4. PICK b : b = SubSeq(ws, a, i + 1)
      OBVIOUS
    <3>5. b = Append(m.buffer, win) /\ b \in Seq(BOOLEAN) /\ Len(b) = i + 2 - a
      <4>1. SubSeq(ws, a, i + 1) = Append(SubSeq(ws, a, i), ws[i + 1])
        BY <3>3, SliceGrows
      <4>2. b \in Seq(BOOLEAN) /\ Len(b) = i + 2 - a
        BY <3>3, <3>4
      <4>3. QED BY <1>1, <3>1, <3>3, <3>4, <4>1, <4>2
    <3>6. PICK l : l = IF Len(b) > Window THEN Tail(b) ELSE b
      OBVIOUS
    <3>7. l = SubSeq(ws, From(i + 1), i + 1) /\ (Len(l) = Window <=> i + 1 >= 2 * Window)
      <4>1. CASE i < 2 * Window
        <5>1. ~(Len(b) > Window) /\ (Len(b) = Window <=> i + 1 >= 2 * Window)
          BY ONLY <1>2, <2>3, <3>3, <3>5, <4>1, i \in Nat
        <5>2. l = b /\ From(i + 1) = a
          BY <3>3, <3>6, <4>1, <5>1
        <5>3. QED BY <3>4, <5>1, <5>2
      <4>2. CASE ~(i < 2 * Window)
        <5>1. Len(b) > Window /\ Len(b) = Window + 1 /\ i + 1 >= 2 * Window
          BY ONLY <1>2, <2>3, <3>3, <3>5, <4>2, i \in Nat
        <5>2. a \in 1 .. Len(ws) /\ i + 1 \in a .. Len(ws)
          BY ONLY <1>2, <3>3, <4>2, i \in Nat, i + 1 <= Len(ws)
        <5>3. Tail(b) = SubSeq(ws, a + 1, i + 1)
          BY ONLY <3>4, <5>2, ws \in Seq(BOOLEAN), HeadTailOfSubSeq
        <5>4. From(i + 1) = a + 1 /\ l = Tail(b)
          BY <3>3, <3>6, <4>2, <5>1
        <5>5. Len(Tail(b)) = Window
          BY <3>5, <5>1, <1>2
        <5>6. QED BY ONLY <5>1, <5>3, <5>4, <5>5
      <4>3. QED BY <4>1, <4>2
    <3>8. PICK due, al : /\ due \in BOOLEAN
                       /\ due = ((Len(l) = Window /\ (i + 1) % Stride = 0) /\ Psi(m.reference, l) >= h)
                       /\ al = IF due THEN i + 1 ELSE 0
      OBVIOUS
    <3>9. v = [m EXCEPT !.seen = i + 1, !.buffer = l, !.alarm = al]
      BY <1>1, <1>4, <2>1, <3>2, <3>5, <3>6, <3>8 DEF MonitorObserve
    <3>10. v.seen = i + 1 /\ v.reference = m.reference /\ v.buffer = l /\ v.alarm = al
      BY <3>9 DEF Monitors
    <3>11. al # 0 <=> due
      BY <3>8
    <3>12. due <=> Alarming(ws, h, i + 1)
      <4>1. CASE i + 1 >= 2 * Window
        <5>1. PICK c : c = (i + 1) - Window
          OBVIOUS
        <5>2. Due(c) <=> (i + 1) % Stride = 0
          <6>1. PICK j \in Nat : j = i + 1
            OBVIOUS
          <6>2. j >= 2 * Window /\ c = j - Window
            BY ONLY <4>1, <5>1, <6>1
          <6>3. Due(c) <=> j % Stride = 0
            BY ONLY <6>2, j \in Nat, DueWhen
          <6>4. QED BY ONLY <6>1, <6>3
        <5>3. l = SubSeq(ws, c + 1, c + Window)
          <6>1. From(i + 1) = c + 1 /\ i + 1 = c + Window
            BY ONLY <1>2, <4>1, <5>1, i \in Nat DEF From
          <6>2. QED BY ONLY <3>7, <6>1
        <5>4. Psi(m.reference, l) >= h <=> Exceeds(ws, h, c)
          BY <3>1, <5>3 DEF Exceeds
        <5>5. Alarming(ws, h, i + 1) <=> Due(c) /\ Exceeds(ws, h, c)
          BY <2>1, <4>1, <5>1, OneMoreDue
        <5>6. QED BY ONLY <3>7, <3>8, <4>1, <5>2, <5>4, <5>5
      <4>2. CASE ~(i + 1 >= 2 * Window)
        <5>1. i + 1 \in Nat /\ i + 1 < 2 * Window
          BY ONLY <1>2, <4>2, i \in Nat
        <5>2. ~Alarming(ws, h, i + 1)
          BY <5>1, NoneDue
        <5>3. QED BY ONLY <3>7, <3>8, <4>2, <5>2
      <4>3. QED BY <4>1, <4>2
    <3>13. ~(i + 1 < Window)
      BY ONLY <1>2, <2>3, i \in Nat
    <3>14. MonitorAt(v, ws, h, i + 1)
      BY ONLY <3>1, <3>7, <3>10, <3>11, <3>12, <3>13 DEF MonitorAt
    <3>15. QED BY <1>1, <3>14
  <2>4. QED BY <2>2, <2>3
<1>5. QED BY <1>3, <1>4

LEMMA MonitorRuns ==
  ASSUME NEW ws \in Seq(BOOLEAN), NEW h \in Nat \ {0}, NEW n \in Nat, n = Len(ws)
  PROVE  DriftAlarmIndex(ws, h) # 0 <=> Alarming(ws, h, n)
<1>1. PICK f \in [0 .. n -> Monitors] :
        f[0] = FreshMonitor /\ Observes(f, ws, h, n) /\ DriftAlarmIndex(ws, h) = f[n].alarm
  BY MonitorIs, SMTT(60)
<1> DEFINE G == {k \in Nat : k <= n => MonitorAt(f[k], ws, h, k)}
<1>2. 0 \in G
  <2>1. PICK w \in Nat \ {0} : w = Window
    BY WindowSize
  <2>2. 0 < w /\ 0 \in Nat /\ 0 < 2 * w
    OBVIOUS
  <2>3. ~Alarming(ws, h, 0)
    BY ONLY <2>1, <2>2, NoneDue
  <2>4. SubSeq(ws, 1, 0) = <<>>
    OBVIOUS
  <2>5. f[0].alarm = 0 /\ f[0].seen = 0 /\ f[0].reference = <<>> /\ f[0].buffer = <<>>
    BY <1>1 DEF FreshMonitor
  <2>6. MonitorAt(f[0], ws, h, 0)
    BY ONLY <2>1, <2>2, <2>3, <2>4, <2>5 DEF MonitorAt
  <2>7. QED BY <2>6
<1>3. ASSUME NEW k \in Nat, k \in G PROVE k + 1 \in G
  <2>1. SUFFICES ASSUME k + 1 <= n PROVE MonitorAt(f[k + 1], ws, h, k + 1)
    OBVIOUS
  <2>2. k + 1 \in 1 .. n /\ k + 1 - 1 = k /\ k \in 0 .. n /\ k <= n /\ k + 1 <= Len(ws)
    BY <2>1
  <2>3. f[k + 1] = MonitorObserve(f[k], ws[k + 1], h) /\ f[k] \in Monitors
    BY <1>1, <2>2 DEF Observes
  <2>4. MonitorAt(f[k], ws, h, k)
    BY <1>3, <2>2
  <2>5. MonitorAt(MonitorObserve(f[k], ws[k + 1], h), ws, h, k + 1)
    BY ONLY <2>2, <2>3, <2>4, k \in Nat, ws \in Seq(BOOLEAN), MonitorMore
  <2>6. QED BY <2>3, <2>5
<1>4. Nat \subseteq G
  <2> HIDE DEF G
  <2>1. QED BY <1>2, <1>3, Counting
<1>5. MonitorAt(f[n], ws, h, n)
  BY <1>4
<1>6. QED BY <1>1, <1>5 DEF MonitorAt

LEMMA PsiType ==
  ASSUME NEW us \in Seq(BOOLEAN), NEW vs \in Seq(BOOLEAN)
  PROVE  Psi(us, vs) \in Int
<1>1. Count(us) \in Int /\ Count(vs) \in Int
  BY CountBounds
<1>2. QED BY <1>1 DEF Psi

LEMMA MonitorCalibrates ==
  ASSUME NEW ws \in Seq(BOOLEAN), NEW h \in Nat \ {0}
  PROVE  DriftAlarmIndex(ws, h) # 0
           <=> /\ Len(ws) > Window
               /\ PsiMax(SubSeq(ws, 1, Window), SubSeq(ws, Window + 1, Len(ws))) >= h
<1>1. PICK n \in Nat, w \in Nat \ {0} : n = Len(ws) /\ w = Window
  BY WindowSize
<1>2. DriftAlarmIndex(ws, h) # 0 <=> Alarming(ws, h, n)
  BY <1>1, MonitorRuns
<1>3. CASE n <= w
  <2>1. n < 2 * Window /\ ~(Len(ws) > Window)
    BY ONLY <1>1, <1>3
  <2>2. ~Alarming(ws, h, n)
    BY <2>1, NoneDue
  <2>3. QED BY <1>2, <2>1, <2>2
<1>4. CASE n > w
  <2>1. PICK ref, stream : ref = SubSeq(ws, 1, w) /\ stream = SubSeq(ws, w + 1, n)
    OBVIOUS
  <2>2. ref \in Seq(BOOLEAN) /\ stream \in Seq(BOOLEAN) /\ Len(stream) = n - w
    BY <1>1, <1>4, <2>1
  <2>3. PICK l \in Nat : l = n - w /\ l = Len(stream)
    BY <1>4, <2>2
  <2> DEFINE P(c) == Psi(ref, SubSeq(stream, c - w + 1, c))
             checks == {c \in w .. l : (c - w) % Stride = 0}
             T == {0} \cup {P(c) : c \in checks}
             s == [i \in 1 .. l |-> IF i \in checks THEN P(i) ELSE 0]
  <2>4. PsiMax(ref, stream) = Highest(T)
    BY <1>1, <2>3, Zenon DEF PsiMax
  <2>5. ASSUME NEW c \in w .. l
        PROVE  P(c) = Psi(SubSeq(ws, 1, Window), SubSeq(ws, c + 1, c + Window)) /\ P(c) \in Int
    <3>1. PICK a, i, j : a = w + 1 /\ i = c - w + 1 /\ j = c
      OBVIOUS
    <3>2. /\ a \in Nat \ {0} /\ a <= n + 1 /\ n <= Len(ws) /\ i \in Nat \ {0} /\ j \in Nat
          /\ i <= j + 1 /\ j <= n + 1 - a /\ a + i - 1 = c + 1 /\ a + j - 1 = c + w
      BY ONLY <1>1, <1>4, <2>3, <3>1, n \in Nat, w \in Nat \ {0}, c \in w .. l, l \in Nat
    <3>3. SubSeq(SubSeq(ws, a, n), i, j) = SubSeq(ws, a + i - 1, a + j - 1)
      BY ONLY <3>2, n \in Nat, ws \in Seq(BOOLEAN), SliceOfSlice
    <3>4. SubSeq(stream, c - w + 1, c) = SubSeq(ws, c + 1, c + w)
      BY ONLY <2>1, <3>1, <3>2, <3>3
    <3>5. P(c) = Psi(SubSeq(ws, 1, Window), SubSeq(ws, c + 1, c + Window))
      BY ONLY <1>1, <2>1, <3>4
    <3>6. PICK u : u = SubSeq(stream, c - w + 1, c)
      OBVIOUS
    <3>7. u \in Seq(BOOLEAN)
      BY ONLY <2>2, <2>3, <3>6, w \in Nat \ {0}, c \in w .. l, l \in Nat
    <3>8. P(c) \in Int
      BY ONLY <2>2, <3>6, <3>7, PsiType
    <3>9. QED BY <3>5, <3>8
  <2>6. \A c \in checks : c \in w .. l /\ c \in 1 .. l
    OBVIOUS
  <2> HIDE DEF P
  <2>7. \A i \in 1 .. l : s[i] = (IF i \in checks THEN P(i) ELSE 0) /\ s[i] \in Int
    BY <2>5, <2>6
  <2>8. T = {0} \cup {s[i] : i \in 1 .. l}
    <3> HIDE DEF s, checks
    <3>1. ASSUME NEW x \in T PROVE x \in {0} \cup {s[i] : i \in 1 .. l}
      BY <2>6, <2>7
    <3>2. ASSUME NEW x \in {0} \cup {s[i] : i \in 1 .. l} PROVE x \in T
      BY <2>7
    <3>3. QED BY <3>1, <3>2
  <2> HIDE DEF s, T, checks
  <2>9. Highest(T) >= h <=> \E i \in 1 .. l : s[i] >= h
    BY ONLY <2>7, <2>8, l \in Nat, h \in Nat \ {0}, HighestReaches
  <2>10. (\E i \in 1 .. l : s[i] >= h) <=> \E c \in checks : P(c) >= h
    BY <2>6, <2>7
  <2>11. \A c : c \in checks <=> c \in Window .. n - Window /\ Due(c)
    BY <1>1, <2>3 DEF checks, Due
  <2>12. \A c \in Window .. n - Window : P(c) >= h <=> Exceeds(ws, h, c)
    BY <1>1, <2>3, <2>5 DEF Exceeds
  <2>13. (\E c \in checks : P(c) >= h) <=> Alarming(ws, h, n)
    BY ONLY <2>11, <2>12 DEF Alarming
  <2>14. PsiMax(ref, stream) >= h <=> Alarming(ws, h, n)
    BY ONLY <2>4, <2>9, <2>10, <2>13
  <2>15. ref = SubSeq(ws, 1, Window) /\ stream = SubSeq(ws, Window + 1, Len(ws)) /\ Len(ws) > Window
    BY ONLY <1>1, <1>4, <2>1
  <2>16. QED BY ONLY <1>2, <2>14, <2>15
<1>5. QED BY <1>3, <1>4

(* "The alarm fires iff the running max crosses h"                         *)
(* (src/coalmine/sim/runner.py:87), for the CUSUM, the drift monitor and   *)
(* the rolling disagreement, for every threshold and every stream: what    *)
(* the simulations calibrate is what the monitors do.                      *)
THEOREM MaximumCalibrates == DetectorsSpec => []MaxCalibrates
<1>1. TestsSay => MaxCalibrates
  <2>1. SUFFICES ASSUME TestsSay PROVE MaxCalibrates
    OBVIOUS
  <2>2. wins \in Seq(BOOLEAN) /\ design.h \in Nat /\ Increments(Baseline(design))
    BY <2>1, DesignFacts DEF TestsSay
  <2>3. /\ \A h \in 1 .. design.h + 1 : h \in Nat \ {0}
        /\ \A h \in 1 .. Window + 1 : h \in Nat \ {0}
    BY <2>2, WindowSize
  <2>4. ASSUME NEW h \in 1 .. design.h + 1
        PROVE  RunCusum(wins, Baseline(design), h) # -1 <=> CusumMax(wins, Baseline(design)) >= h
    BY <2>2, <2>3, CusumCalibrates, Zenon
  <2>5. ASSUME NEW h \in 1 .. Window + 1
        PROVE  DriftAlarmIndex(wins, h) # 0
                 <=> Len(wins) > Window
                     /\ PsiMax(SubSeq(wins, 1, Window), SubSeq(wins, Window + 1, Len(wins))) >= h
    BY <2>2, <2>3, MonitorCalibrates, Zenon
  <2>6. ASSUME NEW h \in 1 .. Window + 1
        PROVE  LET k == RollingAlarm(wins, h) IN
                 /\ k # -1 <=> RollingMax(wins) >= h
                 /\ k # -1 => /\ Count(SubSeq(wins, k - Window + 1, k)) >= h
                              /\ RollingMax(SubSeq(wins, 1, k - 1)) < h
    BY <2>2, <2>3, RollingCalibrates, Zenon
  <2>7. QED BY <2>4, <2>5, <2>6, Zenon DEF MaxCalibrates
<1>2. QED BY <1>1, TestsAlwaysSay, PTL

-----------------------------------------------------------------------------
(***************************************************************************)
(* Judging: what a pass leaves in the log, and what the votes make an      *)
(* anchor.  The inductive invariants speak of the verdicts in the order    *)
(* they were logged, and of how many votes of each kind were counted.      *)
(***************************************************************************)

-----------------------------------------------------------------------------
(* The requests of a sample, in order.                                     *)

LEMMA Sortable ==
  ASSUME NEW n \in Nat, NEW a \in [1 .. n -> Nat],
         \A j, k \in 1 .. n : a[j] = a[k] => j = k
  PROVE  \E f \in [1 .. n -> Nat] :
           /\ Num!Rising(f)
           /\ \A k \in 1 .. n : \E j \in 1 .. n : f[k] = a[j]
           /\ \A k \in 1 .. n : \E j \in 1 .. n : f[j] = a[k]
  BY Num!Sortable, NumberFacts, Zenon

LEMMA SortedOnce ==
  ASSUME NEW n \in Nat, NEW f \in [1 .. n -> Nat], Num!Rising(f), NEW g \in [1 .. n -> Nat], Num!Rising(g),
         Num!Covers(f, g, n), Num!Covers(g, f, n)
  PROVE  \A i \in 1 .. n : f[i] = g[i]
  BY Num!SortedOnce, NumberFacts, ZenonT(60)

LEMMA RisingOnce ==
  ASSUME NEW m \in Nat, NEW g \in [1 .. m -> Nat], Num!Rising(g)
  PROVE  \A j, k \in 1 .. m : g[j] = g[k] => j = k
<1>1. SUFFICES ASSUME NEW j \in 1 .. m, NEW k \in 1 .. m, g[j] = g[k], j # k PROVE FALSE
  OBVIOUS
<1>2. (j < k => g[j] < g[k]) /\ (k < j => g[k] < g[j])
  BY DEF Num!Rising
<1>3. g[j] \in Nat /\ g[k] \in Nat
  OBVIOUS
<1>4. j < k \/ k < j
  BY <1>1
<1>5. QED BY ONLY <1>1, <1>2, <1>3, <1>4

LEMMA Ordered ==
  ASSUME NEW S, S \subseteq Nat, IsFiniteSet(S)
  PROVE  LET n == Cardinality(S) s == InOrder(S) IN
           /\ n \in Nat /\ s \in [1 .. n -> S] /\ Num!Rising(s)
           /\ \A i \in S : \E k \in 1 .. n : s[k] = i
<1>1. PICK n : n = Cardinality(S)
  OBVIOUS
<1>2. n \in Nat
  BY <1>1, FS_CardinalityType
<1>3. PICK a : a \in Bijection(1 .. n, S)
  BY <1>1, FS_CardinalityType DEF ExistsBijection
<1>4. /\ a \in [1 .. n -> S] /\ \A j, k \in 1 .. n : a[j] = a[k] => j = k
      /\ \A i \in S : \E k \in 1 .. n : a[k] = i
  BY <1>3 DEF Bijection, Injection, Surjection, IsInjective
<1>5. a \in [1 .. n -> Nat]
  BY <1>4
<1>6. PICK f \in [1 .. n -> Nat] :
        /\ Num!Rising(f)
        /\ \A k \in 1 .. n : \E j \in 1 .. n : f[k] = a[j]
        /\ \A k \in 1 .. n : \E j \in 1 .. n : f[j] = a[k]
  BY <1>2, <1>4, <1>5, Sortable
<1>7. f \in [1 .. n -> S]
  <2>1. \A k \in 1 .. n : f[k] \in S
    <3>1. SUFFICES ASSUME NEW k \in 1 .. n PROVE f[k] \in S
      OBVIOUS
    <3>2. PICK j \in 1 .. n : f[k] = a[j]
      BY <1>6
    <3>3. QED BY <1>4, <3>2
  <2>2. QED BY <2>1
<1>8. \A i, j \in DOMAIN f : i < j => f[i] < f[j]
  BY <1>6 DEF Num!Rising
<1>9. \E g \in [1 .. n -> S] : \A i, j \in DOMAIN g : i < j => g[i] < g[j]
  BY <1>7, <1>8
<1>10. PICK s : s = InOrder(S)
  OBVIOUS
<1>11. s \in [1 .. n -> S] /\ \A i, j \in DOMAIN s : i < j => s[i] < s[j]
  BY <1>1, <1>9, <1>10 DEF InOrder
<1>12. Num!Rising(s) /\ s \in [1 .. n -> Nat]
  BY <1>11 DEF Num!Rising
<1>13. \A i \in S : \E k \in 1 .. n : s[k] = i
  <2>1. \A j, k \in 1 .. n : s[j] = s[k] => j = k
    BY <1>2, <1>12, RisingOnce
  <2>2. s \in Injection(1 .. n, S)
    BY <1>11, <2>1 DEF Injection, IsInjective
  <2>3. IsFiniteSet(1 .. n) /\ Cardinality(1 .. n) = n
    BY <1>2, FS_Interval
  <2>4. s \in Surjection(1 .. n, S)
    BY <1>1, <2>2, <2>3, FS_Injection
  <2>5. QED BY <2>4 DEF Surjection
<1>14. QED BY <1>1, <1>2, <1>10, <1>11, <1>12, <1>13

LEMMA OrderedOnce ==
  ASSUME NEW m \in Nat, NEW g \in [1 .. m -> Nat], Num!Rising(g), NEW S, S = {g[k] : k \in 1 .. m}
  PROVE  InOrder(S) = g /\ Cardinality(S) = m /\ IsFiniteSet(S) /\ S \subseteq Nat
<1>1. \A j, k \in 1 .. m : g[j] = g[k] => j = k
  BY RisingOnce
<1>2. g \in [1 .. m -> S] /\ \A i \in S : \E k \in 1 .. m : g[k] = i
  OBVIOUS
<1>3. g \in Bijection(1 .. m, S)
  BY <1>1, <1>2, Fun_IsBij
<1>4. IsFiniteSet(1 .. m) /\ Cardinality(1 .. m) = m
  BY FS_Interval
<1>5. IsFiniteSet(S) /\ Cardinality(S) = m
  BY <1>3, <1>4, FS_Bijection DEF ExistsBijection
<1>6. S \subseteq Nat
  OBVIOUS
<1>7. PICK s : s = InOrder(S)
  OBVIOUS
<1>8. s \in [1 .. m -> S] /\ Num!Rising(s) /\ \A i \in S : \E k \in 1 .. m : s[k] = i
  BY <1>5, <1>6, <1>7, Ordered
<1>9. s \in [1 .. m -> Nat]
  BY <1>6, <1>8
<1>10. \A k \in 1 .. m : s[k] \in S /\ g[k] \in S
  BY <1>2, <1>8
<1>11. \A k \in 1 .. m : \E j \in 1 .. m : g[j] = s[k]
  BY <1>2, <1>10
<1>12. \A k \in 1 .. m : \E j \in 1 .. m : s[j] = g[k]
  BY <1>8, <1>10
<1>13. \A i \in 1 .. m : s[i] = g[i]
  BY <1>8, <1>9, <1>11, <1>12, SortedOnce DEF Num!Covers
<1>14. s = g
  BY <1>9, <1>13
<1>15. QED BY <1>5, <1>6, <1>7, <1>14

-----------------------------------------------------------------------------
(* The anchors of the study.                                               *)

(* A sequence with one more element has it in V or not.                    *)
Among(s, V) == Cardinality({i \in DOMAIN s : s[i] \in V})

LEMMA OneMore ==
  ASSUME NEW A, NEW s \in Seq(A), NEW e \in A, NEW V
  PROVE  Among(Append(s, e), V) = Among(s, V) + (IF e \in V THEN 1 ELSE 0) /\ Among(s, V) \in Nat
<1> DEFINE us == Append(s, e)
           m == Len(s) + 1
           S == {i \in DOMAIN s : s[i] \in V}
           U == {i \in DOMAIN us : us[i] \in V}
<1>1. IsFiniteSet(S) /\ Cardinality(S) \in Nat
  <2>1. IsFiniteSet(1 .. Len(s))
    BY FS_Interval
  <2>2. S \subseteq 1 .. Len(s)
    OBVIOUS
  <2>3. QED BY <2>1, <2>2, FS_Subset, FS_CardinalityType
<1>2. DOMAIN s = 1 .. Len(s) /\ DOMAIN us = 1 .. m /\ us[m] = e /\ \A i \in 1 .. Len(s) : us[i] = s[i]
  OBVIOUS
<1>3. m \notin S /\ m \in 1 .. m /\ Len(s) \in Nat
  OBVIOUS
<1>4. \A i : i \in 1 .. m <=> i \in 1 .. Len(s) \/ i = m
  OBVIOUS
<1>5. CASE e \in V
  <2>1. U = S \cup {m}
    <3> HIDE DEF m, us
    <3>1. QED BY <1>2, <1>4, <1>5
  <2>2. Cardinality(S \cup {m}) = Cardinality(S) + 1
    <3> HIDE DEF S
    <3>1. QED BY <1>1, <1>3, FS_AddElement
  <2>3. QED BY <1>1, <1>5, <2>1, <2>2 DEF Among
<1>6. CASE e \notin V
  <2>1. U = S
    <3> HIDE DEF m, us
    <3>1. QED BY <1>2, <1>3, <1>4, <1>6
  <2>2. Among(us, V) = Cardinality(S) /\ Among(s, V) = Cardinality(S)
    BY <2>1 DEF Among
  <2>3. (IF e \in V THEN 1 ELSE 0) = 0
    BY <1>6
  <2> HIDE DEF S, U, us
  <2>4. Among(us, V) = Among(s, V) + 0 /\ Among(s, V) \in Nat
    BY <1>1, <2>2
  <2>5. QED BY <2>3, <2>4 DEF us
<1>7. QED BY <1>5, <1>6

(* The rows that vote for model m on question q, and the texts of its      *)
(* entry in canonical order.                                               *)
Backers(q, m) ==
  {row \in Vote : /\ row.question = q /\ row.winner # "tie"
                  /\ m = IF (row.winner = "model_a") = row.flipped THEN "m2" ELSE "m1"}

Texts2(q) == <<Reply[q]["m1"], Reply[q]["m2"]>>

VotesCounted(vs, t) ==
  /\ vs \in Seq(Vote) /\ DOMAIN t \subseteq Questions
  /\ \A q \in DOMAIN t :
       /\ t[q] \in [a : Nat, b : Nat, tie : Nat, texts : {Texts2(q)}]
       /\ t[q].a = Among(vs, Backers(q, "m1")) /\ t[q].b = Among(vs, Backers(q, "m2"))
  /\ \A q \in Questions \ DOMAIN t :
       Among(vs, Backers(q, "m1")) = 0 /\ Among(vs, Backers(q, "m2")) = 0

LEMMA BackedIs ==
  ASSUME votes \in Seq(Vote), NEW q, NEW m
  PROVE  Backed(q, m) = Among(votes, Backers(q, m))
<1>1. \A i \in DOMAIN votes : votes[i] \in Vote
  OBVIOUS
<1>2. {i \in DOMAIN votes : /\ votes[i].question = q /\ votes[i].winner # "tie"
                            /\ m = IF (votes[i].winner = "model_a") = votes[i].flipped THEN "m2" ELSE "m1"}
        = {i \in DOMAIN votes : votes[i] \in Backers(q, m)}
  BY <1>1 DEF Backers
<1>3. QED BY <1>2 DEF Backed, Among

LEMMA VotesBegin ==
  ASSUME votes = <<>>, tally = <<>> PROVE VotesCounted(votes, tally)
<1>1. \A V : {i \in DOMAIN <<>> : <<>>[i] \in V} = {}
  OBVIOUS
<1>2. \A V : Among(<<>>, V) = 0
  BY <1>1, FS_EmptySet DEF Among
<1>3. <<>> \in Seq(Vote) /\ DOMAIN <<>> = {}
  OBVIOUS
<1> HIDE DEF Vote
<1>4. QED BY <1>2, <1>3, Zenon DEF VotesCounted

LEMMA VoteCounts ==
  ASSUME VotesCounted(votes, tally), NEW row \in Vote, CountVote(row)
  PROVE  VotesCounted(votes', tally')
<1>1. PICK vs, t, us, u, q : /\ vs = votes /\ t = tally /\ us = votes' /\ u = tally'
                             /\ q = row.question
  OBVIOUS
<1>2. /\ vs \in Seq(Vote) /\ DOMAIN t \subseteq Questions
      /\ \A p \in DOMAIN t :
           /\ t[p] \in [a : Nat, b : Nat, tie : Nat, texts : {Texts2(p)}]
           /\ t[p].a = Among(vs, Backers(p, "m1")) /\ t[p].b = Among(vs, Backers(p, "m2"))
      /\ \A p \in Questions \ DOMAIN t :
           Among(vs, Backers(p, "m1")) = 0 /\ Among(vs, Backers(p, "m2")) = 0
  BY <1>1, Zenon DEF VotesCounted
<1>3. q \in Questions /\ row.flipped \in BOOLEAN /\ row.winner \in {"model_a", "model_b", "tie"}
  BY <1>1 DEF Vote
<1>4. us = Append(vs, row) /\ us \in Seq(Vote)
  <2>1. us = Append(vs, row)
    BY <1>1, Zenon DEF CountVote
  <2> HIDE DEF Vote
  <2>2. QED BY <1>2, <2>1
<1>5. \A p, m : /\ Among(us, Backers(p, m)) = Among(vs, Backers(p, m)) + (IF row \in Backers(p, m) THEN 1 ELSE 0)
                /\ Among(vs, Backers(p, m)) \in Nat
  <2>1. SUFFICES ASSUME NEW p, NEW m
                 PROVE  /\ Among(us, Backers(p, m))
                              = Among(vs, Backers(p, m)) + (IF row \in Backers(p, m) THEN 1 ELSE 0)
                        /\ Among(vs, Backers(p, m)) \in Nat
    OBVIOUS
  <2>2. PICK V, A : V = Backers(p, m) /\ A = Vote
    OBVIOUS
  <2>3. vs \in Seq(A)
    BY <1>2, <2>2
  <2>4. row \in A
    BY <2>2
  <2>5. Among(Append(vs, row), V) = Among(vs, V) + (IF row \in V THEN 1 ELSE 0) /\ Among(vs, V) \in Nat
    BY ONLY <2>3, <2>4, OneMore, Zenon
  <2>6. QED BY ONLY <1>4, <2>2, <2>5, Zenon
<1>6. \A p, m : p # q => row \notin Backers(p, m)
  BY <1>1 DEF Backers
<1>7. PICK e : e = IF q \in DOMAIN t THEN t[q] ELSE [a |-> 0, b |-> 0, tie |-> 0, texts |-> <<>>]
  OBVIOUS
<1>8. PICK x, y, z : /\ e.a = x /\ e.b = y /\ e.tie = z /\ x \in Nat /\ y \in Nat /\ z \in Nat
                     /\ x = Among(vs, Backers(q, "m1")) /\ y = Among(vs, Backers(q, "m2"))
                     /\ e = [a |-> x, b |-> y, tie |-> z, texts |-> e.texts]
                     /\ e.texts \in {<<>>, Texts2(q)}
  BY <1>2, <1>3, <1>7
<1>9. RowTexts(row) = Texts2(q)
  BY <1>1, <1>3 DEF RowTexts, Texts2
<1>10. (IF e.texts = <<>> THEN [e EXCEPT !.texts = RowTexts(row)] ELSE e)
         = [a |-> x, b |-> y, tie |-> z, texts |-> Texts2(q)]
  BY <1>8, <1>9
<1>11. PICK f : f = [a |-> x, b |-> y, tie |-> z, texts |-> Texts2(q)]
  OBVIOUS
<1>12. PICK c : c = CASE row.winner = "tie" -> [f EXCEPT !.tie = @ + 1]
                   [] row.winner # "tie" /\ Canonical(row) = "a" -> [f EXCEPT !.a = @ + 1]
                   [] OTHER -> [f EXCEPT !.b = @ + 1]
  OBVIOUS
<1>13. u = [p \in DOMAIN t \cup {q} |-> IF p = q THEN c ELSE t[p]]
  <2>1. Entry(q) = e
    BY <1>1, <1>7 DEF Entry
  <2>2. PICK g : g = IF e.texts = <<>> THEN [e EXCEPT !.texts = RowTexts(row)] ELSE e
    OBVIOUS
  <2>3. g = f
    BY <1>10, <1>11, <2>2
  <2>4. PICK d : d = CASE row.winner = "tie" -> [g EXCEPT !.tie = @ + 1]
                       [] row.winner # "tie" /\ Canonical(row) = "a" -> [g EXCEPT !.a = @ + 1]
                       [] OTHER -> [g EXCEPT !.b = @ + 1]
    OBVIOUS
  <2>5. d = c
    BY <1>12, <2>3, <2>4
  <2>6. tally' = [p \in DOMAIN tally \cup {row.question} |-> IF p = row.question THEN d ELSE tally[p]]
    <3>1. Entry(row.question) = e
      BY <1>1, <2>1
    <3>2. QED BY <2>2, <2>4, <3>1, Zenon DEF CountVote
  <2>7. QED BY <1>1, <2>5, <2>6
<1>14. PICK i, j \in {0, 1} : /\ i = (IF row \in Backers(q, "m1") THEN 1 ELSE 0)
                             /\ j = (IF row \in Backers(q, "m2") THEN 1 ELSE 0)
  OBVIOUS
<1>15. \E k \in Nat : c = [a |-> x + i, b |-> y + j, tie |-> k, texts |-> Texts2(q)]
  <2>1. row \in Backers(q, "m1") <=> row.winner # "tie" /\ (row.winner = "model_a") # row.flipped
    BY <1>1 DEF Backers
  <2>2. row \in Backers(q, "m2") <=> row.winner # "tie" /\ (row.winner = "model_a") = row.flipped
    BY <1>1 DEF Backers
  <2>3. CASE row.winner = "tie"
    <3>1. i = 0 /\ j = 0
      BY <1>14, <2>1, <2>2, <2>3
    <3>2. c = [a |-> x, b |-> y, tie |-> z + 1, texts |-> Texts2(q)]
      BY <1>11, <1>12, <2>3
    <3>3. z + 1 \in Nat /\ x + i = x /\ y + j = y
      BY <1>8, <3>1
    <3>4. QED BY <3>2, <3>3
  <2>4. CASE row.winner # "tie" /\ (row.winner = "model_a") # row.flipped
    <3>1. i = 1 /\ j = 0
      BY <1>14, <2>1, <2>2, <2>4
    <3>2. Canonical(row) = "a"
      BY <2>4 DEF Canonical
    <3>3. c = [a |-> x + 1, b |-> y, tie |-> z, texts |-> Texts2(q)]
      BY <1>11, <1>12, <2>4, <3>2
    <3>4. QED BY <1>8, <3>1, <3>3
  <2>5. CASE row.winner # "tie" /\ (row.winner = "model_a") = row.flipped
    <3>1. i = 0 /\ j = 1
      BY <1>14, <2>1, <2>2, <2>5
    <3>2. Canonical(row) # "a"
      BY <2>5 DEF Canonical
    <3>3. c = [a |-> x, b |-> y + 1, tie |-> z, texts |-> Texts2(q)]
      BY <1>11, <1>12, <2>5, <3>2
    <3>4. QED BY <1>8, <3>1, <3>3
  <2>6. QED BY <2>3, <2>4, <2>5
<1>16. PICK k \in Nat : c = [a |-> x + i, b |-> y + j, tie |-> k, texts |-> Texts2(q)]
  BY <1>15
<1>17. /\ c \in [a : Nat, b : Nat, tie : Nat, texts : {Texts2(q)}]
       /\ c.a = x + i /\ c.b = y + j
  <2>1. x + i \in Nat /\ y + j \in Nat
    BY <1>8
  <2>2. QED BY <1>16, <2>1
<1>18. c.a = Among(us, Backers(q, "m1")) /\ c.b = Among(us, Backers(q, "m2"))
  BY <1>5, <1>8, <1>14, <1>17
<1>19. \A p, m : p # q => Among(us, Backers(p, m)) = Among(vs, Backers(p, m))
  BY <1>5, <1>6
<1>20. ASSUME NEW p \in DOMAIN u
       PROVE  /\ u[p] \in [a : Nat, b : Nat, tie : Nat, texts : {Texts2(p)}]
              /\ u[p].a = Among(us, Backers(p, "m1")) /\ u[p].b = Among(us, Backers(p, "m2"))
  <2>1. CASE p = q
    <3>1. u[p] = c
      BY <1>13, <2>1
    <3>2. QED BY <1>17, <1>18, <2>1, <3>1
  <2>2. CASE p # q
    <3>1. p \in DOMAIN t /\ u[p] = t[p]
      BY <1>13, <1>20, <2>2
    <3>2. QED BY <1>2, <1>19, <2>2, <3>1
  <2>3. QED BY <2>1, <2>2
<1>21. DOMAIN u \subseteq Questions
  BY <1>2, <1>3, <1>13
<1>22. \A p \in Questions \ DOMAIN u : p # q /\ p \in Questions \ DOMAIN t
  BY <1>13
<1>23. \A p \in Questions \ DOMAIN u :
         Among(us, Backers(p, "m1")) = 0 /\ Among(us, Backers(p, "m2")) = 0
  BY <1>2, <1>19, <1>22
<1>24. VotesCounted(us, u)
  BY <1>4, <1>20, <1>21, <1>23, Zenon DEF VotesCounted
<1>25. QED BY <1>1, <1>24

(* Only a tie looks the same from both sides.                              *)
LEMMA SwapCheck ==
  ASSUME NEW x, x.a \in Texts, x.b \in Texts
  PROVE  Predicted(x) = SwappedPredicted(x) <=> Judged(x) # Tie
<1>1. PICK s \in Int, r \in Int : s = Score[x.a] /\ r = Score[x.b]
  BY TextsAssumption
<1>2. Margin \in Nat
  BY RepliesAssumption
<1>3. Judged(x) = CASE s - r > Margin -> "first" [] r - s > Margin -> "second" [] OTHER -> "tie"
  BY <1>1 DEF Judged, RewardAnswer, Reward, Far, First, Second, Tie
<1>4. RewardAnswer(Reward(Margin), x.b, x.a)
        = CASE r - s > Margin -> "first" [] s - r > Margin -> "second" [] OTHER -> "tie"
  BY <1>1 DEF RewardAnswer, Reward, Far, First, Second, Tie
<1>5. CASE s - r > Margin
  <2>1. ~(r - s > Margin)
    BY <1>2, <1>5
  <2>2. QED BY <1>3, <1>4, <1>5, <2>1 DEF Predicted, SwappedPredicted, First, Tie
<1>6. CASE r - s > Margin
  <2>1. ~(s - r > Margin)
    BY <1>2, <1>6
  <2>2. QED BY <1>3, <1>4, <1>6, <2>1 DEF Predicted, SwappedPredicted, First, Tie
<1>7. CASE ~(s - r > Margin) /\ ~(r - s > Margin)
  BY <1>3, <1>4, <1>7 DEF Predicted, SwappedPredicted, First, Tie
<1>8. QED BY <1>5, <1>6, <1>7

LEMMA CountedMeasure ==
  ASSUME VotesCounted(votes, tally) PROVE AnchorsMeasure
<1>1. \A q, m : Backed(q, m) = Among(votes, Backers(q, m))
  BY BackedIs DEF VotesCounted
<1>2. /\ DOMAIN tally \subseteq Questions
      /\ \A q \in DOMAIN tally :
           /\ tally[q] \in [a : Nat, b : Nat, tie : Nat, texts : {Texts2(q)}]
           /\ tally[q].a = Backed(q, "m1") /\ tally[q].b = Backed(q, "m2")
      /\ \A q \in Questions \ DOMAIN tally : Backed(q, "m1") = 0 /\ Backed(q, "m2") = 0
  BY <1>1 DEF VotesCounted
<1>3. \A q \in Questions : Backed(q, "m1") # Backed(q, "m2") <=> q \in DOMAIN tally /\ tally[q].a # tally[q].b
  BY <1>2
<1>4. \A q \in DOMAIN tally : tally[q].texts[1] = Reply[q]["m1"] /\ tally[q].texts[2] = Reply[q]["m2"]
  <2>1. \A q \in DOMAIN tally : tally[q].texts = Texts2(q)
    BY <1>2
  <2>2. QED BY <2>1 DEF Texts2
<1> DEFINE Made(q) == [question |-> q, a |-> tally[q].texts[1], b |-> tally[q].texts[2],
                       label |-> IF tally[q].a > tally[q].b THEN "a" ELSE "b"]
           P == {p \in DOMAIN tally : tally[p].a # tally[p].b}
<1>5. Anchors = {Made(q) : q \in P}
  BY DEF Anchors
<1>6. \A q \in P : Made(q).question = q
  OBVIOUS
<1>7. {x.question : x \in Anchors} = P
  <2> HIDE DEF Made, P
  <2>1. QED BY <1>5, <1>6
<1>8. P = {q \in Questions : Backed(q, "m1") # Backed(q, "m2")}
  BY <1>2, <1>3
<1>9. ASSUME NEW x \in Anchors
      PROVE  /\ (IF x.label = "a" THEN x.a ELSE x.b) =
                  Reply[x.question][IF Backed(x.question, "m1") > Backed(x.question, "m2") THEN "m1" ELSE "m2"]
             /\ Predicted(x) = SwappedPredicted(x) <=> Judged(x) # Tie
  <2>1. PICK q \in P : x = Made(q)
    <3> HIDE DEF Made, P
    <3>1. QED BY <1>5, <1>9
  <2>2. /\ q \in DOMAIN tally /\ q \in Questions /\ x.question = q
        /\ x.a = Reply[q]["m1"] /\ x.b = Reply[q]["m2"]
        /\ x.label = IF tally[q].a > tally[q].b THEN "a" ELSE "b"
    BY <1>2, <1>4, <2>1
  <2>3. Reply[q]["m1"] \in Texts /\ Reply[q]["m2"] \in Texts
    BY <2>2, RepliesAssumption
  <2>4. tally[q].a = Backed(q, "m1") /\ tally[q].b = Backed(q, "m2")
    BY <1>2, <2>2
  <2>5. x.a \in Texts /\ x.b \in Texts
    BY <2>2, <2>3
  <2>6. Predicted(x) = SwappedPredicted(x) <=> Judged(x) # Tie
    BY ONLY <2>5, SwapCheck
  <2>7. (IF x.label = "a" THEN x.a ELSE x.b)
          = Reply[q][IF Backed(q, "m1") > Backed(q, "m2") THEN "m1" ELSE "m2"]
    BY <2>2, <2>4
  <2>8. QED BY <2>2, <2>6, <2>7
<1>10. {x.question : x \in Anchors} = {q \in Questions : Backed(q, "m1") # Backed(q, "m2")}
  <2> HIDE DEF P
  <2>1. QED BY <1>7, <1>8
<1>11. QED BY <1>9, <1>10 DEF AnchorsMeasure

(* For any votes of any humans on any questions and any scores of the      *)
(* reward model, an anchor is a question with a majority, labelled with    *)
(* the reply most humans preferred however they were shown the two         *)
(* (src/coalmine/judging/mtbench.py), and the swap check of the study      *)
(* tells the reward model's ties (reward_judge_study.py).                  *)
THEOREM AnchorsAreHuman == JudgingSpec => []AnchorsMeasure
<1>1. JudgingInit => VotesCounted(votes, tally)
  BY VotesBegin DEF JudgingInit
<1>2. VotesCounted(votes, tally) /\ [JudgingNext]_judgingVars => VotesCounted(votes, tally)'
  <2>1. SUFFICES ASSUME VotesCounted(votes, tally), [JudgingNext]_judgingVars PROVE VotesCounted(votes', tally')
    BY Zenon DEF VotesCounted, Among, Backers, Texts2, Vote
  <2>2. ASSUME NEW row \in Vote, CountVote(row) PROVE VotesCounted(votes', tally')
    BY <2>1, <2>2, VoteCounts
  <2>3. ASSUME UNCHANGED study PROVE VotesCounted(votes', tally')
    BY <2>1, <2>3 DEF study
  <2>4. Pipeline => UNCHANGED study
    BY Zenon DEF Pipeline
  <2>5. \A swap \in BOOLEAN : CalibrateNext(swap) => UNCHANGED study
    BY Zenon DEF CalibrateNext
  <2>6. UNCHANGED judgingVars => UNCHANGED study
    BY Zenon DEF judgingVars
  <2>7. QED BY <2>1, <2>2, <2>3, <2>4, <2>5, <2>6, Zenon DEF JudgingNext
<1>3. VotesCounted(votes, tally) => AnchorsMeasure
  BY CountedMeasure
<1>4. QED BY <1>1, <1>2, <1>3, PTL DEF JudgingSpec

-----------------------------------------------------------------------------
(* The verdicts of a pass in the log.                                      *)

LEMMA NextRemainder ==
  ASSUME NEW b \in Nat \ {0}, NEW n \in Nat
  PROVE  /\ n % b \in 0 .. b - 1 /\ n % b <= n
         /\ (n + 1) % b = IF (n % b) + 1 = b THEN 0 ELSE (n % b) + 1
         /\ 0 % b = 0
<1>1. PICK q \in Nat, r \in 0 .. b - 1 : n = b * q + r /\ q = n \div b /\ r = n % b
  BY Division
<1>2. q \in Nat /\ r \in 0 .. b - 1 /\ n = b * q + r
  BY <1>1
<1>3. b * q \in Nat
  BY <1>2
<1>4. CASE r + 1 = b
  <2>1. b * (q + 1) = b * q + b
    BY <1>2
  <2>2. q + 1 \in Nat /\ 0 \in 0 .. b - 1 /\ n + 1 = b * (q + 1) + 0
    BY <1>2, <1>3, <1>4, <2>1
  <2>3. PICK k : k = n + 1
    OBVIOUS
  <2>4. k = b * (q + 1) + 0
    BY <2>2, <2>3
  <2>5. k % b = 0
    <3>1. PICK y, z : y = q + 1 /\ z = 0
      OBVIOUS
    <3>2. y \in Nat /\ z \in 0 .. b - 1 /\ k = b * y + z
      BY <2>2, <2>4, <3>1
    <3>3. k % b = z
      BY ONLY <3>2, b \in Nat \ {0}, Remainder, Zenon
    <3>4. QED BY <3>1, <3>3
  <2>6. 0 % b = 0
    BY ONLY b \in Nat \ {0}
  <2>7. n % b <= n
    BY ONLY <1>1, <1>2, <1>3
  <2>8. QED BY ONLY <1>1, <1>2, <1>4, <2>3, <2>5, <2>6, <2>7
<1>5. CASE r + 1 # b
  <2>1. r + 1 \in 0 .. b - 1 /\ n + 1 = b * q + (r + 1)
    BY <1>2, <1>3, <1>5
  <2>2. PICK k, x : k = n + 1 /\ x = r + 1
    OBVIOUS
  <2>3. k = b * q + x
    BY <2>1, <2>2
  <2>4. x \in 0 .. b - 1
    BY <2>1, <2>2
  <2>5. k % b = x
    BY ONLY <1>2, <2>3, <2>4, b \in Nat \ {0}, Remainder, Zenon
  <2>6. 0 % b = 0
    BY ONLY b \in Nat \ {0}
  <2>7. n % b <= n
    BY ONLY <1>1, <1>2, <1>3
  <2>8. QED BY ONLY <1>1, <1>2, <1>5, <2>2, <2>5, <2>6, <2>7
<1>6. QED BY <1>4, <1>5

-----------------------------------------------------------------------------
Passes == UNION {{s[i] : i \in DOMAIN s} : s \in Plans}
Ids == {p.id : p \in Passes}
Winners == {"tie", "a", "b", Raised}
VerdictBodies == [index : 1 .. RunSize, judge_id : Ids, winner : Winners, first_shown : {"a", "b"}]

(* The verdict rows that the bodies R are, after t rows of traffic.        *)
Log(t, R) == {[seq |-> t + i - 1, body |-> R[i]] : i \in 1 .. Len(R)}

LEMMA LogCard ==
  ASSUME NEW t \in Nat, NEW B, NEW R \in Seq(B)
  PROVE  /\ Cardinality(Log(t, R)) = Len(R) /\ Len(R) \in Nat
         /\ {r.seq : r \in Log(t, R)} = t .. t + Len(R) - 1
<1>1. PICK n \in Nat : n = Len(R)
  OBVIOUS
<1> DEFINE f == [i \in 1 .. n |-> [seq |-> t + i - 1, body |-> R[i]]]
<1>2. \A i \in 1 .. n : f[i].seq = t + i - 1 /\ f[i] = [seq |-> t + i - 1, body |-> R[i]]
  OBVIOUS
<1>3. Log(t, R) = {f[i] : i \in 1 .. n}
  BY <1>1 DEF Log
<1>4. DOMAIN f = 1 .. n /\ f \in [1 .. n -> {f[i] : i \in 1 .. n}]
  OBVIOUS
<1> HIDE DEF f
<1>5. \A i, j \in 1 .. n : f[i] = f[j] => i = j
  <2>1. SUFFICES ASSUME NEW i \in 1 .. n, NEW j \in 1 .. n, f[i] = f[j] PROVE i = j
    OBVIOUS
  <2>2. t + i - 1 = t + j - 1
    BY <1>2, <2>1
  <2>3. QED BY ONLY <2>2, t \in Nat, i \in 1 .. n, j \in 1 .. n, n \in Nat
<1>6. f \in Bijection(1 .. n, Log(t, R))
  <2>1. f \in [1 .. n -> Log(t, R)] /\ \A r \in Log(t, R) : \E i \in 1 .. n : f[i] = r
    BY <1>3, <1>4
  <2>2. QED BY <1>5, <2>1, Fun_IsBij
<1>7. Cardinality(Log(t, R)) = n
  <2>1. IsFiniteSet(1 .. n) /\ Cardinality(1 .. n) = n
    BY FS_Interval
  <2>2. QED BY <1>6, <2>1, FS_Bijection DEF ExistsBijection
<1>8. {r.seq : r \in Log(t, R)} = {t + i - 1 : i \in 1 .. n}
  <2>1. \A r \in Log(t, R) : \E i \in 1 .. n : r.seq = t + i - 1
    BY <1>2, <1>3
  <2>2. \A i \in 1 .. n : f[i] \in Log(t, R) /\ f[i].seq = t + i - 1
    BY <1>2, <1>3
  <2>3. PICK A, C : A = {r.seq : r \in Log(t, R)} /\ C = {t + i - 1 : i \in 1 .. n}
    OBVIOUS
  <2>4. \A x \in A : x \in C
    BY ONLY <2>1, <2>3
  <2>5. \A x \in C : x \in A
    BY ONLY <2>2, <2>3
  <2>6. A = C
    BY ONLY <2>4, <2>5
  <2>7. QED BY <2>3, <2>6
<1>9. {t + i - 1 : i \in 1 .. n} = t .. t + n - 1
  <2>1. \A q \in t .. t + n - 1 : q - t + 1 \in 1 .. n /\ t + (q - t + 1) - 1 = q
    OBVIOUS
  <2>2. \A i \in 1 .. n : t + i - 1 \in t .. t + n - 1
    OBVIOUS
  <2>3. QED BY <2>1, <2>2
<1>10. QED BY <1>1, <1>7, <1>8, <1>9

LEMMA TrafficFact ==
  ASSUME shadowed \subseteq 1 .. RunSize PROVE Traffic \in Nat
<1>1. RunSize \in Nat
  BY JudgingSizes
<1>2. IsFiniteSet(1 .. RunSize)
  BY <1>1, FS_Interval
<1>3. Cardinality(shadowed) \in Nat
  BY <1>2, FS_Subset, FS_CardinalityType
<1>4. QED BY <1>1, <1>3 DEF Traffic

(* The next number is the one after them.                                  *)
LEMMA NextSeqIs ==
  ASSUME shadowed \subseteq 1 .. RunSize, NEW R \in Seq(VerdictBodies), verdictRows = Log(Traffic, R)
  PROVE  NextSeq = Traffic + Len(R)
<1>1. PICK t \in Nat, n \in Nat : t = Traffic /\ n = Len(R)
  BY TrafficFact
<1>2. LastSeq + 1 = t + n
  <2>1. Cardinality(verdictRows) = n
    BY <1>1, LogCard
  <2>2. QED BY <1>1, <2>1 DEF LastSeq
<1>3. \A r \in verdictRows : r.seq < t + n
  <2>1. \A i \in 1 .. n : t + i - 1 < t + n
    OBVIOUS
  <2>2. QED BY <1>1, <2>1 DEF Log
<1>4. t + n = t \/ \E r \in verdictRows : r.seq = t + n - 1
  <2>1. n # 0 => n \in 1 .. n
    OBVIOUS
  <2>2. SUFFICES ASSUME n # 0 PROVE \E r \in verdictRows : r.seq = t + n - 1
    OBVIOUS
  <2>3. PICK r : r = [seq |-> t + n - 1, body |-> R[n]]
    OBVIOUS
  <2>4. r \in verdictRows
    BY <1>1, <2>1, <2>2, <2>3 DEF Log
  <2>5. r.seq = t + n - 1
    BY <2>3
  <2>6. QED BY <2>4, <2>5
<1> DEFINE P(s) == (\A r \in verdictRows : r.seq < s) /\ (s = t \/ \E r \in verdictRows : r.seq = s - 1)
<1>5. t + n \in t .. t + n /\ P(t + n)
  BY <1>3, <1>4
<1>6. \A s \in t .. t + n : P(s) => s = t + n
  <2>1. SUFFICES ASSUME NEW s \in t .. t + n, P(s), s # t + n PROVE FALSE
    OBVIOUS
  <2>2. s - t + 1 \in 1 .. n /\ t + (s - t + 1) - 1 = s
    BY <2>1
  <2>3. PICK r \in verdictRows : r.seq = s
    <3>1. PICK r : r = [seq |-> t + (s - t + 1) - 1, body |-> R[s - t + 1]]
      OBVIOUS
    <3>2. r \in verdictRows
      BY <1>1, <2>2, <3>1 DEF Log
    <3>3. r.seq = s
      BY <2>2, <3>1
    <3>4. QED BY <3>2, <3>3
  <2>4. s < s
    BY <2>1, <2>3
  <2>5. QED BY <2>4
<1>7. NextSeq = CHOOSE s \in t .. t + n : P(s)
  BY <1>1, <1>2 DEF NextSeq
<1>8. (CHOOSE s \in t .. t + n : P(s)) \in t .. t + n /\ P(CHOOSE s \in t .. t + n : P(s))
  <2> HIDE DEF P
  <2>1. QED BY <1>5
<1>9. QED
  <2> HIDE DEF P
  <2>1. QED BY <1>1, <1>6, <1>7, <1>8

(* A batch numbered on from them is appended whole.                        *)
LEMMA AppendedIs ==
  ASSUME shadowed \subseteq 1 .. RunSize, NEW R \in Seq(VerdictBodies), verdictRows = Log(Traffic, R),
         NEW W \in Seq(VerdictBodies), NEW batch, DOMAIN batch = 1 .. Len(W),
         \A i \in 1 .. Len(W) : batch[i] = [seq |-> Traffic + Len(R) + i - 1, body |-> W[i]]
  PROVE  AppendMany(batch) = Log(Traffic, R \o W)
<1>1. PICK t \in Nat, n \in Nat, m \in Nat : t = Traffic /\ n = Len(R) /\ m = Len(W)
  BY TrafficFact
<1>2. PICK U : U = R \o W
  OBVIOUS
<1>3. /\ Len(U) = n + m /\ \A i \in 1 .. n : U[i] = R[i]
      /\ \A i \in 1 .. m : U[n + i] = W[i]
  BY <1>1, <1>2
<1>4. \A i \in 1 .. m : batch[i] = [seq |-> t + n + i - 1, body |-> W[i]] /\ batch[i].seq = t + n + i - 1
  BY <1>1
<1>5. \A r \in verdictRows : \E i \in 1 .. n : r.seq = t + i - 1
  BY <1>1 DEF Log
<1>6. \A i \in 1 .. m : batch[i].seq >= Traffic /\ \A r \in verdictRows : r.seq # batch[i].seq
  <2>1. SUFFICES ASSUME NEW i \in 1 .. m
                 PROVE  batch[i].seq >= Traffic /\ \A r \in verdictRows : r.seq # batch[i].seq
    OBVIOUS
  <2>2. batch[i].seq = t + n + i - 1
    BY <1>4
  <2>3. \A j \in 1 .. n : t + j - 1 # t + n + i - 1
    OBVIOUS
  <2>4. t + n + i - 1 >= t
    OBVIOUS
  <2>5. QED BY <1>1, <1>5, <2>2, <2>3, <2>4
<1>7. {k \in DOMAIN batch : batch[k].seq >= Traffic /\ \A r \in verdictRows : r.seq # batch[k].seq} = 1 .. m
  BY <1>1, <1>6
<1>8. AppendMany(batch) = Log(t, R) \cup {batch[i] : i \in 1 .. m}
  BY <1>1, <1>7 DEF AppendMany
<1>9. Log(t, R) = {[seq |-> t + i - 1, body |-> U[i]] : i \in 1 .. n}
  <2>1. Log(t, R) = {[seq |-> t + i - 1, body |-> R[i]] : i \in 1 .. n}
    BY <1>1 DEF Log
  <2>2. \A i \in 1 .. n : [seq |-> t + i - 1, body |-> R[i]] = [seq |-> t + i - 1, body |-> U[i]]
    BY <1>3
  <2>3. QED BY ONLY <2>1, <2>2, Zenon
<1>10. {batch[i] : i \in 1 .. m} = {[seq |-> t + i - 1, body |-> U[i]] : i \in n + 1 .. n + m}
  <2>1. \A i \in 1 .. m : n + i \in n + 1 .. n + m /\ t + n + i - 1 = t + (n + i) - 1
    OBVIOUS
  <2>2. \A i \in n + 1 .. n + m : i - n \in 1 .. m /\ n + (i - n) = i
    OBVIOUS
  <2>3. \A i \in 1 .. m : batch[i] = [seq |-> t + (n + i) - 1, body |-> U[n + i]]
    <3>1. SUFFICES ASSUME NEW i \in 1 .. m PROVE batch[i] = [seq |-> t + (n + i) - 1, body |-> U[n + i]]
      OBVIOUS
    <3>2. batch[i] = [seq |-> t + n + i - 1, body |-> W[i]] /\ U[n + i] = W[i]
      BY <1>3, <1>4
    <3>3. QED BY <2>1, <3>2
  <2>4. \A i \in n + 1 .. n + m : batch[i - n] = [seq |-> t + i - 1, body |-> U[i]]
    <3>1. SUFFICES ASSUME NEW i \in n + 1 .. n + m PROVE batch[i - n] = [seq |-> t + i - 1, body |-> U[i]]
      OBVIOUS
    <3>2. PICK k \in 1 .. m : k = i - n /\ n + k = i
      BY <2>2
    <3>3. QED BY <2>3, <3>2
  <2>5. PICK g : g = [i \in n + 1 .. n + m |-> [seq |-> t + i - 1, body |-> U[i]]]
    OBVIOUS
  <2>6. /\ \A i \in 1 .. m : batch[i] = g[n + i]
        /\ \A i \in n + 1 .. n + m : batch[i - n] = g[i]
    <3>1. \A i \in n + 1 .. n + m : g[i] = [seq |-> t + i - 1, body |-> U[i]]
      BY <2>5
    <3>2. QED BY <2>1, <2>3, <2>4, <3>1, Zenon
  <2>7. {batch[i] : i \in 1 .. m} = {g[i] : i \in n + 1 .. n + m}
    <3>1. \A i \in 1 .. m : \E j \in n + 1 .. n + m : batch[i] = g[j]
      BY <2>1, <2>6
    <3>2. \A j \in n + 1 .. n + m : \E i \in 1 .. m : g[j] = batch[i]
      BY <2>2, <2>6
    <3>3. PICK A, C : A = {batch[i] : i \in 1 .. m} /\ C = {g[i] : i \in n + 1 .. n + m}
      OBVIOUS
    <3>4. \A x : x \in A <=> \E i \in 1 .. m : x = batch[i]
      BY <3>3
    <3>5. \A x : x \in C <=> \E j \in n + 1 .. n + m : x = g[j]
      BY <3>3
    <3>6. \A x : x \in A <=> x \in C
      <4>1. \A x \in A : x \in C
        BY ONLY <3>1, <3>4, <3>5
      <4>2. \A x \in C : x \in A
        BY ONLY <3>2, <3>4, <3>5
      <4>3. QED BY ONLY <4>1, <4>2, Zenon
    <3>7. A = C
      BY ONLY <3>6
    <3>8. QED BY <3>3, <3>7
  <2>8. \A i \in n + 1 .. n + m : g[i] = [seq |-> t + i - 1, body |-> U[i]]
    BY <2>5
  <2>9. {g[i] : i \in n + 1 .. n + m} = {[seq |-> t + i - 1, body |-> U[i]] : i \in n + 1 .. n + m}
    BY ONLY <2>8, Zenon
  <2>10. QED BY <2>7, <2>9
<1>11. \A i : i \in 1 .. n + m <=> i \in 1 .. n \/ i \in n + 1 .. n + m
  OBVIOUS
<1>12. Log(t, U) = {[seq |-> t + i - 1, body |-> U[i]] : i \in 1 .. n + m}
  BY <1>3 DEF Log
<1>13. Log(t, R) \cup {batch[i] : i \in 1 .. m} = Log(t, U)
  <2>1. PICK h : h = [i \in 1 .. n + m |-> [seq |-> t + i - 1, body |-> U[i]]]
    OBVIOUS
  <2>2. \A i \in 1 .. n + m : h[i] = [seq |-> t + i - 1, body |-> U[i]]
    BY <2>1
  <2>3. PICK A, C, F : A = Log(t, R) /\ C = {batch[i] : i \in 1 .. m} /\ F = Log(t, U)
    OBVIOUS
  <2>4. \A x : x \in A <=> \E i \in 1 .. n : x = h[i]
    BY ONLY <1>9, <1>11, <2>2, <2>3, Zenon
  <2>5. \A x : x \in C <=> \E i \in n + 1 .. n + m : x = h[i]
    BY ONLY <1>10, <1>11, <2>2, <2>3, Zenon
  <2>6. \A x : x \in F <=> \E i \in 1 .. n + m : x = h[i]
    BY ONLY <1>12, <2>2, <2>3, Zenon
  <2>7. \A x : x \in A \/ x \in C <=> x \in F
    BY ONLY <1>11, <2>4, <2>5, <2>6, Zenon
  <2>8. A \cup C = F
    BY ONLY <2>7
  <2>9. QED BY ONLY <2>3, <2>8
<1>14. QED BY ONLY <1>1, <1>2, <1>8, <1>13

(* Of n verdicts, those in the open batch.                                 *)
Open(n) == n % AppendSize

LEMMA OpenNext ==
  ASSUME NEW n \in Nat
  PROVE  /\ Open(n) \in 0 .. AppendSize - 1 /\ Open(n) <= n
         /\ Open(n + 1) = IF Open(n) + 1 = AppendSize THEN 0 ELSE Open(n) + 1
         /\ Open(0) = 0
  BY JudgingSizes, NextRemainder DEF Open

(* What a pass judged: its sample in order, as far as it came.             *)
Told(id, sample, vs) ==
  /\ vs \in Seq(VerdictBodies) /\ sample \subseteq 1 .. RunSize
  /\ Len(vs) <= Cardinality(sample)
  /\ \A i \in 1 .. Len(vs) : vs[i].judge_id = id /\ vs[i].index = InOrder(sample)[i]

(* The log holds the first k of vs in one piece, and nothing else of id.   *)
HoldsOf(R, id, vs, k) ==
  \E o \in Nat :
    /\ o + k <= Len(R) /\ \A i \in 1 .. k : R[o + i] = vs[i]
    /\ \A j \in 1 .. Len(R) : R[j].judge_id = id => j \in o + 1 .. o + k

Kept(f) ==
  LET n == Len(f.verdicts) IN IF f.raised THEN n - Open(n) ELSE n

Done(R, f) ==
  /\ Told(f.id, f.sample, f.verdicts)
  /\ HoldsOf(R, f.id, f.verdicts, Kept(f))
  /\ ~f.raised => Len(f.verdicts) = Cardinality(f.sample)

(* What is to come.                                                        *)
Ahead(sample, vs, D) ==
  /\ Len(D) = Cardinality(sample) - Len(vs)
  /\ \A i \in 1 .. Len(D) : D[i] = InOrder(sample)[Len(vs) + i]

(* The pass under way: the whole batches are at the end of the log, the    *)
(* rest in the open batch, numbered on.                                    *)
Under(t, R, id, S, D, q, B, V) ==
  LET n == Len(V)
      b == Open(n)
      o == Len(R) - (n - b)
  IN /\ Told(id, S, V)
     /\ Len(B) = b /\ q = t + Len(R) + b
     /\ \A i \in 1 .. b : B[i] = [seq |-> t + Len(R) + i - 1, body |-> V[n - b + i]]
     /\ Ahead(S, V, D)
     /\ o >= 0 /\ \A i \in 1 .. n - b : R[o + i] = V[i]
     /\ \A k \in 1 .. o : R[k].judge_id # id

Rows == [seq : Nat, body : VerdictBodies]
Jobs == [busy : {TRUE}, pass : Passes, sample : SUBSET (1 .. RunSize), todo : Seq(1 .. RunSize), seq : Nat,
         batch : Seq(Rows), verdicts : Seq(VerdictBodies)]
PassEnds == [id : Ids, sample : SUBSET (1 .. RunSize), verdicts : Seq(VerdictBodies), raised : BOOLEAN,
         judge : {p.judge : p \in Passes}]

LEMMA Sequence ==
  ASSUME NEW A, NEW l \in Nat, NEW W \in [1 .. l -> A]
  PROVE  W \in Seq(A) /\ Len(W) = l
<1>1. W \in Seq(A)
  BY SeqDef
<1>2. QED BY <1>1

LEMMA Joined ==
  ASSUME NEW A, NEW R \in Seq(A), NEW W \in Seq(A)
  PROVE  /\ R \o W \in Seq(A) /\ Len(R \o W) = Len(R) + Len(W)
         /\ \A i \in 1 .. Len(R) : (R \o W)[i] = R[i]
         /\ \A i \in 1 .. Len(W) : (R \o W)[Len(R) + i] = W[i]
  OBVIOUS

LEMMA OthersStay ==
  ASSUME NEW R \in Seq(VerdictBodies), NEW W \in Seq(VerdictBodies), NEW id, NEW vs, NEW k \in Nat,
         HoldsOf(R, id, vs, k), \A i \in 1 .. Len(W) : W[i].judge_id # id
  PROVE  HoldsOf(R \o W, id, vs, k)
<1>1. PICK n \in Nat, m \in Nat : n = Len(R) /\ m = Len(W)
  OBVIOUS
<1>0. PICK U : U = R \o W
  OBVIOUS
<1>2. /\ Len(U) = n + m /\ \A i \in 1 .. n : U[i] = R[i]
      /\ \A i \in 1 .. m : U[n + i] = W[i]
  BY <1>0, <1>1
<1>3. PICK o \in Nat : /\ o + k <= n /\ \A i \in 1 .. k : R[o + i] = vs[i]
                       /\ \A j \in 1 .. n : R[j].judge_id = id => j \in o + 1 .. o + k
  BY <1>1 DEF HoldsOf
<1>4. \A i \in 1 .. k : o + i \in 1 .. n
  BY <1>3
<1>5. \A i \in 1 .. k : U[o + i] = vs[i]
  BY <1>2, <1>3, <1>4
<1>6. \A j \in 1 .. n + m : j \in 1 .. n \/ (j - n \in 1 .. m /\ n + (j - n) = j)
  BY ONLY n \in Nat, m \in Nat
<1>7. ASSUME NEW j \in 1 .. n + m, U[j].judge_id = id PROVE j \in o + 1 .. o + k
  <2>1. CASE j \in 1 .. n
    BY <1>2, <1>3, <1>7, <2>1
  <2>2. CASE j - n \in 1 .. m /\ n + (j - n) = j
    <3>1. PICK i \in 1 .. m : i = j - n /\ n + i = j
      BY <2>2
    <3>2. U[j] = W[i]
      BY <1>2, <3>1
    <3>3. QED BY <1>1, <1>7, <3>2
  <2>3. QED BY <1>6, <2>1, <2>2
<1>8. o + k <= n + m
  BY <1>3
<1>9. QED BY <1>0, <1>1, <1>2, <1>5, <1>7, <1>8 DEF HoldsOf

(* A verdict more is the next of the sample.                               *)
LEMMA TellsOn ==
  ASSUME NEW id, NEW S, NEW V, Told(id, S, V), NEW D \in Seq(1 .. RunSize), D # <<>>, Ahead(S, V, D),
         NEW v \in VerdictBodies, v.index = Head(D), v.judge_id = id
  PROVE  /\ Told(id, S, Append(V, v))
         /\ Len(Append(V, v)) = Len(V) + 1 /\ Len(V) \in Nat
         /\ Tail(D) \in Seq(1 .. RunSize) /\ Ahead(S, Append(V, v), Tail(D))
<1>1. PICK n, m, O, E, X : /\ n = Len(V) /\ m = Len(D) /\ O = InOrder(S)
                           /\ E = Tail(D) /\ X = Append(V, v)
  OBVIOUS
<1>0. n \in Nat /\ m \in Nat
  <2>1. V \in Seq(VerdictBodies)
    BY DEF Told
  <2> HIDE DEF VerdictBodies
  <2>2. QED BY <1>1, <2>1
<1>2. PICK c \in Nat : c = Cardinality(S)
  <2>1. S \subseteq 1 .. RunSize /\ RunSize \in Nat
    BY JudgingSizes DEF Told
  <2>2. IsFiniteSet(1 .. RunSize)
    BY <2>1, FS_Interval
  <2>3. QED BY <2>1, <2>2, FS_Subset, FS_CardinalityType
<1>3. /\ V \in Seq(VerdictBodies) /\ S \subseteq 1 .. RunSize /\ n <= c
      /\ \A i \in 1 .. n : V[i].judge_id = id /\ V[i].index = O[i]
  BY <1>0, <1>1, <1>2 DEF Told
<1>4. X \in Seq(VerdictBodies) /\ Len(X) = n + 1 /\ X[n + 1] = v /\ \A i \in 1 .. n : X[i] = V[i]
  <2> HIDE DEF VerdictBodies
  <2>1. QED BY <1>0, <1>1, <1>3
<1>5. /\ m > 0 /\ E \in Seq(1 .. RunSize) /\ Len(E) = m - 1 /\ \A i \in 1 .. m - 1 : E[i] = D[i + 1]
      /\ Head(D) = D[1]
  BY <1>0, <1>1
<1>6. m = c - n /\ \A i \in 1 .. m : D[i] = O[n + i]
  BY <1>0, <1>1, <1>2 DEF Ahead
<1>7. v.index = O[n + 1]
  BY <1>0, <1>5, <1>6
<1>8. \A i \in 1 .. n + 1 : i \in 1 .. n \/ i = n + 1
  BY <1>0
<1>9. \A i \in 1 .. n + 1 : X[i].judge_id = id /\ X[i].index = O[i]
  BY <1>0, <1>3, <1>4, <1>7, <1>8
<1>10. n + 1 <= c
  BY <1>0, <1>5, <1>6
<1>11. \A i \in 1 .. m - 1 : E[i] = O[n + 1 + i]
  <2>1. \A i \in 1 .. m - 1 : i + 1 \in 1 .. m /\ n + (i + 1) = n + 1 + i
    BY <1>0, <1>5
  <2>2. QED BY <1>0, <1>5, <1>6, <2>1
<1>12. m - 1 = c - (n + 1)
  BY <1>0, <1>6
<1>13. Told(id, S, X)
  BY <1>0, <1>1, <1>2, <1>3, <1>4, <1>9, <1>10 DEF Told
<1>15. Ahead(S, X, E)
  BY <1>0, <1>1, <1>2, <1>4, <1>5, <1>11, <1>12 DEF Ahead
<1>14. QED BY <1>0, <1>1, <1>4, <1>5, <1>13, <1>15

Batched(t, R, id, S, D, q, V, C, X) ==
  /\ C \in Seq(Rows) /\ X \in Seq(VerdictBodies) /\ Len(X) = Len(V) + 1
  /\ Len(C) = Open(Len(V)) + 1
  /\ q + 1 = t + Len(R) + Len(C)
  /\ \A i \in 1 .. Len(C) : C[i] = [seq |-> t + Len(R) + i - 1, body |-> X[Len(X) - Len(C) + i]]
  /\ Told(id, S, X)
  /\ Tail(D) \in Seq(1 .. RunSize) /\ Ahead(S, X, Tail(D))

(* The pass goes on in the open batch.                                     *)
LEMMA BatchGoesOn ==
  ASSUME NEW t \in Nat, NEW R \in Seq(VerdictBodies), NEW id, NEW S, NEW D \in Seq(1 .. RunSize), NEW q,
         NEW B \in Seq(Rows), NEW V \in Seq(VerdictBodies), Under(t, R, id, S, D, q, B, V), D # <<>>,
         NEW v \in VerdictBodies, v.index = Head(D), v.judge_id = id,
         NEW C, C = Append(B, [seq |-> q, body |-> v]), NEW X, X = Append(V, v)
  PROVE  Batched(t, R, id, S, D, q, V, C, X)
<1>1. PICK n \in Nat, r \in Nat : n = Len(V) /\ r = Len(R)
  OBVIOUS
<1>2. PICK b \in 0 .. n : b = Open(n)
  <2>1. PICK b, c : b = Open(n) /\ c = AppendSize
    OBVIOUS
  <2>2. c \in Nat \ {0}
    BY <2>1, JudgingSizes
  <2>3. b \in 0 .. c - 1 /\ b <= n
    BY <2>1, OpenNext
  <2>4. b \in 0 .. n
    BY ONLY <2>2, <2>3, n \in Nat
  <2>5. QED BY <2>1, <2>4
<1>3. /\ Told(id, S, V) /\ Len(B) = b /\ q = t + r + b
      /\ \A i \in 1 .. b : B[i] = [seq |-> t + r + i - 1, body |-> V[n - b + i]]
      /\ Ahead(S, V, D)
  BY <1>1, <1>2 DEF Under
<1>4. /\ Told(id, S, X) /\ Len(X) = n + 1
      /\ Tail(D) \in Seq(1 .. RunSize) /\ Ahead(S, X, Tail(D))
  <2>1. Told(id, S, V) /\ Ahead(S, V, D)
    BY <1>3
  <2>2. /\ Told(id, S, Append(V, v)) /\ Len(Append(V, v)) = Len(V) + 1
        /\ Tail(D) \in Seq(1 .. RunSize) /\ Ahead(S, Append(V, v), Tail(D))
    BY ONLY <2>1, D \in Seq(1 .. RunSize), D # <<>>, v \in VerdictBodies, v.index = Head(D),
            v.judge_id = id, TellsOn
  <2>3. QED BY ONLY <1>1, <2>2, X = Append(V, v), Zenon
<1>5. \A i \in 1 .. n : X[i] = V[i]
  <2> HIDE DEF VerdictBodies
  <2>1. QED BY <1>1
<1>6. X[n + 1] = v
  <2> HIDE DEF VerdictBodies
  <2>1. QED BY <1>1
<1>7. [seq |-> q, body |-> v] \in Rows
  <2>1. q \in Nat
    BY <1>3
  <2>2. QED BY <2>1 DEF Rows
<1>8. /\ C \in Seq(Rows) /\ Len(C) = b + 1 /\ C[b + 1] = [seq |-> q, body |-> v]
      /\ \A i \in 1 .. b : C[i] = B[i]
  <2> HIDE DEF Rows
  <2>1. PICK x \in Rows : x = [seq |-> q, body |-> v]
    BY <1>7
  <2>2. C = Append(B, x)
    BY <2>1
  <2>3. C \in Seq(Rows) /\ Len(C) = b + 1 /\ C[b + 1] = x /\ \A i \in 1 .. b : C[i] = B[i]
    BY ONLY <1>3, <2>1, <2>2, B \in Seq(Rows), b \in 0 .. n, n \in Nat
  <2>4. QED BY <2>1, <2>3
<1>9. ASSUME NEW i \in 1 .. b + 1
      PROVE  C[i] = [seq |-> t + r + i - 1, body |-> X[n - b + i]]
  <2>1. CASE i \in 1 .. b
    <3>1. n - b + i \in 1 .. n
      BY <2>1
    <3>2. QED BY <1>3, <1>5, <1>8, <2>1, <3>1
  <2>2. CASE i = b + 1
    <3>1. n - b + i = n + 1 /\ t + r + i - 1 = t + r + b
      BY <2>2
    <3>2. QED BY <1>3, <1>6, <1>8, <2>2, <3>1
  <2>3. i \in 1 .. b \/ i = b + 1
    BY ONLY i \in 1 .. b + 1, b \in 0 .. n, n \in Nat
  <2>4. QED BY <2>1, <2>2, <2>3
<1>10. /\ n + 1 - (b + 1) = n - b /\ q + 1 = t + r + (b + 1)
  BY <1>3
<1>11. X \in Seq(VerdictBodies)
  BY <1>4 DEF Told
<1>12. PICK k, l : k = Len(X) /\ l = Len(C)
  OBVIOUS
<1>13. k = n + 1 /\ l = b + 1 /\ k - l = n - b
  BY <1>4, <1>8, <1>10, <1>12
<1>14. \A i \in 1 .. l : C[i] = [seq |-> t + r + i - 1, body |-> X[k - l + i]]
  BY <1>9, <1>13
<1>15. q + 1 = t + r + l
  BY <1>10, <1>13
<1>16. Told(id, S, X) /\ Tail(D) \in Seq(1 .. RunSize) /\ Ahead(S, X, Tail(D))
  BY <1>4
<1>17. C \in Seq(Rows)
  BY <1>8
<1>18. Len(X) = Len(V) + 1 /\ Len(C) = Open(Len(V)) + 1
  BY ONLY <1>1, <1>2, <1>12, <1>13, Zenon
<1>19. q + 1 = t + Len(R) + Len(C)
  BY ONLY <1>1, <1>12, <1>15, Zenon
<1>20. \A i \in 1 .. Len(C) : C[i] = [seq |-> t + Len(R) + i - 1, body |-> X[Len(X) - Len(C) + i]]
  BY <1>1, <1>12, <1>14
<1>21. QED BY ONLY <1>11, <1>16, <1>17, <1>18, <1>19, <1>20, Zenon DEF Batched

(* The batch is not full: the log stays.                                   *)
Staying(t, R, id, S, D, q, C, X) ==
  /\ Under(t, R, id, S, Tail(D), q + 1, C, X)
  /\ C \in Seq(Rows) /\ X \in Seq(VerdictBodies) /\ Tail(D) \in Seq(1 .. RunSize)

LEMMA StaysOpen ==
  ASSUME NEW t \in Nat, NEW R \in Seq(VerdictBodies), NEW id, NEW S, NEW D \in Seq(1 .. RunSize), NEW q,
         NEW B \in Seq(Rows), NEW V \in Seq(VerdictBodies), Under(t, R, id, S, D, q, B, V), D # <<>>,
         NEW v \in VerdictBodies, v.index = Head(D), v.judge_id = id,
         NEW C, C = Append(B, [seq |-> q, body |-> v]), NEW X, X = Append(V, v),
         ~(Len(C) >= AppendSize)
  PROVE  Staying(t, R, id, S, D, q, C, X)
<1>1. /\ C \in Seq(Rows) /\ X \in Seq(VerdictBodies) /\ Len(X) = Len(V) + 1
      /\ Len(C) = Open(Len(V)) + 1
      /\ q + 1 = t + Len(R) + Len(C)
      /\ \A i \in 1 .. Len(C) : C[i] = [seq |-> t + Len(R) + i - 1, body |-> X[Len(X) - Len(C) + i]]
      /\ Told(id, S, X)
      /\ Tail(D) \in Seq(1 .. RunSize) /\ Ahead(S, X, Tail(D))
  <2>1. Batched(t, R, id, S, D, q, V, C, X)
    BY BatchGoesOn
  <2>2. QED BY ONLY <2>1, Zenon DEF Batched
<1>2. PICK n \in Nat, r \in Nat : n = Len(V) /\ r = Len(R)
  OBVIOUS
<1>3. PICK b, bs : b = Open(n) /\ bs = AppendSize
  OBVIOUS
<1>4. bs \in Nat \ {0}
  BY <1>3, JudgingSizes
<1>5. /\ b \in 0 .. bs - 1 /\ b <= n
      /\ Open(n + 1) = IF b + 1 = bs THEN 0 ELSE b + 1
  BY <1>3, <1>4, OpenNext
<1>6. Len(C) = b + 1 /\ b + 1 # bs
  BY <1>1, <1>2, <1>3, <1>4, <1>5
<1>7. PICK k, l : k = Len(X) /\ l = Len(C)
  OBVIOUS
<1>8. k = n + 1 /\ l = b + 1 /\ k - l = n - b
  BY <1>1, <1>2, <1>5, <1>6, <1>7
<1>9. Open(k) = l
  BY ONLY <1>3, <1>5, <1>6, <1>8
<1>10. PICK o : o = r - (n - b)
  OBVIOUS
<1>11. /\ o >= 0 /\ \A i \in 1 .. n - b : R[o + i] = V[i]
       /\ \A i \in 1 .. o : R[i].judge_id # id
  BY <1>2, <1>3, <1>10 DEF Under
<1>12. \A i \in 1 .. n - b : X[i] = V[i]
  <2>1. \A i \in 1 .. n - b : i \in 1 .. n
    BY ONLY <1>4, <1>5, n \in Nat
  <2>2. \A i \in 1 .. n : X[i] = V[i]
    <3> HIDE DEF VerdictBodies
    <3>1. QED BY <1>2
  <2>3. QED BY <2>1, <2>2
<1>13. o = r - (k - l)
  BY <1>8, <1>10
<1>14. \A i \in 1 .. k - l : R[o + i] = X[i]
  BY <1>8, <1>11, <1>12
<1>15. q + 1 = t + r + l
  BY <1>1, <1>2, <1>7
<1>16. \A i \in 1 .. l : C[i] = [seq |-> t + r + i - 1, body |-> X[k - l + i]]
  BY <1>1, <1>2, <1>7
<1>17. Under(t, R, id, S, Tail(D), q + 1, C, X)
  BY ONLY <1>1, <1>2, <1>7, <1>9, <1>11, <1>13, <1>14, <1>15, <1>16, Zenon DEF Under
<1>18. QED BY ONLY <1>1, <1>17, Zenon DEF Staying

(* The batch is full: it goes to the log.                                  *)
Closing(t, R, id, S, D, q, C, X) ==
  \E W \in Seq(VerdictBodies) :
    /\ DOMAIN C = 1 .. Len(W)
    /\ \A i \in 1 .. Len(W) : C[i] = [seq |-> t + Len(R) + i - 1, body |-> W[i]]
    /\ \A i \in 1 .. Len(W) : W[i].judge_id = id
    /\ Under(t, R \o W, id, S, Tail(D), q + 1, <<>>, X)
    /\ X \in Seq(VerdictBodies) /\ Tail(D) \in Seq(1 .. RunSize)

LEMMA Closes ==
  ASSUME NEW t \in Nat, NEW R \in Seq(VerdictBodies), NEW id, NEW S, NEW D \in Seq(1 .. RunSize), NEW q,
         NEW B \in Seq(Rows), NEW V \in Seq(VerdictBodies), Under(t, R, id, S, D, q, B, V), D # <<>>,
         NEW v \in VerdictBodies, v.index = Head(D), v.judge_id = id,
         NEW C, C = Append(B, [seq |-> q, body |-> v]), NEW X, X = Append(V, v),
         Len(C) >= AppendSize
  PROVE  Closing(t, R, id, S, D, q, C, X)
<1>1. /\ C \in Seq(Rows) /\ X \in Seq(VerdictBodies) /\ Len(X) = Len(V) + 1
      /\ Len(C) = Open(Len(V)) + 1
      /\ q + 1 = t + Len(R) + Len(C)
      /\ \A i \in 1 .. Len(C) : C[i] = [seq |-> t + Len(R) + i - 1, body |-> X[Len(X) - Len(C) + i]]
      /\ Told(id, S, X)
      /\ Tail(D) \in Seq(1 .. RunSize) /\ Ahead(S, X, Tail(D))
  <2>1. Batched(t, R, id, S, D, q, V, C, X)
    BY BatchGoesOn
  <2>2. QED BY ONLY <2>1, Zenon DEF Batched
<1>2. PICK n \in Nat, r \in Nat : n = Len(V) /\ r = Len(R)
  OBVIOUS
<1>3. PICK b, bs : b = Open(n) /\ bs = AppendSize
  OBVIOUS
<1>4. bs \in Nat \ {0}
  BY <1>3, JudgingSizes
<1>5. /\ b \in 0 .. bs - 1 /\ b <= n
      /\ Open(n + 1) = IF b + 1 = bs THEN 0 ELSE b + 1
  BY <1>3, <1>4, OpenNext
<1>6. Len(C) = b + 1 /\ b + 1 = bs
  BY <1>1, <1>2, <1>3, <1>4, <1>5, SMTT(30)
<1>7. PICK k, l : k = Len(X) /\ l = Len(C)
  OBVIOUS
<1>8. k = n + 1 /\ l = b + 1 /\ k - l = n - b /\ k - l \in Nat /\ l \in Nat /\ k \in Nat
  <2>1. k = n + 1 /\ l = b + 1
    BY <1>1, <1>2, <1>6, <1>7
  <2>2. QED BY ONLY <1>4, <1>5, <2>1, n \in Nat
<1>9. Open(k) = 0
  BY ONLY <1>3, <1>5, <1>6, <1>8
<1>10. PICK o : o = r - (n - b)
  OBVIOUS
<1>11. /\ o >= 0 /\ \A i \in 1 .. n - b : R[o + i] = V[i]
       /\ \A i \in 1 .. o : R[i].judge_id # id
  BY <1>2, <1>3, <1>10 DEF Under
<1>12. PICK W : W = [i \in 1 .. l |-> X[k - l + i]]
  OBVIOUS
<1>13. \A i \in 1 .. k : X[i] \in VerdictBodies /\ X[i].judge_id = id
  BY <1>1, <1>7 DEF Told
<1>14. \A i \in 1 .. l : k - l + i \in 1 .. k
  BY ONLY <1>8, SMTT(30)
<1>15. W \in Seq(VerdictBodies) /\ Len(W) = l /\ \A i \in 1 .. l : W[i] = X[k - l + i] /\ W[i].judge_id = id
  <2> HIDE DEF VerdictBodies
  <2>1. \A i \in 1 .. l : X[k - l + i] \in VerdictBodies /\ X[k - l + i].judge_id = id
    BY ONLY <1>13, <1>14
  <2>4. \A i \in 1 .. l : W[i] \in VerdictBodies
    BY ONLY <1>12, <2>1
  <2>5. W \in [1 .. l -> VerdictBodies]
    BY ONLY <1>12, <2>4
  <2>2. W \in Seq(VerdictBodies) /\ Len(W) = l
    <3>1. l \in Nat
      BY <1>8
    <3>2. QED BY ONLY <2>5, <3>1, Sequence
  <2>3. QED BY <1>12, <2>1, <2>2
<1>16. DOMAIN C = 1 .. l
  <2> HIDE DEF Rows
  <2>1. QED BY <1>1, <1>7
<1>17. \A i \in 1 .. l : C[i] = [seq |-> t + r + i - 1, body |-> W[i]]
  <2>1. \A i \in 1 .. l : C[i] = [seq |-> t + r + i - 1, body |-> X[k - l + i]]
    BY <1>1, <1>2, <1>7
  <2>2. QED BY ONLY <1>15, <2>1
<1>18. PICK U : U = R \o W
  OBVIOUS
<1>19. /\ Len(U) = r + l /\ \A i \in 1 .. r : U[i] = R[i]
       /\ \A i \in 1 .. l : U[r + i] = W[i]
  <2> HIDE DEF VerdictBodies
  <2>1. QED BY <1>2, <1>15, <1>18
<1>20. Len(U) - (k - 0) = o
  BY ONLY <1>8, <1>10, <1>19, r \in Nat, n \in Nat
<1>21. \A i \in 1 .. n - b : X[i] = V[i]
  <2>1. \A i \in 1 .. n - b : i \in 1 .. n
    BY ONLY <1>4, <1>5, n \in Nat
  <2>2. \A i \in 1 .. n : X[i] = V[i]
    <3> HIDE DEF VerdictBodies
    <3>1. QED BY <1>2
  <2>3. QED BY <2>1, <2>2
<1>22. ASSUME NEW i \in 1 .. k - 0 PROVE U[o + i] = X[i]
  <2>1. CASE i \in 1 .. n - b
    <3>1. o + i \in 1 .. r
      BY ONLY <1>4, <1>5, <1>10, <1>11, <2>1, n \in Nat, r \in Nat
    <3>2. QED BY <1>11, <1>19, <1>21, <2>1, <3>1
  <2>2. CASE i \notin 1 .. n - b
    <3>1. PICK j \in 1 .. l : j = i - (n - b) /\ o + i = r + j /\ k - l + j = i
      <4>1. /\ i - (n - b) \in 1 .. l /\ o + i = r + (i - (n - b))
            /\ k - l + (i - (n - b)) = i
        BY ONLY <1>4, <1>5, <1>8, <1>10, <2>2, n \in Nat, r \in Nat, i \in 1 .. k - 0
      <4>2. QED BY <4>1
    <3>2. U[r + j] = W[j] /\ W[j] = X[k - l + j]
      BY ONLY <1>15, <1>19, j \in 1 .. l, Zenon
    <3>3. QED BY ONLY <3>1, <3>2, Zenon
  <2>3. QED BY <2>1, <2>2
<1>23. \A i \in 1 .. o : U[i].judge_id # id
  <2>1. \A i \in 1 .. o : i \in 1 .. r
    BY ONLY <1>4, <1>5, <1>10, <1>11, n \in Nat, r \in Nat, SMTT(30)
  <2>2. QED BY <1>11, <1>19, <2>1
<1>24. q + 1 = t + Len(U) + 0
  <2>1. q + 1 = t + r + l
    BY <1>1, <1>2, <1>7
  <2>2. PICK u : u = Len(U)
    OBVIOUS
  <2>3. u = r + l
    BY <1>19, <2>2
  <2>4. q + 1 = t + u + 0
    BY ONLY <1>8, <2>1, <2>3, t \in Nat, r \in Nat
  <2>5. QED BY <2>2, <2>4
<1>25. PICK e : e = <<>>
  OBVIOUS
<1>26. Len(e) = 0 /\ \A i \in 1 .. 0 : e[i] = [seq |-> t + Len(U) + i - 1, body |-> X[k - 0 + i]]
  BY <1>25
<1>27. Under(t, U, id, S, Tail(D), q + 1, e, X)
  BY ONLY <1>1, <1>7, <1>9, <1>11, <1>20, <1>22, <1>23, <1>24, <1>26, Zenon DEF Under
<1>28. QED
  <2>1. Under(t, R \o W, id, S, Tail(D), q + 1, <<>>, X)
    BY <1>18, <1>25, <1>27
  <2>2. DOMAIN C = 1 .. Len(W) /\ \A i \in 1 .. Len(W) : W[i].judge_id = id
    BY <1>15, <1>16
  <2>3. \A i \in 1 .. Len(W) : C[i] = [seq |-> t + Len(R) + i - 1, body |-> W[i]]
    BY <1>2, <1>15, <1>17
  <2>4. QED BY <1>1, <1>15, <2>1, <2>2, <2>3 DEF Closing

(* A pass that raises leaves its whole batches.                            *)
LEMMA LeavesBatches ==
  ASSUME NEW t \in Nat, NEW R \in Seq(VerdictBodies), NEW id, NEW S, NEW D, NEW q,
         NEW B, NEW V \in Seq(VerdictBodies), Under(t, R, id, S, D, q, B, V)
  PROVE  HoldsOf(R, id, V, Len(V) - Open(Len(V))) /\ Told(id, S, V)
<1>1. PICK n \in Nat, r \in Nat : n = Len(V) /\ r = Len(R)
  OBVIOUS
<1>2. PICK b, bs : b = Open(n) /\ bs = AppendSize
  OBVIOUS
<1>3. bs \in Nat \ {0}
  BY <1>2, JudgingSizes
<1>4. b \in 0 .. bs - 1 /\ b <= n
  BY <1>2, <1>3, OpenNext
<1>5. PICK k : k = n - b
  OBVIOUS
<1>6. k \in Nat
  BY ONLY <1>3, <1>4, <1>5, n \in Nat
<1>7. PICK o : o = r - k
  OBVIOUS
<1>8. /\ o >= 0 /\ \A i \in 1 .. k : R[o + i] = V[i]
      /\ \A i \in 1 .. o : R[i].judge_id # id
  BY <1>1, <1>2, <1>5, <1>7 DEF Under
<1>9. o \in Nat /\ o + k <= r /\ \A j \in 1 .. r : j \in 1 .. o \/ j \in o + 1 .. o + k
  BY ONLY <1>6, <1>7, <1>8, r \in Nat
<1>10. HoldsOf(R, id, V, k)
  BY <1>1, <1>8, <1>9 DEF HoldsOf
<1>11. HoldsOf(R, id, V, Len(V) - Open(Len(V)))
  BY <1>1, <1>2, <1>5, <1>10
<1>12. QED BY <1>11 DEF Under

(* A pass that is over leaves all of it.                                   *)
Leaving(t, R, id, S, B, V) ==
  \E W \in Seq(VerdictBodies) :
    /\ DOMAIN B = 1 .. Len(W)
    /\ \A i \in 1 .. Len(W) : B[i] = [seq |-> t + Len(R) + i - 1, body |-> W[i]]
    /\ \A i \in 1 .. Len(W) : W[i].judge_id = id
    /\ HoldsOf(R \o W, id, V, Len(V)) /\ Told(id, S, V) /\ Len(V) = Cardinality(S)

LEMMA LeavesAll ==
  ASSUME NEW t \in Nat, NEW R \in Seq(VerdictBodies), NEW id, NEW S, NEW q,
         NEW B \in Seq(Rows), NEW V \in Seq(VerdictBodies), Under(t, R, id, S, <<>>, q, B, V)
  PROVE  Leaving(t, R, id, S, B, V)
<1>1. PICK n \in Nat, r \in Nat : n = Len(V) /\ r = Len(R)
  OBVIOUS
<1>2. PICK b, bs : b = Open(n) /\ bs = AppendSize
  OBVIOUS
<1>3. bs \in Nat \ {0}
  BY <1>2, JudgingSizes
<1>4. b \in 0 .. bs - 1 /\ b <= n
  BY <1>2, <1>3, OpenNext
<1>5. PICK k : k = n - b
  OBVIOUS
<1>6. k \in Nat /\ b \in Nat /\ k + b = n
  BY ONLY <1>3, <1>4, <1>5, n \in Nat
<1>7. PICK o : o = r - k
  OBVIOUS
<1>8. /\ o >= 0 /\ \A i \in 1 .. k : R[o + i] = V[i]
      /\ \A i \in 1 .. o : R[i].judge_id # id
      /\ Len(B) = b /\ Told(id, S, V) /\ Ahead(S, V, <<>>)
      /\ \A i \in 1 .. b : B[i] = [seq |-> t + r + i - 1, body |-> V[k + i]]
  BY <1>1, <1>2, <1>5, <1>7 DEF Under
<1>9. PICK W : W = [i \in 1 .. b |-> V[k + i]]
  OBVIOUS
<1>10. \A i \in 1 .. n : V[i] \in VerdictBodies /\ V[i].judge_id = id
  BY <1>1, <1>8 DEF Told
<1>11. \A i \in 1 .. b : k + i \in 1 .. n
  BY ONLY <1>6, n \in Nat
<1>12. \A i \in 1 .. b : W[i] = V[k + i] /\ W[i].judge_id = id /\ W[i] \in VerdictBodies
  BY ONLY <1>9, <1>10, <1>11
<1>13. W \in Seq(VerdictBodies) /\ Len(W) = b
  <2>1. W \in [1 .. b -> VerdictBodies]
    BY ONLY <1>9, <1>12
  <2>2. b \in Nat
    BY <1>6
  <2>3. QED BY ONLY <2>1, <2>2, Sequence
<1>14. PICK U : U = R \o W
  OBVIOUS
<1>15. /\ Len(U) = r + b /\ \A i \in 1 .. r : U[i] = R[i]
       /\ \A i \in 1 .. b : U[r + i] = W[i]
  <2>1. W \in Seq(VerdictBodies) /\ R \in Seq(VerdictBodies)
    BY <1>13
  <2>2. /\ Len(U) = Len(R) + Len(W) /\ \A i \in 1 .. Len(R) : U[i] = R[i]
        /\ \A i \in 1 .. Len(W) : U[Len(R) + i] = W[i]
    BY ONLY <1>14, <2>1, Joined
  <2>3. QED BY ONLY <1>1, <1>13, <2>2
<1>16. o \in Nat /\ o + n = r + b
  BY ONLY <1>6, <1>7, <1>8, r \in Nat, n \in Nat
<1>17. ASSUME NEW i \in 1 .. n PROVE U[o + i] = V[i]
  <2>1. CASE i \in 1 .. k
    <3>1. o + i \in 1 .. r
      BY ONLY <1>6, <1>7, <1>16, <2>1, r \in Nat, n \in Nat
    <3>2. QED BY <1>8, <1>15, <2>1, <3>1
  <2>2. CASE i \notin 1 .. k
    <3>1. PICK j \in 1 .. b : j = i - k /\ o + i = r + j /\ k + j = i
      <4>1. i - k \in 1 .. b /\ o + i = r + (i - k) /\ k + (i - k) = i
        BY ONLY <1>6, <1>7, <1>16, <2>2, n \in Nat, r \in Nat, i \in 1 .. n
      <4>2. QED BY <4>1
    <3>2. U[r + j] = W[j] /\ W[j] = V[k + j]
      BY ONLY <1>12, <1>15, j \in 1 .. b, Zenon
    <3>3. QED BY ONLY <3>1, <3>2, Zenon
  <2>3. QED BY <2>1, <2>2
<1>18. ASSUME NEW j \in 1 .. r + b, U[j].judge_id = id PROVE j \in o + 1 .. o + n
  <2>1. j \in 1 .. o => j \in 1 .. r
    BY ONLY <1>6, <1>7, <1>16, r \in Nat, n \in Nat
  <2>2. j \notin 1 .. o
    BY <1>8, <1>15, <1>18, <2>1
  <2>3. QED BY ONLY <1>6, <1>16, <2>2, j \in 1 .. r + b, r \in Nat, n \in Nat
<1>19. o + n <= Len(U)
  BY ONLY <1>6, <1>15, <1>16, r \in Nat, n \in Nat
<1>20. HoldsOf(U, id, V, n)
  BY ONLY <1>15, <1>16, <1>17, <1>18, <1>19 DEF HoldsOf
<1>21. n = Cardinality(S)
  <2>1. 0 = Cardinality(S) - n
    BY <1>1, <1>8 DEF Ahead
  <2>2. Cardinality(S) \in Nat
    <3>1. S \subseteq 1 .. RunSize /\ RunSize \in Nat
      BY <1>8, JudgingSizes DEF Told
    <3>2. IsFiniteSet(1 .. RunSize)
      BY <3>1, FS_Interval
    <3>3. QED BY <3>1, <3>2, FS_Subset, FS_CardinalityType
  <2>3. QED BY ONLY <2>1, <2>2, n \in Nat
<1>22. DOMAIN B = 1 .. b
  <2> HIDE DEF Rows
  <2>1. QED BY <1>8
<1>23. \A i \in 1 .. b : B[i] = [seq |-> t + r + i - 1, body |-> W[i]]
  BY ONLY <1>8, <1>12
<1>24. QED
  <2>1. DOMAIN B = 1 .. Len(W) /\ \A i \in 1 .. Len(W) : W[i].judge_id = id
    BY <1>12, <1>13, <1>22
  <2>2. \A i \in 1 .. Len(W) : B[i] = [seq |-> t + Len(R) + i - 1, body |-> W[i]]
    BY <1>1, <1>13, <1>23
  <2>3. HoldsOf(R \o W, id, V, Len(V)) /\ Told(id, S, V) /\ Len(V) = Cardinality(S)
    BY <1>1, <1>8, <1>14, <1>20, <1>21
  <2>4. QED BY <1>13, <2>1, <2>2, <2>3 DEF Leaving

(* A pass begins behind the log.                                           *)
LEMMA PassStarts ==
  ASSUME NEW t \in Nat, NEW R \in Seq(VerdictBodies), NEW id, NEW S, S \subseteq 1 .. RunSize,
         \A k \in 1 .. Len(R) : R[k].judge_id # id
  PROVE  /\ Under(t, R, id, S, InOrder(S), t + Len(R), <<>>, <<>>)
         /\ InOrder(S) \in Seq(1 .. RunSize)
<1>1. PICK n, s : n = Cardinality(S) /\ s = InOrder(S)
  OBVIOUS
<1>2. IsFiniteSet(S) /\ S \subseteq Nat
  <2>1. RunSize \in Nat
    BY JudgingSizes
  <2>2. IsFiniteSet(1 .. RunSize) /\ 1 .. RunSize \subseteq Nat
    <3>1. IsFiniteSet(1 .. RunSize)
      BY <2>1, FS_Interval
    <3>2. 1 .. RunSize \subseteq Nat
      BY ONLY <2>1
    <3>3. QED BY <3>1, <3>2
  <2>3. QED BY <2>2, FS_Subset
<1>3. n \in Nat /\ s \in [1 .. n -> S]
  BY <1>1, <1>2, Ordered
<1>4. s \in Seq(1 .. RunSize) /\ Len(s) = n
  <2>1. s \in [1 .. n -> 1 .. RunSize]
    BY <1>3
  <2>2. n \in Nat
    BY <1>3
  <2>3. QED BY ONLY <2>1, <2>2, Sequence
<1>5. PICK e : e = <<>>
  OBVIOUS
<1>6. e \in Seq(VerdictBodies) /\ Len(e) = 0
  <2> HIDE DEF VerdictBodies
  <2>1. QED BY <1>5
<1>7. Told(id, S, e)
  <2>1. 0 <= n
    BY <1>3
  <2>2. \A i \in 1 .. 0 : FALSE
    OBVIOUS
  <2>3. QED BY <1>1, <1>6, <2>1, <2>2 DEF Told
<1>8. Ahead(S, e, s)
  <2>1. n = n - 0 /\ \A i \in 1 .. n : 0 + i = i
    BY <1>3
  <2>2. QED BY <1>1, <1>4, <1>6, <2>1 DEF Ahead
<1>9. Open(0) = 0
  BY OpenNext
<1>10. PICK r \in Nat : r = Len(R)
  OBVIOUS
<1>11. t + r = t + r + 0 /\ r - (0 - 0) = r /\ r >= 0 /\ 1 .. 0 = {} /\ 0 - 0 = 0
  OBVIOUS
<1>12. Under(t, R, id, S, s, t + r, e, e)
  BY ONLY <1>6, <1>7, <1>8, <1>9, <1>10, <1>11, \A k \in 1 .. Len(R) : R[k].judge_id # id DEF Under
<1>13. QED BY <1>1, <1>4, <1>5, <1>10, <1>12

ClosedIds == {finished[p].id : p \in DOMAIN finished}

(* The log is R: what every pass judged, each in one piece, and the pass   *)
(* under way at the end of it.  No pass has the id of another.             *)
Logbook(R) ==
  /\ R \in Seq(VerdictBodies) /\ shadowed \subseteq 1 .. RunSize /\ verdictRows = Log(Traffic, R)
  /\ plan \in Seq(Passes) /\ finished \in Seq(PassEnds) /\ job \in Jobs \cup {Idle}
  /\ \A p \in DOMAIN finished : Done(R, finished[p])
  /\ job.busy => Under(Traffic, R, job.pass.id, job.sample, job.todo, job.seq, job.batch, job.verdicts)
  /\ \A i, j \in DOMAIN plan : plan[i].id = plan[j].id => i = j
  /\ \A j \in DOMAIN plan : plan[j].id \notin ClosedIds
  /\ job.busy => job.pass.id \notin ClosedIds /\ \A j \in DOMAIN plan : plan[j].id # job.pass.id
  /\ \A k \in 1 .. Len(R) : R[k].judge_id \in ClosedIds \/ (job.busy /\ R[k].judge_id = job.pass.id)

LEMMA PlansFact ==
  ASSUME NEW s \in Plans
  PROVE  s \in Seq(Passes) /\ \A i, j \in DOMAIN s : s[i].id = s[j].id => i = j
<1>1. s \in Seq({s[i] : i \in DOMAIN s}) /\ \A i, j \in DOMAIN s : s[i].id = s[j].id => i = j
  BY PlansAssumption
<1>2. {s[i] : i \in DOMAIN s} \subseteq Passes
  BY DEF Passes
<1>3. s \in Seq(Passes)
  BY <1>1, <1>2, SeqMonotonic
<1>4. QED BY <1>1, <1>3

LEMMA LogBegins ==
  ASSUME JudgingInit PROVE Logbook(<<>>)
<1>1. plan \in Seq(Passes) /\ \A i, j \in DOMAIN plan : plan[i].id = plan[j].id => i = j
  <2>1. CASE script = "judge"
    BY <2>1, PlansFact DEF JudgingInit
  <2>2. CASE script # "judge"
    <3>1. plan = <<>>
      BY <2>2 DEF JudgingInit
    <3> HIDE DEF Passes
    <3>2. QED BY <3>1
  <2>3. QED BY <2>1, <2>2
<1>2. shadowed \subseteq 1 .. RunSize /\ verdictRows = {} /\ finished = <<>> /\ job = Idle
  BY DEF JudgingInit
<1>3. PICK e : e = <<>>
  OBVIOUS
<1>4. e \in Seq(VerdictBodies) /\ Len(e) = 0 /\ 1 .. 0 = {}
  <2> HIDE DEF VerdictBodies
  <2>1. QED BY <1>3
<1>5. verdictRows = Log(Traffic, e)
  BY <1>2, <1>4 DEF Log
<1>6. finished \in Seq(PassEnds) /\ DOMAIN finished = {} /\ ClosedIds = {}
  <2> HIDE DEF PassEnds
  <2>1. finished \in Seq(PassEnds) /\ DOMAIN finished = {}
    BY <1>2
  <2>2. QED BY <2>1 DEF ClosedIds
<1>7. job \in Jobs \cup {Idle} /\ ~job.busy
  BY <1>2 DEF Idle
<1>8. Logbook(e)
  BY ONLY <1>1, <1>2, <1>4, <1>5, <1>6, <1>7, Zenon DEF Logbook
<1>9. QED BY <1>3, <1>8

LEMMA StartLogs ==
  ASSUME NEW R, Logbook(R), NEW sample \in SUBSET shadowed, StartPass(sample)
  PROVE  Logbook(R)'
<1>1. PICK t, P, S, q : t = Traffic /\ P = Head(plan) /\ S = sample /\ q = NextSeq
  OBVIOUS
<1>2. /\ plan # <<>> /\ ~job.busy /\ plan' = Tail(plan)
      /\ job' = [busy |-> TRUE, pass |-> P, sample |-> S, todo |-> InOrder(S), seq |-> q,
                 batch |-> <<>>, verdicts |-> <<>>]
      /\ shadowed' = shadowed /\ verdictRows' = verdictRows /\ finished' = finished
  BY <1>1, Zenon DEF StartPass
<1>3. /\ R \in Seq(VerdictBodies) /\ shadowed \subseteq 1 .. RunSize /\ verdictRows = Log(t, R)
      /\ plan \in Seq(Passes) /\ finished \in Seq(PassEnds)
      /\ \A p \in DOMAIN finished : Done(R, finished[p])
      /\ \A i, j \in DOMAIN plan : plan[i].id = plan[j].id => i = j
      /\ \A j \in DOMAIN plan : plan[j].id \notin ClosedIds
      /\ \A k \in 1 .. Len(R) : R[k].judge_id \in ClosedIds
  BY <1>1, <1>2, Zenon DEF Logbook
<1>4. /\ P \in Passes /\ P = plan[1] /\ 1 \in DOMAIN plan /\ plan' \in Seq(Passes)
      /\ \A j \in DOMAIN plan' : j + 1 \in DOMAIN plan /\ plan'[j] = plan[j + 1] /\ j + 1 # 1 /\ j \in Nat
  <2> HIDE DEF Passes
  <2>1. QED BY <1>1, <1>2, <1>3
<1>5. \A i, j \in DOMAIN plan' : plan'[i].id = plan'[j].id => i = j
  <2>1. SUFFICES ASSUME NEW i \in DOMAIN plan', NEW j \in DOMAIN plan', plan'[i].id = plan'[j].id
                 PROVE  i = j
    OBVIOUS
  <2>2. i + 1 = j + 1
    <3>1. i + 1 \in DOMAIN plan /\ j + 1 \in DOMAIN plan
      BY <1>4
    <3>2. plan[i + 1].id = plan[j + 1].id
      BY <1>4, <2>1
    <3>3. QED BY ONLY <1>3, <3>1, <3>2
  <2>3. i \in Nat /\ j \in Nat
    BY <1>4
  <2>4. QED BY ONLY <2>2, <2>3
<1>6. /\ \A j \in DOMAIN plan' : plan'[j].id \notin ClosedIds /\ plan'[j].id # P.id
      /\ P.id \notin ClosedIds
  BY <1>3, <1>4
<1>7. t \in Nat /\ q = t + Len(R)
  BY <1>1, <1>3, TrafficFact, NextSeqIs
<1>8. S \subseteq 1 .. RunSize
  BY <1>1, <1>3
<1>9. \A k \in 1 .. Len(R) : R[k].judge_id # P.id
  BY <1>3, <1>6
<1>10. /\ Under(t, R, P.id, S, InOrder(S), q, <<>>, <<>>)
       /\ InOrder(S) \in Seq(1 .. RunSize)
  BY <1>3, <1>7, <1>8, <1>9, PassStarts
<1>11. job' \in Jobs
  <2>1. q \in Nat
    BY <1>3, <1>7
  <2>2. PICK e : e = <<>>
    OBVIOUS
  <2>3. e \in Seq(VerdictBodies) /\ e \in Seq(Rows)
    <3> HIDE DEF VerdictBodies, Rows
    <3>1. QED BY <2>2
  <2>4. job' = [busy |-> TRUE, pass |-> P, sample |-> S, todo |-> InOrder(S), seq |-> q,
                batch |-> e, verdicts |-> e]
    BY <1>2, <2>2
  <2>5. P \in Passes
    BY <1>4
  <2> HIDE DEF VerdictBodies, Rows, Passes
  <2>6. QED BY ONLY <1>8, <1>10, <2>1, <2>3, <2>4, <2>5 DEF Jobs
<1>12. /\ job'.busy /\ job'.pass = P /\ job'.sample = S /\ job'.todo = InOrder(S) /\ job'.seq = q
       /\ job'.batch = <<>> /\ job'.verdicts = <<>>
  BY <1>2
<1>13. ClosedIds' = ClosedIds /\ Traffic' = t
  BY <1>1, <1>2 DEF ClosedIds, Traffic
<1>14. Under(Traffic', R, job'.pass.id, job'.sample, job'.todo, job'.seq, job'.batch, job'.verdicts)
  BY <1>10, <1>12, <1>13
<1>15. job'.pass.id \notin ClosedIds' /\ \A j \in DOMAIN plan' : plan'[j].id # job'.pass.id
  BY <1>6, <1>12, <1>13
<1>16. job' \in Jobs \cup {Idle}
  BY <1>11
<1>17. verdictRows' = Log(Traffic', R) /\ shadowed' \subseteq 1 .. RunSize /\ finished' \in Seq(PassEnds)
  BY <1>2, <1>3, <1>13
<1>18. /\ \A p \in DOMAIN finished' : Done(R, finished'[p])
       /\ \A j \in DOMAIN plan' : plan'[j].id \notin ClosedIds'
       /\ \A k \in 1 .. Len(R) : R[k].judge_id \in ClosedIds'
  BY <1>2, <1>3, <1>6, <1>13
<1>19. QED BY ONLY <1>3, <1>4, <1>5, <1>14, <1>15, <1>16, <1>17, <1>18, Zenon DEF Logbook, Done, Under, Log, Told, HoldsOf, Ahead

LEMMA DoneStays ==
  ASSUME NEW R \in Seq(VerdictBodies), NEW W \in Seq(VerdictBodies), NEW f, Done(R, f),
         \A i \in 1 .. Len(W) : W[i].judge_id # f.id
  PROVE  Done(R \o W, f)
<1>1. Kept(f) \in Nat
  <2>1. PICK n : n = Len(f.verdicts)
    OBVIOUS
  <2>2. n \in Nat
    <3>1. f.verdicts \in Seq(VerdictBodies)
      BY DEF Done, Told
    <3> HIDE DEF VerdictBodies
    <3>2. QED BY <2>1, <3>1
  <2>3. PICK b, bs : b = Open(n) /\ bs = AppendSize
    OBVIOUS
  <2>4. b \in 0 .. bs - 1 /\ b <= n /\ bs \in Nat \ {0}
    BY <2>2, <2>3, OpenNext, JudgingSizes
  <2>5. n - b \in Nat
    BY ONLY <2>2, <2>4
  <2>6. QED BY <2>1, <2>2, <2>3, <2>5 DEF Kept
<1>2. HoldsOf(R, f.id, f.verdicts, Kept(f))
  BY DEF Done
<1>3. HoldsOf(R \o W, f.id, f.verdicts, Kept(f))
  BY <1>1, <1>2, OthersStay
<1>4. QED BY <1>3 DEF Done

(* Rows of the pass under way, put behind the others.                      *)
LEMMA Behind ==
  ASSUME NEW R \in Seq(VerdictBodies), NEW W \in Seq(VerdictBodies), NEW id, \A i \in 1 .. Len(W) : W[i].judge_id = id,
         NEW C, \A k \in 1 .. Len(R) : R[k].judge_id \in C \/ R[k].judge_id = id
  PROVE  /\ R \o W \in Seq(VerdictBodies)
         /\ \A k \in 1 .. Len(R \o W) : (R \o W)[k].judge_id \in C \/ (R \o W)[k].judge_id = id
<1>1. PICK n \in Nat, m \in Nat : n = Len(R) /\ m = Len(W)
  OBVIOUS
<1>2. PICK U : U = R \o W
  OBVIOUS
<1>3. /\ U \in Seq(VerdictBodies) /\ Len(U) = n + m /\ \A i \in 1 .. n : U[i] = R[i]
      /\ \A i \in 1 .. m : U[n + i] = W[i]
  <2> HIDE DEF VerdictBodies
  <2>1. QED BY ONLY <1>1, <1>2, R \in Seq(VerdictBodies), W \in Seq(VerdictBodies)
<1>4. ASSUME NEW k \in 1 .. n + m PROVE U[k].judge_id \in C \/ U[k].judge_id = id
  <2>1. CASE k \in 1 .. n
    BY <1>1, <1>3, <2>1
  <2>2. CASE k \notin 1 .. n
    <3>1. PICK j \in 1 .. m : n + j = k
      <4>1. k - n \in 1 .. m /\ n + (k - n) = k
        BY ONLY <2>2, k \in 1 .. n + m, n \in Nat, m \in Nat
      <4>2. QED BY <4>1
    <3>2. U[k] = W[j]
      BY <1>3, <3>1
    <3>3. QED BY <1>1, <3>2
  <2>3. QED BY <2>1, <2>2
<1>5. QED BY <1>2, <1>3, <1>4

LEMMA WinnersFact ==
  ASSUME NEW j, NEW x, NEW y, NEW swap, NEW c \in Compare(j, x, y, swap)
  PROVE  c.winner \in Winners /\ c.first_shown \in {"a", "b"}
<1>1. PICK v : c = [winner |-> Winner(v, swap), first_shown |-> IF swap THEN "b" ELSE "a"]
  BY DEF Compare
<1>2. Winner(v, swap) \in Winners
  BY DEF Winner, Winners, Raised, Tie, First, Second
<1>3. QED BY <1>1, <1>2

LEMMA JudgeLogs ==
  ASSUME NEW R, Logbook(R), NEW swap \in BOOLEAN, JudgeNext(swap)
  PROVE  \E U : Logbook(U)'
<1>1. PICK t : t = Traffic
  OBVIOUS
<1>2. /\ R \in Seq(VerdictBodies) /\ shadowed \subseteq 1 .. RunSize /\ verdictRows = Log(t, R)
      /\ plan \in Seq(Passes) /\ finished \in Seq(PassEnds) /\ job \in Jobs \cup {Idle}
      /\ \A p \in DOMAIN finished : Done(R, finished[p])
      /\ \A i, j \in DOMAIN plan : plan[i].id = plan[j].id => i = j
      /\ \A j \in DOMAIN plan : plan[j].id \notin ClosedIds
  BY <1>1, Zenon DEF Logbook
<1>3. job.busy
  BY Zenon DEF JudgeNext
<1>4. job \in Jobs
  BY <1>2, <1>3 DEF Idle
<1>5. PICK P \in Passes : P = job.pass
  BY <1>4, Zenon DEF Jobs
<1>6. PICK S \in SUBSET (1 .. RunSize), D \in Seq(1 .. RunSize), q \in Nat, B \in Seq(Rows), V \in Seq(VerdictBodies) :
        job = [busy |-> TRUE, pass |-> P, sample |-> S, todo |-> D, seq |-> q, batch |-> B, verdicts |-> V]
  <2> HIDE DEF VerdictBodies, Rows, Passes
  <2>1. QED BY <1>4, <1>5 DEF Jobs
<1>7. /\ job.sample = S /\ job.todo = D /\ job.seq = q /\ job.batch = B /\ job.verdicts = V /\ job.pass = P
  BY <1>6
<1>8. /\ Under(t, R, P.id, S, D, q, B, V)
      /\ P.id \notin ClosedIds /\ \A j \in DOMAIN plan : plan[j].id # P.id
      /\ \A k \in 1 .. Len(R) : R[k].judge_id \in ClosedIds \/ R[k].judge_id = P.id
  BY <1>1, <1>3, <1>7, Zenon DEF Logbook
<1>9. D # <<>>
  BY <1>7, Zenon DEF JudgeNext
<1>10. PICK c \in Compare(P.judge, Shown[Head(D)][1], Shown[Head(D)][2], swap) :
         LET v == [index |-> Head(D), judge_id |-> P.id, winner |-> c.winner, first_shown |-> c.first_shown]
             batch == Append(B, [seq |-> q, body |-> v])
             full == Len(batch) >= AppendSize
         IN /\ verdictRows' = IF full THEN AppendMany(batch) ELSE verdictRows
            /\ job' = [job EXCEPT !.todo = Tail(@), !.seq = @ + 1, !.verdicts = Append(@, v),
                                  !.batch = IF full THEN <<>> ELSE batch]
  BY <1>7, Zenon DEF JudgeNext
<1>11. PICK v : v = [index |-> Head(D), judge_id |-> P.id, winner |-> c.winner, first_shown |-> c.first_shown]
  OBVIOUS
<1>12. v \in VerdictBodies /\ v.index = Head(D) /\ v.judge_id = P.id
  <2>1. Head(D) \in 1 .. RunSize
    <3>1. PICK A : A = 1 .. RunSize
      OBVIOUS
    <3>2. D \in Seq(A)
      BY <3>1
    <3>3. Head(D) \in A
      BY ONLY <1>9, <3>2
    <3>4. QED BY <3>1, <3>3
  <2>2. c.winner \in Winners /\ c.first_shown \in {"a", "b"}
    BY WinnersFact
  <2>3. P.id \in Ids
    BY DEF Ids
  <2>4. QED BY <1>11, <2>1, <2>2, <2>3 DEF VerdictBodies
<1>13. PICK C, X, E : C = Append(B, [seq |-> q, body |-> v]) /\ X = Append(V, v) /\ E = Tail(D)
  OBVIOUS
<1>14. PICK F : F = IF Len(C) >= AppendSize THEN <<>> ELSE C
  OBVIOUS
<1>15. /\ verdictRows' = IF Len(C) >= AppendSize THEN AppendMany(C) ELSE verdictRows
       /\ job' = [job EXCEPT !.todo = Tail(@), !.seq = @ + 1, !.verdicts = Append(@, v), !.batch = F]
  BY <1>10, <1>11, <1>13, <1>14, Zenon
<1>16. job' = [busy |-> TRUE, pass |-> P, sample |-> S, todo |-> E, seq |-> q + 1, batch |-> F, verdicts |-> X]
  <2>1. job' = [job EXCEPT !.todo = E, !.seq = q + 1, !.verdicts = X, !.batch = F]
    BY <1>6, <1>7, <1>13, <1>15
  <2>2. QED BY <1>6, <2>1
<1>17. /\ job'.busy /\ job'.sample = S /\ job'.todo = E /\ job'.seq = q + 1 /\ job'.batch = F
       /\ job'.verdicts = X /\ job'.pass = P
  BY <1>16
<1>18. plan' = plan /\ shadowed' = shadowed /\ finished' = finished
  BY Zenon DEF JudgeNext
<1>19. ClosedIds' = ClosedIds /\ Traffic' = t /\ t \in Nat
  BY <1>1, <1>2, <1>18, TrafficFact DEF ClosedIds, Traffic
<1>20. ASSUME NEW U, U \in Seq(VerdictBodies), verdictRows' = Log(t, U), Under(t, U, P.id, S, E, q + 1, F, X),
              F \in Seq(Rows), X \in Seq(VerdictBodies), E \in Seq(1 .. RunSize),
              \A p \in DOMAIN finished : Done(U, finished[p]),
              \A k \in 1 .. Len(U) : U[k].judge_id \in ClosedIds \/ U[k].judge_id = P.id
       PROVE  Logbook(U)'
  <2>1. job' \in Jobs \cup {Idle}
    <3>1. q + 1 \in Nat
      OBVIOUS
    <3> HIDE DEF VerdictBodies, Rows, Passes
    <3>2. QED BY ONLY <1>16, <1>20, <3>1, P \in Passes, S \in SUBSET (1 .. RunSize) DEF Jobs
  <2>2. Under(Traffic', U, job'.pass.id, job'.sample, job'.todo, job'.seq, job'.batch, job'.verdicts)
    BY <1>17, <1>19, <1>20
  <2>3. /\ job'.pass.id \notin ClosedIds' /\ \A j \in DOMAIN plan' : plan'[j].id # job'.pass.id
        /\ \A i, j \in DOMAIN plan' : plan'[i].id = plan'[j].id => i = j
        /\ \A j \in DOMAIN plan' : plan'[j].id \notin ClosedIds'
        /\ shadowed' \subseteq 1 .. RunSize /\ finished' \in Seq(PassEnds) /\ plan' \in Seq(Passes)
    BY <1>2, <1>8, <1>17, <1>18, <1>19
  <2>4. verdictRows' = Log(Traffic', U) /\ \A p \in DOMAIN finished' : Done(U, finished'[p])
    BY <1>18, <1>19, <1>20
  <2>5. \A k \in 1 .. Len(U) : U[k].judge_id \in ClosedIds' \/ (job'.busy /\ U[k].judge_id = job'.pass.id)
    BY <1>17, <1>19, <1>20
  <2>6. QED BY ONLY <1>20, <2>1, <2>2, <2>3, <2>4, <2>5, Zenon
        DEF Logbook, Done, Under, Log, Told, HoldsOf, Ahead
<1>21. CASE ~(Len(C) >= AppendSize)
  <2>1. /\ Under(t, R, P.id, S, Tail(D), q + 1, C, X)
        /\ C \in Seq(Rows) /\ X \in Seq(VerdictBodies) /\ Tail(D) \in Seq(1 .. RunSize)
    <3>1. /\ t \in Nat /\ R \in Seq(VerdictBodies) /\ D \in Seq(1 .. RunSize) /\ B \in Seq(Rows) /\ V \in Seq(VerdictBodies)
          /\ Under(t, R, P.id, S, D, q, B, V) /\ v \in VerdictBodies /\ v.index = Head(D) /\ v.judge_id = P.id
          /\ C = Append(B, [seq |-> q, body |-> v]) /\ X = Append(V, v)
      BY <1>2, <1>8, <1>12, <1>13, <1>19
    <3>2. PICK id : id = P.id
      OBVIOUS
    <3>3. Under(t, R, id, S, D, q, B, V) /\ v.judge_id = id
      BY ONLY <3>1, <3>2
    <3>4. Staying(t, R, id, S, D, q, C, X)
      BY ONLY <1>9, <1>21, <3>1, <3>3, StaysOpen
    <3>5. QED BY ONLY <3>2, <3>4 DEF Staying
  <2>2. verdictRows' = Log(t, R) /\ F = C
    BY <1>2, <1>14, <1>15, <1>21
  <2>3. Logbook(R)'
    BY ONLY <1>2, <1>8, <1>13, <1>20, <2>1, <2>2, Zenon
  <2>4. QED BY <2>3
<1>22. CASE Len(C) >= AppendSize
  <2>1. PICK W \in Seq(VerdictBodies) :
          /\ DOMAIN C = 1 .. Len(W)
          /\ \A i \in 1 .. Len(W) : C[i] = [seq |-> t + Len(R) + i - 1, body |-> W[i]]
          /\ \A i \in 1 .. Len(W) : W[i].judge_id = P.id
          /\ Under(t, R \o W, P.id, S, Tail(D), q + 1, <<>>, X)
          /\ X \in Seq(VerdictBodies) /\ Tail(D) \in Seq(1 .. RunSize)
    <3>1. /\ t \in Nat /\ R \in Seq(VerdictBodies) /\ D \in Seq(1 .. RunSize) /\ B \in Seq(Rows) /\ V \in Seq(VerdictBodies)
          /\ Under(t, R, P.id, S, D, q, B, V) /\ v \in VerdictBodies /\ v.index = Head(D) /\ v.judge_id = P.id
          /\ C = Append(B, [seq |-> q, body |-> v]) /\ X = Append(V, v)
      BY <1>2, <1>8, <1>12, <1>13, <1>19
    <3>2. PICK id : id = P.id
      OBVIOUS
    <3>3. Under(t, R, id, S, D, q, B, V) /\ v.judge_id = id
      BY ONLY <3>1, <3>2
    <3>4. Closing(t, R, id, S, D, q, C, X)
      BY ONLY <1>9, <1>22, <3>1, <3>3, Closes
    <3>5. QED BY ONLY <3>2, <3>4 DEF Closing
  <2>2. PICK U : U = R \o W
    OBVIOUS
  <2>3. AppendMany(C) = Log(t, U)
    <3>1. \A i \in 1 .. Len(W) : C[i] = [seq |-> Traffic + Len(R) + i - 1, body |-> W[i]]
      BY ONLY <1>1, <2>1
    <3>2. verdictRows = Log(Traffic, R)
      BY ONLY <1>1, <1>2
    <3>3. AppendMany(C) = Log(Traffic, R \o W)
      BY ONLY <1>2, <2>1, <3>1, <3>2, W \in Seq(VerdictBodies), AppendedIs
    <3>4. QED BY ONLY <1>1, <2>2, <3>3
  <2>4. verdictRows' = Log(t, U) /\ F = <<>>
    BY <1>14, <1>15, <1>22, <2>3
  <2>5. F \in Seq(Rows)
    <3> HIDE DEF Rows
    <3>1. QED BY <2>4
  <2>6. /\ U \in Seq(VerdictBodies)
        /\ \A k \in 1 .. Len(U) : U[k].judge_id \in ClosedIds \/ U[k].judge_id = P.id
    BY <1>2, <1>8, <2>1, <2>2, Behind
  <2>7. \A p \in DOMAIN finished : Done(U, finished[p])
    <3>1. SUFFICES ASSUME NEW p \in DOMAIN finished PROVE Done(U, finished[p])
      OBVIOUS
    <3>2. finished[p].id # P.id
      BY <1>8 DEF ClosedIds
    <3>3. \A i \in 1 .. Len(W) : W[i].judge_id # finished[p].id
      BY <2>1, <3>2
    <3>4. QED BY <1>2, <2>2, <3>3, DoneStays
  <2>8. Under(t, U, P.id, S, E, q + 1, F, X)
    BY <1>13, <2>1, <2>2, <2>4
  <2>9. Logbook(U)'
    BY ONLY <1>13, <1>20, <2>1, <2>4, <2>5, <2>6, <2>7, <2>8, Zenon
  <2>10. QED BY <2>9
<1>23. QED BY <1>21, <1>22

(* A pass is over: what it judged is in the log U.                         *)
LEMMA PassOver ==
  ASSUME NEW t \in Nat, t = Traffic, NEW R, Logbook(R), job.busy, NEW U \in Seq(VerdictBodies), NEW f \in PassEnds,
         f.id = job.pass.id, Done(U, f), \A p \in DOMAIN finished : Done(U, finished[p]),
         \A k \in 1 .. Len(U) : U[k].judge_id \in ClosedIds \/ U[k].judge_id = f.id,
         verdictRows' = Log(t, U), job' = Idle, finished' = Append(finished, f),
         plan' = plan, shadowed' = shadowed
  PROVE  Logbook(U)'
<1>1. /\ shadowed \subseteq 1 .. RunSize /\ plan \in Seq(Passes) /\ finished \in Seq(PassEnds)
      /\ \A i, j \in DOMAIN plan : plan[i].id = plan[j].id => i = j
      /\ \A j \in DOMAIN plan : plan[j].id \notin ClosedIds
      /\ \A j \in DOMAIN plan : plan[j].id # job.pass.id
  BY Zenon DEF Logbook
<1>2. PICK n \in Nat : n = Len(finished)
  <2> HIDE DEF PassEnds
  <2>1. QED BY <1>1
<1>3. /\ finished' \in Seq(PassEnds) /\ DOMAIN finished = 1 .. n /\ DOMAIN finished' = 1 .. n + 1
      /\ finished'[n + 1] = f /\ \A p \in 1 .. n : finished'[p] = finished[p]
  <2> HIDE DEF PassEnds
  <2>1. QED BY <1>1, <1>2
<1>4. \A p \in 1 .. n + 1 : p \in 1 .. n \/ p = n + 1
  BY ONLY n \in Nat
<1>5. 1 .. n \subseteq 1 .. n + 1 /\ n + 1 \in 1 .. n + 1
  BY ONLY n \in Nat
<1>6. \A x : x \in ClosedIds' <=> x \in ClosedIds \/ x = f.id
  <2>1. TAKE x
  <2>2. ASSUME x \in ClosedIds' PROVE x \in ClosedIds \/ x = f.id
    BY <1>3, <1>4, <2>2 DEF ClosedIds
  <2>3. ASSUME x \in ClosedIds PROVE x \in ClosedIds'
    BY <1>3, <1>5, <2>3 DEF ClosedIds
  <2>4. f.id \in ClosedIds'
    BY <1>3, <1>5 DEF ClosedIds
  <2>5. QED BY <2>2, <2>3, <2>4
<1>7. Traffic' = t
  BY DEF Traffic
<1>8. ~job'.busy /\ job' \in Jobs \cup {Idle}
  BY DEF Idle
<1>9. \A p \in DOMAIN finished' : Done(U, finished'[p])
  BY <1>3, <1>4
<1>10. /\ \A i, j \in DOMAIN plan' : plan'[i].id = plan'[j].id => i = j
       /\ \A j \in DOMAIN plan' : plan'[j].id \notin ClosedIds'
       /\ plan' \in Seq(Passes) /\ shadowed' \subseteq 1 .. RunSize
  BY <1>1, <1>6
<1>11. \A k \in 1 .. Len(U) : U[k].judge_id \in ClosedIds'
  BY <1>6
<1>12. verdictRows' = Log(Traffic', U)
  BY <1>7
<1>13. QED BY ONLY <1>3, <1>8, <1>9, <1>10, <1>11, <1>12, U \in Seq(VerdictBodies), Zenon
        DEF Logbook, Done, Under, Log, Told, HoldsOf, Ahead

LEMMA UnderWay ==
  ASSUME NEW R, Logbook(R), job.busy
  PROVE  \E P \in Passes, S \in SUBSET (1 .. RunSize), D \in Seq(1 .. RunSize), q \in Nat, B \in Seq(Rows), V \in Seq(VerdictBodies) :
           job = [busy |-> TRUE, pass |-> P, sample |-> S, todo |-> D, seq |-> q, batch |-> B, verdicts |-> V]
<1>1. job \in Jobs
  <2>1. job \in Jobs \cup {Idle}
    BY Zenon DEF Logbook
  <2>2. QED BY <2>1 DEF Idle
<1>2. PICK P \in Passes : P = job.pass
  BY <1>1, Zenon DEF Jobs
<1> HIDE DEF VerdictBodies, Rows, Passes
<1>3. QED BY <1>1, <1>2 DEF Jobs

LEMMA RaiseLogs ==
  ASSUME NEW R, Logbook(R), JudgeRaises
  PROVE  Logbook(R)'
<1>1. PICK t : t = Traffic
  OBVIOUS
<1>2. /\ R \in Seq(VerdictBodies) /\ shadowed \subseteq 1 .. RunSize /\ verdictRows = Log(t, R)
      /\ \A p \in DOMAIN finished : Done(R, finished[p])
  BY <1>1, Zenon DEF Logbook
<1>3. job.busy /\ finished' = Append(finished, Over(TRUE)) /\ job' = Idle
      /\ plan' = plan /\ shadowed' = shadowed /\ verdictRows' = verdictRows
  BY Zenon DEF JudgeRaises
<1>4. PICK P \in Passes, S \in SUBSET (1 .. RunSize), D \in Seq(1 .. RunSize), q \in Nat, B \in Seq(Rows), V \in Seq(VerdictBodies) :
        job = [busy |-> TRUE, pass |-> P, sample |-> S, todo |-> D, seq |-> q, batch |-> B, verdicts |-> V]
  BY <1>3, UnderWay
<1>5. /\ job.sample = S /\ job.todo = D /\ job.seq = q /\ job.batch = B /\ job.verdicts = V /\ job.pass = P
  BY <1>4
<1>6. /\ Under(t, R, P.id, S, D, q, B, V)
      /\ \A k \in 1 .. Len(R) : R[k].judge_id \in ClosedIds \/ R[k].judge_id = P.id
  BY <1>1, <1>3, <1>5, Zenon DEF Logbook
<1>7. t \in Nat
  BY <1>1, <1>2, TrafficFact
<1>8. HoldsOf(R, P.id, V, Len(V) - Open(Len(V))) /\ Told(P.id, S, V)
  <2>1. PICK id : id = P.id
    OBVIOUS
  <2>2. Under(t, R, id, S, D, q, B, V)
    BY <1>6, <2>1
  <2>3. HoldsOf(R, id, V, Len(V) - Open(Len(V))) /\ Told(id, S, V)
    BY ONLY <1>2, <1>7, <2>2, V \in Seq(VerdictBodies), LeavesBatches
  <2>4. QED BY <2>1, <2>3
<1>9. PICK f : f = Over(TRUE)
  OBVIOUS
<1>10. f = [id |-> P.id, sample |-> S, verdicts |-> V, raised |-> TRUE, judge |-> P.judge]
  BY <1>5, <1>9 DEF Over
<1>11. f \in PassEnds /\ f.id = P.id /\ f.sample = S /\ f.verdicts = V /\ f.raised
  <2> HIDE DEF VerdictBodies, Passes
  <2>1. P.id \in Ids /\ P.judge \in {p.judge : p \in Passes}
    BY DEF Ids
  <2>2. QED BY <1>10, <2>1 DEF PassEnds
<1>12. Done(R, f)
  <2>1. Kept(f) = Len(V) - Open(Len(V))
    BY <1>11 DEF Kept
  <2>2. QED BY <1>8, <1>11, <2>1 DEF Done
<1>13. QED
  <2>1. f.id = job.pass.id
    BY <1>5, <1>11
  <2>2. \A k \in 1 .. Len(R) : R[k].judge_id \in ClosedIds \/ R[k].judge_id = f.id
    BY <1>6, <1>11
  <2>3. verdictRows' = Log(t, R) /\ finished' = Append(finished, f)
    BY <1>2, <1>3, <1>9
  <2>4. QED BY ONLY <1>1, <1>2, <1>3, <1>7, <1>11, <1>12, <2>1, <2>2, <2>3, Logbook(R), PassOver

LEMMA EndLogs ==
  ASSUME NEW R, Logbook(R), EndPass
  PROVE  \E U : Logbook(U)'
<1>1. PICK t : t = Traffic
  OBVIOUS
<1>2. /\ R \in Seq(VerdictBodies) /\ shadowed \subseteq 1 .. RunSize /\ verdictRows = Log(t, R)
      /\ \A p \in DOMAIN finished : Done(R, finished[p])
  BY <1>1, Zenon DEF Logbook
<1>3. /\ job.busy /\ job.todo = <<>> /\ finished' = Append(finished, Over(FALSE)) /\ job' = Idle
      /\ plan' = plan /\ shadowed' = shadowed /\ verdictRows' = AppendMany(job.batch)
  BY Zenon DEF EndPass
<1>4. PICK P \in Passes, S \in SUBSET (1 .. RunSize), D \in Seq(1 .. RunSize), q \in Nat, B \in Seq(Rows), V \in Seq(VerdictBodies) :
        job = [busy |-> TRUE, pass |-> P, sample |-> S, todo |-> D, seq |-> q, batch |-> B, verdicts |-> V]
  BY <1>3, UnderWay
<1>5. /\ job.sample = S /\ job.todo = D /\ job.seq = q /\ job.batch = B /\ job.verdicts = V /\ job.pass = P
  BY <1>4
<1>6. /\ Under(t, R, P.id, S, D, q, B, V) /\ P.id \notin ClosedIds
      /\ \A k \in 1 .. Len(R) : R[k].judge_id \in ClosedIds \/ R[k].judge_id = P.id
  BY <1>1, <1>3, <1>5, Zenon DEF Logbook
<1>7. t \in Nat
  BY <1>1, <1>2, TrafficFact
<1>8. PICK W \in Seq(VerdictBodies) :
           /\ DOMAIN B = 1 .. Len(W)
           /\ \A i \in 1 .. Len(W) : B[i] = [seq |-> t + Len(R) + i - 1, body |-> W[i]]
           /\ \A i \in 1 .. Len(W) : W[i].judge_id = P.id
           /\ HoldsOf(R \o W, P.id, V, Len(V)) /\ Told(P.id, S, V) /\ Len(V) = Cardinality(S)
  <2>1. PICK id : id = P.id
    OBVIOUS
  <2>2. PICK e : e = <<>>
    OBVIOUS
  <2>3. Under(t, R, id, S, <<>>, q, B, V)
    BY <1>3, <1>5, <1>6, <2>1, <2>2
  <2>4. Leaving(t, R, id, S, B, V)
    BY ONLY <1>2, <1>7, <2>3, V \in Seq(VerdictBodies), B \in Seq(Rows), LeavesAll
  <2>5. QED BY <2>1, <2>4 DEF Leaving
<1>9. PICK U : U = R \o W
  OBVIOUS
<1>10. verdictRows' = Log(t, U)
  <2>1. \A i \in 1 .. Len(W) : B[i] = [seq |-> Traffic + Len(R) + i - 1, body |-> W[i]]
    BY ONLY <1>1, <1>8
  <2>2. verdictRows = Log(Traffic, R)
    BY ONLY <1>1, <1>2
  <2>3. AppendMany(B) = Log(Traffic, R \o W)
    BY ONLY <1>2, <1>8, <2>1, <2>2, W \in Seq(VerdictBodies), AppendedIs
  <2>4. QED BY ONLY <1>1, <1>3, <1>5, <1>9, <2>3
<1>11. /\ U \in Seq(VerdictBodies)
       /\ \A k \in 1 .. Len(U) : U[k].judge_id \in ClosedIds \/ U[k].judge_id = P.id
  BY <1>2, <1>6, <1>8, <1>9, Behind
<1>12. \A p \in DOMAIN finished : Done(U, finished[p])
  <2>1. SUFFICES ASSUME NEW p \in DOMAIN finished PROVE Done(U, finished[p])
    OBVIOUS
  <2>2. finished[p].id # P.id
    BY <1>6 DEF ClosedIds
  <2>3. \A i \in 1 .. Len(W) : W[i].judge_id # finished[p].id
    BY <1>8, <2>2
  <2>4. QED BY <1>2, <1>9, <2>3, DoneStays
<1>13. PICK f : f = Over(FALSE)
  OBVIOUS
<1>14. f = [id |-> P.id, sample |-> S, verdicts |-> V, raised |-> FALSE, judge |-> P.judge]
  BY <1>5, <1>13 DEF Over
<1>15. f \in PassEnds /\ f.id = P.id /\ f.sample = S /\ f.verdicts = V /\ ~f.raised
  <2> HIDE DEF VerdictBodies, Passes
  <2>1. P.id \in Ids /\ P.judge \in {p.judge : p \in Passes}
    BY DEF Ids
  <2>2. QED BY <1>14, <2>1 DEF PassEnds
<1>16. Done(U, f)
  <2>1. Kept(f) = Len(V)
    BY <1>15 DEF Kept
  <2>2. QED BY <1>8, <1>9, <1>15, <2>1 DEF Done
<1>17. Logbook(U)'
  <2>1. f.id = job.pass.id
    BY <1>5, <1>15
  <2>2. \A k \in 1 .. Len(U) : U[k].judge_id \in ClosedIds \/ U[k].judge_id = f.id
    BY <1>11, <1>15
  <2>3. finished' = Append(finished, f)
    BY <1>3, <1>13
  <2>4. QED BY ONLY <1>1, <1>3, <1>7, <1>10, <1>11, <1>12, <1>15, <1>16, <2>1, <2>2, <2>3, Logbook(R), PassOver
<1>18. QED BY <1>17

LEMMA LogKept ==
  ASSUME NEW R, Logbook(R), UNCHANGED pipeline
  PROVE  Logbook(R)'
<1>1. plan' = plan /\ shadowed' = shadowed /\ verdictRows' = verdictRows /\ job' = job /\ finished' = finished
  BY DEF pipeline
<1>2. ClosedIds' = ClosedIds /\ Traffic' = Traffic
  BY <1>1 DEF ClosedIds, Traffic
<1>3. /\ R \in Seq(VerdictBodies) /\ shadowed \subseteq 1 .. RunSize /\ verdictRows = Log(Traffic, R)
      /\ plan \in Seq(Passes) /\ finished \in Seq(PassEnds) /\ job \in Jobs \cup {Idle}
      /\ \A p \in DOMAIN finished : Done(R, finished[p])
      /\ job.busy => Under(Traffic, R, job.pass.id, job.sample, job.todo, job.seq, job.batch, job.verdicts)
      /\ \A i, j \in DOMAIN plan : plan[i].id = plan[j].id => i = j
      /\ \A j \in DOMAIN plan : plan[j].id \notin ClosedIds
      /\ job.busy => job.pass.id \notin ClosedIds /\ \A j \in DOMAIN plan : plan[j].id # job.pass.id
      /\ \A k \in 1 .. Len(R) : R[k].judge_id \in ClosedIds \/ (job.busy /\ R[k].judge_id = job.pass.id)
  BY Zenon DEF Logbook
<1>4. /\ shadowed' \subseteq 1 .. RunSize /\ verdictRows' = Log(Traffic', R)
      /\ plan' \in Seq(Passes) /\ finished' \in Seq(PassEnds) /\ job' \in Jobs \cup {Idle}
      /\ \A i, j \in DOMAIN plan' : plan'[i].id = plan'[j].id => i = j
      /\ \A j \in DOMAIN plan' : plan'[j].id \notin ClosedIds'
      /\ job'.busy => job'.pass.id \notin ClosedIds' /\ \A j \in DOMAIN plan' : plan'[j].id # job'.pass.id
      /\ \A k \in 1 .. Len(R) : R[k].judge_id \in ClosedIds' \/ (job'.busy /\ R[k].judge_id = job'.pass.id)
  BY <1>1, <1>2, <1>3
<1>5. \A p \in DOMAIN finished' : Done(R, finished'[p])
  BY <1>1, <1>3
<1>6. job'.busy => Under(Traffic', R, job'.pass.id, job'.sample, job'.todo, job'.seq, job'.batch, job'.verdicts)
  BY <1>1, <1>2, <1>3
<1>7. QED BY ONLY <1>3, <1>4, <1>5, <1>6, Zenon DEF Logbook, Done, Under, Log, Told, HoldsOf, Ahead

LEMMA LogGoesOn ==
  ASSUME \E R : Logbook(R), [JudgingNext]_judgingVars
  PROVE  \E R : Logbook(R)'
<1>1. PICK R : Logbook(R)
  OBVIOUS
<1>2. ASSUME NEW sample \in SUBSET shadowed, StartPass(sample) PROVE \E U : Logbook(U)'
  BY <1>1, <1>2, StartLogs
<1>3. ASSUME NEW swap \in BOOLEAN, JudgeNext(swap) PROVE \E U : Logbook(U)'
  BY <1>1, <1>3, JudgeLogs
<1>4. CASE JudgeRaises
  BY <1>1, <1>4, RaiseLogs
<1>5. CASE EndPass
  BY <1>1, <1>5, EndLogs
<1>6. CASE UNCHANGED pipeline
  BY <1>1, <1>6, LogKept
<1>7. CASE Pipeline
  BY <1>2, <1>3, <1>4, <1>5, <1>7, Zenon DEF Pipeline
<1>8. ASSUME NEW swap \in BOOLEAN, CalibrateNext(swap) PROVE UNCHANGED pipeline
  BY <1>8, Zenon DEF CalibrateNext
<1>9. ASSUME NEW row \in Vote, CountVote(row) PROVE UNCHANGED pipeline
  BY <1>9, Zenon DEF CountVote
<1>10. CASE UNCHANGED judgingVars
  <2>1. UNCHANGED pipeline
    BY <1>10, Zenon DEF judgingVars
  <2>2. QED BY <1>6, <2>1
<1>11. CASE JudgingNext
  BY <1>6, <1>7, <1>8, <1>9, <1>11, Zenon DEF JudgingNext
<1>12. QED BY <1>10, <1>11

LEMMA KeptFact ==
  ASSUME NEW f \in PassEnds
  PROVE  Kept(f) \in Nat /\ Kept(f) <= Len(f.verdicts) /\ Len(f.verdicts) \in Nat
<1>1. PICK n : n = Len(f.verdicts)
  OBVIOUS
<1>2. n \in Nat
  <2>1. f.verdicts \in Seq(VerdictBodies)
    BY DEF PassEnds
  <2> HIDE DEF VerdictBodies
  <2>2. QED BY <1>1, <2>1
<1>3. PICK b, bs : b = Open(n) /\ bs = AppendSize
  OBVIOUS
<1>4. b \in 0 .. bs - 1 /\ b <= n /\ bs \in Nat \ {0}
  BY <1>2, <1>3, OpenNext, JudgingSizes
<1>5. n - b \in Nat /\ n - b <= n
  BY ONLY <1>2, <1>4
<1>6. Kept(f) = n \/ Kept(f) = n - b
  BY <1>1, <1>3 DEF Kept
<1>7. QED BY ONLY <1>1, <1>2, <1>5, <1>6

(* The verdicts of a pass come in the order of its sample.                 *)
LEMMA InSampleOrder ==
  ASSUME NEW id, NEW S, NEW V, Told(id, S, V)
  PROVE  /\ \A i \in 1 .. Len(V) : V[i].index \in S /\ V[i].index \in Nat /\ V[i].judge_id = id
         /\ \A i, j \in 1 .. Len(V) : i < j => V[i].index < V[j].index
         /\ Len(V) = Cardinality(S) => {V[i].index : i \in 1 .. Len(V)} = S
<1>1. PICK c, O, n : c = Cardinality(S) /\ O = InOrder(S) /\ n = Len(V)
  OBVIOUS
<1>2. IsFiniteSet(S) /\ S \subseteq Nat
  <2>1. RunSize \in Nat /\ S \subseteq 1 .. RunSize
    BY JudgingSizes DEF Told
  <2>2. IsFiniteSet(1 .. RunSize)
    BY <2>1, FS_Interval
  <2>3. 1 .. RunSize \subseteq Nat
    BY ONLY <2>1
  <2>4. QED BY <2>1, <2>2, <2>3, FS_Subset
<1>3. /\ c \in Nat /\ O \in [1 .. c -> S] /\ Num!Rising(O)
      /\ \A i \in S : \E k \in 1 .. c : O[k] = i
  BY <1>1, <1>2, Ordered
<1>4. /\ V \in Seq(VerdictBodies) /\ n <= c
      /\ \A i \in 1 .. n : V[i].judge_id = id /\ V[i].index = O[i]
  BY <1>1 DEF Told
<1>5. n \in Nat
  <2> HIDE DEF VerdictBodies
  <2>1. QED BY <1>1, <1>4
<1>6. \A i \in 1 .. n : i \in 1 .. c
  BY ONLY <1>3, <1>4, <1>5
<1>7. \A i \in 1 .. n : V[i].index \in S /\ V[i].index \in Nat /\ V[i].judge_id = id
  BY <1>2, <1>3, <1>4, <1>6
<1>8. \A i, j \in 1 .. n : i < j => V[i].index < V[j].index
  <2>1. \A i, j \in 1 .. c : i < j => O[i] < O[j]
    BY <1>3 DEF Num!Rising
  <2>2. QED BY ONLY <1>4, <1>6, <2>1
<1>9. ASSUME n = c PROVE {V[i].index : i \in 1 .. n} = S
  <2>1. \A x \in S : \E i \in 1 .. n : V[i].index = x
    BY <1>3, <1>4, <1>9
  <2>2. QED BY ONLY <1>7, <2>1
<1>10. QED BY ONLY <1>1, <1>7, <1>8, <1>9

ReadBack(f) ==
  /\ VerdictsOf(f.id) = SubSeq(f.verdicts, 1, Kept(f))
  /\ \A r, s \in RowsOf(f.id) : r.seq < s.seq => r.body.index < s.body.index
  /\ \A i, j \in 1 .. Len(f.verdicts) : i < j => f.verdicts[i].index < f.verdicts[j].index
  /\ ~f.raised => {f.verdicts[i].index : i \in 1 .. Len(f.verdicts)} = f.sample

(* What a log with every pass in one piece says of one of them.            *)
LEMMA ReadsBack ==
  ASSUME NEW t \in Nat, NEW R \in Seq(VerdictBodies), verdictRows = Log(t, R), NEW f \in PassEnds, Done(R, f)
  PROVE  ReadBack(f)
<1>1. PICK id, V, n, k : id = f.id /\ V = f.verdicts /\ n = Len(V) /\ k = Kept(f)
  OBVIOUS
<1>2. k \in Nat /\ k <= n /\ n \in Nat
  BY <1>1, KeptFact
<1>3. Told(id, f.sample, V) /\ HoldsOf(R, id, V, k)
  BY <1>1 DEF Done
<1>4. /\ \A i \in 1 .. n : V[i].index \in Nat /\ V[i].judge_id = id
      /\ \A i, j \in 1 .. n : i < j => V[i].index < V[j].index
      /\ n = Cardinality(f.sample) => {V[i].index : i \in 1 .. n} = f.sample
  BY <1>1, <1>3, InSampleOrder
<1>5. PICK l \in Nat : l = Len(R)
  OBVIOUS
<1>6. PICK o \in Nat : /\ o + k <= l /\ \A i \in 1 .. k : R[o + i] = V[i]
                       /\ \A j \in 1 .. l : R[j].judge_id = id => j \in o + 1 .. o + k
  BY <1>3, <1>5 DEF HoldsOf
<1>7. \A i \in 1 .. k : i \in 1 .. n /\ o + i \in 1 .. l
  BY ONLY <1>2, <1>6, l \in Nat, o \in Nat
<1>8. ASSUME NEW r \in RowsOf(id)
      PROVE  \E i \in 1 .. k : r.seq = t + (o + i) - 1 /\ r.body = V[i]
  <2>1. PICK j \in 1 .. l : r = [seq |-> t + j - 1, body |-> R[j]]
    BY <1>5 DEF RowsOf, Log
  <2>2. R[j].judge_id = id
    BY <2>1 DEF RowsOf
  <2>3. PICK i \in 1 .. k : o + i = j
    <3>1. j \in o + 1 .. o + k
      BY <1>6, <2>2
    <3>2. j - o \in 1 .. k /\ o + (j - o) = j
      BY ONLY <3>1, <1>2, o \in Nat
    <3>3. QED BY <3>2
  <2>4. R[j] = V[i]
    BY <1>6, <2>3
  <2>5. r.seq = t + (o + i) - 1
    BY <2>1, <2>3
  <2>6. QED BY <2>1, <2>4, <2>5
<1>9. ASSUME NEW i \in 1 .. k PROVE \E r \in RowsOf(id) : r.body = V[i]
  <2>1. PICK j \in 1 .. l : j = o + i
    BY <1>7
  <2>2. PICK r : r = [seq |-> t + j - 1, body |-> R[j]]
    OBVIOUS
  <2>3. r \in verdictRows
    BY <1>5, <2>2 DEF Log
  <2>4. r.body = V[i]
    BY <1>6, <2>1, <2>2
  <2>5. r.body.judge_id = id
    BY <1>4, <1>7, <2>4
  <2>6. QED BY <2>3, <2>4, <2>5 DEF RowsOf
<1>10. PICK g : g = [i \in 1 .. k |-> V[i].index]
  OBVIOUS
<1>11. g \in [1 .. k -> Nat] /\ \A i \in 1 .. k : g[i] = V[i].index
  BY <1>4, <1>7, <1>10
<1>12. Num!Rising(g)
  <2>1. \A i, j \in 1 .. k : i < j => g[i] < g[j]
    BY <1>4, <1>7, <1>11
  <2>2. QED BY <1>10, <2>1 DEF Num!Rising
<1>13. PICK T : T = {r.body.index : r \in RowsOf(id)}
  OBVIOUS
<1>14. T = {g[i] : i \in 1 .. k}
  <2>1. \A x : x \in T => \E i \in 1 .. k : x = g[i]
    BY <1>8, <1>11, <1>13
  <2>2. \A i \in 1 .. k : g[i] \in T
    BY <1>9, <1>11, <1>13
  <2>3. QED BY ONLY <2>1, <2>2
<1>15. InOrder(T) = g
  BY <1>2, <1>11, <1>12, <1>14, OrderedOnce
<1>16. ASSUME NEW i \in 1 .. k
       PROVE  (CHOOSE r \in RowsOf(id) : r.body.index = g[i]).body = V[i]
  <2>1. PICK c : c = CHOOSE r \in RowsOf(id) : r.body.index = g[i]
    OBVIOUS
  <2>2. \E r \in RowsOf(id) : r.body.index = g[i]
    BY <1>9, <1>11
  <2>3. c \in RowsOf(id) /\ c.body.index = g[i]
    BY <2>1, <2>2
  <2>4. PICK j \in 1 .. k : c.body = V[j]
    BY <1>8, <2>3
  <2>5. g[j] = g[i]
    BY <1>11, <2>3, <2>4
  <2>6. j = i
    BY <1>2, <1>11, <1>12, <2>5, RisingOnce
  <2>7. QED BY <2>1, <2>4, <2>6
<1>17. VerdictsOf(id) = [i \in 1 .. k |-> V[i]]
  <2>1. VerdictsOf(id) = [i \in DOMAIN g |-> (CHOOSE r \in RowsOf(id) : r.body.index = g[i]).body]
    <3>1. InOrder({r.body.index : r \in RowsOf(id)}) = g
      BY ONLY <1>13, <1>15
    <3>2. VerdictsOf(id) =
            [i \in DOMAIN InOrder({r.body.index : r \in RowsOf(id)}) |->
               (CHOOSE r \in RowsOf(id) :
                  r.body.index = InOrder({p.body.index : p \in RowsOf(id)})[i]).body]
      BY Zenon DEF VerdictsOf
    <3>3. PICK W : W = InOrder({r.body.index : r \in RowsOf(id)})
      OBVIOUS
    <3>4. W = g
      BY ONLY <3>1, <3>3
    <3>5. VerdictsOf(id) = [i \in DOMAIN W |-> (CHOOSE r \in RowsOf(id) : r.body.index = W[i]).body]
      BY ONLY <3>2, <3>3, Zenon
    <3>6. QED BY ONLY <3>4, <3>5
  <2>2. DOMAIN g = 1 .. k
    BY <1>10
  <2>3. QED BY <1>16, <2>1, <2>2
<1>18. SubSeq(V, 1, k) = [i \in 1 .. k |-> V[i]]
  <2>1. SubSeq(V, 1, k) = [i \in 1 .. 1 + k - 1 |-> V[i + 1 - 1]]
    BY <1>2
  <2>2. 1 + k - 1 = k /\ \A i \in 1 .. k : i + 1 - 1 = i
    BY <1>2
  <2>3. QED BY <2>1, <2>2
<1>19. ASSUME NEW r \in RowsOf(id), NEW s \in RowsOf(id), r.seq < s.seq
       PROVE  r.body.index < s.body.index
  <2>1. PICK i \in 1 .. k : r.seq = t + (o + i) - 1 /\ r.body = V[i]
    BY <1>8
  <2>2. PICK j \in 1 .. k : s.seq = t + (o + j) - 1 /\ s.body = V[j]
    BY <1>8
  <2>3. i < j
    BY ONLY <1>2, <1>19, <2>1, <2>2, t \in Nat, o \in Nat
  <2>4. QED BY <1>4, <1>7, <2>1, <2>2, <2>3
<1>20. ~f.raised => n = Cardinality(f.sample)
  BY <1>1 DEF Done
<1>21. QED BY ONLY <1>1, <1>4, <1>17, <1>18, <1>19, <1>20 DEF ReadBack

LEMMA LogTells ==
  ASSUME \E R : Logbook(R) PROVE JudgedExactly
<1>1. PICK R : Logbook(R)
  OBVIOUS
<1>2. PICK t : t = Traffic
  OBVIOUS
<1>3. /\ R \in Seq(VerdictBodies) /\ shadowed \subseteq 1 .. RunSize /\ verdictRows = Log(t, R) /\ finished \in Seq(PassEnds)
      /\ \A p \in DOMAIN finished : Done(R, finished[p])
  BY <1>1, <1>2, Zenon DEF Logbook
<1>4. t \in Nat
  BY <1>2, <1>3, TrafficFact
<1>5. PICK m : m = Cardinality(verdictRows)
  OBVIOUS
<1>6. m \in Nat /\ {r.seq : r \in verdictRows} = t .. t + m - 1
  <2>1. /\ Cardinality(Log(t, R)) = Len(R) /\ Len(R) \in Nat
        /\ {r.seq : r \in Log(t, R)} = t .. t + Len(R) - 1
    <3>1. PICK B : B = VerdictBodies
      OBVIOUS
    <3>2. R \in Seq(B)
      BY <1>3, <3>1
    <3>3. QED BY ONLY <1>4, <3>2, LogCard
  <2>2. QED BY ONLY <1>3, <1>5, <2>1
<1>7. t + m - 1 = t - 1 + m
  BY <1>4, <1>6
<1>8. {r.seq : r \in verdictRows} = Traffic .. LastSeq
  BY <1>2, <1>5, <1>6, <1>7 DEF LastSeq
<1>9. \A p \in DOMAIN finished : ReadBack(finished[p])
  <2>1. SUFFICES ASSUME NEW p \in DOMAIN finished PROVE ReadBack(finished[p])
    OBVIOUS
  <2>2. PICK f : f = finished[p]
    OBVIOUS
  <2>3. f \in PassEnds
    <3> HIDE DEF PassEnds
    <3>1. QED BY <1>3, <2>2
  <2>4. Done(R, f)
    BY <1>3, <2>2
  <2>5. ReadBack(f)
    BY <1>3, <1>4, <2>3, <2>4, ReadsBack
  <2>6. QED BY <2>2, <2>5
<1>10. QED BY ONLY <1>8, <1>9, Zenon DEF JudgedExactly, ReadBack, Kept, Open

(* The log of a run holds of every pass what the pass judged: all of it,   *)
(* in request order, when it returned, and its whole batches when the      *)
(* judge raised.  The passes follow each other and the traffic without a   *)
(* gap or an overlap, whatever passes a plan has, however a batch falls    *)
(* (src/coalmine/judging/pipeline.py).                                     *)
THEOREM JudgingIsExact == JudgingSpec => []JudgedExactly
<1> DEFINE Booked == \E R : Logbook(R)
<1>1. JudgingInit => Booked
  BY LogBegins
<1>2. Booked /\ [JudgingNext]_judgingVars => Booked'
  BY LogGoesOn
<1>3. Booked => JudgedExactly
  BY LogTells
<1> HIDE DEF Booked
<1>4. QED BY <1>1, <1>2, <1>3, PTL DEF JudgingSpec
=============================================================================
