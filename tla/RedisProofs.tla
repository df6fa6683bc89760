---------------------------- MODULE RedisProofs ----------------------------
(***************************************************************************)
(* Proofs about module RedisBus, for any prefetch, claims, consumers,      *)
(* subscriptions and crashes.                                              *)
(*                                                                         *)
(* The invariant follows what a consumer has fetched: a stream's share of  *)
(* it is at most a prefetch for every stream the consumer asked since its  *)
(* backlog was last empty (Portions), so a crash strands no more than a    *)
(* prefetch of the longest subscription (Bounded); and while nobody's      *)
(* entries were claimed from under him, all of it is his, pending and in   *)
(* his backlog once (Undisturbed).  The lists a claim and a read return    *)
(* are the entries in order, each once (InOrderFacts, ReplyFacts).         *)
(***************************************************************************)
EXTENDS RedisBus, BusProofs, SequenceTheorems

Types ==
  /\ BusTypeOK /\ NothingLost
  /\ backlog \in [Consumers -> Seq(Channels \X Nat)]
  /\ scan \in [Consumers -> Nat]
  /\ overtaken \in BOOLEAN /\ live \subseteq Consumers /\ crashes \in Nat

(* A consumer has entries of its channels, that its group was handed.      *)
Handed ==
  \A c \in Consumers : \A m \in Fetched(c) : m[1] \in Readers[c] /\ m[2] \in 1 .. cursor[m[1]]

(* The streams c has asked for entries since its backlog was empty: all of *)
(* them, or those the scan has passed.                                     *)
Asked(c) == IF scan[c] = 0 THEN Len(Subs[c]) ELSE scan[c] - 1

Portions ==
  \A c \in Consumers :
    /\ scan[c] <= Len(Subs[c]) + 1
    /\ scan[c] # 0 => held[c] = Nothing
    /\ IsFiniteSet(Fetched(c)) /\ Cardinality(Fetched(c)) <= Prefetch * Asked(c)

Longest == MaxOf({Len(Subs[c]) : c \in Consumers})

Bounded ==
  IsFiniteSet(Stranded) /\ Cardinality(Stranded) <= crashes * (Prefetch * Longest)

(* Nobody else works on what a consumer has fetched, and it does so once.  *)
Undisturbed ==
  ~overtaken =>
    \A c \in Consumers :
      /\ \A m \in Fetched(c) : m[2] \in DOMAIN pending[m[1]] /\ pending[m[1]][m[2]].owner = c
      /\ \A i, j \in DOMAIN backlog[c] : backlog[c][i] = backlog[c][j] => i = j
      /\ \A i \in DOMAIN backlog[c] : backlog[c][i] # held[c]

RedisInv == Types /\ Handed /\ Portions /\ Bounded /\ Undisturbed
-----------------------------------------------------------------------------
Once(s) == \A i, j \in DOMAIN s : s[i] = s[j] => i = j

(* The entries of a set come in order, each once.                          *)
LEMMA InOrderFacts ==
  ASSUME NEW ch, NEW S, S \subseteq Nat, IsFiniteSet(S)
  PROVE  /\ InOrder(ch, S) \in Seq({ch} \X S)
         /\ Range(InOrder(ch, S)) = {ch} \X S
         /\ Once(InOrder(ch, S))
<1> DEFINE f == CHOOSE f \in [1 .. Cardinality(S) -> S] : \A i, j \in DOMAIN f : i < j => f[i] < f[j]
           s == InOrder(ch, S)
<1>1. f \in [1 .. Cardinality(S) -> S] /\ Rising(f)
  BY Listing DEF Rising
<1>2. Cardinality(S) \in Nat
  BY FS_CardinalityType
<1>3. s = [n \in DOMAIN f |-> <<ch, f[n]>>]
  BY DEF InOrder
<1> HIDE DEF f, s
<1>4. /\ \A i, j \in DOMAIN f : f[i] = f[j] => i = j
      /\ \A n \in S : \E i \in DOMAIN f : f[i] = n
  BY <1>1, Listed
<1>5. DOMAIN s = 1 .. Cardinality(S) /\ \A i \in DOMAIN s : s[i] = <<ch, f[i]>> /\ f[i] \in S
  BY <1>1, <1>3
<1>6. s \in Seq({ch} \X S)
  <2>1. s \in [1 .. Cardinality(S) -> {ch} \X S]
    BY <1>1, <1>3
  <2>2. QED BY <1>2, <2>1
<1>7. Range(s) = {ch} \X S
  <2>1. ASSUME NEW m \in Range(s) PROVE m \in {ch} \X S
    <3>1. PICK i \in DOMAIN s : m = s[i]
      BY DEF Range
    <3>2. QED BY <1>5, <3>1
  <2>2. ASSUME NEW n \in S PROVE <<ch, n>> \in Range(s)
    <3>1. PICK i \in DOMAIN f : f[i] = n
      BY <1>4, Zenon
    <3>2. i \in DOMAIN s /\ s[i] = <<ch, n>>
      BY <1>1, <1>5, <3>1
    <3>3. QED BY <3>2 DEF Range
  <2>3. \A m \in {ch} \X S : m[2] \in S /\ m = <<ch, m[2]>>
    OBVIOUS
  <2>4. QED BY <2>1, <2>2, <2>3
<1>8. Once(s)
  <2>1. SUFFICES ASSUME NEW i \in DOMAIN s, NEW j \in DOMAIN s, s[i] = s[j] PROVE i = j
    BY DEF Once
  <2>2. f[i] = f[j] /\ i \in DOMAIN f /\ j \in DOMAIN f
    BY <1>1, <1>5, <2>1
  <2>3. QED BY <1>4, <2>2
<1>9. QED BY <1>6, <1>7, <1>8 DEF s

(* One batch behind another.                                               *)
LEMMA Joined ==
  ASSUME NEW M, NEW s \in Seq(M), NEW t \in Seq(M)
  PROVE  /\ s \o t \in Seq(M)
         /\ Range(s \o t) = Range(s) \union Range(t)
         /\ Once(s) /\ Once(t) /\ Range(s) \cap Range(t) = {} => Once(s \o t)
<1> DEFINE u == s \o t
<1>1. /\ Len(s) \in Nat /\ Len(t) \in Nat /\ DOMAIN s = 1 .. Len(s) /\ DOMAIN t = 1 .. Len(t)
      /\ u \in Seq(M) /\ Len(u) = Len(s) + Len(t) /\ DOMAIN u = 1 .. Len(u)
  BY LenProperties, ConcatProperties
<1>2. \A i \in 1 .. Len(s) + Len(t) : u[i] = IF i <= Len(s) THEN s[i] ELSE t[i - Len(s)]
  BY ConcatProperties
<1> HIDE DEF u
<1>3. \A i \in DOMAIN u : \/ i \in DOMAIN s /\ u[i] = s[i]
                          \/ i - Len(s) \in DOMAIN t /\ i > Len(s) /\ u[i] = t[i - Len(s)]
  BY <1>1, <1>2
<1>4. Range(u) = Range(s) \union Range(t)
  <2>1. ASSUME NEW m \in Range(u) PROVE m \in Range(s) \union Range(t)
    BY <1>3 DEF Range
  <2>2. ASSUME NEW m \in Range(s) PROVE m \in Range(u)
    <3>1. PICK i \in DOMAIN s : s[i] = m
      BY DEF Range
    <3>2. i \in DOMAIN u /\ u[i] = m
      BY <1>1, <1>2, <3>1
    <3>3. QED BY <3>2 DEF Range
  <2>3. ASSUME NEW m \in Range(t) PROVE m \in Range(u)
    <3>1. PICK i \in DOMAIN t : t[i] = m
      BY DEF Range
    <3>2. i + Len(s) \in DOMAIN u /\ ~(i + Len(s) <= Len(s)) /\ (i + Len(s)) - Len(s) = i
      BY <1>1, <3>1
    <3>3. u[i + Len(s)] = m
      BY <1>1, <1>2, <3>1, <3>2
    <3>4. QED BY <3>2, <3>3 DEF Range
  <2>4. QED BY <2>1, <2>2, <2>3
<1>5. ASSUME Once(s), Once(t), Range(s) \cap Range(t) = {} PROVE Once(u)
  <2>1. SUFFICES ASSUME NEW i \in DOMAIN u, NEW j \in DOMAIN u, u[i] = u[j] PROVE i = j
    BY DEF Once
  <2>2. \A a \in DOMAIN s, b \in DOMAIN t : s[a] # t[b]
    BY <1>5 DEF Range
  <2>3. CASE i \in DOMAIN s /\ u[i] = s[i] /\ j \in DOMAIN s /\ u[j] = s[j]
    BY <1>5, <2>1, <2>3 DEF Once
  <2>4. CASE /\ i - Len(s) \in DOMAIN t /\ u[i] = t[i - Len(s)]
             /\ j - Len(s) \in DOMAIN t /\ u[j] = t[j - Len(s)]
    <3>1. i - Len(s) = j - Len(s)
      BY <1>5, <2>1, <2>4 DEF Once
    <3>2. i \in Int /\ j \in Int
      BY <1>1
    <3>3. QED BY <1>1, <3>1, <3>2
  <2>5. QED BY <1>3, <2>1, <2>2, <2>3, <2>4
<1>6. QED BY <1>1, <1>4, <1>5 DEF u

(* What a loop that appends one batch after another arrives at exists.     *)
LEMMA Joining ==
  ASSUME NEW n \in Nat, NEW W
  PROVE  \E r : r = [i \in 0 .. n |-> IF i = 0 THEN <<>> ELSE r[i - 1] \o W[i]]
<1> DEFINE Step(r, i) == IF i = 0 THEN <<>> ELSE r[i - 1] \o W[i]
           G == {k \in Nat : \E r : r = [i \in 0 .. k |-> Step(r, i)]}
<1>1. 0 \in G
  <2> DEFINE r == [i \in 0 .. 0 |-> <<>>]
  <2>1. r = [i \in 0 .. 0 |-> Step(r, i)]
    OBVIOUS
  <2>2. QED BY <2>1
<1>2. ASSUME NEW k \in Nat, k \in G PROVE k + 1 \in G
  <2>1. PICK r : r = [i \in 0 .. k |-> Step(r, i)]
    BY <1>2
  <2> DEFINE q == [i \in 0 .. k + 1 |-> IF i <= k THEN r[i] ELSE r[k] \o W[k + 1]]
  <2>2. ASSUME NEW i \in 0 .. k + 1 PROVE q[i] = Step(q, i)
    <3>1. CASE i = 0
      <4>1. r[0] = <<>>
        BY <2>1
      <4>2. QED BY <3>1, <4>1
    <3>2. CASE i # 0 /\ i <= k
      <4>1. i \in 0 .. k /\ i - 1 \in 0 .. k + 1 /\ i - 1 <= k
        BY <3>2
      <4>2. r[i] = r[i - 1] \o W[i]
        BY <2>1, <3>2, <4>1
      <4>3. QED BY <3>2, <4>1, <4>2
    <3>3. CASE i = k + 1
      <4>1. ~(i <= k) /\ i - 1 = k /\ k \in 0 .. k + 1 /\ i # 0
        BY <3>3
      <4>2. q[i] = r[k] \o W[i]
        BY <3>3, <4>1
      <4>3. q[k] = r[k]
        BY <4>1
      <4>4. QED BY <4>1, <4>2, <4>3
    <3>4. QED BY <3>1, <3>2, <3>3
  <2>3. q = [i \in 0 .. k + 1 |-> Step(q, i)]
    <3>1. q = [i \in 0 .. k + 1 |-> q[i]]
      OBVIOUS
    <3> HIDE DEF q, Step
    <3>2. QED BY <2>2, <3>1
  <2> HIDE DEF q, Step
  <2>4. k + 1 \in Nat
    OBVIOUS
  <2>5. QED BY <2>3, <2>4
<1>3. n \in G
  <2> HIDE DEF G
  <2>1. QED BY <1>1, <1>2, Counting
<1>4. QED BY <1>3
-----------------------------------------------------------------------------
(* What a read takes of a channel follows what was taken of it before.     *)
LEMMA UnreadFacts ==
  ASSUME Types, NEW ch \in Channels
  PROVE  /\ Unread(ch) \subseteq Nat /\ IsFiniteSet(Unread(ch))
         /\ Cardinality(Unread(ch)) <= Prefetch
         /\ Unread(ch) \cap (1 .. cursor[ch]) = {}
         /\ MaxOf({cursor[ch]} \union Unread(ch)) \in Nat
         /\ MaxOf({cursor[ch]} \union Unread(ch)) <= Len(log[ch[1]])
         /\ 1 .. MaxOf({cursor[ch]} \union Unread(ch)) = (1 .. cursor[ch]) \union Unread(ch)
<1> DEFINE top == IF cursor[ch] + Prefetch < Len(log[ch[1]])
                  THEN cursor[ch] + Prefetch ELSE Len(log[ch[1]])
           a == cursor[ch]
           S == {a} \union Unread(ch)
<1>1. a \in Nat /\ Len(log[ch[1]]) \in Nat /\ a <= Len(log[ch[1]]) /\ Prefetch \in Nat
  <2>1. ch[1] \in Streams
    BY ChannelFacts
  <2>2. QED BY <2>1, PrefetchAssumption DEF Types, BusTypeOK
<1>2. top \in Nat /\ a <= top /\ top <= Len(log[ch[1]]) /\ top - a <= Prefetch
  BY <1>1
<1>3. Unread(ch) = a + 1 .. top
  BY DEF Unread
<1> HIDE DEF a, top
<1>4. IsFiniteSet(Unread(ch)) /\ Cardinality(Unread(ch)) <= Prefetch
  <2>1. IsFiniteSet(a + 1 .. top)
        /\ Cardinality(a + 1 .. top) = IF a + 1 > top THEN 0 ELSE top - (a + 1) + 1
    BY <1>1, <1>2, FS_Interval
  <2>2. (IF a + 1 > top THEN 0 ELSE top - (a + 1) + 1) <= Prefetch
    BY <1>1, <1>2
  <2>3. QED BY <1>3, <2>1, <2>2
<1>5. top \in S /\ \A m \in S : m <= top
  BY <1>1, <1>2, <1>3
<1>6. MaxOf(S) = top
  <2>1. \A x \in S : x \in Nat
    BY <1>1, <1>3
  <2>2. \A x \in S : (\A m \in S : m <= x) => x = top
    BY <1>2, <1>5, <2>1
  <2> HIDE DEF S
  <2>3. QED BY <1>5, <2>2 DEF MaxOf
<1>7. 1 .. top = (1 .. a) \union Unread(ch)
  BY <1>1, <1>2, <1>3
<1>8. Unread(ch) \subseteq Nat /\ Unread(ch) \cap (1 .. a) = {}
  BY <1>1, <1>3
<1>9. MaxOf({cursor[ch]} \union Unread(ch)) = top
  BY <1>6 DEF a
<1>10. QED BY <1>2, <1>4, <1>7, <1>8, <1>9 DEF a

(* The entries a read returns to c, of the first k of its streams.         *)
Returned(c, k) ==
  {m \in Channels \X Nat : \E i \in 1 .. k : m[1] = Channel(c, i) /\ m[2] \in Unread(m[1])}

LEMMA ReplyFacts ==
  ASSUME Types, NEW c \in Consumers
  PROVE  LET n == Len(Subs[c]) IN
         /\ Reply(c) \in Seq(Channels \X Nat)
         /\ Range(Reply(c)) = Returned(c, n)
         /\ Once(Reply(c))
         /\ IsFiniteSet(Returned(c, n)) /\ Cardinality(Returned(c, n)) <= Prefetch * n
<1> DEFINE n == Len(Subs[c])
           M == Channels \X Nat
           W == [i \in 1 .. n |-> InOrder(Channel(c, i), Unread(Channel(c, i)))]
           r == CHOOSE r : r = [i \in 0 .. n |->
                  IF i = 0 THEN <<>>
                  ELSE Enqueue(r[i - 1], InOrder(Channel(c, i), Unread(Channel(c, i))))]
<1>1. n \in Nat /\ Prefetch \in Nat /\ DOMAIN Subs[c] = 1 .. n
  BY SubsAssumption, PrefetchAssumption, LenProperties
<1>2. ASSUME NEW i \in 1 .. n PROVE Channel(c, i) \in Channels
  <2>1. i \in DOMAIN Subs[c] /\ i \in Nat
    BY <1>1
  <2>2. QED BY <2>1, ChannelFacts DEF Channel
<1>3. \A i, j \in 1 .. n : Channel(c, i) = Channel(c, j) => i = j
  BY <1>1, StreamsAssumption DEF Channel
<1>4. Reply(c) = r[n]
  BY DEF Reply
<1>5. \E q : q = [i \in 0 .. n |-> IF i = 0 THEN <<>> ELSE q[i - 1] \o W[i]]
  <2> HIDE DEF W, n
  <2>1. QED BY <1>1, Joining
<1>6. r = [i \in 0 .. n |-> IF i = 0 THEN <<>> ELSE r[i - 1] \o W[i]]
  <2>1. ASSUME NEW q
        PROVE  [i \in 0 .. n |-> IF i = 0 THEN <<>> ELSE q[i - 1] \o W[i]]
                 = [i \in 0 .. n |->
                     IF i = 0 THEN <<>>
                     ELSE Enqueue(q[i - 1], InOrder(Channel(c, i), Unread(Channel(c, i))))]
    <3>1. \A i \in 0 .. n : i # 0 => i \in 1 .. n
      BY <1>1
    <3>2. \A i \in 0 .. n : (IF i = 0 THEN <<>> ELSE q[i - 1] \o W[i])
             = IF i = 0 THEN <<>>
               ELSE Enqueue(q[i - 1], InOrder(Channel(c, i), Unread(Channel(c, i))))
      BY <3>1 DEF Enqueue
    <3>3. QED BY <3>2
  <2>2. \E q : q = [i \in 0 .. n |->
                     IF i = 0 THEN <<>>
                     ELSE Enqueue(q[i - 1], InOrder(Channel(c, i), Unread(Channel(c, i))))]
    <3>1. PICK q : q = [i \in 0 .. n |-> IF i = 0 THEN <<>> ELSE q[i - 1] \o W[i]]
      BY <1>5
    <3>2. q = [i \in 0 .. n |->
                     IF i = 0 THEN <<>>
                     ELSE Enqueue(q[i - 1], InOrder(Channel(c, i), Unread(Channel(c, i))))]
      <4> HIDE DEF W, n
      <4>1. QED BY <2>1, <3>1, Zenon
    <3>3. QED BY <3>2, Zenon
  <2>3. r = [i \in 0 .. n |->
                     IF i = 0 THEN <<>>
                     ELSE Enqueue(r[i - 1], InOrder(Channel(c, i), Unread(Channel(c, i))))]
    BY <2>2
  <2>4. QED BY <2>1, <2>3
<1> HIDE DEF r
<1>7. ASSUME NEW i \in 1 .. n
      PROVE  LET ch == Channel(c, i) IN
             /\ W[i] \in Seq(M) /\ Range(W[i]) = {ch} \X Unread(ch) /\ Once(W[i])
             /\ IsFiniteSet({ch} \X Unread(ch)) /\ Cardinality({ch} \X Unread(ch)) <= Prefetch
  <2> DEFINE ch == Channel(c, i)
  <2>1. ch \in Channels
    BY <1>2
  <2>2. Unread(ch) \subseteq Nat /\ IsFiniteSet(Unread(ch)) /\ Cardinality(Unread(ch)) <= Prefetch
    BY <2>1, UnreadFacts
  <2>3. W[i] = InOrder(ch, Unread(ch))
    OBVIOUS
  <2>4. /\ W[i] \in Seq({ch} \X Unread(ch)) /\ Range(W[i]) = {ch} \X Unread(ch) /\ Once(W[i])
    BY <2>2, <2>3, InOrderFacts
  <2>5. W[i] \in Seq(M)
    <3>1. {ch} \X Unread(ch) \subseteq M
      BY <2>1, <2>2
    <3> HIDE DEF W, M, ch
    <3>2. QED BY <2>4, <3>1
  <2>6. IsFiniteSet({ch} \X Unread(ch)) /\ Cardinality({ch} \X Unread(ch)) <= Prefetch
    <3>1. IsFiniteSet({ch}) /\ Cardinality({ch}) = 1
      BY FS_Singleton
    <3>2. /\ IsFiniteSet({ch} \X Unread(ch))
          /\ Cardinality({ch} \X Unread(ch)) = Cardinality({ch}) * Cardinality(Unread(ch))
      BY <2>2, <3>1, FS_Product
    <3>3. Cardinality(Unread(ch)) \in Nat
      BY <2>2, FS_CardinalityType
    <3>4. QED BY <2>2, <3>1, <3>2, <3>3
  <2>7. QED BY <2>4, <2>5, <2>6
<1> DEFINE Good(k) == /\ r[k] \in Seq(M) /\ Range(r[k]) = Returned(c, k) /\ Once(r[k])
                      /\ IsFiniteSet(Returned(c, k)) /\ Cardinality(Returned(c, k)) <= Prefetch * k
           G == {k \in Nat : k <= n => Good(k)}
<1>8. 0 \in G
  <2>1. r[0] = <<>>
    BY <1>1, <1>6
  <2>2. Range(<<>>) = {} /\ Once(<<>>) /\ <<>> \in Seq(M)
    BY DEF Range, Once
  <2>3. Returned(c, 0) = {}
    BY DEF Returned
  <2>4. IsFiniteSet({}) /\ Cardinality({}) = 0
    BY FS_EmptySet
  <2>5. Cardinality(Returned(c, 0)) <= Prefetch * 0
    <3>1. Prefetch * 0 = 0
      BY <1>1
    <3>2. Cardinality(Returned(c, 0)) = 0
      BY <2>3, <2>4
    <3>3. QED BY <3>1, <3>2
  <2>6. Good(0)
    BY <2>1, <2>2, <2>3, <2>4, <2>5, Zenon
  <2> HIDE DEF Good
  <2>7. QED BY <2>6
<1>9. ASSUME NEW k \in Nat, k \in G PROVE k + 1 \in G
  <2>1. SUFFICES ASSUME k + 1 <= n PROVE Good(k + 1)
    OBVIOUS
  <2> DEFINE ch == Channel(c, k + 1)
  <2>2. k + 1 \in 1 .. n /\ k + 1 \in 0 .. n /\ k + 1 # 0 /\ (k + 1) - 1 = k /\ k <= n
    BY <1>1, <2>1
  <2>3. Good(k)
    BY <1>9, <2>2
  <2>4. r[k + 1] = r[k] \o W[k + 1]
    BY <1>6, <2>2
  <2>5. /\ W[k + 1] \in Seq(M) /\ Range(W[k + 1]) = {ch} \X Unread(ch) /\ Once(W[k + 1])
        /\ IsFiniteSet({ch} \X Unread(ch)) /\ Cardinality({ch} \X Unread(ch)) <= Prefetch
    BY <1>7, <2>2
  <2>6. Returned(c, k + 1) = Returned(c, k) \union ({ch} \X Unread(ch))
    <3>1. ch \in Channels /\ Unread(ch) \subseteq Nat
      BY <1>2, <2>2, UnreadFacts
    <3>2. 1 .. k + 1 = (1 .. k) \union {k + 1}
      OBVIOUS
    <3> HIDE DEF ch
    <3>3. ASSUME NEW m \in Channels \X Nat
          PROVE  m \in Returned(c, k + 1)
                   <=> m \in Returned(c, k) \/ (m[1] = ch /\ m[2] \in Unread(m[1]))
      BY <3>2 DEF Returned, ch
    <3>4. \A m \in {ch} \X Unread(ch) :
            m \in Channels \X Nat /\ m[1] = ch /\ m[2] \in Unread(m[1])
      BY <3>1
    <3>5. \A m \in Channels \X Nat : m[1] = ch /\ m[2] \in Unread(m[1]) => m \in {ch} \X Unread(ch)
      OBVIOUS
    <3>6. Returned(c, k) \subseteq Channels \X Nat /\ Returned(c, k + 1) \subseteq Channels \X Nat
      BY DEF Returned
    <3>7. QED BY <3>3, <3>4, <3>5, <3>6
  <2>7. Returned(c, k) \cap ({ch} \X Unread(ch)) = {}
    <3>1. \A i \in 1 .. k : Channel(c, i) # ch
      BY <1>3, <2>2
    <3> HIDE DEF ch
    <3>2. QED BY <3>1 DEF Returned
  <2> HIDE DEF ch, W, M
  <2>8. r[k + 1] \in Seq(M) /\ Range(r[k + 1]) = Returned(c, k + 1) /\ Once(r[k + 1])
    <3>1. r[k] \in Seq(M) /\ Range(r[k]) \cap Range(W[k + 1]) = {}
      BY <2>3, <2>5, <2>7
    <3>2. /\ r[k] \o W[k + 1] \in Seq(M)
          /\ Range(r[k] \o W[k + 1]) = Range(r[k]) \union Range(W[k + 1])
          /\ Once(r[k]) /\ Once(W[k + 1]) /\ Range(r[k]) \cap Range(W[k + 1]) = {}
               => Once(r[k] \o W[k + 1])
      BY <2>5, <3>1, Joined
    <3>3. QED BY <2>3, <2>4, <2>5, <2>6, <3>1, <3>2
  <2>9. /\ IsFiniteSet(Returned(c, k + 1))
        /\ Cardinality(Returned(c, k + 1)) <= Cardinality(Returned(c, k)) + Cardinality({ch} \X Unread(ch))
    <3>1. IsFiniteSet(Returned(c, k) \cap ({ch} \X Unread(ch)))
          /\ Cardinality(Returned(c, k) \cap ({ch} \X Unread(ch))) = 0
      BY <2>7, FS_EmptySet
    <3>2. /\ IsFiniteSet(Returned(c, k) \union ({ch} \X Unread(ch)))
          /\ Cardinality(Returned(c, k) \union ({ch} \X Unread(ch)))
               = Cardinality(Returned(c, k)) + Cardinality({ch} \X Unread(ch))
                 - Cardinality(Returned(c, k) \cap ({ch} \X Unread(ch)))
      BY <2>3, <2>5, FS_Union
    <3>3. Cardinality(Returned(c, k)) \in Nat /\ Cardinality({ch} \X Unread(ch)) \in Nat
      BY <2>3, <2>5, FS_CardinalityType
    <3>4. \A a, b, d \in Nat : d = 0 => a + b - d <= a + b
      OBVIOUS
    <3>5. Cardinality(Returned(c, k) \union ({ch} \X Unread(ch)))
            <= Cardinality(Returned(c, k)) + Cardinality({ch} \X Unread(ch))
      BY <3>1, <3>2, <3>3, <3>4
    <3>6. QED BY <2>6, <3>2, <3>5
  <2>10. Cardinality(Returned(c, k + 1)) <= Prefetch * (k + 1)
    <3>1. Prefetch * (k + 1) = Prefetch * k + Prefetch /\ Prefetch * k \in Nat
      BY <1>1
    <3>2. Cardinality(Returned(c, k)) \in Nat /\ Cardinality({ch} \X Unread(ch)) \in Nat
          /\ Cardinality(Returned(c, k + 1)) \in Nat
      BY <2>3, <2>5, <2>9, FS_CardinalityType
    <3>3. QED BY <1>1, <2>3, <2>5, <2>9, <3>1, <3>2
  <2>11. QED BY <2>8, <2>9, <2>10
<1>10. n \in G
  <2> HIDE DEF G, n
  <2>1. QED BY <1>1, <1>8, <1>9, Counting
<1>11. Good(n)
  BY <1>1, <1>10
<1>12. QED BY <1>4, <1>11
-----------------------------------------------------------------------------
(* The front of a backlog and the rest of it.                              *)
LEMMA FrontAndRest ==
  ASSUME NEW M, NEW s \in Seq(M), s # <<>>
  PROVE  /\ Head(s) \in M /\ Tail(s) \in Seq(M)
         /\ Range(s) = {Head(s)} \union Range(Tail(s))
         /\ Once(s) => Once(Tail(s)) /\ \A i \in DOMAIN Tail(s) : Tail(s)[i] # Head(s)
<1>1. /\ Head(s) \in M /\ Tail(s) \in Seq(M) /\ Head(s) = s[1]
      /\ Len(s) \in Nat /\ Len(s) # 0 /\ DOMAIN s = 1 .. Len(s)
      /\ Len(Tail(s)) = Len(s) - 1 /\ DOMAIN Tail(s) = 1 .. Len(s) - 1
  BY HeadTailProperties, LenProperties, EmptySeq
<1>2. \A i \in DOMAIN Tail(s) : i + 1 \in DOMAIN s /\ i + 1 # 1 /\ Tail(s)[i] = s[i + 1]
  BY <1>1, HeadTailProperties
<1>3. \A i \in DOMAIN s : i = 1 \/ (i - 1 \in DOMAIN Tail(s) /\ (i - 1) + 1 = i)
  BY <1>1
<1>4. Range(s) = {Head(s)} \union Range(Tail(s))
  <2>1. ASSUME NEW m \in Range(s) PROVE m \in {Head(s)} \union Range(Tail(s))
    <3>1. PICK i \in DOMAIN s : s[i] = m
      BY DEF Range
    <3>2. CASE i = 1
      BY <1>1, <3>1, <3>2
    <3>3. CASE i # 1
      <4>1. i - 1 \in DOMAIN Tail(s) /\ Tail(s)[i - 1] = m
        BY <1>2, <1>3, <3>1, <3>3
      <4>2. QED BY <4>1 DEF Range
    <3>4. QED BY <3>2, <3>3
  <2>2. Head(s) \in Range(s)
    <3>1. 1 \in DOMAIN s
      BY <1>1
    <3>2. QED BY <1>1, <3>1 DEF Range
  <2>3. ASSUME NEW m \in Range(Tail(s)) PROVE m \in Range(s)
    BY <1>2 DEF Range
  <2>4. QED BY <2>1, <2>2, <2>3
<1>5. ASSUME Once(s) PROVE Once(Tail(s)) /\ \A i \in DOMAIN Tail(s) : Tail(s)[i] # Head(s)
  <2>1. ASSUME NEW i \in DOMAIN Tail(s), NEW j \in DOMAIN Tail(s), Tail(s)[i] = Tail(s)[j]
        PROVE  i = j
    <3>1. i + 1 = j + 1
      BY <1>2, <1>5, <2>1 DEF Once
    <3>2. i \in Nat /\ j \in Nat
      BY <1>1
    <3>3. QED BY <3>1, <3>2
  <2>2. ASSUME NEW i \in DOMAIN Tail(s) PROVE Tail(s)[i] # Head(s)
    <3>1. 1 \in DOMAIN s
      BY <1>1
    <3>2. QED BY <1>1, <1>2, <1>5, <3>1 DEF Once
  <2>3. QED BY <2>1, <2>2 DEF Once
<1>6. QED BY <1>1, <1>4, <1>5

LEMMA LongestFacts ==
  Longest \in Nat /\ \A c \in Consumers : Len(Subs[c]) \in Nat /\ Len(Subs[c]) <= Longest
<1> DEFINE S == {Len(Subs[c]) : c \in Consumers}
<1>1. \A c \in Consumers : Len(Subs[c]) \in Nat
  BY SubsAssumption, LenProperties
<1>2. S \subseteq Nat /\ S # {}
  BY <1>1, ConsumersAssumption
<1>3. IsFiniteSet(S)
  <2> DEFINE f == [c \in Consumers |-> Len(Subs[c])]
  <2>1. f \in Surjection(Consumers, S)
    <3>1. f \in [Consumers -> S] /\ \A n \in S : \E c \in Consumers : f[c] = n
      OBVIOUS
    <3> HIDE DEF f, S
    <3>2. QED BY <3>1, Fun_IsSurj
  <2> HIDE DEF f, S
  <2>2. QED BY <2>1, ConsumersAssumption, FS_Surjection
<1>4. \E n \in S : \A m \in S : m <= n
  <2> HIDE DEF S
  <2>1. QED BY <1>2, <1>3, Greatest
<1>5. Longest \in S /\ \A m \in S : m <= Longest
  <2>1. Longest = MaxOf(S)
    BY DEF Longest
  <2> HIDE DEF S
  <2>2. QED BY <1>4, <2>1 DEF MaxOf
<1>6. QED BY <1>1, <1>2, <1>5

(* A state in which nothing more is stranded, and nobody has crashed.      *)
LEMMA NoneStranded ==
  ASSUME Bounded, crashes \in Nat, crashes' = crashes, \A m \in Stranded' : m \in Stranded
  PROVE  Bounded'
<1>1. Stranded' \subseteq Stranded
  OBVIOUS
<1>2. IsFiniteSet(Stranded') /\ Cardinality(Stranded') <= Cardinality(Stranded)
      /\ Cardinality(Stranded) \in Nat /\ Cardinality(Stranded') \in Nat
  BY <1>1, FS_Subset, FS_CardinalityType DEF Bounded
<1>3. Longest' = Longest
  BY DEF Longest
<1> DEFINE a == Cardinality(Stranded)
           b == Cardinality(Stranded')
           d == crashes * (Prefetch * Longest)
<1>4. a \in Nat /\ b \in Nat /\ b <= a /\ a <= d
  BY <1>2 DEF Bounded
<1>5. d' = d
  BY <1>3
<1>6. b <= d
  <2>1. Prefetch * Longest \in Nat
    BY LongestFacts, PrefetchAssumption
  <2> DEFINE k == Prefetch * Longest
  <2> HIDE DEF k
  <2>2. crashes * k \in Nat
    BY <2>1 DEF k
  <2>3. d \in Nat
    BY <2>2 DEF k
  <2> HIDE DEF a, b, d
  <2>4. QED BY <1>4, <2>3
<1>7. QED BY <1>2, <1>5, <1>6 DEF Bounded
-----------------------------------------------------------------------------
LEMMA RedisInitInv == RedisInit => RedisInv
<1>1. SUFFICES ASSUME RedisInit PROVE RedisInv
  OBVIOUS
<1>2. BusInit /\ live = Consumers /\ crashes = 0 /\ backlog = [c \in Consumers |-> <<>>]
      /\ scan = [c \in Consumers |-> 0] /\ overtaken = FALSE
  BY <1>1 DEF RedisInit, Init
<1>3. BusTypeOK /\ NothingLost
  BY <1>2, InitBusInv DEF BusInv
<1>4. ASSUME NEW c \in Consumers PROVE Fetched(c) = {}
  <2>1. held[c] = Nothing /\ backlog[c] = <<>>
    BY <1>2 DEF BusInit
  <2>2. Range(<<>>) = {}
    BY DEF Range
  <2>3. QED BY <2>1, <2>2 DEF Fetched
<1>5. Types
  <2>1. <<>> \in Seq(Channels \X Nat)
    OBVIOUS
  <2>2. QED BY <1>2, <1>3, <2>1 DEF Types
<1>6. Handed
  BY <1>4 DEF Handed
<1>7. Portions
  <2>1. SUFFICES ASSUME NEW c \in Consumers
                 PROVE  /\ scan[c] = 0 /\ scan[c] <= Len(Subs[c]) + 1
                        /\ IsFiniteSet(Fetched(c)) /\ Cardinality(Fetched(c)) <= Prefetch * Asked(c)
    BY DEF Portions
  <2>2. scan[c] = 0 /\ Len(Subs[c]) \in Nat
    BY <1>2, LongestFacts
  <2>3. Prefetch * Len(Subs[c]) \in Nat /\ Asked(c) = Len(Subs[c])
    BY <2>2, PrefetchAssumption DEF Asked
  <2>4. IsFiniteSet({}) /\ Cardinality({}) = 0
    BY FS_EmptySet
  <2>5. IsFiniteSet(Fetched(c)) /\ Cardinality(Fetched(c)) = 0
    BY <1>4, <2>4
  <2>6. Prefetch * Asked(c) \in Nat
    BY <2>3
  <2>7. \A k \in Nat : 0 <= k
    OBVIOUS
  <2>8. QED BY <2>2, <2>5, <2>6, <2>7
<1>8. Stranded = {}
  BY <1>2 DEF Stranded, BusInit
<1>9. Bounded
  <2>1. Prefetch * Longest \in Nat
    BY LongestFacts, PrefetchAssumption
  <2>2. \A k \in Nat : 0 <= 0 * k
    OBVIOUS
  <2>3. 0 <= crashes * (Prefetch * Longest)
    BY <1>2, <2>1, <2>2
  <2>4. IsFiniteSet({}) /\ Cardinality({}) = 0
    BY FS_EmptySet
  <2>5. QED BY <1>8, <2>3, <2>4 DEF Bounded
<1>10. Undisturbed
  BY <1>2, <1>4 DEF Undisturbed, BusInit
<1>11. QED BY <1>5, <1>6, <1>7, <1>9, <1>10 DEF RedisInv

LEMMA ProduceStep ==
  ASSUME RedisInv, NEW s \in Streams, NEW p \in Payloads, Produce(s, p), Others
  PROVE  RedisInv'
<1>1. /\ log' = [log EXCEPT ![s] = Append(log[s], p)]
      /\ UNCHANGED <<cursor, pending, acked, held, live, crashes, backlog, scan, overtaken>>
  BY DEF Produce, Publish, Others
<1>2. Types /\ BusTypeOK
  BY DEF RedisInv, Types
<1>3. /\ log' \in [Streams -> Seq(Payloads)]
      /\ \A t \in Streams : Len(log[t]) \in Nat /\ Len(log'[t]) \in Nat /\ Len(log[t]) <= Len(log'[t])
  BY <1>1, <1>2 DEF BusTypeOK
<1>4. ASSUME NEW ch \in Channels PROVE cursor[ch] <= Len(log'[ch[1]])
  <2>1. ch[1] \in Streams
    BY ChannelFacts
  <2>2. cursor[ch] \in Nat /\ cursor[ch] <= Len(log[ch[1]])
    BY <1>2 DEF BusTypeOK
  <2>3. QED BY <1>3, <2>1, <2>2
<1>5. Types'
  BY <1>1, <1>2, <1>3, <1>4 DEF Types, BusTypeOK, NothingLost
<1>6. \A c \in Consumers : Fetched(c)' = Fetched(c) /\ Asked(c)' = Asked(c)
  BY <1>1 DEF Fetched, Asked
<1>7. Handed' /\ Portions'
  BY <1>1, <1>6 DEF RedisInv, Handed, Portions
<1>8. Bounded'
  <2>1. Stranded' = Stranded
    BY <1>1 DEF Stranded, Fetched
  <2>2. QED BY <1>1, <1>2, <2>1, NoneStranded DEF RedisInv, Types
<1>9. Undisturbed'
  BY <1>1, <1>6 DEF RedisInv, Undisturbed
<1>10. QED BY <1>5, <1>7, <1>8, <1>9 DEF RedisInv

LEMMA StillStep ==
  ASSUME RedisInv, UNCHANGED <<log, cursor, pending, acked, held, crashes, backlog, scan, overtaken>>,
         live' \subseteq Consumers
  PROVE  RedisInv'
<1>1. Types /\ crashes \in Nat
  BY DEF RedisInv, Types
<1>2. Types'
  BY <1>1 DEF Types, BusTypeOK, NothingLost
<1>3. \A c \in Consumers : Fetched(c)' = Fetched(c) /\ Asked(c)' = Asked(c)
  BY DEF Fetched, Asked
<1>4. Handed' /\ Portions'
  BY <1>3 DEF RedisInv, Handed, Portions
<1>5. Bounded'
  <2>1. Stranded' = Stranded
    BY DEF Stranded, Fetched
  <2>2. QED BY <1>1, <2>1, NoneStranded DEF RedisInv
<1>6. Undisturbed'
  BY <1>3 DEF RedisInv, Undisturbed
<1>7. QED BY <1>2, <1>4, <1>5, <1>6 DEF RedisInv

(* Entries grow older, whoever owns them.                                  *)
LEMMA PassStep ==
  ASSUME RedisInv, Pass, Others
  PROVE  RedisInv'
<1>1. /\ pending' = [ch \in Channels |-> [k \in DOMAIN pending[ch] |-> Older(pending[ch][k])]]
      /\ UNCHANGED <<log, cursor, acked, held, live, crashes, backlog, scan, overtaken>>
  BY DEF Pass, Tick, Others
<1>2. Types /\ BusTypeOK /\ crashes \in Nat
  BY DEF RedisInv, Types
<1>3. /\ DOMAIN pending' = Channels
      /\ \A ch \in Channels : DOMAIN pending'[ch] = DOMAIN pending[ch]
  BY <1>1
<1>4. ASSUME NEW ch \in Channels, NEW k \in DOMAIN pending[ch]
      PROVE  pending'[ch][k] \in Entry /\ pending'[ch][k].owner = pending[ch][k].owner
  <2>1. pending[ch][k] \in Entry
    BY <1>2 DEF BusTypeOK
  <2>2. pending'[ch][k] = Older(pending[ch][k])
    BY <1>1
  <2>3. QED BY <2>1, <2>2, ReclaimIdleAssumption DEF Older, Entry
<1>5. BusTypeOK'
  BY <1>1, <1>2, <1>3, <1>4 DEF BusTypeOK
<1>6. NothingLost'
  BY <1>1, <1>2, <1>3 DEF Types, NothingLost
<1>7. Types'
  BY <1>1, <1>2, <1>5, <1>6 DEF Types
<1>8. \A c \in Consumers : Fetched(c)' = Fetched(c) /\ Asked(c)' = Asked(c)
  BY <1>1 DEF Fetched, Asked
<1>9. Handed' /\ Portions'
  BY <1>1, <1>8 DEF RedisInv, Handed, Portions
<1>10. Bounded'
  <2>1. ASSUME NEW m \in Stranded' PROVE m \in Stranded
    <3>1. PICK ch \in Channels : m \in {ch} \X DOMAIN pending'[ch]
      BY DEF Stranded
    <3>2. m[1] = ch /\ m[2] \in DOMAIN pending[ch] /\ m \in {ch} \X DOMAIN pending[ch]
      BY <1>3, <3>1
    <3>3. pending'[ch][m[2]].owner = pending[ch][m[2]].owner /\ pending[ch][m[2]].owner \in Consumers
      BY <1>2, <1>4, <3>2 DEF BusTypeOK, Entry
    <3>4. PICK d \in Consumers : d = pending[ch][m[2]].owner
      BY <3>3
    <3>5. m \notin Fetched(d)'
      BY <3>2, <3>3, <3>4 DEF Stranded, Fetched
    <3>6. QED BY <1>8, <3>2, <3>4, <3>5 DEF Stranded
  <2>2. QED BY <1>1, <1>2, <2>1, NoneStranded DEF RedisInv
<1>11. Undisturbed'
  <2>1. SUFFICES ASSUME ~overtaken, NEW c \in Consumers
                 PROVE  /\ \A m \in Fetched(c) : m[2] \in DOMAIN pending'[m[1]]
                                                 /\ pending'[m[1]][m[2]].owner = c
                        /\ \A i, j \in DOMAIN backlog[c] : backlog[c][i] = backlog[c][j] => i = j
                        /\ \A i \in DOMAIN backlog[c] : backlog[c][i] # held[c]
    BY <1>1, <1>8 DEF Undisturbed
  <2>2. \A m \in Fetched(c) : m[1] \in Channels
    BY ChannelFacts DEF RedisInv, Handed
  <2>3. QED BY <1>3, <1>4, <2>1, <2>2 DEF RedisInv, Undisturbed
<1>12. QED BY <1>7, <1>9, <1>10, <1>11 DEF RedisInv

(* What is yielded was fetched, and still is.                              *)
LEMMA YieldStep ==
  ASSUME RedisInv, NEW c \in Consumers, Client(c), Yield(c)
  PROVE  RedisInv'
<1>1. /\ held[c] = Nothing /\ scan[c] = 0 /\ backlog[c] # <<>>
      /\ held' = [held EXCEPT ![c] = Head(backlog[c])]
      /\ backlog' = [backlog EXCEPT ![c] = Tail(backlog[c])]
      /\ UNCHANGED <<log, cursor, pending, acked, scan, overtaken, live, crashes>>
  BY DEF Client, Yield
<1>2. /\ Types /\ BusTypeOK /\ crashes \in Nat /\ backlog[c] \in Seq(Channels \X Nat)
      /\ backlog \in [Consumers -> Seq(Channels \X Nat)]
      /\ held \in [Consumers -> {Nothing} \union (Channels \X Nat)]
  BY DEF RedisInv, Types, BusTypeOK
<1>3. /\ Head(backlog[c]) \in Channels \X Nat /\ Tail(backlog[c]) \in Seq(Channels \X Nat)
      /\ Range(backlog[c]) = {Head(backlog[c])} \union Range(Tail(backlog[c]))
      /\ Once(backlog[c]) => Once(Tail(backlog[c]))
           /\ \A i \in DOMAIN Tail(backlog[c]) : Tail(backlog[c])[i] # Head(backlog[c])
  BY <1>1, <1>2, FrontAndRest
<1>4. /\ held' \in [Consumers -> {Nothing} \union (Channels \X Nat)]
      /\ backlog' \in [Consumers -> Seq(Channels \X Nat)]
      /\ held'[c] = Head(backlog[c]) /\ backlog'[c] = Tail(backlog[c])
      /\ \A d \in Consumers \ {c} : held'[d] = held[d] /\ backlog'[d] = backlog[d]
  BY <1>1, <1>2, <1>3
<1>5. Types'
  BY <1>1, <1>2, <1>4 DEF Types, BusTypeOK, NothingLost
<1>6. \A d \in Consumers : Fetched(d)' = Fetched(d)
  <2>1. Head(backlog[c]) # Nothing
    BY <1>3, NothingAssumption
  <2>2. Fetched(c)' = Range(Tail(backlog[c])) \union {Head(backlog[c])}
    BY <1>4, <2>1 DEF Fetched
  <2>3. Fetched(c) = Range(backlog[c])
    BY <1>1 DEF Fetched
  <2>4. \A d \in Consumers \ {c} : Fetched(d)' = Fetched(d)
    BY <1>4 DEF Fetched
  <2>5. QED BY <1>3, <2>2, <2>3, <2>4
<1>7. \A d \in Consumers : Asked(d)' = Asked(d)
  BY <1>1 DEF Asked
<1>8. Handed'
  BY <1>1, <1>6 DEF RedisInv, Handed
<1>9. Portions'
  BY <1>1, <1>4, <1>6, <1>7 DEF RedisInv, Portions
<1>10. Bounded'
  <2>1. ASSUME NEW m \in Stranded' PROVE m \in Stranded
    <3>1. PICK ch \in Channels : m \in {ch} \X DOMAIN pending[ch]
      BY <1>1 DEF Stranded
    <3>2. pending[m[1]][m[2]].owner \in Consumers
      BY <1>2, <3>1 DEF BusTypeOK, Entry
    <3>3. PICK d \in Consumers : d = pending[m[1]][m[2]].owner
      BY <3>2
    <3>4. m \notin Fetched(d)'
      BY <1>1, <3>3 DEF Stranded, Fetched
    <3>5. QED BY <1>6, <3>1, <3>3, <3>4 DEF Stranded
  <2>2. QED BY <1>1, <1>2, <2>1, NoneStranded DEF RedisInv
<1>11. Undisturbed'
  <2>1. SUFFICES ASSUME ~overtaken, NEW d \in Consumers
                 PROVE  /\ \A m \in Fetched(d) : m[2] \in DOMAIN pending[m[1]]
                                                 /\ pending[m[1]][m[2]].owner = d
                        /\ Once(backlog'[d])
                        /\ \A i \in DOMAIN backlog'[d] : backlog'[d][i] # held'[d]
    BY <1>1, <1>6 DEF Undisturbed, Once
  <2>2. /\ \A m \in Fetched(d) : m[2] \in DOMAIN pending[m[1]] /\ pending[m[1]][m[2]].owner = d
        /\ Once(backlog[d]) /\ \A i \in DOMAIN backlog[d] : backlog[d][i] # held[d]
    BY <2>1 DEF RedisInv, Undisturbed, Once
  <2>3. CASE d = c
    BY <1>3, <1>4, <2>2, <2>3
  <2>4. CASE d # c
    BY <1>4, <2>2, <2>4
  <2>5. QED BY <2>3, <2>4
<1>12. QED BY <1>5, <1>8, <1>9, <1>10, <1>11 DEF RedisInv

(* An entry leaves the table and its worker's hands.                       *)
LEMMA CompleteStep ==
  ASSUME RedisInv, NEW c \in Consumers, Complete(c), Others
  PROVE  RedisInv'
<1> DEFINE ch == held[c][1]
           k  == held[c][2]
<1>1. /\ Types /\ BusTypeOK /\ crashes \in Nat /\ DOMAIN pending = Channels
      /\ acked \in [Channels -> SUBSET Nat]
      /\ held \in [Consumers -> {Nothing} \union (Channels \X Nat)]
  BY DEF RedisInv, Types, BusTypeOK
<1>2. held[c] # Nothing
  BY DEF Complete, Ack
<1>3. ch \in Channels /\ k \in Nat /\ held[c] = <<ch, k>>
  BY <1>1, <1>2
<1>4. /\ pending' = [pending EXCEPT ![ch] = [j \in DOMAIN pending[ch] \ {k} |-> pending[ch][j]]]
      /\ acked' = [acked EXCEPT ![ch] = acked[ch] \union {k}]
      /\ held' = [held EXCEPT ![c] = Nothing]
      /\ UNCHANGED <<log, cursor, live, crashes, backlog, scan, overtaken>>
  BY <1>1, <1>3 DEF Complete, Ack, Others
<1> HIDE DEF ch, k
<1>5. /\ DOMAIN pending' = Channels
      /\ \A x \in Channels : x # ch => pending'[x] = pending[x]
      /\ DOMAIN pending'[ch] = DOMAIN pending[ch] \ {k}
      /\ \A j \in DOMAIN pending'[ch] : pending'[ch][j] = pending[ch][j]
  BY <1>1, <1>3, <1>4
<1>6. /\ acked' \in [Channels -> SUBSET Nat]
      /\ \A x \in Channels : acked'[x] = IF x = ch THEN acked[ch] \union {k} ELSE acked[x]
  BY <1>1, <1>3, <1>4
<1>7. /\ held' \in [Consumers -> {Nothing} \union (Channels \X Nat)]
      /\ \A d \in Consumers : held'[d] = IF d = c THEN Nothing ELSE held[d]
  BY <1>1, <1>4
<1>8. k \in 1 .. cursor[ch] /\ <<ch, k>> \in Fetched(c)
  <2>1. <<ch, k>> \in Fetched(c)
    BY <1>2, <1>3 DEF Fetched
  <2>2. <<ch, k>>[1] = ch /\ <<ch, k>>[2] = k
    OBVIOUS
  <2>3. QED BY <2>1, <2>2 DEF RedisInv, Handed
<1>9. Types'
  <2>1. ASSUME NEW x \in Channels
        PROVE  /\ DOMAIN pending'[x] \subseteq 1 .. cursor[x]
               /\ \A j \in DOMAIN pending'[x] : pending'[x][j] \in Entry
    BY <1>1, <1>5 DEF BusTypeOK
  <2>2. BusTypeOK'
    BY <1>1, <1>4, <1>5, <1>6, <1>7, <2>1 DEF BusTypeOK
  <2>3. ASSUME NEW x \in Channels
        PROVE  /\ acked'[x] \union DOMAIN pending'[x] = 1 .. cursor[x]
               /\ acked'[x] \cap DOMAIN pending'[x] = {}
    <3>1. /\ acked[x] \union DOMAIN pending[x] = 1 .. cursor[x]
          /\ acked[x] \cap DOMAIN pending[x] = {}
      BY <1>1 DEF Types, NothingLost
    <3>2. CASE x = ch
      BY <1>5, <1>6, <1>8, <3>1, <3>2
    <3>3. CASE x # ch
      BY <1>5, <1>6, <3>1, <3>3
    <3>4. QED BY <3>2, <3>3
  <2>4. NothingLost'
    BY <1>4, <2>3 DEF NothingLost
  <2>5. QED BY <1>1, <1>4, <2>2, <2>4 DEF Types
<1>10. /\ Fetched(c)' = Range(backlog[c])
       /\ Fetched(c) = Range(backlog[c]) \union {<<ch, k>>}
       /\ \A d \in Consumers \ {c} : Fetched(d)' = Fetched(d)
  BY <1>2, <1>3, <1>4, <1>7 DEF Fetched
<1>11. \A d \in Consumers : Fetched(d)' \subseteq Fetched(d)
  BY <1>10
<1>12. \A d \in Consumers : Asked(d)' = Asked(d)
  BY <1>4 DEF Asked
<1>13. Handed'
  BY <1>4, <1>11 DEF RedisInv, Handed
<1>14. Portions'
  <2>1. SUFFICES ASSUME NEW d \in Consumers
                 PROVE  /\ scan[d] <= Len(Subs[d]) + 1 /\ (scan[d] # 0 => held'[d] = Nothing)
                        /\ IsFiniteSet(Fetched(d)') /\ Cardinality(Fetched(d)') <= Prefetch * Asked(d)
    BY <1>4, <1>12 DEF Portions
  <2>2. /\ scan[d] <= Len(Subs[d]) + 1 /\ (scan[d] # 0 => held[d] = Nothing)
        /\ IsFiniteSet(Fetched(d)) /\ Cardinality(Fetched(d)) <= Prefetch * Asked(d)
    BY DEF RedisInv, Portions
  <2>3. /\ IsFiniteSet(Fetched(d)') /\ Cardinality(Fetched(d)') <= Cardinality(Fetched(d))
        /\ Cardinality(Fetched(d)) \in Nat /\ Cardinality(Fetched(d)') \in Nat
    BY <1>11, <2>2, FS_Subset, FS_CardinalityType
  <2>4. Prefetch * Asked(d) \in Int
    <3>1. scan[d] \in Nat /\ Len(Subs[d]) \in Nat
      BY <1>1, LongestFacts DEF Types
    <3>2. Asked(d) \in Int
      BY <3>1 DEF Asked
    <3>3. QED BY <3>2, PrefetchAssumption
  <2>5. \A x, y \in Nat, z \in Int : x <= y /\ y <= z => x <= z
    OBVIOUS
  <2>6. QED BY <1>7, <2>2, <2>3, <2>4, <2>5
<1>15. Bounded'
  <2>1. ASSUME NEW m \in Stranded' PROVE m \in Stranded
    <3>1. PICK x \in Channels : m \in {x} \X DOMAIN pending'[x]
      BY DEF Stranded
    <3>2. m[1] = x /\ m[2] \in DOMAIN pending'[x] /\ m = <<x, m[2]>>
      BY <3>1
    <3>3. /\ m[2] \in DOMAIN pending[x] /\ pending'[x][m[2]] = pending[x][m[2]]
          /\ m # <<ch, k>>
      BY <1>5, <3>2
    <3>4. PICK d \in Consumers : d = pending[x][m[2]].owner
      BY <1>1, <3>3 DEF BusTypeOK, Entry
    <3>5. m \notin Fetched(d)'
      BY <3>2, <3>3, <3>4 DEF Stranded, Fetched
    <3>6. m \notin Fetched(d)
      BY <1>10, <3>3, <3>5
    <3>7. QED BY <3>2, <3>3, <3>4, <3>6 DEF Stranded
  <2>2. QED BY <1>1, <1>4, <2>1, NoneStranded DEF RedisInv
<1>16. Undisturbed'
  <2>1. SUFFICES ASSUME ~overtaken, NEW d \in Consumers
                 PROVE  /\ \A m \in Fetched(d)' : m[2] \in DOMAIN pending'[m[1]]
                                                  /\ pending'[m[1]][m[2]].owner = d
                        /\ \A i, j \in DOMAIN backlog[d] : backlog[d][i] = backlog[d][j] => i = j
                        /\ \A i \in DOMAIN backlog[d] : backlog[d][i] # held'[d]
    <3>1. overtaken' = overtaken /\ backlog' = backlog
      BY <1>4
    <3>2. QED BY <3>1 DEF Undisturbed
  <2>2. \A x \in Consumers :
          /\ \A m \in Fetched(x) : m[2] \in DOMAIN pending[m[1]] /\ pending[m[1]][m[2]].owner = x
          /\ \A i, j \in DOMAIN backlog[x] : backlog[x][i] = backlog[x][j] => i = j
          /\ \A i \in DOMAIN backlog[x] : backlog[x][i] # held[x]
    BY <2>1 DEF RedisInv, Undisturbed
  <2>3. backlog[d] \in Seq(Channels \X Nat) /\ \A i \in DOMAIN backlog[d] : backlog[d][i] \in Channels \X Nat
    BY <1>1, LenProperties, ElementOfSeq DEF Types
  <2>4. \A i \in DOMAIN backlog[d] : backlog[d][i] # held'[d]
    BY <1>7, <2>2, <2>3, NothingAssumption
  <2>5. ASSUME NEW m \in Fetched(d)'
        PROVE  m[2] \in DOMAIN pending'[m[1]] /\ pending'[m[1]][m[2]].owner = d
    <3>1. m \in Fetched(d) /\ m[1] \in Channels /\ m[2] \in DOMAIN pending[m[1]]
          /\ pending[m[1]][m[2]].owner = d
      BY <1>11, <2>2, ChannelFacts DEF RedisInv, Handed
    <3>2. m # <<ch, k>>
      <4>1. CASE d = c
        BY <1>3, <1>10, <2>2, <4>1 DEF Range
      <4>2. CASE d # c
        <5>1. SUFFICES ASSUME m = <<ch, k>> PROVE FALSE
          OBVIOUS
        <5>2. m \in Fetched(c)
          BY <1>8, <5>1
        <5>3. pending[m[1]][m[2]].owner = c
          BY <2>2, <5>2
        <5>4. QED BY <3>1, <4>2, <5>3
      <4>3. QED BY <4>1, <4>2
    <3>3. ~(m[1] = ch /\ m[2] = k)
      <4>1. m \in Channels \X Nat
        <5>1. Fetched(d) \subseteq Channels \X Nat
          BY <1>1, <2>3 DEF Fetched, Range
        <5>2. QED BY <3>1, <5>1
      <4>2. QED BY <3>2, <4>1
    <3>4. QED BY <1>5, <3>1, <3>3
  <2>6. QED BY <2>2, <2>4, <2>5
<1>17. QED BY <1>9, <1>13, <1>14, <1>15, <1>16 DEF RedisInv

(* What a consumer had fetched when it was killed is all that is stranded. *)
LEMMA CrashStep ==
  ASSUME RedisInv, NEW c \in Consumers, RedisCrash(c)
  PROVE  RedisInv'
<1>1. /\ crashes' = crashes + 1 /\ live' = live \ {c}
      /\ held' = [held EXCEPT ![c] = Nothing]
      /\ backlog' = [backlog EXCEPT ![c] = <<>>]
      /\ scan' = [scan EXCEPT ![c] = 0]
      /\ UNCHANGED <<log, cursor, pending, acked, overtaken>>
  BY DEF RedisCrash, Crash, Drop
<1>2. /\ Types /\ BusTypeOK /\ crashes \in Nat /\ backlog \in [Consumers -> Seq(Channels \X Nat)]
      /\ held \in [Consumers -> {Nothing} \union (Channels \X Nat)] /\ scan \in [Consumers -> Nat]
  BY DEF RedisInv, Types, BusTypeOK
<1>3. /\ held' \in [Consumers -> {Nothing} \union (Channels \X Nat)]
      /\ backlog' \in [Consumers -> Seq(Channels \X Nat)] /\ scan' \in [Consumers -> Nat]
      /\ held'[c] = Nothing /\ backlog'[c] = <<>> /\ scan'[c] = 0
      /\ \A d \in Consumers \ {c} : held'[d] = held[d] /\ backlog'[d] = backlog[d] /\ scan'[d] = scan[d]
  BY <1>1, <1>2
<1>4. Types'
  BY <1>1, <1>2, <1>3 DEF Types, BusTypeOK, NothingLost
<1>5. Fetched(c)' = {} /\ \A d \in Consumers \ {c} : Fetched(d)' = Fetched(d) /\ Asked(d)' = Asked(d)
  BY <1>3 DEF Fetched, Range, Asked
<1>6. Handed'
  BY <1>1, <1>5 DEF RedisInv, Handed
<1>7. Portions'
  <2>1. ASSUME NEW d \in Consumers
        PROVE  /\ scan'[d] <= Len(Subs[d]) + 1 /\ (scan'[d] # 0 => held'[d] = Nothing)
               /\ IsFiniteSet(Fetched(d)') /\ Cardinality(Fetched(d)') <= Prefetch * Asked(d)'
    <3>1. CASE d = c
      <4>1. Len(Subs[d]) \in Nat /\ Asked(d)' = Len(Subs[d])
        BY <1>3, <3>1, LongestFacts DEF Asked
      <4>2. Prefetch * Len(Subs[d]) \in Nat
        BY <4>1, PrefetchAssumption
      <4>3. IsFiniteSet({}) /\ Cardinality({}) = 0
        BY FS_EmptySet
      <4>4. Fetched(d)' = {} /\ 0 <= Prefetch * Asked(d)'
        BY <1>5, <3>1, <4>1, <4>2
      <4>5. QED BY <1>3, <3>1, <4>1, <4>3, <4>4
    <3>2. CASE d # c
      BY <1>3, <1>5, <3>2 DEF RedisInv, Portions
    <3>3. QED BY <3>1, <3>2
  <2>2. QED BY <2>1 DEF Portions
<1>8. Stranded' \subseteq Stranded \union Fetched(c)
  <2>1. ASSUME NEW m \in Stranded', m \notin Fetched(c) PROVE m \in Stranded
    <3>1. PICK x \in Channels : m \in {x} \X DOMAIN pending[x]
      BY <1>1 DEF Stranded
    <3>2. pending[m[1]][m[2]].owner \in Consumers
      BY <1>2, <3>1 DEF BusTypeOK, Entry
    <3>3. PICK d \in Consumers : d = pending[m[1]][m[2]].owner
      BY <3>2
    <3>4. m \notin Fetched(d)'
      BY <1>1, <3>3 DEF Stranded, Fetched
    <3>5. m \notin Fetched(d)
      BY <1>5, <2>1, <3>4
    <3>6. QED BY <3>1, <3>3, <3>5 DEF Stranded
  <2>2. QED BY <2>1
<1>9. Bounded'
  <2> DEFINE a == Cardinality(Stranded)
             b == Cardinality(Fetched(c))
             e == Cardinality(Stranded')
             k == Prefetch * Longest
  <2>1. IsFiniteSet(Stranded) /\ IsFiniteSet(Fetched(c)) /\ a \in Nat /\ b \in Nat
    BY FS_CardinalityType DEF RedisInv, Bounded, Portions
  <2>2. /\ IsFiniteSet(Stranded \union Fetched(c)) /\ IsFiniteSet(Stranded \cap Fetched(c))
        /\ Cardinality(Stranded \union Fetched(c)) = a + b - Cardinality(Stranded \cap Fetched(c))
        /\ Cardinality(Stranded \cap Fetched(c)) \in Nat
        /\ Cardinality(Stranded \union Fetched(c)) \in Nat
    <3>1. IsFiniteSet(Stranded \cap Fetched(c))
      BY <2>1, FS_Intersection
    <3>2. QED BY <2>1, <3>1, FS_Union, FS_CardinalityType
  <2>3. IsFiniteSet(Stranded') /\ e <= Cardinality(Stranded \union Fetched(c)) /\ e \in Nat
    BY <1>8, <2>2, FS_Subset, FS_CardinalityType
  <2>4. b <= k /\ k \in Nat
    <3>1. /\ Longest \in Nat /\ Len(Subs[c]) \in Nat /\ Len(Subs[c]) <= Longest
          /\ Prefetch \in Nat /\ scan[c] \in Nat
      BY <1>2, LongestFacts, PrefetchAssumption
    <3>2. scan[c] <= Len(Subs[c]) + 1 /\ b <= Prefetch * Asked(c)
      BY DEF RedisInv, Portions
    <3>3. Asked(c) \in Nat /\ Asked(c) <= Longest
      BY <3>1, <3>2 DEF Asked
    <3>4. \A p, x, y \in Nat : x <= y => p * x \in Nat /\ p * y \in Nat /\ p * x <= p * y
      OBVIOUS
    <3>5. Prefetch * Asked(c) \in Nat /\ k \in Nat /\ Prefetch * Asked(c) <= k
      BY <3>1, <3>3, <3>4
    <3>6. QED BY <2>1, <3>2, <3>5
  <2>5. a <= crashes * k
    BY DEF RedisInv, Bounded
  <2> HIDE DEF a, b, e, k
  <2>6. e <= a + b
    BY <2>1, <2>2, <2>3
  <2>7. crashes * k \in Nat /\ (crashes + 1) * k = crashes * k + k
    BY <1>2, <2>4
  <2>8. e <= (crashes + 1) * k
    BY <2>1, <2>3, <2>4, <2>5, <2>6, <2>7
  <2>9. e <= crashes' * k
    BY <1>1, <2>8
  <2>10. QED BY <2>3, <2>9 DEF Bounded, Longest, e, k
<1>10. Undisturbed'
  <2>1. SUFFICES ASSUME ~overtaken, NEW d \in Consumers
                 PROVE  /\ \A m \in Fetched(d)' : m[2] \in DOMAIN pending[m[1]]
                                                  /\ pending[m[1]][m[2]].owner = d
                        /\ \A i, j \in DOMAIN backlog'[d] : backlog'[d][i] = backlog'[d][j] => i = j
                        /\ \A i \in DOMAIN backlog'[d] : backlog'[d][i] # held'[d]
    BY <1>1 DEF Undisturbed
  <2>2. CASE d = c
    BY <1>3, <1>5, <2>2
  <2>3. CASE d # c
    <3>1. Fetched(d)' = Fetched(d) /\ backlog'[d] = backlog[d] /\ held'[d] = held[d]
      BY <1>3, <1>5, <2>3
    <3>2. /\ \A m \in Fetched(d) : m[2] \in DOMAIN pending[m[1]] /\ pending[m[1]][m[2]].owner = d
          /\ \A i, j \in DOMAIN backlog[d] : backlog[d][i] = backlog[d][j] => i = j
          /\ \A i \in DOMAIN backlog[d] : backlog[d][i] # held[d]
      BY <2>1 DEF RedisInv, Undisturbed
    <3>3. QED BY <3>1, <3>2
  <2>4. QED BY <2>2, <2>3
<1>11. QED BY <1>4, <1>6, <1>7, <1>9, <1>10 DEF RedisInv
-----------------------------------------------------------------------------
(* What a claim takes of a channel is pending there, and no more than a    *)
(* read would have brought.                                                *)
LEMMA ClaimableFacts ==
  ASSUME Types, NEW ch \in Channels
  PROVE  /\ Claimable(ch) \subseteq DOMAIN pending[ch] /\ Claimable(ch) \subseteq Nat
         /\ Claimable(ch) \subseteq 1 .. cursor[ch]
         /\ IsFiniteSet(Claimable(ch)) /\ Cardinality(Claimable(ch)) <= Prefetch
<1> DEFINE E == Claimable(ch)
           X == Expired(ch)
<1>1. cursor[ch] \in Nat /\ DOMAIN pending[ch] \subseteq 1 .. cursor[ch]
  BY DEF Types, BusTypeOK
<1>2. X \subseteq DOMAIN pending[ch] /\ X \subseteq Nat /\ IsFiniteSet(X) /\ E \subseteq X
  <2>1. X \subseteq 1 .. cursor[ch] /\ X \subseteq DOMAIN pending[ch] /\ E \subseteq X
    BY <1>1 DEF Expired, Claimable
  <2>2. IsFiniteSet(1 .. cursor[ch]) /\ 1 .. cursor[ch] \subseteq Nat
    BY <1>1, FS_Interval
  <2>3. IsFiniteSet(X)
    BY <2>1, <2>2, FS_Subset
  <2>4. QED BY <2>1, <2>2, <2>3
<1>3. IsFiniteSet(E) /\ Cardinality(E) \in Nat
  BY <1>2, FS_Subset, FS_CardinalityType
<1>4. ClaimMost \in Nat \ {0} /\ Prefetch \in Nat /\ ClaimMost <= Prefetch
  BY PrefetchAssumption
<1>5. Cardinality(E) <= ClaimMost
  <2>1. CASE E = {}
    BY <1>4, <2>1, FS_EmptySet
  <2>2. CASE E # {}
    <3>1. E \subseteq Nat
      BY <1>2
    <3>2. PICK g \in E : \A n \in E : n <= g
      <4> HIDE DEF E
      <4>1. QED BY <1>3, <2>2, <3>1, Greatest
    <3> DEFINE B == {j \in X : j < g}
    <3>3. Cardinality(B) < ClaimMost
      BY <3>2 DEF Claimable
    <3>4. E \ {g} \subseteq B
      <4>1. ASSUME NEW n \in E \ {g} PROVE n < g
        <5>1. n <= g /\ n # g /\ n \in Nat /\ g \in Nat
          BY <3>1, <3>2
        <5>2. QED BY <5>1
      <4>2. QED BY <1>2, <4>1
    <3>5. IsFiniteSet(B)
      BY <1>2, FS_Subset
    <3> HIDE DEF E, B
    <3>6. Cardinality(E \ {g}) = Cardinality(E) - 1
      BY <1>3, <3>2, FS_RemoveElement
    <3>7. Cardinality(E \ {g}) <= Cardinality(B) /\ Cardinality(B) \in Nat
      BY <3>4, <3>5, FS_Subset, FS_CardinalityType
    <3>8. QED BY <1>3, <1>4, <3>3, <3>6, <3>7
  <2>3. QED BY <2>1, <2>2
<1>6. Cardinality(E) <= Prefetch
  BY <1>3, <1>4, <1>5
<1>7. QED BY <1>1, <1>2, <1>3, <1>6

(* What a claim takes comes on top of what the scan has brought so far.    *)
LEMMA ClaimStep ==
  ASSUME RedisInv, NEW c \in Consumers, Client(c), Claim(c)
  PROVE  RedisInv'
<1> DEFINE i  == IF scan[c] = 0 THEN 1 ELSE scan[c]
           ch == Channel(c, i)
           E  == Claimable(ch)
           N  == {ch} \X E
<1>1. /\ i <= Len(Subs[c]) /\ held[c] = Nothing /\ (scan[c] = 0 => backlog[c] = <<>>)
      /\ pending' = [pending EXCEPT ![ch] = Assign(pending[ch], E, c)]
      /\ backlog' = [backlog EXCEPT ![c] = backlog[c] \o InOrder(ch, E)]
      /\ scan' = [scan EXCEPT ![c] = IF i = Len(Subs[c]) /\ backlog'[c] # <<>> THEN 0 ELSE i + 1]
      /\ (overtaken' = (overtaken \/ \E d \in Consumers : Fetched(d) \cap N # {}))
      /\ UNCHANGED <<log, cursor, acked, held, live, crashes>>
  BY Zenon DEF Client, Claim, Enqueue
<1>2. /\ Types /\ BusTypeOK /\ crashes \in Nat /\ backlog \in [Consumers -> Seq(Channels \X Nat)]
      /\ held \in [Consumers -> {Nothing} \union (Channels \X Nat)] /\ scan \in [Consumers -> Nat]
      /\ DOMAIN pending = Channels
  BY DEF RedisInv, Types, BusTypeOK
<1>3. i \in 1 .. Len(Subs[c]) /\ i \in Nat /\ Len(Subs[c]) \in Nat /\ i - 1 = IF scan[c] = 0 THEN 0 ELSE scan[c] - 1
  <2>1. scan[c] \in Nat /\ Len(Subs[c]) \in Nat
    BY <1>2, LongestFacts
  <2>2. QED BY <1>1, <2>1
<1>4. ch \in Channels /\ ch \in Readers[c]
  <2>1. i \in DOMAIN Subs[c]
    BY <1>3, SubsAssumption, LenProperties
  <2>2. PICK j \in DOMAIN Subs[c] : j = i
    BY <2>1
  <2>3. <<Subs[c][j], GroupOf[c]>> \in Readers[c] /\ <<Subs[c][j], GroupOf[c]>> \in Channels
    <3>1. j \in Nat
      BY <1>3, <2>2
    <3>2. <<Subs[c][j], GroupOf[c]>> \in Readers[c]
      BY <3>1, ChannelFacts
    <3>3. QED BY <3>2, ChannelFacts
  <2>4. ch = <<Subs[c][j], GroupOf[c]>>
    BY <2>2 DEF Channel
  <2>5. QED BY <2>3, <2>4
<1> HIDE DEF i, ch
<1>5. /\ E \subseteq DOMAIN pending[ch] /\ E \subseteq Nat /\ E \subseteq 1 .. cursor[ch]
      /\ IsFiniteSet(E) /\ Cardinality(E) <= Prefetch
  BY <1>2, <1>4, ClaimableFacts
<1> HIDE DEF E
<1>6. /\ InOrder(ch, E) \in Seq(N) /\ Range(InOrder(ch, E)) = N /\ Once(InOrder(ch, E))
  BY <1>5, InOrderFacts
<1>7. N \subseteq Channels \X Nat /\ InOrder(ch, E) \in Seq(Channels \X Nat)
  <2>1. N \subseteq Channels \X Nat
    BY <1>4, <1>5
  <2> HIDE DEF N
  <2>2. QED BY <1>6, <2>1
<1>8. /\ IsFiniteSet(N) /\ Cardinality(N) <= Prefetch /\ Cardinality(N) \in Nat
  <2>1. IsFiniteSet({ch}) /\ Cardinality({ch}) = 1
    BY FS_Singleton
  <2>2. IsFiniteSet(N) /\ Cardinality(N) = Cardinality({ch}) * Cardinality(E)
    BY <1>5, <2>1, FS_Product
  <2>3. Cardinality(E) \in Nat
    BY <1>5, FS_CardinalityType
  <2>4. QED BY <1>5, <2>1, <2>2, <2>3
<1>9. /\ backlog[c] \in Seq(Channels \X Nat)
      /\ backlog[c] \o InOrder(ch, E) \in Seq(Channels \X Nat)
      /\ Range(backlog[c] \o InOrder(ch, E)) = Range(backlog[c]) \union N
      /\ Once(backlog[c]) /\ Range(backlog[c]) \cap N = {} => Once(backlog[c] \o InOrder(ch, E))
  <2>1. backlog[c] \in Seq(Channels \X Nat)
    BY <1>2
  <2> DEFINE t == InOrder(ch, E)
  <2>2. t \in Seq(Channels \X Nat) /\ Range(t) = N /\ Once(t)
    BY <1>6, <1>7
  <2> HIDE DEF t, N
  <2>3. /\ backlog[c] \o t \in Seq(Channels \X Nat)
        /\ Range(backlog[c] \o t) = Range(backlog[c]) \union Range(t)
        /\ Once(backlog[c]) /\ Once(t) /\ Range(backlog[c]) \cap Range(t) = {} => Once(backlog[c] \o t)
    BY <2>1, <2>2, Joined
  <2>4. QED BY <2>1, <2>2, <2>3 DEF t
<1>10. /\ backlog' \in [Consumers -> Seq(Channels \X Nat)]
       /\ backlog'[c] = backlog[c] \o InOrder(ch, E)
       /\ \A d \in Consumers \ {c} : backlog'[d] = backlog[d]
  BY <1>1, <1>2, <1>9
<1>11. /\ scan' \in [Consumers -> Nat]
       /\ scan'[c] = IF i = Len(Subs[c]) /\ backlog'[c] # <<>> THEN 0 ELSE i + 1
       /\ \A d \in Consumers \ {c} : scan'[d] = scan[d]
  BY <1>1, <1>2, <1>3
<1>12. /\ DOMAIN pending' = Channels
       /\ \A x \in Channels \ {ch} : pending'[x] = pending[x]
       /\ \A x \in Channels : DOMAIN pending'[x] = DOMAIN pending[x]
       /\ \A k \in DOMAIN pending[ch] :
            pending'[ch][k] = IF k \in E THEN [owner |-> c, idle |-> 0] ELSE pending[ch][k]
  <2>1. /\ DOMAIN pending' = Channels /\ pending'[ch] = Assign(pending[ch], E, c)
        /\ \A x \in Channels \ {ch} : pending'[x] = pending[x]
    BY <1>1, <1>2, <1>4
  <2>2. DOMAIN pending[ch] \union E = DOMAIN pending[ch]
    BY <1>5
  <2>3. QED BY <2>1, <2>2 DEF Assign
<1>13. BusTypeOK'
  <2>1. ASSUME NEW x \in Channels
        PROVE  /\ DOMAIN pending'[x] \subseteq 1 .. cursor[x]
               /\ \A k \in DOMAIN pending'[x] : pending'[x][k] \in Entry
    <3>1. /\ DOMAIN pending[x] \subseteq 1 .. cursor[x]
          /\ \A k \in DOMAIN pending[x] : pending[x][k] \in Entry
      BY <1>2 DEF BusTypeOK
    <3>2. [owner |-> c, idle |-> 0] \in Entry
      BY ReclaimIdleAssumption DEF Entry
    <3>3. CASE x = ch
      BY <1>12, <3>1, <3>2, <3>3
    <3>4. CASE x # ch
      BY <1>12, <3>1, <3>4
    <3>5. QED BY <3>3, <3>4
  <2>2. QED BY <1>1, <1>2, <1>12, <2>1 DEF BusTypeOK
<1>14. NothingLost'
  BY <1>1, <1>2, <1>12 DEF Types, NothingLost
<1>15. Types'
  <2>1. overtaken' \in BOOLEAN /\ live' \subseteq Consumers /\ crashes' \in Nat
    BY <1>1, <1>2 DEF Types
  <2>2. QED BY <1>10, <1>11, <1>13, <1>14, <2>1 DEF Types
<1>16. /\ Fetched(c) = Range(backlog[c]) /\ Fetched(c)' = Fetched(c) \union N
       /\ \A d \in Consumers \ {c} : Fetched(d)' = Fetched(d) /\ Asked(d)' = Asked(d)
  <2>1. Fetched(c) = Range(backlog[c])
    BY <1>1 DEF Fetched
  <2>2. Fetched(c)' = Range(backlog[c]) \union N
    BY <1>1, <1>9, <1>10 DEF Fetched
  <2>3. \A d \in Consumers \ {c} : Fetched(d)' = Fetched(d) /\ Asked(d)' = Asked(d)
    BY <1>1, <1>10, <1>11 DEF Fetched, Asked
  <2>4. QED BY <2>1, <2>2, <2>3
<1>17. Handed'
  <2>1. ASSUME NEW d \in Consumers, NEW m \in Fetched(d)'
        PROVE  m[1] \in Readers[d] /\ m[2] \in 1 .. cursor[m[1]]
    <3>1. CASE m \in Fetched(d)
      BY <3>1 DEF RedisInv, Handed
    <3>2. CASE m \notin Fetched(d)
      <4>1. d = c /\ m \in N
        BY <1>16, <2>1, <3>2
      <4>2. m[1] = ch /\ m[2] \in E
        BY <4>1
      <4>3. QED BY <1>4, <1>5, <4>1, <4>2
    <3>3. QED BY <3>1, <3>2
  <2>2. QED BY <1>1, <2>1 DEF Handed
<1>18. Cardinality(Fetched(c)) <= Prefetch * (i - 1) /\ IsFiniteSet(Fetched(c)) /\ Cardinality(Fetched(c)) \in Nat
  <2>1. IsFiniteSet(Fetched(c)) /\ Cardinality(Fetched(c)) \in Nat /\ Cardinality(Fetched(c)) <= Prefetch * Asked(c)
    BY FS_CardinalityType DEF RedisInv, Portions
  <2>2. CASE scan[c] = 0
    <3>1. Range(<<>>) = {}
      BY DEF Range
    <3>2. Fetched(c) = {} /\ i - 1 = 0
      BY <1>1, <1>3, <1>16, <2>2, <3>1
    <3>3. Cardinality({}) = 0 /\ Prefetch * 0 = 0
      BY FS_EmptySet, PrefetchAssumption
    <3>4. QED BY <2>1, <3>2, <3>3
  <2>3. CASE scan[c] # 0
    <3>1. Asked(c) = i - 1
      BY <1>3, <2>3 DEF Asked
    <3>2. QED BY <2>1, <3>1
  <2>4. QED BY <2>2, <2>3
<1>19. IsFiniteSet(Fetched(c)') /\ Cardinality(Fetched(c)') <= Prefetch * i
  <2> DEFINE F == Fetched(c)
             a == Cardinality(F)
             b == Cardinality(N)
             e == Cardinality(F \cap N)
  <2>1. IsFiniteSet(F \cap N) /\ e \in Nat /\ a \in Nat /\ b \in Nat
    BY <1>8, <1>18, FS_Intersection, FS_CardinalityType
  <2>2. IsFiniteSet(F \union N) /\ Cardinality(F \union N) = a + b - e
    BY <1>8, <1>18, FS_Union
  <2>3. Prefetch \in Nat /\ Prefetch * (i - 1) \in Nat /\ Prefetch * i \in Nat
        /\ Prefetch * i = Prefetch * (i - 1) + Prefetch
    <3>1. i - 1 \in Nat /\ Prefetch \in Nat
      BY <1>3, PrefetchAssumption
    <3>2. Prefetch * (i - 1) \in Nat /\ Prefetch * i \in Nat
      BY <1>3, <3>1
    <3>3. \A p, x, y \in Nat : x = y + 1 => p * x = p * y + p
      OBVIOUS
    <3>4. i = (i - 1) + 1
      BY <1>3
    <3>5. Prefetch * i = Prefetch * (i - 1) + Prefetch
      BY <1>3, <3>1, <3>3, <3>4
    <3>6. QED BY <3>1, <3>2, <3>5
  <2>4. a <= Prefetch * (i - 1) /\ b <= Prefetch
    BY <1>8, <1>18
  <2> DEFINE y == Prefetch * (i - 1)
             z == Prefetch * i
  <2> HIDE DEF F, a, b, e, y, z
  <2>5. a + b - e <= z
    <3>1. y \in Nat /\ z \in Nat /\ z = y + Prefetch /\ a <= y /\ Prefetch \in Nat
      BY <2>3, <2>4 DEF y, z
    <3>2. QED BY <2>1, <2>4, <3>1
  <2>6. Cardinality(F \union N) <= z
    BY <2>2, <2>5
  <2>7. QED BY <1>16, <2>2, <2>6 DEF F, z
<1>20. Portions'
  <2>1. ASSUME NEW d \in Consumers
        PROVE  /\ scan'[d] <= Len(Subs[d]) + 1 /\ (scan'[d] # 0 => held'[d] = Nothing)
               /\ IsFiniteSet(Fetched(d)') /\ Cardinality(Fetched(d)') <= Prefetch * Asked(d)'
    <3>1. CASE d = c
      <4>1. scan'[c] <= Len(Subs[c]) + 1 /\ held'[c] = Nothing
        BY <1>1, <1>3, <1>11
      <4>2. Asked(c)' = i
        BY <1>3, <1>11 DEF Asked
      <4>3. QED BY <1>19, <3>1, <4>1, <4>2
    <3>2. CASE d # c
      <4>1. /\ scan[d] <= Len(Subs[d]) + 1 /\ (scan[d] # 0 => held[d] = Nothing)
            /\ IsFiniteSet(Fetched(d)) /\ Cardinality(Fetched(d)) <= Prefetch * Asked(d)
        BY DEF RedisInv, Portions
      <4>2. Fetched(d)' = Fetched(d) /\ Asked(d)' = Asked(d) /\ scan'[d] = scan[d] /\ held'[d] = held[d]
        BY <1>1, <1>11, <1>16, <3>2
      <4>3. QED BY <4>1, <4>2
    <3>3. QED BY <3>1, <3>2
  <2>2. QED BY <2>1 DEF Portions
<1>21. Bounded'
  <2>1. ASSUME NEW m \in Stranded' PROVE m \in Stranded
    <3>1. PICK x \in Channels : m \in {x} \X DOMAIN pending'[x]
      BY DEF Stranded
    <3>2. m[1] = x /\ m = <<x, m[2]>> /\ m[2] \in DOMAIN pending[x] /\ m \in {x} \X DOMAIN pending[x]
      BY <1>12, <3>1
    <3>3. ~(x = ch /\ m[2] \in E)
      <4>1. SUFFICES ASSUME x = ch, m[2] \in E PROVE FALSE
        OBVIOUS
      <4>2. m \in Fetched(c)'
        BY <1>16, <3>2, <4>1
      <4>3. pending'[x][m[2]].owner = c
        BY <1>12, <3>2, <4>1
      <4>4. m \notin Fetched(c)'
        BY <3>2, <4>3 DEF Stranded, Fetched
      <4>5. QED BY <4>2, <4>4
    <3>4. pending'[x][m[2]] = pending[x][m[2]]
      BY <1>12, <3>2, <3>3
    <3>5. PICK d \in Consumers : d = pending[x][m[2]].owner
      BY <1>2, <3>2 DEF BusTypeOK, Entry
    <3>6. m \notin Fetched(d)'
      BY <3>2, <3>4, <3>5 DEF Stranded, Fetched
    <3>7. m \notin Fetched(d)
      BY <1>16, <3>6
    <3>8. QED BY <3>2, <3>5, <3>7 DEF Stranded
  <2>2. QED BY <1>1, <1>2, <2>1, NoneStranded DEF RedisInv
<1>22. Undisturbed'
  <2>1. SUFFICES ASSUME ~overtaken', NEW d \in Consumers
                 PROVE  /\ \A m \in Fetched(d)' : m[2] \in DOMAIN pending'[m[1]]
                                                  /\ pending'[m[1]][m[2]].owner = d
                        /\ Once(backlog'[d])
                        /\ \A j \in DOMAIN backlog'[d] : backlog'[d][j] # held'[d]
    BY DEF Undisturbed, Once
  <2>2. ~overtaken /\ \A x \in Consumers : Fetched(x) \cap N = {}
    BY <1>1, <2>1
  <2>3. /\ \A m \in Fetched(d) : m[2] \in DOMAIN pending[m[1]] /\ pending[m[1]][m[2]].owner = d
        /\ Once(backlog[d])
        /\ \A j \in DOMAIN backlog[d] : backlog[d][j] # held[d]
    BY <2>2 DEF RedisInv, Undisturbed, Once
  <2>4. ASSUME NEW m \in Fetched(d)'
        PROVE  m[2] \in DOMAIN pending'[m[1]] /\ pending'[m[1]][m[2]].owner = d
    <3>1. CASE m \in Fetched(d)
      <4>1. m[1] \in Channels /\ m[2] \in DOMAIN pending[m[1]] /\ pending[m[1]][m[2]].owner = d
        BY <2>3, <3>1, ChannelFacts DEF RedisInv, Handed
      <4>2. ~(m[1] = ch /\ m[2] \in E)
        <5>1. m \in Channels \X Nat
          <6>1. backlog[d] \in Seq(Channels \X Nat) /\ held[d] \in {Nothing} \union (Channels \X Nat)
            BY <1>2
          <6>2. \A j \in DOMAIN backlog[d] : backlog[d][j] \in Channels \X Nat
            BY <6>1, LenProperties, ElementOfSeq
          <6>3. QED BY <3>1, <6>1, <6>2 DEF Fetched, Range
        <5>2. QED BY <2>2, <3>1, <5>1
      <4>3. QED BY <1>12, <4>1, <4>2
    <3>2. CASE m \notin Fetched(d)
      <4>1. d = c /\ m \in N
        BY <1>16, <2>4, <3>2
      <4>2. m[1] = ch /\ m[2] \in E
        BY <4>1
      <4>3. m[2] \in DOMAIN pending[ch] /\ m[2] \in DOMAIN pending'[ch]
        BY <1>4, <1>5, <1>12, <4>2
      <4>4. pending'[ch][m[2]] = [owner |-> c, idle |-> 0]
        BY <1>12, <4>2, <4>3
      <4>5. QED BY <4>1, <4>2, <4>3, <4>4
    <3>3. QED BY <3>1, <3>2
  <2>5. Once(backlog'[d])
    <3>1. CASE d = c
      BY <1>9, <1>10, <1>16, <2>2, <2>3, <3>1
    <3>2. CASE d # c
      BY <1>10, <2>3, <3>2
    <3>3. QED BY <3>1, <3>2
  <2>6. \A j \in DOMAIN backlog'[d] : backlog'[d][j] # held'[d]
    <3>1. CASE d = c
      <4>1. backlog'[c] \in Seq(Channels \X Nat) /\ held'[c] = Nothing
        BY <1>1, <1>10
      <4>2. \A j \in DOMAIN backlog'[c] : backlog'[c][j] \in Channels \X Nat
        BY <4>1, LenProperties, ElementOfSeq
      <4>3. QED BY <3>1, <4>1, <4>2, NothingAssumption
    <3>2. CASE d # c
      BY <1>1, <1>10, <2>3, <3>2
    <3>3. QED BY <3>1, <3>2
  <2>7. QED BY <2>4, <2>5, <2>6
<1>23. QED BY <1>15, <1>17, <1>20, <1>21, <1>22 DEF RedisInv

(* A read takes what nobody was handed yet, for a consumer that has nothing. *)
LEMMA ReadStep ==
  ASSUME RedisInv, NEW c \in Consumers, Client(c), Read(c)
  PROVE  RedisInv'
<1> DEFINE n == Len(Subs[c])
           R == Returned(c, n)
           New(ch) == MaxOf({cursor[ch]} \union Unread(ch))
<1>1. /\ held[c] = Nothing /\ backlog[c] = <<>>
      /\ cursor' = [ch \in Channels |-> IF ch \in Readers[c] THEN New(ch) ELSE cursor[ch]]
      /\ pending' = [ch \in Channels |->
                       IF ch \in Readers[c] THEN Assign(pending[ch], Unread(ch), c) ELSE pending[ch]]
      /\ backlog' = [backlog EXCEPT ![c] = Reply(c)]
      /\ scan' = [scan EXCEPT ![c] = 0]
      /\ UNCHANGED <<log, acked, held, overtaken, live, crashes>>
  BY Zenon DEF Client, Read
<1>2. /\ Types /\ BusTypeOK /\ crashes \in Nat /\ backlog \in [Consumers -> Seq(Channels \X Nat)]
      /\ held \in [Consumers -> {Nothing} \union (Channels \X Nat)] /\ scan \in [Consumers -> Nat]
      /\ DOMAIN pending = Channels
  BY DEF RedisInv, Types, BusTypeOK
<1>3. /\ Reply(c) \in Seq(Channels \X Nat) /\ Range(Reply(c)) = R /\ Once(Reply(c))
      /\ IsFiniteSet(R) /\ Cardinality(R) <= Prefetch * n
  BY <1>2, ReplyFacts
<1>4. \A ch \in Channels :
        /\ Unread(ch) \subseteq Nat /\ Unread(ch) \cap (1 .. cursor[ch]) = {}
        /\ New(ch) \in Nat /\ New(ch) <= Len(log[ch[1]])
        /\ 1 .. New(ch) = (1 .. cursor[ch]) \union Unread(ch)
  BY <1>2, UnreadFacts
<1> HIDE DEF New
<1>5. \A m : m \in R <=> m \in Channels \X Nat /\ m[1] \in Readers[c] /\ m[2] \in Unread(m[1])
  <2>1. ASSUME NEW i \in 1 .. n PROVE Channel(c, i) \in Readers[c]
    <3>1. i \in DOMAIN Subs[c] /\ i \in Nat
      BY SubsAssumption, LenProperties
    <3>2. QED BY <3>1, ChannelFacts DEF Channel
  <2>2. ASSUME NEW ch \in Readers[c] PROVE \E i \in 1 .. n : ch = Channel(c, i)
    <3>1. PICK s \in Range(Subs[c]) : ch = <<s, GroupOf[c]>>
      BY DEF Readers
    <3>2. PICK i \in DOMAIN Subs[c] : Subs[c][i] = s
      BY DEF Range
    <3>3. i \in 1 .. n
      BY SubsAssumption, LenProperties
    <3>4. QED BY <3>1, <3>2, <3>3 DEF Channel
  <2>3. ASSUME NEW m \in R
        PROVE  m \in Channels \X Nat /\ m[1] \in Readers[c] /\ m[2] \in Unread(m[1])
    BY <2>1 DEF Returned
  <2>4. ASSUME NEW m \in Channels \X Nat, m[1] \in Readers[c], m[2] \in Unread(m[1])
        PROVE  m \in R
    <3>1. PICK i \in 1 .. n : m[1] = Channel(c, i)
      BY <2>2, <2>4
    <3>2. QED BY <2>4, <3>1 DEF Returned
  <2>5. QED BY <2>3, <2>4
<1> HIDE DEF R
<1>6. \A ch \in Channels :
        cursor'[ch] = IF ch \in Readers[c] THEN New(ch) ELSE cursor[ch]
  BY <1>1
<1>7. /\ DOMAIN pending' = Channels
      /\ \A ch \in Channels \ Readers[c] : pending'[ch] = pending[ch]
      /\ \A ch \in Readers[c] :
           /\ DOMAIN pending'[ch] = DOMAIN pending[ch] \union Unread(ch)
           /\ \A k \in DOMAIN pending'[ch] :
                pending'[ch][k] = IF k \in Unread(ch) THEN [owner |-> c, idle |-> 0] ELSE pending[ch][k]
  <2>1. \A ch \in Readers[c] : ch \in Channels
    BY ChannelFacts
  <2>2. QED BY <1>1, <2>1 DEF Assign
<1>8. /\ backlog' \in [Consumers -> Seq(Channels \X Nat)] /\ backlog'[c] = Reply(c)
      /\ scan' \in [Consumers -> Nat] /\ scan'[c] = 0
      /\ \A d \in Consumers \ {c} : backlog'[d] = backlog[d] /\ scan'[d] = scan[d]
  BY <1>1, <1>2, <1>3
<1>9. BusTypeOK'
  <2>1. ASSUME NEW ch \in Channels
        PROVE  /\ cursor'[ch] \in Nat /\ cursor'[ch] <= Len(log[ch[1]])
               /\ DOMAIN pending'[ch] \subseteq 1 .. cursor'[ch]
               /\ \A k \in DOMAIN pending'[ch] : pending'[ch][k] \in Entry
    <3>1. /\ cursor[ch] \in Nat /\ cursor[ch] <= Len(log[ch[1]])
          /\ DOMAIN pending[ch] \subseteq 1 .. cursor[ch]
          /\ \A k \in DOMAIN pending[ch] : pending[ch][k] \in Entry
      BY <1>2 DEF BusTypeOK
    <3>2. [owner |-> c, idle |-> 0] \in Entry
      BY ReclaimIdleAssumption DEF Entry
    <3>3. CASE ch \in Readers[c]
      <4>1. cursor'[ch] = New(ch) /\ cursor'[ch] \in Nat /\ cursor'[ch] <= Len(log[ch[1]])
        BY <1>4, <1>6, <3>3
      <4>2. DOMAIN pending'[ch] \subseteq 1 .. cursor'[ch]
        BY <1>4, <1>7, <3>1, <3>3, <4>1
      <4>3. \A k \in DOMAIN pending'[ch] : pending'[ch][k] \in Entry
        BY <1>7, <3>1, <3>2, <3>3
      <4>4. QED BY <4>1, <4>2, <4>3
    <3>4. CASE ch \notin Readers[c]
      BY <1>6, <1>7, <3>1, <3>4
    <3>5. QED BY <3>3, <3>4
  <2>2. cursor' \in [Channels -> Nat]
    BY <1>1, <2>1
  <2>3. QED BY <1>1, <1>2, <1>7, <2>1, <2>2 DEF BusTypeOK
<1>10. NothingLost'
  <2>1. ASSUME NEW ch \in Channels
        PROVE  /\ acked[ch] \union DOMAIN pending'[ch] = 1 .. cursor'[ch]
               /\ acked[ch] \cap DOMAIN pending'[ch] = {}
    <3>1. /\ acked[ch] \union DOMAIN pending[ch] = 1 .. cursor[ch]
          /\ acked[ch] \cap DOMAIN pending[ch] = {}
      BY <1>2 DEF Types, NothingLost
    <3>2. CASE ch \in Readers[c]
      <4>1. acked[ch] \cap Unread(ch) = {}
        BY <1>4, <3>1
      <4>2. 1 .. cursor'[ch] = (1 .. cursor[ch]) \union Unread(ch)
        BY <1>4, <1>6, <3>2
      <4>3. DOMAIN pending'[ch] = DOMAIN pending[ch] \union Unread(ch)
        BY <1>7, <3>2
      <4>4. QED BY <3>1, <4>1, <4>2, <4>3, Zenon
    <3>3. CASE ch \notin Readers[c]
      BY <1>6, <1>7, <3>1, <3>3
    <3>4. QED BY <3>2, <3>3
  <2>2. QED BY <1>1, <2>1 DEF NothingLost
<1>11. Types'
  <2>1. overtaken' \in BOOLEAN /\ live' \subseteq Consumers /\ crashes' \in Nat
    BY <1>1, <1>2 DEF Types
  <2>2. QED BY <1>8, <1>9, <1>10, <2>1 DEF Types
<1>12. /\ Fetched(c)' = R
       /\ \A d \in Consumers \ {c} : Fetched(d)' = Fetched(d) /\ Asked(d)' = Asked(d)
  BY <1>1, <1>3, <1>8 DEF Fetched, Asked
<1>13. Handed'
  <2>1. ASSUME NEW d \in Consumers, NEW m \in Fetched(d)'
        PROVE  m[1] \in Readers[d] /\ m[2] \in 1 .. cursor'[m[1]]
    <3>1. \A ch \in Readers[d] : 1 .. cursor[ch] \subseteq 1 .. cursor'[ch]
      <4>1. \A ch \in Readers[d] : ch \in Channels
        BY ChannelFacts
      <4>2. QED BY <1>4, <1>6, <4>1
    <3>2. CASE d = c
      <4>1. m \in R
        BY <1>12, <2>1, <3>2
      <4>2. m[1] \in Readers[c] /\ m[1] \in Channels /\ m[2] \in Unread(m[1])
        BY <1>5, <4>1
      <4>3. QED BY <1>4, <1>6, <3>2, <4>2
    <3>3. CASE d # c
      <4>1. m \in Fetched(d)
        BY <1>12, <2>1, <3>3
      <4>2. m[1] \in Readers[d] /\ m[2] \in 1 .. cursor[m[1]]
        BY <4>1 DEF RedisInv, Handed
      <4>3. QED BY <3>1, <4>2
    <3>4. QED BY <3>2, <3>3
  <2>2. QED BY <2>1 DEF Handed
<1>14. Portions'
  <2>1. ASSUME NEW d \in Consumers
        PROVE  /\ scan'[d] <= Len(Subs[d]) + 1 /\ (scan'[d] # 0 => held'[d] = Nothing)
               /\ IsFiniteSet(Fetched(d)') /\ Cardinality(Fetched(d)') <= Prefetch * Asked(d)'
    <3>1. CASE d = c
      <4>1. n \in Nat /\ Asked(c)' = n /\ scan'[c] <= n + 1
        BY <1>8, LongestFacts DEF Asked
      <4>2. IsFiniteSet(Fetched(c)') /\ Cardinality(Fetched(c)') <= Prefetch * Asked(c)'
        BY <1>3, <1>12, <4>1
      <4>3. QED BY <1>8, <3>1, <4>1, <4>2
    <3>2. CASE d # c
      <4>1. /\ scan[d] <= Len(Subs[d]) + 1 /\ (scan[d] # 0 => held[d] = Nothing)
            /\ IsFiniteSet(Fetched(d)) /\ Cardinality(Fetched(d)) <= Prefetch * Asked(d)
        BY DEF RedisInv, Portions
      <4>2. Fetched(d)' = Fetched(d) /\ Asked(d)' = Asked(d) /\ scan'[d] = scan[d] /\ held'[d] = held[d]
        BY <1>1, <1>8, <1>12, <3>2
      <4>3. QED BY <4>1, <4>2
    <3>3. QED BY <3>1, <3>2
  <2>2. QED BY <2>1 DEF Portions
<1>15. Bounded'
  <2>1. ASSUME NEW m \in Stranded' PROVE m \in Stranded
    <3>1. PICK x \in Channels : m \in {x} \X DOMAIN pending'[x]
      BY DEF Stranded
    <3>2. m[1] = x /\ m = <<x, m[2]>> /\ m[2] \in DOMAIN pending'[x] /\ m[2] \in Nat
      <4>1. m[1] = x /\ m = <<x, m[2]>> /\ m[2] \in DOMAIN pending'[x]
        BY <3>1
      <4>2. DOMAIN pending'[x] \subseteq Nat
        BY <1>9 DEF BusTypeOK
      <4>3. QED BY <4>1, <4>2
    <3>3. ~(x \in Readers[c] /\ m[2] \in Unread(x))
      <4>1. SUFFICES ASSUME x \in Readers[c], m[2] \in Unread(x) PROVE FALSE
        OBVIOUS
      <4>2. m \in Fetched(c)'
        BY <1>5, <1>12, <3>1, <3>2, <4>1
      <4>3. pending'[x][m[2]].owner = c
        BY <1>7, <3>2, <4>1
      <4>4. m \notin Fetched(c)'
        BY <3>2, <4>3 DEF Stranded, Fetched
      <4>5. QED BY <4>2, <4>4
    <3>4. m[2] \in DOMAIN pending[x] /\ pending'[x][m[2]] = pending[x][m[2]] /\ m \in {x} \X DOMAIN pending[x]
      BY <1>7, <3>2, <3>3
    <3>5. PICK d \in Consumers : d = pending[x][m[2]].owner
      BY <1>2, <3>4 DEF BusTypeOK, Entry
    <3>6. m \notin Fetched(d)'
      BY <3>2, <3>4, <3>5 DEF Stranded, Fetched
    <3>7. m \notin Fetched(d)
      <4>1. Fetched(c) = {}
        <5>1. Range(<<>>) = {}
          BY DEF Range
        <5>2. QED BY <1>1, <5>1 DEF Fetched
      <4>2. QED BY <1>12, <3>6, <4>1
    <3>8. QED BY <3>2, <3>4, <3>5, <3>7 DEF Stranded
  <2>2. QED BY <1>1, <1>2, <2>1, NoneStranded DEF RedisInv
<1>16. Undisturbed'
  <2>1. SUFFICES ASSUME ~overtaken, NEW d \in Consumers
                 PROVE  /\ \A m \in Fetched(d)' : m[2] \in DOMAIN pending'[m[1]]
                                                  /\ pending'[m[1]][m[2]].owner = d
                        /\ Once(backlog'[d])
                        /\ \A j \in DOMAIN backlog'[d] : backlog'[d][j] # held'[d]
    BY <1>1 DEF Undisturbed, Once
  <2>2. CASE d = c
    <3>1. ASSUME NEW m \in R
          PROVE  m[2] \in DOMAIN pending'[m[1]] /\ pending'[m[1]][m[2]].owner = c
      BY <1>5, <1>7
    <3>2. \A j \in DOMAIN Reply(c) : Reply(c)[j] \in Channels \X Nat
      BY <1>3, LenProperties, ElementOfSeq
    <3>3. QED BY <1>1, <1>3, <1>8, <1>12, <2>2, <3>1, <3>2, NothingAssumption
  <2>3. CASE d # c
    <3>1. /\ \A m \in Fetched(d) : m[2] \in DOMAIN pending[m[1]] /\ pending[m[1]][m[2]].owner = d
          /\ Once(backlog[d]) /\ \A j \in DOMAIN backlog[d] : backlog[d][j] # held[d]
      BY <2>1 DEF RedisInv, Undisturbed, Once
    <3>2. Fetched(d)' = Fetched(d) /\ backlog'[d] = backlog[d] /\ held'[d] = held[d]
      BY <1>1, <1>8, <1>12, <2>3
    <3>3. ASSUME NEW m \in Fetched(d)
          PROVE  m[2] \in DOMAIN pending'[m[1]] /\ pending'[m[1]][m[2]] = pending[m[1]][m[2]]
      <4>1. m[1] \in Channels /\ m[2] \in 1 .. cursor[m[1]] /\ m[2] \in DOMAIN pending[m[1]]
        BY <3>1, ChannelFacts DEF RedisInv, Handed
      <4>2. m[2] \notin Unread(m[1])
        BY <1>4, <4>1
      <4>3. QED BY <1>7, <4>1, <4>2
    <3>4. QED BY <3>1, <3>2, <3>3
  <2>4. QED BY <2>2, <2>3
<1>17. QED BY <1>11, <1>13, <1>14, <1>15, <1>16 DEF RedisInv
-----------------------------------------------------------------------------
LEMMA RedisNextInv == RedisInv /\ [RedisNext]_redisVars => RedisInv'
<1>1. SUFFICES ASSUME RedisInv, [RedisNext]_redisVars PROVE RedisInv'
  OBVIOUS
<1>2. ASSUME NEW s \in Streams, NEW p \in Payloads, Produce(s, p), Others PROVE RedisInv'
  BY <1>1, <1>2, ProduceStep
<1>3. ASSUME NEW c \in Consumers, Client(c), Claim(c) PROVE RedisInv'
  BY <1>1, <1>3, ClaimStep
<1>4. ASSUME NEW c \in Consumers, Client(c), Read(c) PROVE RedisInv'
  BY <1>1, <1>4, ReadStep
<1>5. ASSUME NEW c \in Consumers, Client(c), Yield(c) PROVE RedisInv'
  BY <1>1, <1>5, YieldStep
<1>6. ASSUME NEW c \in Consumers, Complete(c), Others PROVE RedisInv'
  BY <1>1, <1>6, CompleteStep
<1>7. ASSUME NEW c \in Consumers, RedisCrash(c) PROVE RedisInv'
  BY <1>1, <1>7, CrashStep
<1>8. ASSUME NEW c \in Consumers, Restart(c), Others PROVE RedisInv'
  <2>1. UNCHANGED <<log, cursor, pending, acked, held, crashes, backlog, scan, overtaken>>
    BY <1>8 DEF Restart, Others, busVars
  <2>2. live' \subseteq Consumers
    BY <1>1, <1>8 DEF Restart, RedisInv, Types
  <2>3. QED BY <1>1, <2>1, <2>2, StillStep
<1>9. ASSUME Pass, Others PROVE RedisInv'
  BY <1>1, <1>9, PassStep
<1>10. CASE UNCHANGED redisVars
  <2>1. UNCHANGED <<log, cursor, pending, acked, held, crashes, backlog, scan, overtaken>>
        /\ live' = live
    BY <1>10 DEF redisVars, vars
  <2>2. live' \subseteq Consumers
    BY <1>1, <2>1 DEF RedisInv, Types
  <2>3. QED BY <1>1, <2>1, <2>2, StillStep
<1>11. QED
  BY <1>1, <1>2, <1>3, <1>4, <1>5, <1>6, <1>7, <1>8, <1>9, <1>10 DEF RedisNext

(* Every reachable state of the Redis bus satisfies the invariant.         *)
THEOREM RedisInvariant == RedisSpec => []RedisInv
<1>1. RedisInit => RedisInv
  BY RedisInitInv
<1>2. RedisInv /\ [RedisNext]_redisVars => RedisInv'
  BY RedisNextInv
<1>3. QED BY <1>1, <1>2, PTL DEF RedisSpec

(* A killed consumer leaves no more behind than one read of all its        *)
(* streams brings (XREADGROUP with count 64, bus.py): claims that go       *)
(* stream by stream never add to that, since a scan starts with an empty   *)
(* backlog and XAUTOCLAIM is given the smaller count.  For any prefetch,   *)
(* streams, consumers and crashes.                                         *)
THEOREM StrandingIsBounded == RedisSpec => []PrefetchStranded
<1>1. RedisInv => PrefetchStranded
  <2>1. SUFFICES ASSUME RedisInv PROVE PrefetchStranded
    OBVIOUS
  <2>2. crashes \in Nat /\ Prefetch \in Nat /\ Longest \in Nat
    BY <2>1, LongestFacts, PrefetchAssumption DEF RedisInv, Types
  <2>3. \A x, y, z \in Nat : x * (y * z) = x * y * z
    OBVIOUS
  <2>4. crashes * (Prefetch * Longest) = crashes * Prefetch * Longest
    BY <2>2, <2>3
  <2>5. Cardinality(Stranded) <= crashes * (Prefetch * Longest)
    BY <2>1 DEF RedisInv, Bounded
  <2>6. QED BY <2>4, <2>5 DEF PrefetchStranded, Longest
<1>2. QED BY <1>1, RedisInvariant, PTL

(* What a consumer is handed comes from its backlog, and what it fetched   *)
(* stays in the group's table as its own until it acks it, unless another  *)
(* consumer claims it meanwhile (the idle time of an entry in a backlog    *)
(* runs, bus.py): so only a claim from a consumer still at it hands out a  *)
(* message that is acked already.                                          *)
THEOREM OnlyTheOvertaken == RedisSpec => RedeliveredIfOvertaken
<1> DEFINE Step == \A c \in Consumers :
              held'[c] # held[c] /\ held'[c] # Nothing /\ held'[c][2] \in acked[held'[c][1]]
                => overtaken
<1>1. RedisInv /\ [RedisNext]_redisVars => [Step]_redisVars
  <2>1. SUFFICES ASSUME RedisInv, RedisNext, NEW c \in Consumers,
                        held'[c] # held[c], held'[c] # Nothing, ~overtaken
                 PROVE  held'[c][2] \notin acked[held'[c][1]]
    BY DEF Step
  <2>2. BusTypeOK /\ NothingLost /\ held \in [Consumers -> {Nothing} \union (Channels \X Nat)]
    BY <2>1 DEF RedisInv, Types, BusTypeOK
  <2>3. ASSUME NEW d \in Consumers, Yield(d) PROVE held'[c][2] \notin acked[held'[c][1]]
    <3>1. /\ held' = [held EXCEPT ![d] = Head(backlog[d])] /\ backlog[d] # <<>>
          /\ backlog[d] \in Seq(Channels \X Nat)
      BY <2>1, <2>3 DEF Yield, RedisInv, Types
    <3>2. d = c /\ held'[c] = Head(backlog[c])
      BY <2>1, <2>2, <3>1
    <3>3. Head(backlog[c]) \in Range(backlog[c])
      <4>1. Range(backlog[c]) = {Head(backlog[c])} \union Range(Tail(backlog[c]))
        BY <3>1, <3>2, FrontAndRest
      <4>2. QED BY <4>1
    <3>4. held'[c] \in Fetched(c)
      BY <3>2, <3>3 DEF Fetched
    <3>5. PICK m \in Fetched(c) : m = held'[c]
      BY <3>4
    <3>6. m[1] \in Channels /\ m[2] \in DOMAIN pending[m[1]]
      BY <2>1, ChannelFacts DEF RedisInv, Handed, Undisturbed
    <3>7. QED BY <2>2, <3>5, <3>6 DEF NothingLost
  <2>4. ASSUME NEW d \in Consumers, held' = [held EXCEPT ![d] = Nothing] PROVE FALSE
    BY <2>1, <2>2, <2>4
  <2>5. ASSUME held' = held PROVE FALSE
    BY <2>1, <2>5
  <2>6. ASSUME NEW s \in Streams, NEW p \in Payloads, Produce(s, p) PROVE FALSE
    BY <2>5, <2>6 DEF Produce, Publish
  <2>7. ASSUME NEW d \in Consumers, Claim(d) PROVE FALSE
    BY <2>5, <2>7 DEF Claim
  <2>8. ASSUME NEW d \in Consumers, Read(d) PROVE FALSE
    BY <2>5, <2>8 DEF Read
  <2>9. ASSUME NEW d \in Consumers, Complete(d) PROVE FALSE
    BY <2>4, <2>9 DEF Complete, Ack
  <2>10. ASSUME NEW d \in Consumers, RedisCrash(d) PROVE FALSE
    BY <2>4, <2>10 DEF RedisCrash, Crash, Drop
  <2>11. ASSUME NEW d \in Consumers, Restart(d) PROVE FALSE
    BY <2>5, <2>11 DEF Restart, busVars
  <2>12. ASSUME Pass PROVE FALSE
    BY <2>5, <2>12 DEF Pass, Tick
  <2>13. QED
    BY <2>1, <2>3, <2>6, <2>7, <2>8, <2>9, <2>10, <2>11, <2>12 DEF RedisNext
<1>2. QED BY <1>1, RedisInvariant, PTL DEF RedisSpec, RedeliveredIfOvertaken
=============================================================================
