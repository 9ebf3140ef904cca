----------------------------- MODULE ReplayProofs -----------------------------
(***************************************************************************)
(* Proofs about Recording and Replay, for any numbers of sessions, writes  *)
(* and commands: a stopped session is complete and stays as it is, a pass  *)
(* shows all of it in order, and the pump obeys pauses and seeks.          *)
(***************************************************************************)
EXTENDS Replay, FunctionTheorems, FiniteSetTheorems, SequenceTheorems, WellFoundedInduction, TLAPS

Below(p, q) == \A x \in ToSet(p), y \in ToSet(q) : x.n < y.n

\* What is in segments, and segments that are in the order they were recorded in.
Loaded(w) == {x \in Message : \E a \in DOMAIN w : x \in ToSet(w[a])}

Lined(w) ==
  /\ \A a \in DOMAIN w : InOrder(w[a])
  /\ \A a, b \in DOMAIN w : a < b => Below(w[a], w[b])

-----------------------------------------------------------------------------
(* Sequences of messages                                                   *)

LEMMA MessageFact ==
  ASSUME NEW x \in Message
  PROVE  x.kind \in Stream /\ x.stamp \in Nat /\ x.n \in Nat /\ x.n \in 1 .. MaxWrites
BY RecordingAssumption DEF Message

LEMMA EmptyFact == ToSet(<<>>) = {} /\ InOrder(<<>>) /\ <<>> \in Seq(Message)
<1>1. DOMAIN <<>> = {} /\ <<>> \in Seq(Message)
  OBVIOUS
<1>2. QED BY <1>1 DEF ToSet, InOrder

LEMMA ToSetFact ==
  ASSUME NEW S, NEW q \in Seq(S)
  PROVE  ToSet(q) \subseteq S /\ (\A a \in 1 .. Len(q) : q[a] \in ToSet(q)) /\ DOMAIN q = 1 .. Len(q)
BY DEF ToSet

LEMMA AppendFact ==
  ASSUME NEW q \in Seq(Message), NEW x \in Message, InOrder(q), \A y \in ToSet(q) : y.n < x.n
  PROVE  /\ Append(q, x) \in Seq(Message) /\ InOrder(Append(q, x))
         /\ ToSet(Append(q, x)) = ToSet(q) \cup {x}
<1> DEFINE r == Append(q, x)
<1>1. /\ r \in Seq(Message)
      /\ DOMAIN r = 1 .. Len(q) + 1 /\ DOMAIN q = 1 .. Len(q) /\ Len(q) \in Nat
      /\ \A a \in 1 .. Len(q) : r[a] = q[a] /\ q[a] \in Message
      /\ r[Len(q) + 1] = x
  OBVIOUS
<1> HIDE DEF r
<1>2. ToSet(r) = ToSet(q) \cup {x}
  BY <1>1 DEF ToSet
<1>3. ASSUME NEW a \in DOMAIN r, NEW b \in DOMAIN r, a < b PROVE r[a].n < r[b].n
  <2>1. a \in 1 .. Len(q) /\ r[a] = q[a] /\ q[a] \in ToSet(q)
    BY <1>1, <1>3 DEF ToSet
  <2>2. CASE b = Len(q) + 1
    BY <1>1, <2>1, <2>2
  <2>3. CASE b \in 1 .. Len(q)
    <3>1. q[a].n < q[b].n
      BY <1>1, <1>3, <2>1, <2>3 DEF InOrder
    <3>2. QED BY <1>1, <2>1, <2>3, <3>1
  <2>4. QED BY <1>1, <2>2, <2>3
<1>4. QED BY <1>1, <1>2, <1>3 DEF InOrder, r

LEMMA ConcatFact ==
  ASSUME NEW p \in Seq(Message), NEW q \in Seq(Message), InOrder(p), InOrder(q), Below(p, q)
  PROVE  /\ p \o q \in Seq(Message) /\ InOrder(p \o q)
         /\ ToSet(p \o q) = ToSet(p) \cup ToSet(q)
<1> DEFINE c == p \o q
<1>1. /\ c \in Seq(Message)
      /\ DOMAIN c = 1 .. Len(p) + Len(q) /\ DOMAIN p = 1 .. Len(p) /\ DOMAIN q = 1 .. Len(q)
      /\ Len(p) \in Nat /\ Len(q) \in Nat
      /\ \A a \in 1 .. Len(p) : c[a] = p[a]
      /\ \A a \in 1 .. Len(q) : c[Len(p) + a] = q[a]
  OBVIOUS
<1> HIDE DEF c
<1>2. \A a \in DOMAIN c : \/ a \in 1 .. Len(p) /\ c[a] = p[a]
                          \/ \E b \in 1 .. Len(q) : a = Len(p) + b /\ c[a] = q[b]
  <2> SUFFICES ASSUME NEW a \in DOMAIN c, a \notin 1 .. Len(p)
               PROVE  \E b \in 1 .. Len(q) : a = Len(p) + b /\ c[a] = q[b]
    BY <1>1
  <2>1. a - Len(p) \in 1 .. Len(q) /\ a = Len(p) + (a - Len(p))
    BY <1>1
  <2>2. QED BY <1>1, <2>1
<1>3. ToSet(c) = ToSet(p) \cup ToSet(q)
  <2>1. ToSet(c) \subseteq ToSet(p) \cup ToSet(q)
    <3> SUFFICES ASSUME NEW a \in DOMAIN c PROVE c[a] \in ToSet(p) \cup ToSet(q)
      BY DEF ToSet
    <3>1. CASE a \in 1 .. Len(p) /\ c[a] = p[a]
      BY <1>1, <3>1 DEF ToSet
    <3>2. ASSUME NEW b \in 1 .. Len(q), c[a] = q[b] PROVE c[a] \in ToSet(q)
      BY <1>1, <3>2 DEF ToSet
    <3>3. QED BY <1>2, <3>1, <3>2
  <2>2. \A a \in 1 .. Len(p) : a \in DOMAIN c
    BY <1>1
  <2>3. \A a \in 1 .. Len(q) : Len(p) + a \in DOMAIN c
    BY <1>1
  <2>4. ToSet(p) \subseteq ToSet(c)
    BY <1>1, <2>2 DEF ToSet
  <2>5. ToSet(q) \subseteq ToSet(c)
    BY <1>1, <2>3 DEF ToSet
  <2>6. QED BY <2>1, <2>4, <2>5
<1>4. ASSUME NEW a \in DOMAIN c, NEW b \in DOMAIN c, a < b PROVE c[a].n < c[b].n
  <2>1. CASE a \in 1 .. Len(p) /\ b \in 1 .. Len(p)
    <3>1. p[a].n < p[b].n
      BY <1>1, <1>4, <2>1 DEF InOrder
    <3>2. QED BY <1>1, <2>1, <3>1
  <2>2. CASE a \in 1 .. Len(p) /\ b \notin 1 .. Len(p)
    <3>1. PICK k \in 1 .. Len(q) : c[b] = q[k]
      BY <1>2, <2>2
    <3>2. p[a] \in ToSet(p) /\ q[k] \in ToSet(q)
      BY <1>1, <2>2 DEF ToSet
    <3>3. QED BY <1>1, <2>2, <3>1, <3>2 DEF Below
  <2>3. CASE a \notin 1 .. Len(p)
    <3>1. PICK k \in 1 .. Len(q) : a = Len(p) + k /\ c[a] = q[k]
      BY <1>2, <2>3
    <3>2. b \notin 1 .. Len(p)
      BY <1>1, <1>4, <2>3
    <3>3. PICK l \in 1 .. Len(q) : b = Len(p) + l /\ c[b] = q[l]
      BY <1>2, <3>2
    <3>4. k < l
      BY <1>1, <1>4, <3>1, <3>3
    <3>5. q[k].n < q[l].n
      BY <1>1, <3>4 DEF InOrder
    <3>6. QED BY <3>1, <3>3, <3>5
  <2>4. QED BY <2>1, <2>2, <2>3
<1>5. QED BY <1>1, <1>3, <1>4 DEF InOrder, c

\* The least number of a set of numbers, and the greatest of a bounded one.
LEMMA LeastFact ==
  ASSUME NEW T \in SUBSET Nat, T # {}
  PROVE  \E n \in T : \A m \in T : n <= m
<1>1. PICK n \in T : \A m \in T : <<m, n>> \notin OpToRel(<, Nat)
  BY WFMin, NatLessThanWellFounded
<1>2. \A m \in T : ~ (m < n)
  BY <1>1 DEF OpToRel
<1>3. QED BY <1>2

LEMMA MinFact ==
  ASSUME NEW T \in SUBSET Nat, T # {}
  PROVE  Min(T) \in T /\ \A m \in T : Min(T) <= m
BY LeastFact DEF Min

LEMMA MaxFact ==
  ASSUME NEW T \in SUBSET Nat, T # {}, NEW B \in Nat, \A m \in T : m <= B
  PROVE  Max(T) \in T /\ \A m \in T : m <= Max(T)
<1> DEFINE U == {u \in Nat : \A m \in T : m <= u}
<1>1. U \in SUBSET Nat /\ U # {}
  OBVIOUS
<1>2. PICK u \in U : \A v \in U : u <= v
  BY <1>1, LeastFact
<1>3. u \in T
  <2> SUFFICES ASSUME u \notin T PROVE FALSE
    OBVIOUS
  <2>1. \A m \in T : m < u
    BY <1>2
  <2>2. PICK m0 \in T : TRUE
    OBVIOUS
  <2>3. u - 1 \in Nat /\ \A m \in T : m <= u - 1
    BY <1>2, <2>1, <2>2
  <2>4. u - 1 \in U
    BY <2>3
  <2>5. QED BY <1>2, <2>3, <2>4
<1>4. QED BY <1>2, <1>3 DEF Max

\* A chain of concatenations: link j is f[j - 1] \o q[j].
Chained(f, q, N) == f = [j \in 1 .. N |-> IF j = 1 THEN q[j] ELSE f[j - 1] \o q[j]]

LEMMA ChainFact ==
  ASSUME NEW N \in Nat \ {0}, NEW q
  PROVE  \E f : Chained(f, q, N)
<1> DEFINE T == {n \in Nat \ {0} : ~ \E f : Chained(f, q, n)}
<1> SUFFICES ASSUME T # {} PROVE FALSE
  OBVIOUS
<1>1. PICK n \in T : \A m \in T : n <= m
  <2>1. T \in SUBSET Nat
    OBVIOUS
  <2>2. QED BY <2>1, LeastFact
<1>2. n \in Nat \ {0} /\ ~ \E f : Chained(f, q, n)
  OBVIOUS
<1>3. CASE n = 1
  <2> DEFINE g == [j \in 1 .. 1 |-> q[j]]
  <2>1. g = [j \in 1 .. 1 |-> IF j = 1 THEN q[j] ELSE g[j - 1] \o q[j]]
    OBVIOUS
  <2>2. Chained(g, q, n)
    BY <1>3, <2>1 DEF Chained
  <2>3. QED BY <1>2, <2>2
<1>4. CASE n # 1
  <2>1. n - 1 \in Nat \ {0} /\ ~ (n <= n - 1)
    BY <1>2, <1>4
  <2>2. n - 1 \notin T
    BY <1>1, <2>1
  <2>3. PICK f : Chained(f, q, n - 1)
    BY <2>1, <2>2
  <2> DEFINE g == [j \in 1 .. n |-> IF j = n THEN f[n - 1] \o q[n] ELSE f[j]]
             h == [j \in 1 .. n |-> IF j = 1 THEN q[j] ELSE g[j - 1] \o q[j]]
  <2>4. \A j \in 1 .. n - 1 : f[j] = IF j = 1 THEN q[j] ELSE f[j - 1] \o q[j]
    BY <2>3, Zenon DEF Chained
  <2>5. ASSUME NEW j \in 1 .. n PROVE g[j] = h[j]
    <3>1. CASE j = n
      <4>1. g[j - 1] = f[n - 1]
        BY <1>2, <1>4, <3>1
      <4>2. QED BY <1>4, <3>1, <4>1
    <3>2. CASE j = 1
      <4>1. 1 \in 1 .. n - 1
        BY <1>2, <1>4
      <4>2. QED BY <1>4, <2>4, <3>2, <4>1
    <3>3. CASE j # n /\ j # 1
      <4>1. j \in 1 .. n - 1 /\ j - 1 \in 1 .. n /\ j - 1 # n
        BY <1>2, <3>3
      <4>2. g[j] = f[j] /\ g[j - 1] = f[j - 1]
        BY <3>3, <4>1
      <4>3. QED BY <2>4, <3>3, <4>1, <4>2
    <3>4. QED BY <3>1, <3>2, <3>3
  <2>6. g = h
    BY <2>5
  <2>7. Chained(g, q, n)
    BY <2>6 DEF Chained
  <2>8. QED BY <1>2, <2>7
<1>5. QED BY <1>3, <1>4

\* Segments in order, put end to end.
LEMMA FlattenFact ==
  ASSUME NEW w \in Seq(Segment), Lined(w)
  PROVE  /\ FlattenSeq(w) \in Seq(Message) /\ InOrder(FlattenSeq(w))
         /\ ToSet(FlattenSeq(w)) = Loaded(w)
<1>0. DOMAIN w = 1 .. Len(w) /\ Len(w) \in Nat /\ \A n \in DOMAIN w : w[n] \in Seq(Message)
  BY DEF Segment
<1>1. CASE Len(w) = 0
  <2>1. w = <<>> /\ FlattenSeq(w) = w
    BY <1>1 DEF FlattenSeq
  <2>2. Loaded(w) = {}
    BY <1>0, <1>1 DEF Loaded
  <2>3. QED BY <2>1, <2>2, EmptyFact
<1>2. CASE Len(w) # 0
  <2> DEFINE N == Len(w)
             f == CHOOSE f : Chained(f, w, N)
             Upto(n) == {x \in Message : \E m \in 1 .. n : x \in ToSet(w[m])}
             Good(n) == f[n] \in Seq(Message) /\ InOrder(f[n]) /\ ToSet(f[n]) = Upto(n)
             T == {n \in 1 .. N : ~ Good(n)}
  <2>1. N \in Nat \ {0}
    BY <1>0, <1>2
  <2>2. FlattenSeq(w) = f[N]
    BY <1>2, Zenon DEF FlattenSeq, Chained
  <2>3. Chained(f, w, N)
    BY <2>1, ChainFact
  <2> HIDE DEF f
  <2>4. \A j \in 1 .. N : f[j] = IF j = 1 THEN w[j] ELSE f[j - 1] \o w[j]
    BY <2>3, Zenon DEF Chained
  <2>5. T = {}
    <3> SUFFICES ASSUME T # {} PROVE FALSE
      OBVIOUS
    <3>1. PICK n \in T : \A m \in T : n <= m
      <4>1. T \in SUBSET Nat
        OBVIOUS
      <4>2. QED BY <4>1, LeastFact
    <3>2. n \in 1 .. N /\ ~ Good(n)
      BY <3>1
    <3>3. n \in Nat /\ n \in DOMAIN w /\ w[n] \in Seq(Message) /\ InOrder(w[n]) /\ ToSet(w[n]) \subseteq Message
      <4>1. n \in Nat /\ n \in DOMAIN w
        BY <1>0, <3>2
      <4>2. w[n] \in Seq(Message) /\ InOrder(w[n])
        BY <1>0, <4>1, Zenon DEF Lined
      <4>3. ToSet(w[n]) \subseteq Message
        BY <4>2, ToSetFact, Zenon
      <4>4. QED BY <4>1, <4>2, <4>3
    <3> HIDE DEF N
    <3>4. CASE n = 1
      <4>1. f[n] = w[n]
        BY <2>4, <3>2, <3>4
      <4>2. Upto(n) = ToSet(w[n])
        BY <3>3, <3>4
      <4>3. QED BY <3>2, <3>3, <4>1, <4>2
    <3>5. CASE n # 1
      <4>1. n - 1 \in 1 .. N /\ ~ (n <= n - 1)
        BY <2>1, <3>2, <3>5
      <4>2. Good(n - 1)
        BY <3>1, <4>1
      <4>3. f[n] = f[n - 1] \o w[n]
        BY <2>4, <3>2, <3>5
      <4>4. Below(f[n - 1], w[n])
        <5> SUFFICES ASSUME NEW x \in Upto(n - 1), NEW y \in ToSet(w[n]) PROVE x.n < y.n
          BY <4>2 DEF Below
        <5>1. PICK m \in 1 .. n - 1 : x \in ToSet(w[m])
          OBVIOUS
        <5>2. m \in DOMAIN w /\ m < n
          BY <1>0, <3>2, <3>3, <5>1 DEF N
        <5>3. Below(w[m], w[n])
          BY <3>3, <5>2, Zenon DEF Lined
        <5>4. QED BY <5>1, <5>3, Zenon DEF Below
      <4>5. /\ f[n] \in Seq(Message) /\ InOrder(f[n])
            /\ ToSet(f[n]) = Upto(n - 1) \cup ToSet(w[n])
        BY <3>3, <4>2, <4>3, <4>4, ConcatFact
      <4>6. Upto(n - 1) \cup ToSet(w[n]) = Upto(n)
        <5>1. \A m : m \in 1 .. n <=> (m \in 1 .. n - 1 \/ m = n)
          BY <3>3, <4>1
        <5>2. QED BY <3>3, <5>1
      <4>7. QED BY <3>2, <4>5, <4>6
    <3>6. QED BY <3>4, <3>5
  <2>6. Good(N)
    <3>1. N \in 1 .. N
      BY <2>1
    <3> HIDE DEF N, Good
    <3>2. QED BY <2>5, <3>1
  <2>7. Upto(N) = Loaded(w)
    BY <1>0 DEF Loaded
  <2>8. QED BY <2>2, <2>6, <2>7
<1>3. QED BY <1>1, <1>2

\* A segment that is closed with a row in it is listed last.
LEMMA ListingFact ==
  ASSUME NEW w \in Seq(Segment), Lined(w), NEW q \in Segment, InOrder(q), <<>> \notin ToSet(w),
         \A x \in Loaded(w), y \in ToSet(q) : x.n < y.n
  PROVE  /\ WithOpen(w, q) \in Seq(Segment) /\ Lined(WithOpen(w, q))
         /\ <<>> \notin ToSet(WithOpen(w, q))
         /\ Loaded(WithOpen(w, q)) = Loaded(w) \cup ToSet(q)
<1>0. q \in Seq(Message) /\ ToSet(q) \subseteq Message
  BY ToSetFact, Zenon DEF Segment
<1>1. CASE q = <<>>
  BY <1>1, EmptyFact DEF WithOpen
<1>2. CASE q # <<>>
  <2> DEFINE r == Append(w, q)
  <2>1. /\ r \in Seq(Segment)
        /\ DOMAIN r = 1 .. Len(w) + 1 /\ DOMAIN w = 1 .. Len(w) /\ Len(w) \in Nat
        /\ \A a \in 1 .. Len(w) : r[a] = w[a]
        /\ r[Len(w) + 1] = q
    OBVIOUS
  <2>2. WithOpen(w, q) = r
    BY <1>2 DEF WithOpen
  <2> HIDE DEF r
  <2>3. \A a \in DOMAIN r : (a \in DOMAIN w /\ r[a] = w[a]) \/ (a = Len(w) + 1 /\ r[a] = q)
    <3>1. \A a \in 1 .. Len(w) + 1 : a \in 1 .. Len(w) \/ a = Len(w) + 1
      BY <2>1
    <3>2. QED BY <2>1, <3>1, Zenon
  <2>4. \A a \in DOMAIN w : a \in DOMAIN r /\ r[a] = w[a]
    BY <2>1
  <2>5. Len(w) + 1 \in DOMAIN r
    BY <2>1
  <2>6. <<>> \notin ToSet(r)
    BY <1>2, <2>3 DEF ToSet
  <2>7. Loaded(r) = Loaded(w) \cup ToSet(q)
    <3>1. ASSUME NEW x \in Message PROVE x \in Loaded(r) <=> x \in Loaded(w) \/ x \in ToSet(q)
      <4>1. x \in Loaded(r) => x \in Loaded(w) \/ x \in ToSet(q)
        BY <2>3 DEF Loaded
      <4>2. x \in Loaded(w) => x \in Loaded(r)
        BY <2>4 DEF Loaded
      <4>3. x \in ToSet(q) => x \in Loaded(r)
        BY <2>1, <2>5 DEF Loaded
      <4>4. QED BY <4>1, <4>2, <4>3
    <3>2. Loaded(r) \subseteq Message /\ Loaded(w) \subseteq Message
      BY DEF Loaded
    <3>3. QED BY <1>0, <3>1, <3>2
  <2>8. \A a \in DOMAIN r : InOrder(r[a])
    BY <2>3 DEF Lined
  <2>9. ASSUME NEW a \in DOMAIN r, NEW b \in DOMAIN r, a < b PROVE Below(r[a], r[b])
    <3>1. a \in DOMAIN w /\ r[a] = w[a]
      BY <2>1, <2>9
    <3>2. CASE b \in DOMAIN w
      BY <2>4, <2>9, <3>1, <3>2 DEF Lined
    <3>3. CASE b = Len(w) + 1
      <4>1. w[a] \in Seq(Message)
        BY <2>1, <3>1 DEF Segment
      <4>2. ToSet(w[a]) \subseteq Loaded(w)
        BY <3>1, <4>1, ToSetFact DEF Loaded
      <4>3. r[b] = q
        BY <2>1, <3>3
      <4>4. QED BY <3>1, <4>2, <4>3 DEF Below
    <3>4. QED BY <2>3, <3>2, <3>3
  <2>10. Lined(r)
    BY <2>8, <2>9 DEF Lined
  <2>11. QED BY <2>1, <2>2, <2>6, <2>7, <2>10
<1>3. QED BY <1>1, <1>2

LEMMA NothingListed == <<>> \in Seq(Segment) /\ Lined(<<>>) /\ Loaded(<<>>) = {} /\ ToSet(<<>>) = {}
<1>1. <<>> \in Seq(Segment) /\ DOMAIN <<>> = {}
  OBVIOUS
<1>2. QED BY <1>1, EmptyFact DEF Lined, Loaded

-----------------------------------------------------------------------------
(* The recorder                                                            *)

All == UNION {written[s] : s \in Session}

\* The messages are numbered as they are recorded, and stamped within the clocks.
Numbered ==
  /\ IsFiniteSet(All) /\ Writes <= MaxWrites
  /\ \A m \in All : m.n <= Writes /\ m.stamp <= Epoch + MaxWrites
  /\ \A m, n \in All : m.n = n.n => m = n
  /\ time <= Writes /\ wall <= Epoch + Writes

\* The wall clock does not go back.
LogsRise ==
  \A m \in All : m.kind = "logs" =>
    m.stamp <= wall /\ \A n \in All : n.kind = "logs" /\ m.n < n.n => m.stamp <= n.stamp

\* The finished segments of a stream are in order and hold nothing else than was recorded.
Kept ==
  \A s \in Session, k \in Stream :
    Lined(closed[s][k]) /\ Loaded(closed[s][k]) \subseteq Recorded(s, k)

\* While it records, what is not in a finished segment is in the open one.
Opened ==
  active => \A k \in Stream :
    /\ InOrder(open[k])
    /\ \A x \in Loaded(closed[session][k]), y \in ToSet(open[k]) : x.n < y.n
    /\ Loaded(closed[session][k]) \cup ToSet(open[k]) = Recorded(session, k)

\* A manifest lists nothing, or all that was recorded.
Finished ==
  /\ active => ~manifest[session].stopped
  /\ \A s \in Session :
       /\ ~manifest[s].stopped => manifest[s] = NoManifest
       /\ manifest[s].stopped => \A k \in Stream :
            manifest[s][k] = closed[s][k] /\ Loaded(closed[s][k]) = Recorded(s, k)

\* Nothing is there of a session before it starts.
Unborn ==
  \A s \in Session : s > session =>
    /\ closed[s] = [k \in Stream |-> <<>>]
    /\ written[s] = {} /\ manifest[s] = NoManifest

RecordingInv ==
  RecordingTypeOK /\ Numbered /\ LogsRise /\ Kept /\ Opened /\ Finished /\ Unborn

\* A stopped session replays what was recorded of it.
LEMMA RecordingComplete ==
  ASSUME RecordingInv
  PROVE  StoppedIsComplete
<1> SUFFICES ASSUME NEW s \in Session, manifest[s].stopped, NEW k \in Stream
             PROVE  ToSet(Rows(s, k)) = Recorded(s, k) /\ InOrder(Rows(s, k))
  BY DEF StoppedIsComplete
<1>1. /\ manifest[s][k] = closed[s][k] /\ Loaded(closed[s][k]) = Recorded(s, k)
      /\ Lined(closed[s][k]) /\ closed[s][k] \in Seq(Segment)
  BY DEF RecordingInv, RecordingTypeOK, Finished, Kept
<1>2. QED BY <1>1, FlattenFact DEF Rows

LEMMA RecordingStarts == RecordingInit => RecordingInv
<1> SUFFICES ASSUME RecordingInit PROVE RecordingInv
  OBVIOUS
<1> USE DEF RecordingInit
<1>1. \A s \in Session, k \in Stream : closed[s][k] = <<>> /\ Recorded(s, k) = {}
  BY DEF Recorded
<1>2. RecordingTypeOK
  <2>1. closed \in [Session -> [Stream -> Seq(Segment)]]
    BY NothingListed
  <2>2. open \in [Stream -> Segment]
    BY EmptyFact DEF Segment
  <2>3. manifest \in [Session -> [stopped : BOOLEAN, frame : Seq(Segment), logs : Seq(Segment)]]
    BY NothingListed DEF NoManifest
  <2>4. session \in 0 .. Sessions /\ time \in Nat /\ wall \in Nat
    BY RecordingAssumption
  <2>5. QED BY <1>1, <2>1, <2>2, <2>3, <2>4, EmptyFact DEF RecordingTypeOK
<1>3. All = {}
  BY DEF All
<1>4. IsFiniteSet(All) /\ Writes = 0
  BY <1>3, FS_EmptySet DEF Writes, All
<1>5. Numbered /\ LogsRise
  BY <1>3, <1>4, RecordingAssumption DEF Numbered, LogsRise
<1>6. Kept
  BY <1>1, NothingListed DEF Kept
<1>7. Finished
  BY DEF Finished, NoManifest
<1>8. QED BY <1>2, <1>5, <1>6, <1>7 DEF RecordingInv, Opened, Unborn

LEMMA WriteFact ==
  ASSUME RecordingInv, NEW m \in Message, Write(m), m.n = Writes + 1,
         m.stamp <= Epoch + MaxWrites, m.kind = "logs" => m.stamp = wall,
         time' \in Nat, wall' \in Nat, time' <= time + 1, wall <= wall', wall' <= wall + 1
  PROVE  RecordingInv'
<1> DEFINE k == m.kind
<1>0. RecordingTypeOK /\ k \in Stream /\ session \in Session
  <2>1. RecordingTypeOK /\ active
    BY DEF RecordingInv, Write
  <2>2. session \in Session
    BY <2>1, RecordingAssumption DEF RecordingTypeOK, Session
  <2>3. QED BY <2>1, <2>2, MessageFact
<1>1. PICK rotate \in BOOLEAN : File(m, rotate)
  BY DEF Write
<1>2. /\ active /\ Writes < MaxWrites
      /\ written' = [written EXCEPT ![session] = @ \cup {m}]
      /\ session' = session /\ active' = active /\ manifest' = manifest
  BY DEF Write
<1> HIDE DEF k
<1>3. \A s \in Session : written[s] \subseteq Message
  BY <1>0 DEF RecordingTypeOK
<1>4. \A s \in Session : written'[s] = IF s = session THEN written[s] \cup {m} ELSE written[s]
  BY <1>0, <1>2 DEF RecordingTypeOK
<1>5. All' = All \cup {m} /\ All \subseteq Message
  BY <1>0, <1>3, <1>4 DEF All
<1>6. \A x \in All : x.n < m.n /\ x.n \in Nat /\ x.n <= Writes
  <2>1. Writes \in Nat
    BY FS_CardinalityType DEF RecordingInv, Numbered, Writes, All
  <2>2. QED BY <1>5, <2>1, MessageFact DEF RecordingInv, Numbered
<1>7. Writes \in Nat /\ Writes' = Writes + 1 /\ IsFiniteSet(All')
  <2>1. m \notin All
    BY <1>6, MessageFact
  <2>2. Writes = Cardinality(All) /\ Writes' = Cardinality(All')
    BY DEF Writes, All
  <2>3. QED BY <1>5, <2>1, <2>2, FS_AddElement, FS_CardinalityType DEF RecordingInv, Numbered
<1>8. Numbered'
  <2>1. Writes + 1 <= MaxWrites
    BY <1>2, <1>7, RecordingAssumption
  <2>2. \A x \in All' : x.n <= Writes' /\ x.stamp <= Epoch + MaxWrites
    BY <1>5, <1>6, <1>7 DEF RecordingInv, Numbered
  <2>3. \A x, y \in All' : x.n = y.n => x = y
    BY <1>5, <1>6, <1>7, MessageFact DEF RecordingInv, Numbered
  <2>4. time' <= Writes' /\ wall' <= Epoch + Writes'
    BY <1>0, <1>7, RecordingAssumption DEF RecordingInv, RecordingTypeOK, Numbered
  <2>5. QED BY <1>7, <2>1, <2>2, <2>3, <2>4 DEF Numbered
<1>9. LogsRise'
  <2> SUFFICES ASSUME NEW x \in All', x.kind = "logs"
               PROVE  x.stamp <= wall' /\ \A y \in All' : y.kind = "logs" /\ x.n < y.n => x.stamp <= y.stamp
    BY DEF LogsRise
  <2>0. wall \in Nat /\ x.stamp \in Nat
    BY <1>0, <1>5, MessageFact DEF RecordingTypeOK
  <2>1. CASE x = m
    BY <1>5, <1>6, <2>0, <2>1, MessageFact
  <2>2. CASE x \in All
    <3>1. x.stamp <= wall /\ \A y \in All : y.kind = "logs" /\ x.n < y.n => x.stamp <= y.stamp
      BY <2>2 DEF RecordingInv, LogsRise
    <3>2. QED BY <1>5, <2>0, <3>1
  <2>3. QED BY <1>5, <2>1, <2>2
<1>10. ASSUME NEW s \in Session, NEW c \in Stream
       PROVE  {x \in written'[s] : x.kind = c} =
                IF s = session /\ c = k THEN Recorded(s, c) \cup {m} ELSE Recorded(s, c)
  BY <1>4 DEF Recorded, k
<1>11. \A s \in Session, c \in Stream : \A x \in Recorded(s, c) : x \in All /\ x.n < m.n
  BY <1>6 DEF Recorded, All
<1> DEFINE w == closed[session][k]
           q == open[k]
<1>12. /\ w \in Seq(Segment) /\ q \in Segment /\ q \in Seq(Message) /\ <<>> \notin ToSet(w)
       /\ Lined(w) /\ InOrder(q) /\ \A x \in Loaded(w), y \in ToSet(q) : x.n < y.n
       /\ Loaded(w) \cup ToSet(q) = Recorded(session, k)
  BY <1>0, <1>2 DEF RecordingInv, RecordingTypeOK, Kept, Opened, Segment
<1>13. \A x \in Loaded(w) \cup ToSet(q) : x.n < m.n
  BY <1>0, <1>11, <1>12
<1> DEFINE w2 == closed'[session][k]
           q2 == open'[k]
<1>14. /\ w2 \in Seq(Segment) /\ q2 \in Segment /\ <<>> \notin ToSet(w2)
       /\ Lined(w2) /\ InOrder(q2) /\ \A x \in Loaded(w2), y \in ToSet(q2) : x.n < y.n
       /\ Loaded(w2) \cup ToSet(q2) = Recorded(session, k) \cup {m}
       /\ Loaded(w2) \subseteq Recorded(session, k)
       /\ closed' = [closed EXCEPT ![session][k] = w2]
       /\ open' = [open EXCEPT ![k] = q2]
  <2>1. CASE rotate
    <3>1. closed' = [closed EXCEPT ![session][k] = WithOpen(w, q)] /\ open' = [open EXCEPT ![k] = <<m>>]
      BY <1>1, <2>1 DEF File, k
    <3>2. w2 = WithOpen(w, q) /\ q2 = <<m>>
      BY <1>0, <3>1 DEF RecordingTypeOK
    <3>3. /\ WithOpen(w, q) \in Seq(Segment) /\ Lined(WithOpen(w, q)) /\ <<>> \notin ToSet(WithOpen(w, q))
          /\ Loaded(WithOpen(w, q)) = Loaded(w) \cup ToSet(q)
      BY <1>12, ListingFact
    <3>4. <<m>> \in Seq(Message) /\ InOrder(<<m>>) /\ ToSet(<<m>>) = {m}
      <4>1. <<m>> = Append(<<>>, m)
        OBVIOUS
      <4>2. QED BY <4>1, EmptyFact, AppendFact
    <3>5. QED BY <1>12, <1>13, <3>1, <3>2, <3>3, <3>4 DEF Segment
  <2>2. CASE ~rotate
    <3>1. closed' = closed /\ open' = [open EXCEPT ![k] = Append(q, m)]
      BY <1>1, <2>2 DEF File, k
    <3>2. w2 = w /\ q2 = Append(q, m)
      BY <1>0, <3>1 DEF RecordingTypeOK
    <3>3. Append(q, m) \in Seq(Message) /\ InOrder(Append(q, m)) /\ ToSet(Append(q, m)) = ToSet(q) \cup {m}
      BY <1>12, <1>13, AppendFact
    <3>4. closed' = [closed EXCEPT ![session][k] = w]
      BY <1>0, <3>1 DEF RecordingTypeOK
    <3>5. /\ \A x \in Loaded(w), y \in ToSet(q) \cup {m} : x.n < y.n
          /\ Loaded(w) \cup (ToSet(q) \cup {m}) = Recorded(session, k) \cup {m}
          /\ Loaded(w) \subseteq Recorded(session, k)
      BY <1>12, <1>13
    <3>6. QED BY <1>12, <3>1, <3>2, <3>3, <3>4, <3>5, Zenon DEF Segment
  <2>3. QED BY <2>1, <2>2
<1> HIDE DEF w, q, w2, q2
<1>15. ASSUME NEW s \in Session, NEW c \in Stream
       PROVE  /\ closed'[s][c] = IF s = session /\ c = k THEN w2 ELSE closed[s][c]
              /\ open'[c] = IF c = k THEN q2 ELSE open[c]
  <2>1. closed'[s][c] = IF s = session /\ c = k THEN w2 ELSE closed[s][c]
    BY <1>0, <1>14 DEF RecordingTypeOK
  <2>2. QED BY <1>0, <1>14, <2>1 DEF RecordingTypeOK
<1>16. RecordingTypeOK'
  <2>1. closed' \in [Session -> [Stream -> Seq(Segment)]]
    BY <1>0, <1>14 DEF RecordingTypeOK
  <2>2. open' \in [Stream -> Segment]
    BY <1>0, <1>14 DEF RecordingTypeOK
  <2>3. written' \in [Session -> SUBSET Message]
    BY <1>0, <1>2 DEF RecordingTypeOK
  <2>4. \A s \in Session, c \in Stream : <<>> \notin ToSet(closed'[s][c])
    BY <1>0, <1>14, <1>15 DEF RecordingTypeOK
  <2>5. QED BY <1>0, <1>2, <2>1, <2>2, <2>3, <2>4 DEF RecordingTypeOK
<1>17. Kept'
  <2> SUFFICES ASSUME NEW s \in Session, NEW c \in Stream
               PROVE  Lined(closed'[s][c]) /\ Loaded(closed'[s][c]) \subseteq {x \in written'[s] : x.kind = c}
    BY DEF Kept, Recorded
  <2>1. CASE s = session /\ c = k
    BY <1>10, <1>14, <1>15, <2>1
  <2>2. CASE ~(s = session /\ c = k)
    BY <1>10, <1>15, <2>2 DEF RecordingInv, Kept
  <2>3. QED BY <2>1, <2>2
<1>18. Opened'
  <2>1. ASSUME NEW c \in Stream
        PROVE  /\ InOrder(open'[c])
               /\ \A x \in Loaded(closed'[session][c]), y \in ToSet(open'[c]) : x.n < y.n
               /\ Loaded(closed'[session][c]) \cup ToSet(open'[c]) = {x \in written'[session] : x.kind = c}
    <3>1. CASE c = k
      <4>1. closed'[session][c] = w2 /\ open'[c] = q2 /\ {x \in written'[session] : x.kind = c} = Recorded(session, k) \cup {m}
        BY <1>0, <1>10, <1>15, <3>1
      <4>2. QED BY <1>14, <4>1, Zenon
    <3>2. CASE c # k
      BY <1>0, <1>2, <1>10, <1>15, <3>2 DEF RecordingInv, Opened
    <3>3. QED BY <3>1, <3>2
  <2>2. QED BY <1>2, <2>1 DEF Opened, Recorded
<1>19. ~manifest[session].stopped
  BY <1>2 DEF RecordingInv, Finished
<1>20. Finished'
  <2>1. ASSUME NEW s \in Session, manifest[s].stopped, NEW c \in Stream
        PROVE  manifest[s][c] = closed'[s][c] /\ Loaded(closed'[s][c]) = {x \in written'[s] : x.kind = c}
    BY <1>10, <1>15, <1>19, <2>1 DEF RecordingInv, Finished
  <2>2. QED BY <1>2, <1>19, <2>1 DEF RecordingInv, Finished, Recorded
<1>21. Unborn'
  <2> SUFFICES ASSUME NEW s \in Session, s > session
               PROVE  closed'[s] = closed[s] /\ written'[s] = written[s]
    BY <1>2 DEF Unborn, RecordingInv
  <2>1. s # session
    BY <1>0 DEF Session
  <2>2. QED BY <1>0, <1>4, <1>14, <2>1 DEF RecordingTypeOK
<1>22. QED BY <1>8, <1>9, <1>16, <1>17, <1>18, <1>20, <1>21 DEF RecordingInv

LEMMA WriteStateFact == RecordingInv /\ WriteState => RecordingInv'
<1> SUFFICES ASSUME RecordingInv, WriteState PROVE RecordingInv'
  OBVIOUS
<1> DEFINE m == [kind |-> "frame", stamp |-> time, n |-> Writes + 1]
<1>1. /\ Write(m) /\ time' \in {time, time + 1} /\ wall' = wall + 1 /\ Writes < MaxWrites
      /\ time \in Nat /\ wall \in Nat /\ Writes \in Nat /\ time <= Writes
  BY FS_CardinalityType DEF WriteState, Write, RecordingInv, RecordingTypeOK, Numbered, Writes, All
<1>2. m \in Message
  BY <1>1, RecordingAssumption DEF Message, Stream
<1>3. m.stamp <= Epoch + MaxWrites
  BY <1>1, RecordingAssumption
<1>4. m.kind # "logs" /\ m.n = Writes + 1
  OBVIOUS
<1> HIDE DEF m
<1>5. time' \in Nat /\ wall' \in Nat /\ time' <= time + 1 /\ wall <= wall' /\ wall' <= wall + 1
  BY <1>1
<1>6. QED BY <1>1, <1>2, <1>3, <1>4, <1>5, WriteFact

LEMMA WriteLogsFact == RecordingInv /\ WriteLogs => RecordingInv'
<1> SUFFICES ASSUME RecordingInv, WriteLogs PROVE RecordingInv'
  OBVIOUS
<1> DEFINE m == [kind |-> "logs", stamp |-> wall, n |-> Writes + 1]
<1>1. /\ Write(m) /\ time' = time /\ wall' = wall /\ Writes < MaxWrites
      /\ time \in Nat /\ wall \in Nat /\ Writes \in Nat /\ wall <= Epoch + Writes
  BY FS_CardinalityType DEF WriteLogs, Write, RecordingInv, RecordingTypeOK, Numbered, Writes, All
<1>2. m \in Message
  BY <1>1, RecordingAssumption DEF Message, Stream
<1>3. m.stamp <= Epoch + MaxWrites
  BY <1>1, RecordingAssumption
<1>4. m.stamp = wall /\ m.n = Writes + 1
  OBVIOUS
<1> HIDE DEF m
<1>5. time' \in Nat /\ wall' \in Nat /\ time' <= time + 1 /\ wall <= wall' /\ wall' <= wall + 1
  BY <1>1
<1>6. QED BY <1>1, <1>2, <1>3, <1>4, <1>5, WriteFact

LEMMA StartFact == RecordingInv /\ Start => RecordingInv' /\ manifest' = manifest
<1> SUFFICES ASSUME RecordingInv, Start PROVE RecordingInv' /\ manifest' = manifest
  OBVIOUS
<1>0. RecordingTypeOK
  BY DEF RecordingInv
<1>1. /\ ~active /\ session < Sessions /\ session' = session + 1 /\ active' = TRUE
      /\ open' = [k \in Stream |-> <<>>]
      /\ manifest' = [manifest EXCEPT ![session'] = NoManifest]
      /\ closed' = closed /\ time' = time /\ wall' = wall /\ written' = written
  BY DEF Start
<1>2. session' \in Session /\ session' > session /\ session \in Nat
  BY <1>0, <1>1, RecordingAssumption DEF RecordingTypeOK, Session
<1>3. manifest' = manifest
  <2>1. manifest[session'] = NoManifest
    BY <1>2 DEF RecordingInv, Unborn
  <2>2. QED BY <1>0, <1>1, <1>2, <2>1 DEF RecordingTypeOK
<1>4. RecordingTypeOK'
  <2>1. open' \in [Stream -> Segment]
    BY <1>1, EmptyFact DEF Segment
  <2>2. session' \in 0 .. Sessions /\ session' # 0
    BY <1>1, <1>2, RecordingAssumption DEF Session
  <2>3. QED BY <1>0, <1>1, <1>3, <2>1, <2>2 DEF RecordingTypeOK
<1>5. Numbered' /\ LogsRise' /\ Kept'
  BY <1>1 DEF RecordingInv, Numbered, LogsRise, Kept, Recorded, All, Writes
<1>6. Opened'
  <2>1. ASSUME NEW k \in Stream
        PROVE  open'[k] = <<>> /\ closed[session'][k] = <<>> /\ {x \in written[session'] : x.kind = k} = {}
    BY <1>1, <1>2 DEF RecordingInv, Unborn
  <2>2. QED BY <1>1, <2>1, EmptyFact, NothingListed DEF Opened, Recorded
<1>7. Finished'
  <2>1. ~manifest[session'].stopped
    BY <1>2 DEF RecordingInv, Unborn, NoManifest
  <2>2. QED BY <1>1, <1>3, <2>1 DEF RecordingInv, Finished, Recorded
<1>8. Unborn'
  <2> SUFFICES ASSUME NEW s \in Session, s > session'
               PROVE  /\ closed[s] = [k \in Stream |-> <<>>]
                      /\ written[s] = {} /\ manifest[s] = NoManifest
    BY <1>1, <1>3 DEF Unborn
  <2>1. s > session
    BY <1>1, <1>2 DEF Session
  <2>2. QED BY <2>1 DEF RecordingInv, Unborn
<1>9. QED BY <1>3, <1>4, <1>5, <1>6, <1>7, <1>8 DEF RecordingInv

LEMMA StopFact ==
  ASSUME RecordingInv, Stop
  PROVE  /\ RecordingInv' /\ session' = session /\ written' = written
         /\ \A s \in Session : manifest[s].stopped \/ s # session => manifest'[s] = manifest[s]
<1>0. RecordingTypeOK /\ session \in Session
  <2>1. RecordingTypeOK /\ active
    BY DEF RecordingInv, Stop
  <2>2. QED BY <2>1, RecordingAssumption DEF RecordingTypeOK, Session
<1>1. /\ active /\ active' = FALSE
      /\ closed' = [closed EXCEPT ![session] = [k \in Stream |-> WithOpen(@[k], open[k])]]
      /\ open' = [k \in Stream |-> <<>>]
      /\ manifest' = [manifest EXCEPT ![session] =
           [stopped |-> TRUE, frame |-> closed'[session]["frame"], logs |-> closed'[session]["logs"]]]
      /\ session' = session /\ time' = time /\ wall' = wall /\ written' = written
  BY DEF Stop
<1>2. ASSUME NEW k \in Stream
      PROVE  /\ WithOpen(closed[session][k], open[k]) \in Seq(Segment)
             /\ Lined(WithOpen(closed[session][k], open[k]))
             /\ <<>> \notin ToSet(WithOpen(closed[session][k], open[k]))
             /\ Loaded(WithOpen(closed[session][k], open[k])) = Recorded(session, k)
  <2> DEFINE w == closed[session][k]
             q == open[k]
  <2>1. /\ w \in Seq(Segment) /\ q \in Segment /\ <<>> \notin ToSet(w)
        /\ Lined(w) /\ InOrder(q) /\ \A x \in Loaded(w), y \in ToSet(q) : x.n < y.n
        /\ Loaded(w) \cup ToSet(q) = Recorded(session, k)
    BY <1>0, <1>1 DEF RecordingInv, RecordingTypeOK, Kept, Opened
  <2> HIDE DEF w, q
  <2>2. /\ WithOpen(w, q) \in Seq(Segment) /\ Lined(WithOpen(w, q)) /\ <<>> \notin ToSet(WithOpen(w, q))
        /\ Loaded(WithOpen(w, q)) = Loaded(w) \cup ToSet(q)
    BY <2>1, ListingFact
  <2>3. QED BY <2>1, <2>2 DEF w, q
<1>3. ASSUME NEW s \in Session, NEW k \in Stream
      PROVE  closed'[s][k] = IF s = session THEN WithOpen(closed[session][k], open[k]) ELSE closed[s][k]
  BY <1>0, <1>1 DEF RecordingTypeOK
<1>4. closed' \in [Session -> [Stream -> Seq(Segment)]]
  <2>1. [k \in Stream |-> WithOpen(closed[session][k], open[k])] \in [Stream -> Seq(Segment)]
    BY <1>2
  <2>2. QED BY <1>0, <1>1, <2>1 DEF RecordingTypeOK
<1>5. \A s \in Session :
        manifest'[s] = IF s = session
                       THEN [stopped |-> TRUE, frame |-> closed'[session]["frame"], logs |-> closed'[session]["logs"]]
                       ELSE manifest[s]
  BY <1>0, <1>1 DEF RecordingTypeOK
<1>6. RecordingTypeOK'
  <2>1. manifest' \in [Session -> [stopped : BOOLEAN, frame : Seq(Segment), logs : Seq(Segment)]]
    <3>1. closed'[session]["frame"] \in Seq(Segment) /\ closed'[session]["logs"] \in Seq(Segment)
      BY <1>0, <1>4 DEF Stream
    <3>2. [stopped |-> TRUE, frame |-> closed'[session]["frame"], logs |-> closed'[session]["logs"]]
            \in [stopped : BOOLEAN, frame : Seq(Segment), logs : Seq(Segment)]
      BY <3>1
    <3>3. QED BY <1>0, <1>1, <3>2 DEF RecordingTypeOK
  <2>2. open' \in [Stream -> Segment]
    BY <1>1, EmptyFact DEF Segment
  <2>3. \A s \in Session, k \in Stream : <<>> \notin ToSet(closed'[s][k])
    BY <1>0, <1>2, <1>3 DEF RecordingTypeOK
  <2>4. QED BY <1>0, <1>1, <1>4, <2>1, <2>2, <2>3 DEF RecordingTypeOK
<1>7. Numbered' /\ LogsRise' /\ Opened'
  BY <1>1 DEF RecordingInv, Numbered, LogsRise, All, Writes, Opened
<1>8. ASSUME NEW s \in Session, NEW k \in Stream
      PROVE  /\ Lined(closed'[s][k]) /\ Loaded(closed'[s][k]) \subseteq Recorded(s, k)
             /\ s = session => Loaded(closed'[s][k]) = Recorded(s, k)
  <2>1. CASE s = session
    BY <1>2, <1>3, <2>1
  <2>2. CASE s # session
    BY <1>3, <2>2 DEF RecordingInv, Kept
  <2>3. QED BY <2>1, <2>2
<1>9. Kept'
  BY <1>1, <1>8 DEF Kept, Recorded
<1>10. Finished'
  <2>1. ASSUME NEW s \in Session
        PROVE  /\ ~manifest'[s].stopped => manifest'[s] = NoManifest
               /\ manifest'[s].stopped => \A k \in Stream :
                    manifest'[s][k] = closed'[s][k] /\ Loaded(closed'[s][k]) = Recorded(s, k)
    <3>1. CASE s = session
      BY <1>5, <1>8, <3>1 DEF Stream
    <3>2. CASE s # session
      BY <1>3, <1>5, <3>2 DEF RecordingInv, Finished
    <3>3. QED BY <3>1, <3>2
  <2>2. QED BY <1>1, <2>1 DEF Finished, Recorded
<1>11. Unborn'
  <2> SUFFICES ASSUME NEW s \in Session, s > session
               PROVE  closed'[s] = closed[s] /\ manifest'[s] = manifest[s]
    BY <1>1 DEF Unborn, RecordingInv
  <2>1. s # session
    BY <1>0 DEF Session
  <2>2. QED BY <1>0, <1>1, <2>1 DEF RecordingTypeOK
<1>12. ~manifest[session].stopped
  BY <1>1 DEF RecordingInv, Finished
<1>13. QED BY <1>1, <1>5, <1>6, <1>7, <1>9, <1>10, <1>11, <1>12 DEF RecordingInv

LEMMA NextRunFact == RecordingInv /\ NextRun => RecordingInv'
<1> SUFFICES ASSUME RecordingInv, NextRun PROVE RecordingInv'
  OBVIOUS
<1>1. /\ time' = 0 /\ session' = session /\ active' = active /\ closed' = closed /\ open' = open
      /\ manifest' = manifest /\ wall' = wall /\ written' = written
  BY DEF NextRun
<1>2. Writes \in Nat
  BY FS_CardinalityType DEF RecordingInv, Numbered, Writes, All
<1>3. Numbered'
  BY <1>1, <1>2 DEF RecordingInv, Numbered, All, Writes
<1>4. QED
  BY <1>1, <1>3
  DEF RecordingInv, RecordingTypeOK, LogsRise, All, Kept, Recorded, Opened, Finished, Unborn

LEMMA CrashFact == RecordingInv /\ Crash => RecordingInv'
<1> SUFFICES ASSUME RecordingInv, Crash PROVE RecordingInv'
  OBVIOUS
<1>1. /\ active' = FALSE /\ open' = [k \in Stream |-> <<>>] /\ session' = session /\ closed' = closed
      /\ manifest' = manifest /\ time' = time /\ wall' = wall /\ written' = written
  BY DEF Crash
<1>2. RecordingTypeOK'
  <2>1. open' \in [Stream -> Segment]
    BY <1>1, EmptyFact DEF Segment
  <2>2. QED BY <1>1, <2>1 DEF RecordingInv, RecordingTypeOK, Crash
<1>3. Finished' /\ Opened' /\ Kept' /\ Numbered' /\ LogsRise' /\ Unborn'
  BY <1>1
  DEF RecordingInv, Numbered, Writes, LogsRise, All, Kept, Recorded, Opened, Finished, Unborn
<1>4. QED BY <1>2, <1>3 DEF RecordingInv

LEMMA RecordingStep ==
  ASSUME RecordingInv, RecordingNext
  PROVE  /\ RecordingInv'
         /\ \A s \in Session : manifest[s].stopped \/ s # session => manifest'[s] = manifest[s]
<1>1. CASE Start
  BY <1>1, StartFact
<1>2. CASE WriteState
  BY <1>2, WriteStateFact DEF WriteState, Write
<1>3. CASE WriteLogs
  BY <1>3, WriteLogsFact DEF WriteLogs, Write
<1>4. CASE Stop
  BY <1>4, StopFact
<1>5. CASE NextRun
  BY <1>5, NextRunFact DEF NextRun
<1>6. CASE Crash
  BY <1>6, CrashFact DEF Crash
<1>7. QED BY <1>1, <1>2, <1>3, <1>4, <1>5, <1>6 DEF RecordingNext

LEMMA RecordingStutters ==
  ASSUME RecordingInv, UNCHANGED recVars
  PROVE  RecordingInv'
<1>1. /\ session' = session /\ active' = active /\ closed' = closed /\ open' = open
      /\ manifest' = manifest /\ time' = time /\ wall' = wall /\ written' = written
  BY DEF recVars
<1>2. RecordingTypeOK' /\ Finished' /\ Opened'
  BY <1>1 DEF RecordingInv, RecordingTypeOK, Recorded, Finished, Opened
<1>3. Numbered' /\ LogsRise' /\ Kept' /\ Unborn'
  BY <1>1 DEF RecordingInv, Numbered, Writes, LogsRise, All, Kept, Recorded, Unborn
<1>4. QED BY <1>2, <1>3 DEF RecordingInv

-----------------------------------------------------------------------------
(* The merge                                                               *)

Sorted(q) == \A a, b \in DOMAIN q : a < b => Earlier(q[a], q[b])

Distinct(S) == \A x, y \in S : x.n = y.n => x = y

LEMMA EarlierFact ==
  ASSUME NEW x \in Message, NEW y \in Message, NEW z \in Message
  PROVE  /\ ~Earlier(x, x)
         /\ Earlier(x, y) \/ Earlier(y, x) \/ x.n = y.n
         /\ Earlier(x, y) => ~Earlier(y, x) /\ x.stamp <= y.stamp
         /\ Earlier(x, y) /\ Earlier(y, z) => Earlier(x, z)
<1>1. /\ x.stamp \in Nat /\ y.stamp \in Nat /\ z.stamp \in Nat
      /\ x.n \in Nat /\ y.n \in Nat /\ z.n \in Nat
      /\ x.kind \in {"frame", "logs"} /\ y.kind \in {"frame", "logs"} /\ z.kind \in {"frame", "logs"}
  BY MessageFact DEF Stream
<1>2. QED BY <1>1 DEF Earlier

\* How many messages of S come before m.
Rank(S, m) == Cardinality({x \in S : Earlier(x, m)})

LEMMA RankFact ==
  ASSUME NEW S \in SUBSET Message, IsFiniteSet(S), Distinct(S), NEW x \in S, NEW y \in S
  PROVE  /\ Rank(S, x) \in 0 .. Cardinality(S) - 1
         /\ Earlier(x, y) => Rank(S, x) < Rank(S, y)
         /\ Rank(S, x) = Rank(S, y) => x = y
         /\ Rank(S, x) < Rank(S, y) => Earlier(x, y)
<1> DEFINE B(m) == {z \in S : Earlier(z, m)}
<1>1. ASSUME NEW m \in S
      PROVE  IsFiniteSet(B(m)) /\ Cardinality(B(m)) \in Nat /\ m \notin B(m) /\ B(m) \subseteq S
  <2>1. B(m) \subseteq S /\ IsFiniteSet(B(m))
    BY FS_Subset
  <2>2. QED BY <2>1, FS_CardinalityType, EarlierFact
<1>2. ASSUME NEW m \in S, NEW T, IsFiniteSet(T), B(m) \subseteq T, m \in T
      PROVE  Cardinality(B(m)) < Cardinality(T)
  <2>1. Cardinality(T) \in Nat /\ Cardinality(B(m)) \in Nat /\ B(m) # T
    BY <1>1, <1>2, FS_CardinalityType
  <2>2. Cardinality(B(m)) <= Cardinality(T) /\ Cardinality(B(m)) # Cardinality(T)
    BY <1>2, <2>1, FS_Subset
  <2>3. QED BY <2>1, <2>2
<1>3. ASSUME NEW a \in S, NEW b \in S, Earlier(a, b)
      PROVE  Cardinality(B(a)) < Cardinality(B(b))
  <2>1. B(a) \subseteq B(b)
    BY <1>3, EarlierFact
  <2>2. a \in B(b)
    BY <1>3
  <2>3. IsFiniteSet(B(b))
    BY <1>1
  <2> HIDE DEF B
  <2>4. QED BY <1>2, <2>1, <2>2, <2>3
<1>4. \A m \in S : Rank(S, m) = Cardinality(B(m))
  BY DEF Rank
<1>5. Rank(S, x) \in 0 .. Cardinality(S) - 1
  <2>1. Cardinality(B(x)) < Cardinality(S) /\ B(x) \subseteq S
    BY <1>1, <1>2
  <2>2. Cardinality(B(x)) \in Nat /\ Cardinality(S) \in Nat
    BY <1>1, FS_CardinalityType
  <2>3. QED BY <1>4, <2>1, <2>2
<1> HIDE DEF B
<1>6. Earlier(x, y) \/ Earlier(y, x) \/ x = y
  BY EarlierFact DEF Distinct
<1>7. Cardinality(B(x)) \in Nat /\ Cardinality(B(y)) \in Nat
  BY <1>1
<1>8. QED BY <1>3, <1>4, <1>5, <1>6, <1>7

LEMMA SortingFact ==
  ASSUME NEW S \in SUBSET Message, IsFiniteSet(S), Distinct(S),
         NEW q, q = [a \in 1 .. Cardinality(S) |-> CHOOSE m \in S : Rank(S, m) = a - 1]
  PROVE  q \in Seq(Message) /\ ToSet(q) = S /\ Sorted(q) /\ Len(q) = Cardinality(S)
<1> DEFINE N == Cardinality(S)
           f == [m \in S |-> Rank(S, m)]
<1>1. N \in Nat
  BY FS_CardinalityType
<1>2. IsFiniteSet(0 .. N - 1) /\ Cardinality(0 .. N - 1) = N
  <2>1. N - 1 \in Int /\ (IF 0 > N - 1 THEN 0 ELSE N - 1 - 0 + 1) = N
    BY <1>1
  <2> HIDE DEF N
  <2>2. QED BY <2>1, FS_Interval
<1>3. f \in Injection(S, 0 .. N - 1)
  <2>1. f \in [S -> 0 .. N - 1]
    BY RankFact
  <2>2. \A a, b \in S : f[a] = f[b] => a = b
    BY RankFact
  <2>3. QED BY <2>1, <2>2 DEF Injection, IsInjective
<1>4. f \in Surjection(S, 0 .. N - 1)
  <2> HIDE DEF f
  <2>1. QED BY <1>2, <1>3, FS_Injection DEF N
<1>5. \A r \in 0 .. N - 1 : \E m \in S : Rank(S, m) = r
  BY <1>4 DEF Surjection
<1>6. ASSUME NEW a \in 1 .. N PROVE q[a] \in S /\ Rank(S, q[a]) = a - 1
  <2>1. a - 1 \in 0 .. N - 1
    BY <1>1
  <2>2. q[a] = CHOOSE m \in S : Rank(S, m) = a - 1
    OBVIOUS
  <2>3. QED BY <1>5, <2>1, <2>2
<1>7. q \in Seq(Message) /\ DOMAIN q = 1 .. N /\ Len(q) = N
  <2>1. q \in [1 .. N -> Message]
    BY <1>6
  <2> HIDE DEF N
  <2>2. q \in Seq(Message)
    <3>1. Seq(Message) = UNION {[1 .. n -> Message] : n \in Nat}
      BY SeqDef, Zenon
    <3>2. QED BY <1>1, <2>1, <3>1, Zenon
  <2>3. DOMAIN q = 1 .. N /\ DOMAIN q = 1 .. Len(q) /\ Len(q) \in Nat
    BY <2>1, <2>2, LenProperties, Zenon
  <2>4. Len(q) = N
    <3> DEFINE L == Len(q)
    <3>1. L \in Nat /\ \A x : x \in 1 .. N <=> x \in 1 .. L
      BY <2>3
    <3> HIDE DEF L
    <3>2. N \in 1 .. N <=> N \in 1 .. L
      BY <3>1
    <3>3. L \in 1 .. N <=> L \in 1 .. L
      BY <3>1
    <3>4. L = N
      BY <1>1, <3>1, <3>2, <3>3
    <3>5. QED BY <3>4 DEF L
  <2>5. QED BY <2>2, <2>3, <2>4
<1> HIDE DEF N
<1>8. ToSet(q) = S
  <2>1. ToSet(q) \subseteq S
    BY <1>6, <1>7 DEF ToSet
  <2>2. ASSUME NEW m \in S PROVE m \in ToSet(q)
    <3>1. Rank(S, m) \in 0 .. N - 1
      BY RankFact DEF N
    <3>2. Rank(S, m) + 1 \in 1 .. N /\ (Rank(S, m) + 1) - 1 = Rank(S, m)
      BY <1>1, <3>1
    <3>3. q[Rank(S, m) + 1] = m
      BY <1>6, <3>2, RankFact
    <3>4. QED BY <1>7, <3>2, <3>3 DEF ToSet
  <2>3. QED BY <2>1, <2>2
<1>9. ASSUME NEW a \in DOMAIN q, NEW b \in DOMAIN q, a < b PROVE Earlier(q[a], q[b])
  <2>1. Rank(S, q[a]) = a - 1 /\ Rank(S, q[b]) = b - 1 /\ q[a] \in S /\ q[b] \in S
    BY <1>6, <1>7
  <2>2. Rank(S, q[a]) < Rank(S, q[b])
    BY <1>1, <1>7, <1>9, <2>1
  <2>3. QED BY <2>1, <2>2, RankFact
<1>10. QED BY <1>7, <1>8, <1>9 DEF Sorted, N

\* The merge of a set of messages.
MergedSet(S) == [a \in 1 .. Cardinality(S) |-> CHOOSE m \in S : Rank(S, m) = a - 1]

LEMMA MergedDef ==
  ASSUME NEW s, NEW S, ToSet(Rows(s, "frame")) \cup ToSet(Rows(s, "logs")) = S
  PROVE  Merged(s) = MergedSet(S)
<1> DEFINE r == ToSet(Rows(s, "frame")) \cup ToSet(Rows(s, "logs"))
<1>1. Merged(s) = MergedSet(r)
  BY Zenon DEF Merged, MergedSet, Rank
<1>2. QED BY <1>1

\* The merge of a stopped session has all that was recorded of it.
LEMMA MergedFact ==
  ASSUME RecordingInv, NEW s \in Session, manifest[s].stopped
  PROVE  Merged(s) \in Seq(Message) /\ ToSet(Merged(s)) = written[s] /\ Sorted(Merged(s))
<1>1. StoppedIsComplete
  BY RecordingComplete
<1>2. ToSet(Rows(s, "frame")) = Recorded(s, "frame") /\ ToSet(Rows(s, "logs")) = Recorded(s, "logs")
  BY <1>1 DEF StoppedIsComplete, Stream
<1>3. written[s] \subseteq Message /\ written[s] \subseteq All
  BY DEF RecordingInv, RecordingTypeOK, All
<1>4. Recorded(s, "frame") \cup Recorded(s, "logs") = written[s]
  BY <1>3, MessageFact DEF Recorded, Stream
<1>5. IsFiniteSet(written[s]) /\ Distinct(written[s])
  BY <1>3, FS_Subset DEF RecordingInv, Numbered, Distinct
<1>6. Merged(s) = MergedSet(written[s])
  BY <1>2, <1>4, MergedDef
<1>7. QED BY <1>3, <1>5, <1>6, SortingFact DEF MergedSet

\* The replayer finds nothing in a session that is not stopped.
LEMMA NothingMerged ==
  ASSUME RecordingInv, NEW s \in Session, ~manifest[s].stopped
  PROVE  Merged(s) = <<>> /\ Listed(s) = {}
<1>1. manifest[s] = NoManifest
  BY DEF RecordingInv, Finished
<1>2. FlattenSeq(<<>>) = <<>>
  BY DEF FlattenSeq
<1>3. Rows(s, "frame") = <<>> /\ Rows(s, "logs") = <<>>
  BY <1>1, <1>2 DEF Rows, NoManifest
<1>4. ToSet(Rows(s, "frame")) \cup ToSet(Rows(s, "logs")) = {}
  BY <1>3, EmptyFact
<1>5. 1 .. Cardinality({}) = {}
  BY FS_EmptySet
<1>6. Merged(s) = <<>>
  <2>1. Merged(s) = MergedSet({})
    BY <1>4, MergedDef
  <2>2. QED BY <1>5, <2>1 DEF MergedSet
<1>7. Listed(s) = {}
  BY <1>1, EmptyFact DEF Listed, NoManifest
<1>8. QED BY <1>6, <1>7

-----------------------------------------------------------------------------
(* The replayer                                                            *)

\* What the pump sends, read when the pass began, is a stopped session in order.
Shown ==
  events # <<>> =>
    /\ playing # 0 /\ manifest[playing].stopped
    /\ ToSet(events) = written[playing] /\ Sorted(events)

Asleep == playing = 0 => at = "resting" /\ events = <<>> /\ pass = <<>>

\* No message of a session that covers one run is earlier than its span.
StartsFirst ==
  playing # 0 /\ OneRun(playing) => \A m \in written[playing] : t0 <= m.stamp

Whole(n) == [k \in 1 .. n |-> k]

\* Nobody seeks: one message after the other, none is behind the playhead.
Straight ==
  playing # 0 /\ ~sought /\ OneRun(playing) =>
    /\ at \in {"held", "waiting"} => pass = Whole(i - 1) /\ playhead <= events[i].stamp
    /\ at = "sending" => pass = Whole(i) /\ playhead = events[i].stamp
    /\ at = "resting" => pass = <<>> \/ pass = Whole(Len(events))

\* What passes a pause was waited for when it came.
Quiet == paused => leaked <= 1 /\ (at = "waiting" => leaked = 0)

\* From the message at which the pump was held, or is still, to the goal.
Target ==
  heldAt # 0 =>
    /\ goal # None /\ at # "resting"
    /\ since = <<>> => \/ at = "held" /\ i = heldAt /\ playhead = goal
                       \/ at = "waiting" /\ i = Max({heldAt, Goal})
    /\ since # <<>> => since[1] = Max({heldAt, Goal})

RestsEmpty == at = "resting" => since = <<>> /\ i = 0

PlayInv ==
  ReplayTypeOK /\ Shown /\ Asleep /\ StartsFirst /\ Straight /\ Quiet /\ Target /\ RestsEmpty

LEMMA WholeFact ==
  ASSUME NEW n \in Nat
  PROVE  /\ Whole(0) = <<>>
         /\ Whole(n) \in Seq(Nat) /\ Len(Whole(n)) = n /\ DOMAIN Whole(n) = 1 .. n
         /\ \A a \in 1 .. n : Whole(n)[a] = a
         /\ Append(Whole(n), n + 1) = Whole(n + 1)
<1>1. \A m \in Nat : Whole(m) \in Seq(Nat) /\ Len(Whole(m)) = m
  BY IsASeq DEF Whole
<1>2. \A m \in Nat : DOMAIN Whole(m) = 1 .. m /\ \A a \in 1 .. m : Whole(m)[a] = a
  BY DEF Whole
<1> DEFINE p == Append(Whole(n), n + 1)
           q == Whole(n + 1)
<1>3. /\ p \in Seq(Nat) /\ Len(p) = n + 1
      /\ \A a \in 1 .. n : p[a] = Whole(n)[a]
      /\ p[n + 1] = n + 1
  <2>1. Whole(n) \in Seq(Nat) /\ Len(Whole(n)) = n /\ n + 1 \in Nat
    BY <1>1
  <2>2. QED BY <2>1, AppendProperties
<1>4. q \in Seq(Nat) /\ Len(q) = n + 1 /\ \A a \in 1 .. n + 1 : q[a] = a
  BY <1>1, <1>2
<1> HIDE DEF p, q
<1>5. \A a \in 1 .. n + 1 : a \in 1 .. n \/ a = n + 1
  OBVIOUS
<1>6. ASSUME NEW a \in 1 .. Len(p) PROVE p[a] = q[a]
  <2>1. q[a] = a /\ (a \in 1 .. n \/ a = n + 1)
    BY <1>3, <1>4, <1>5
  <2>2. a \in 1 .. n => p[a] = a
    BY <1>2, <1>3
  <2>3. QED BY <1>3, <2>1, <2>2
<1>7. p = q
  BY <1>3, <1>4, <1>6, SeqEqual
<1>8. Whole(0) = <<>>
  BY <1>1
<1>9. QED BY <1>1, <1>2, <1>7, <1>8 DEF p, q

\* The first message at or after a goal, or the one it was held at.
GoalIn(ev, g) == Min({k \in DOMAIN ev : ev[k].stamp >= g})

LEMMA GoalFact ==
  ASSUME NEW ev \in Seq(Message), Sorted(ev), NEW n \in 1 .. Len(ev), NEW g \in Nat,
         NEW f \in n .. Len(ev), ev[f].stamp >= g, \A k \in n .. f - 1 : ev[k].stamp < g
  PROVE  f = Max({n, GoalIn(ev, g)})
<1> DEFINE T == {k \in DOMAIN ev : ev[k].stamp >= g}
           t == Min(T)
<1>1. DOMAIN ev = 1 .. Len(ev) /\ Len(ev) \in Nat /\ n \in Nat /\ f \in Nat /\ 1 <= n /\ n <= f /\ f <= Len(ev)
  OBVIOUS
<1>2. \A a \in 1 .. Len(ev) : ev[a] \in Message
  OBVIOUS
<1>3. T \in SUBSET Nat /\ f \in T
  BY <1>1
<1>4. t \in T /\ \A k \in T : t <= k
  BY <1>3, MinFact
<1>5. GoalIn(ev, g) = t
  BY DEF GoalIn
<1>6. t \in 1 .. Len(ev) /\ ev[t].stamp >= g /\ t <= f /\ t \in Nat
  BY <1>1, <1>3, <1>4
<1> HIDE DEF T, t
<1>7. f = n \/ f = t
  <2> SUFFICES ASSUME f # n, f # t PROVE FALSE
    OBVIOUS
  <2>1. n \in n .. f - 1 /\ n < f /\ t < f
    BY <1>1, <1>6
  <2>2. ev[n].stamp < g
    BY <2>1
  <2>3. CASE t < n
    <3>1. Earlier(ev[t], ev[n])
      BY <1>1, <1>6, <2>3 DEF Sorted
    <3>2. ev[t].stamp <= ev[n].stamp
      BY <1>1, <1>2, <1>6, <3>1, EarlierFact
    <3>3. ev[t].stamp \in Nat /\ ev[n].stamp \in Nat
      BY <1>1, <1>2, <1>6, MessageFact
    <3>4. QED BY <1>6, <2>2, <3>2, <3>3
  <2>4. CASE n <= t
    <3>1. t \in n .. f - 1
      BY <1>1, <1>6, <2>1, <2>4
    <3>2. ev[t].stamp < g /\ ev[t].stamp \in Nat
      BY <1>2, <1>6, <3>1, MessageFact
    <3>3. QED BY <1>6, <3>2
  <2>5. QED BY <1>1, <1>6, <2>3, <2>4
<1>8. Max({n, t}) \in {n, t} /\ \A m \in {n, t} : m <= Max({n, t})
  <2>1. {n, t} \in SUBSET Nat /\ {n, t} # {} /\ \A m \in {n, t} : m <= f
    BY <1>1, <1>6
  <2>2. QED BY <1>1, <2>1, MaxFact
<1>9. QED BY <1>1, <1>5, <1>6, <1>7, <1>8

\* What every step of the pump starts from: the messages ev of its pass.
Frame(ev) ==
  /\ playing \in Session /\ manifest[playing].stopped
  /\ ToSet(ev) = written[playing] /\ Sorted(ev)
  /\ since \in Seq(1 .. Len(ev)) /\ heldAt \in 0 .. Len(ev)
  /\ heldAt # 0 => events = ev /\ goal # None
  /\ events' = ev
  /\ recVars' = recVars /\ source' = source /\ paused' = paused /\ controls' = controls

LEMMA FrameFact ==
  ASSUME RecordingInv, PlayInv, NEW ev \in Seq(Message), Frame(ev)
  PROVE  /\ RecordingInv' /\ Shown' /\ Asleep' /\ StartsFirst'
         /\ playing' = playing /\ (OneRun(playing)' <=> OneRun(playing))
         /\ DOMAIN ev = 1 .. Len(ev) /\ Len(ev) \in Nat
         /\ \A a \in 1 .. Len(ev) :
              ev[a] \in Message /\ ev[a].stamp \in Times /\ ev[a].stamp \in Nat /\ ev[a] \in written[playing]
<1>1. RecordingInv'
  BY RecordingStutters DEF Frame
<1>2. /\ session' = session /\ manifest' = manifest /\ written' = written
      /\ playing' = playing /\ t0' = t0 /\ t1' = t1
  BY DEF Frame, recVars, source
<1>3. OneRun(playing)' <=> OneRun(playing)
  BY <1>2 DEF OneRun, Recorded
<1>4. Shown' /\ Asleep'
  BY <1>2, RecordingAssumption DEF Frame, Shown, Asleep, Session
<1>5. StartsFirst'
  BY <1>2, <1>3 DEF PlayInv, StartsFirst
<1>6. DOMAIN ev = 1 .. Len(ev) /\ Len(ev) \in Nat /\ \A a \in 1 .. Len(ev) : ev[a] \in Message
  OBVIOUS
<1>7. ASSUME NEW a \in 1 .. Len(ev)
      PROVE  ev[a] \in written[playing] /\ ev[a].stamp \in Times /\ ev[a].stamp \in Nat
  <2>1. ev[a] \in written[playing]
    BY <1>6 DEF ToSet, Frame
  <2>2. ev[a] \in All
    BY <2>1 DEF All, Frame
  <2>3. ev[a].stamp \in Nat /\ ev[a].stamp <= Epoch + MaxWrites
    BY <1>6, <2>2, MessageFact DEF RecordingInv, Numbered
  <2>4. QED BY <2>1, <2>3, RecordingAssumption DEF Times
<1>8. QED BY <1>1, <1>2, <1>3, <1>4, <1>5, <1>6, <1>7

LEMMA LandFact ==
  ASSUME RecordingInv, PlayInv, NEW ev \in Seq(Message), Frame(ev),
         at' \in {"held", "waiting", "sending", "resting"},
         i' \in 0 .. Len(ev), at' # "resting" => i' # 0,
         pass' \in Seq(1 .. Len(ev)), since' \in Seq(1 .. Len(ev)), heldAt' \in 0 .. Len(ev),
         goal' \in Times \cup {None}, playhead' \in Times, leaked' \in Nat, sought' \in BOOLEAN,
         Straight', Quiet', Target', RestsEmpty'
  PROVE  RecordingInv' /\ PlayInv'
<1>1. RecordingInv' /\ Shown' /\ Asleep' /\ StartsFirst' /\ DOMAIN ev = 1 .. Len(ev)
  BY FrameFact
<1>2. /\ session' = session /\ playing' = playing /\ t0' = t0 /\ t1' = t1
      /\ paused' = paused /\ controls' = controls /\ events' = ev
  BY DEF Frame, recVars, source
<1>3. ReplayTypeOK'
  BY <1>1, <1>2 DEF PlayInv, RecordingInv, ReplayTypeOK
<1>4. QED BY <1>1, <1>3 DEF PlayInv

\* The message that a pass takes next, and what it was chosen by.
Chosen(ev, n) ==
  /\ paused => leaked = 0
  /\ heldAt # 0 => /\ since = <<>> => n = Max({heldAt, Goal})
                   /\ since # <<>> => since[1] = Max({heldAt, Goal})

InStep(done, n) == ~sought' /\ OneRun(playing) => done = Whole(n - 1)

LEMMA SendFact ==
  ASSUME RecordingInv, PlayInv, NEW ev \in Seq(Message), Frame(ev), sought' \in BOOLEAN,
         NEW n \in 1 .. Len(ev), NEW done \in Seq(1 .. Len(ev)), Chosen(ev, n), InStep(done, n),
         Send(ev, n, done)
  PROVE  RecordingInv' /\ PlayInv'
<1>1. /\ playing' = playing /\ (OneRun(playing)' <=> OneRun(playing))
      /\ DOMAIN ev = 1 .. Len(ev) /\ Len(ev) \in Nat
      /\ \A a \in 1 .. Len(ev) : ev[a].stamp \in Times /\ ev[a].stamp \in Nat
  BY FrameFact
<1>2. /\ at' = "sending" /\ i' = n /\ playhead' = ev[n].stamp
      /\ pass' = Append(done, n) /\ since' = Append(since, n)
      /\ leaked' = (IF paused THEN leaked + 1 ELSE leaked)
      /\ goal' = goal /\ heldAt' = heldAt
  BY DEF Send
<1>3. /\ since \in Seq(1 .. Len(ev)) /\ heldAt \in 0 .. Len(ev) /\ (heldAt # 0 => events = ev /\ goal # None)
      /\ events' = ev /\ paused' = paused
  BY DEF Frame
<1>4. goal \in Times \cup {None} /\ leaked \in Nat
  BY DEF PlayInv, ReplayTypeOK
<1>5. pass' \in Seq(1 .. Len(ev)) /\ since' \in Seq(1 .. Len(ev)) /\ since' # <<>>
  <2> DEFINE D == 1 .. Len(ev)
  <2>1. n \in D /\ done \in Seq(D) /\ since \in Seq(D)
    BY <1>3
  <2> HIDE DEF D
  <2>2. Append(done, n) \in Seq(D) /\ Append(since, n) \in Seq(D) /\ Append(since, n) # <<>>
    BY <2>1, AppendProperties
  <2>3. QED BY <1>2, <2>2 DEF D
<1>6. since'[1] = IF since = <<>> THEN n ELSE since[1]
  BY <1>2, <1>3
<1>7. Straight'
  <2> SUFFICES ASSUME ~sought', OneRun(playing) PROVE pass' = Whole(n) /\ playhead' = events'[n].stamp
    BY <1>1, <1>2 DEF Straight
  <2>1. done = Whole(n - 1) /\ n - 1 \in Nat /\ (n - 1) + 1 = n
    BY DEF InStep
  <2>2. QED BY <1>2, <1>3, <2>1, WholeFact
<1>8. Quiet'
  BY <1>2, <1>3, <1>4 DEF Quiet, Chosen
<1>9. Target'
  <2> SUFFICES ASSUME heldAt # 0 PROVE goal # None /\ since'[1] = Max({heldAt, Goal'})
    BY <1>2, <1>5 DEF Target
  <2>1. Goal' = Goal
    BY <1>2, <1>3 DEF Goal
  <2>2. QED BY <1>3, <1>6, <2>1 DEF Chosen
<1>10. RestsEmpty'
  BY <1>2 DEF RestsEmpty
<1>11. leaked' \in Nat /\ i' \in 0 .. Len(ev) /\ i' # 0 /\ playhead' \in Times
  BY <1>1, <1>2, <1>4
<1>12. QED BY <1>2, <1>3, <1>4, <1>5, <1>7, <1>8, <1>9, <1>10, <1>11, LandFact

LEMMA AwaitFact ==
  ASSUME RecordingInv, PlayInv, NEW ev \in Seq(Message), Frame(ev), sought' \in BOOLEAN,
         NEW n \in 1 .. Len(ev), NEW head \in Times, NEW done \in Seq(1 .. Len(ev)),
         Chosen(ev, n), InStep(done, n), ~paused, head <= ev[n].stamp, Await(n, head, done)
  PROVE  RecordingInv' /\ PlayInv'
<1>1. playing' = playing /\ (OneRun(playing)' <=> OneRun(playing)) /\ Len(ev) \in Nat
  BY FrameFact
<1>2. /\ at' = "waiting" /\ i' = n /\ playhead' = head /\ pass' = done
      /\ goal' = goal /\ since' = since /\ heldAt' = heldAt /\ leaked' = leaked
  BY DEF Await
<1>3. /\ since \in Seq(1 .. Len(ev)) /\ heldAt \in 0 .. Len(ev) /\ (heldAt # 0 => events = ev /\ goal # None)
      /\ events' = ev /\ paused' = paused
  BY DEF Frame
<1>4. goal \in Times \cup {None} /\ leaked \in Nat
  BY DEF PlayInv, ReplayTypeOK
<1>5. Straight'
  BY <1>1, <1>2, <1>3 DEF Straight, InStep
<1>6. Quiet' /\ RestsEmpty'
  BY <1>2, <1>3 DEF Quiet, RestsEmpty
<1>7. Target'
  <2> SUFFICES ASSUME heldAt # 0
               PROVE  /\ goal # None
                      /\ since = <<>> => n = Max({heldAt, Goal'})
                      /\ since # <<>> => since[1] = Max({heldAt, Goal'})
    BY <1>2 DEF Target
  <2>1. Goal' = Goal
    BY <1>2, <1>3 DEF Goal
  <2>2. QED BY <1>3, <2>1 DEF Chosen
<1>8. i' \in 0 .. Len(ev) /\ i' # 0
  BY <1>1, <1>2
<1>9. QED BY <1>2, <1>3, <1>4, <1>5, <1>6, <1>7, <1>8, LandFact

LEMMA HoldFact ==
  ASSUME RecordingInv, PlayInv, NEW ev \in Seq(Message), Frame(ev), sought' \in BOOLEAN,
         NEW n \in 1 .. Len(ev), NEW head \in Times, NEW done \in Seq(1 .. Len(ev)),
         InStep(done, n), ~sought' /\ OneRun(playing) => head <= ev[n].stamp,
         paused => leaked <= 1,
         heldAt # 0 => since # <<>> /\ since[1] = Max({heldAt, Goal}),
         Hold(n, head, done)
  PROVE  RecordingInv' /\ PlayInv'
<1>1. playing' = playing /\ (OneRun(playing)' <=> OneRun(playing)) /\ Len(ev) \in Nat
  BY FrameFact
<1>2. /\ at' = "held" /\ i' = n /\ playhead' = head /\ pass' = done
      /\ goal' = goal /\ since' = since /\ heldAt' = heldAt /\ leaked' = leaked
  BY DEF Hold
<1>3. /\ since \in Seq(1 .. Len(ev)) /\ heldAt \in 0 .. Len(ev) /\ (heldAt # 0 => events = ev /\ goal # None)
      /\ events' = ev /\ paused' = paused
  BY DEF Frame
<1>4. goal \in Times \cup {None} /\ leaked \in Nat
  BY DEF PlayInv, ReplayTypeOK
<1>5. Straight'
  BY <1>1, <1>2, <1>3 DEF Straight, InStep
<1>6. Quiet' /\ RestsEmpty'
  BY <1>2, <1>3 DEF Quiet, RestsEmpty
<1>7. Target'
  <2> SUFFICES ASSUME heldAt # 0 PROVE goal # None /\ since # <<>> /\ since[1] = Max({heldAt, Goal'})
    BY <1>2 DEF Target
  <2>1. Goal' = Goal
    BY <1>2, <1>3 DEF Goal
  <2>2. QED BY <1>3, <2>1
<1>8. i' \in 0 .. Len(ev) /\ i' # 0
  BY <1>1, <1>2
<1>9. QED BY <1>2, <1>3, <1>4, <1>5, <1>6, <1>7, <1>8, LandFact

LEMMA FinishFact ==
  ASSUME RecordingInv, PlayInv, NEW ev \in Seq(Message), Frame(ev), sought' \in BOOLEAN,
         NEW done \in Seq(1 .. Len(ev)),
         ~sought' /\ OneRun(playing) => done = <<>> \/ done = Whole(Len(ev)),
         paused => leaked <= 1,
         Finish(done)
  PROVE  RecordingInv' /\ PlayInv'
<1>1. playing' = playing /\ (OneRun(playing)' <=> OneRun(playing)) /\ Len(ev) \in Nat
  BY FrameFact
<1>2. /\ at' = "resting" /\ i' = 0 /\ goal' = None /\ since' = <<>> /\ heldAt' = 0
      /\ pass' = done /\ playhead' = playhead /\ leaked' = leaked
  BY DEF Finish
<1>3. events' = ev /\ paused' = paused
  BY DEF Frame
<1>4. playhead \in Times /\ leaked \in Nat
  BY DEF PlayInv, ReplayTypeOK
<1>5. Straight'
  BY <1>1, <1>2, <1>3 DEF Straight
<1>6. Quiet' /\ RestsEmpty' /\ Target'
  BY <1>2, <1>3 DEF Quiet, RestsEmpty, Target
<1>7. i' \in 0 .. Len(ev) /\ since' \in Seq(1 .. Len(ev)) /\ heldAt' \in 0 .. Len(ev)
  BY <1>1, <1>2
<1>8. QED BY <1>2, <1>4, <1>5, <1>6, <1>7, LandFact

\* The head from which a pass goes on, and what a seek wants of it.
Going(ev, n, head, done) ==
  /\ paused => leaked <= 1
  /\ ~sought' /\ OneRun(playing) => done = Whole(n - 1) /\ (n <= Len(ev) => head <= ev[n].stamp)
  /\ heldAt # 0 => /\ since = <<>> => n = heldAt /\ head = goal
                   /\ since # <<>> => since[1] = Max({heldAt, Goal})

LEMMA TakeFact ==
  ASSUME RecordingInv, PlayInv, NEW ev \in Seq(Message), Frame(ev), sought' \in BOOLEAN,
         NEW n \in 1 .. Len(ev), NEW head \in Times, NEW done \in Seq(1 .. Len(ev)),
         Going(ev, n, head, done), ~paused, Take(ev, n, head, done)
  PROVE  RecordingInv' /\ PlayInv'
<1> DEFINE ahead == {k \in n .. Len(ev) : ~Behind(ev[k], head)}
           first == Min(ahead)
<1>1. /\ DOMAIN ev = 1 .. Len(ev) /\ Len(ev) \in Nat /\ head \in Nat
      /\ \A a \in 1 .. Len(ev) : ev[a].stamp \in Nat
  BY FrameFact DEF Times
<1>2. \A a \in n .. Len(ev) : a \in 1 .. Len(ev) /\ a \in Nat
  BY <1>1
<1>3. CASE ahead = {}
  <2>1. Finish(done)
    BY <1>3, Zenon DEF Take
  <2>2. ~(~sought' /\ OneRun(playing))
    <3> SUFFICES ASSUME ~sought', OneRun(playing) PROVE FALSE
      OBVIOUS
    <3>1. n \in n .. Len(ev) /\ head <= ev[n].stamp /\ ev[n].stamp \in Nat
      BY <1>1 DEF Going
    <3>2. ~Behind(ev[n], head)
      BY <1>1, <3>1 DEF Behind
    <3>3. n \in ahead
      BY <3>1, <3>2
    <3>4. QED BY <1>3, <3>3
  <2>3. QED BY <2>1, <2>2, FinishFact
<1>4. CASE ahead # {}
  <2>1. first \in ahead /\ \A a \in ahead : first <= a
    <3>1. ahead \in SUBSET Nat
      BY <1>2
    <3>2. QED BY <1>4, <3>1, MinFact
  <2>2. PICK f \in n .. Len(ev) : f = first
    BY <2>1
  <2>3. ~Behind(ev[f], head) /\ \A k \in n .. Len(ev) : ~Behind(ev[k], head) => f <= k
    BY <2>1, <2>2
  <2>4. \/ Await(f, head, done)
        \/ Send(ev, f, done)
    <3>1. LET prev == IF first = 1 THEN t0 ELSE ev[first - 1].stamp
          IN IF ev[first].stamp > prev THEN Await(first, head, done) ELSE Send(ev, first, done)
      BY <1>4, Zenon DEF Take
    <3>2. Await(first, head, done) \/ Send(ev, first, done)
      BY <3>1, Zenon
    <3>3. QED BY <2>2, <3>2, Zenon
  <2> HIDE DEF ahead, first
  <2>5. f \in 1 .. Len(ev) /\ f \in Nat /\ n \in Nat /\ n <= f /\ f <= Len(ev)
    BY <1>1, <1>2
  <2>6. ev[f].stamp >= head
    BY <1>1, <2>3, <2>5 DEF Behind
  <2>7. \A k \in n .. f - 1 : ev[k].stamp < head
    <3> SUFFICES ASSUME NEW k \in n .. f - 1 PROVE ev[k].stamp < head
      OBVIOUS
    <3>1. k \in n .. Len(ev) /\ ~(f <= k)
      BY <1>1, <2>5
    <3>2. Behind(ev[k], head)
      BY <2>3, <3>1
    <3>3. QED BY <3>2 DEF Behind
  <2>8. InStep(done, f)
    <3> SUFFICES ASSUME ~sought', OneRun(playing) PROVE done = Whole(f - 1)
      BY DEF InStep
    <3>1. done = Whole(n - 1) /\ head <= ev[n].stamp
      BY <1>1 DEF Going
    <3>2. n \in n .. f - 1 => ev[n].stamp < head
      BY <2>7
    <3>3. ev[n].stamp \in Nat
      BY <1>1
    <3>4. f = n
      BY <1>1, <2>5, <3>1, <3>2, <3>3
    <3>5. QED BY <3>1, <3>4
  <2>9. Chosen(ev, f)
    <3> SUFFICES ASSUME heldAt # 0, since = <<>> PROVE f = Max({heldAt, Goal})
      BY DEF Chosen, Going
    <3>1. n = heldAt /\ head = goal /\ events = ev
      BY DEF Going, Frame
    <3>2. f = Max({n, GoalIn(ev, head)})
      BY <1>1, <2>6, <2>7, GoalFact DEF Frame
    <3>3. GoalIn(ev, head) = Goal
      BY <3>1 DEF GoalIn, Goal
    <3>4. QED BY <3>1, <3>2, <3>3
  <2>10. CASE Await(f, head, done)
    <3>1. head <= ev[f].stamp
      BY <1>1, <2>5, <2>6
    <3>2. QED BY <2>5, <2>8, <2>9, <2>10, <3>1, AwaitFact
  <2>11. CASE Send(ev, f, done)
    BY <2>5, <2>8, <2>9, <2>11, SendFact
  <2>12. QED BY <2>4, <2>10, <2>11
<1>5. QED BY <1>3, <1>4

LEMMA AdvanceFact ==
  ASSUME RecordingInv, PlayInv, NEW ev \in Seq(Message), Frame(ev), sought' \in BOOLEAN,
         NEW n \in 1 .. Len(ev) + 1, NEW head \in Times, NEW done \in Seq(1 .. Len(ev)),
         Going(ev, n, head, done), heldAt # 0 => since # <<>>, Advance(ev, n, head, done)
  PROVE  RecordingInv' /\ PlayInv'
<1>1. Len(ev) \in Nat
  BY FrameFact
<1>2. CASE n > Len(ev)
  <2>1. Finish(done) /\ n - 1 = Len(ev)
    BY <1>1, <1>2 DEF Advance
  <2>2. QED BY <2>1, FinishFact DEF Going
<1>3. CASE ~(n > Len(ev))
  <2>1. n \in 1 .. Len(ev) /\ n <= Len(ev)
    BY <1>1, <1>3
  <2>2. CASE paused
    <3>1. Hold(n, head, done)
      BY <1>3, <2>2, Zenon DEF Advance
    <3>2. QED BY <2>1, <3>1, HoldFact DEF Going, InStep
  <2>3. CASE ~paused
    <3>1. Take(ev, n, head, done)
      BY <1>3, <2>3, Zenon DEF Advance
    <3>2. QED BY <2>1, <2>3, <3>1, TakeFact
  <2>4. QED BY <2>2, <2>3
<1>4. QED BY <1>2, <1>3

LEMMA BeginPassFact ==
  ASSUME RecordingInv, PlayInv, BeginPass
  PROVE  RecordingInv' /\ PlayInv'
<1>1. /\ at = "resting" /\ playing # 0 /\ Merged(playing) # <<>> /\ events' = Merged(playing)
      /\ Advance(events', 1, t0, <<>>)
      /\ sought' = FALSE
      /\ recVars' = recVars /\ source' = source /\ paused' = paused /\ controls' = controls
  BY DEF BeginPass
<1>2. playing \in Session /\ t0 \in Times
  BY <1>1, RecordingAssumption DEF PlayInv, ReplayTypeOK, RecordingInv, RecordingTypeOK, Session
<1>3. manifest[playing].stopped
  BY <1>1, <1>2, NothingMerged
<1>4. PICK ev : ev = Merged(playing)
  OBVIOUS
<1>5. ev \in Seq(Message) /\ ToSet(ev) = written[playing] /\ Sorted(ev) /\ ev # <<>>
  BY <1>1, <1>2, <1>3, <1>4, MergedFact
<1>6. since = <<>> /\ heldAt = 0 /\ (paused => leaked <= 1)
  BY <1>1 DEF PlayInv, RestsEmpty, Target, Quiet
<1>7. Len(ev) \in Nat /\ Len(ev) # 0 /\ DOMAIN ev = 1 .. Len(ev)
  BY <1>5
<1>8. Frame(ev)
  <2>1. since \in Seq(1 .. Len(ev)) /\ heldAt \in 0 .. Len(ev)
    BY <1>6, <1>7
  <2>2. QED BY <1>1, <1>2, <1>3, <1>4, <1>5, <1>6, <2>1 DEF Frame
<1>9. Advance(ev, 1, t0, <<>>)
  BY <1>1, <1>4, Zenon
<1>10. PICK n \in 1 .. Len(ev) + 1 : n = 1
  BY <1>7
<1>11. PICK head \in Times : head = t0
  BY <1>2
<1>12. Going(ev, n, head, <<>>)
  <2>1. <<>> = Whole(n - 1)
    BY <1>10, WholeFact
  <2>2. ASSUME OneRun(playing) PROVE head <= ev[n].stamp
    <3>1. ev[n] \in written[playing]
      BY <1>5, <1>7, <1>10 DEF ToSet
    <3>2. QED BY <1>1, <1>11, <2>2, <3>1 DEF PlayInv, StartsFirst
  <2>3. QED BY <1>6, <2>1, <2>2 DEF Going
<1>13. <<>> \in Seq(1 .. Len(ev))
  OBVIOUS
<1>14. Advance(ev, n, head, <<>>)
  BY <1>9, <1>10, <1>11
<1>15. QED BY <1>1, <1>5, <1>6, <1>8, <1>12, <1>13, <1>14, AdvanceFact

\* What the pump goes on with in a pass that has begun.
LEMMA GoingOn ==
  ASSUME RecordingInv, PlayInv, at # "resting", UNCHANGED <<recVars, source, events, paused, sought, controls>>
  PROVE  \E ev \in Seq(Message) : \E n \in 1 .. Len(ev), head \in Times, done \in Seq(1 .. Len(ev)) :
           /\ ev = events /\ n = i /\ head = playhead /\ done = pass
           /\ Frame(ev) /\ sought' \in BOOLEAN /\ Len(ev) \in Nat
<1>1. /\ events \in Seq(Message) /\ i \in 0 .. Len(events) /\ i # 0 /\ playhead \in Times
      /\ pass \in Seq(DOMAIN events) /\ since \in Seq(DOMAIN events) /\ heldAt \in 0 .. Len(events)
      /\ sought \in BOOLEAN
  BY DEF PlayInv, ReplayTypeOK
<1>2. DOMAIN events = 1 .. Len(events) /\ Len(events) \in Nat
  BY <1>1
<1>3. i \in 1 .. Len(events) /\ events # <<>>
  BY <1>1, <1>2
<1>4. /\ playing # 0 /\ manifest[playing].stopped /\ ToSet(events) = written[playing] /\ Sorted(events)
  BY <1>3 DEF PlayInv, Shown
<1>5. playing \in Session
  BY <1>4, RecordingAssumption DEF PlayInv, ReplayTypeOK, RecordingInv, RecordingTypeOK, Session
<1>6. Frame(events)
  BY <1>1, <1>2, <1>4, <1>5 DEF Frame, PlayInv, Target
<1>7. PICK ev \in Seq(Message) : ev = events
  BY <1>1
<1>8. QED BY <1>1, <1>2, <1>3, <1>6, <1>7 DEF Frame

LEMMA ResumeFact ==
  ASSUME RecordingInv, PlayInv, Resume
  PROVE  RecordingInv' /\ PlayInv'
<1>1. /\ at = "held" /\ ~paused /\ Take(events, i, playhead, pass)
      /\ UNCHANGED <<recVars, source, events, paused, sought, controls>>
  BY DEF Resume
<1>2. PICK ev \in Seq(Message) : \E n \in 1 .. Len(ev), head \in Times, done \in Seq(1 .. Len(ev)) :
           /\ ev = events /\ n = i /\ head = playhead /\ done = pass
           /\ Frame(ev) /\ sought' \in BOOLEAN /\ Len(ev) \in Nat
  BY <1>1, GoingOn
<1>3. PICK n \in 1 .. Len(ev), head \in Times, done \in Seq(1 .. Len(ev)) :
           /\ ev = events /\ n = i /\ head = playhead /\ done = pass
           /\ Frame(ev) /\ sought' \in BOOLEAN /\ Len(ev) \in Nat
  BY <1>2
<1>4. Take(ev, n, head, done)
  BY <1>1, <1>3, Zenon
<1>5. Going(ev, n, head, done)
  <2>1. ~sought' /\ OneRun(playing) => done = Whole(n - 1) /\ (n <= Len(ev) => head <= ev[n].stamp)
    BY <1>1, <1>3, RecordingAssumption DEF PlayInv, Straight, Frame, Session
  <2>2. heldAt # 0 => /\ since = <<>> => n = heldAt /\ head = goal
                      /\ since # <<>> => since[1] = Max({heldAt, Goal})
    BY <1>1, <1>3 DEF PlayInv, Target
  <2>3. QED BY <1>1, <2>1, <2>2 DEF Going
<1>6. QED BY <1>1, <1>3, <1>4, <1>5, TakeFact

LEMMA DueFact ==
  ASSUME RecordingInv, PlayInv, Due
  PROVE  RecordingInv' /\ PlayInv'
<1>1. /\ at = "waiting" /\ Send(events, i, pass)
      /\ UNCHANGED <<recVars, source, events, paused, sought, controls>>
  BY DEF Due
<1>2. PICK ev \in Seq(Message) : \E n \in 1 .. Len(ev), head \in Times, done \in Seq(1 .. Len(ev)) :
           /\ ev = events /\ n = i /\ head = playhead /\ done = pass
           /\ Frame(ev) /\ sought' \in BOOLEAN /\ Len(ev) \in Nat
  BY <1>1, GoingOn
<1>3. PICK n \in 1 .. Len(ev), head \in Times, done \in Seq(1 .. Len(ev)) :
           /\ ev = events /\ n = i /\ head = playhead /\ done = pass
           /\ Frame(ev) /\ sought' \in BOOLEAN /\ Len(ev) \in Nat
  BY <1>2
<1>4. Send(ev, n, done)
  BY <1>1, <1>3, Zenon
<1>5. InStep(done, n)
  BY <1>1, <1>3, RecordingAssumption DEF InStep, PlayInv, Straight, Frame, Session
<1>6. Chosen(ev, n)
  BY <1>1, <1>3 DEF Chosen, PlayInv, Quiet, Target
<1>7. QED BY <1>3, <1>4, <1>5, <1>6, SendFact

LEMMA SentFact ==
  ASSUME RecordingInv, PlayInv, Sent
  PROVE  RecordingInv' /\ PlayInv'
<1>1. /\ at = "sending" /\ Advance(events, i + 1, playhead, pass)
      /\ UNCHANGED <<recVars, source, events, paused, sought, controls>>
  BY DEF Sent
<1>2. PICK ev \in Seq(Message) : \E n \in 1 .. Len(ev), head \in Times, done \in Seq(1 .. Len(ev)) :
           /\ ev = events /\ n = i /\ head = playhead /\ done = pass
           /\ Frame(ev) /\ sought' \in BOOLEAN /\ Len(ev) \in Nat
  BY <1>1, GoingOn
<1>3. PICK n \in 1 .. Len(ev), head \in Times, done \in Seq(1 .. Len(ev)) :
           /\ ev = events /\ n = i /\ head = playhead /\ done = pass
           /\ Frame(ev) /\ sought' \in BOOLEAN /\ Len(ev) \in Nat
  BY <1>2
<1>4. PICK next \in 1 .. Len(ev) + 1 : next = n + 1
  BY <1>3
<1>5. Advance(ev, next, head, done)
  BY <1>1, <1>3, <1>4, Zenon
<1>6. heldAt # 0 => since # <<>> /\ since[1] = Max({heldAt, Goal})
  BY <1>1 DEF PlayInv, Target
<1>7. ASSUME ~sought', OneRun(playing)
      PROVE  done = Whole(next - 1) /\ (next <= Len(ev) => head <= ev[next].stamp)
  <2>1. pass = Whole(i) /\ playhead = events[i].stamp
    BY <1>1, <1>3, <1>7, RecordingAssumption DEF PlayInv, Straight, Frame, Session
  <2>2. done = Whole(n) /\ head = ev[n].stamp /\ next - 1 = n
    BY <1>3, <1>4, <2>1
  <2>3. ASSUME next <= Len(ev) PROVE head <= ev[next].stamp
    <3>1. n \in DOMAIN ev /\ next \in DOMAIN ev /\ n < next
      BY <1>3, <1>4, <2>3
    <3>2. Earlier(ev[n], ev[next]) /\ ev[n] \in Message /\ ev[next] \in Message
      BY <1>3, <3>1 DEF Frame, Sorted
    <3>3. QED BY <2>2, <3>2, EarlierFact
  <2>4. QED BY <2>2, <2>3
<1>8. Going(ev, next, head, done)
  BY <1>6, <1>7 DEF Going, PlayInv, Quiet
<1>9. QED BY <1>3, <1>5, <1>6, <1>8, AdvanceFact

LEMMA PumpFact ==
  ASSUME RecordingInv, PlayInv, PumpStep
  PROVE  RecordingInv' /\ PlayInv' /\ recVars' = recVars
<1>1. recVars' = recVars
  BY DEF PumpStep, BeginPass, Resume, Due, Sent
<1>2. QED BY <1>1, BeginPassFact, ResumeFact, DueFact, SentFact DEF PumpStep

LEMMA SentRaisesFact ==
  ASSUME RecordingInv, PlayInv, SentRaises
  PROVE  RecordingInv' /\ PlayInv'
<1>1. /\ at = "sending" /\ at' = "crashed" /\ recVars' = recVars /\ source' = source
      /\ events' = events /\ playhead' = playhead /\ paused' = paused /\ i' = i /\ pass' = pass
      /\ goal' = goal /\ since' = since /\ heldAt' = heldAt /\ sought' = sought
      /\ leaked' = leaked /\ controls' = controls
  BY DEF SentRaises
<1>2. /\ session' = session /\ manifest' = manifest /\ written' = written
      /\ playing' = playing /\ t0' = t0 /\ t1' = t1
  BY <1>1 DEF recVars, source
<1>3. RecordingInv'
  BY <1>1, RecordingStutters
<1>4. OneRun(playing)' <=> OneRun(playing)
  BY <1>2 DEF OneRun, Recorded
<1>5. ReplayTypeOK'
  BY <1>1, <1>2, <1>3 DEF PlayInv, ReplayTypeOK, RecordingInv
<1>6. Shown' /\ Asleep' /\ StartsFirst'
  BY <1>1, <1>2, <1>4 DEF PlayInv, Shown, Asleep, StartsFirst
<1>7. Straight' /\ Quiet' /\ RestsEmpty'
  BY <1>1 DEF PlayInv, Straight, Quiet, RestsEmpty
<1>8. Target'
  BY <1>1 DEF PlayInv, Target, Goal
<1>9. QED BY <1>3, <1>5, <1>6, <1>7, <1>8 DEF PlayInv

-----------------------------------------------------------------------------
(* The commands                                                            *)

LEMMA PlayFact ==
  ASSUME RecordingInv, PlayInv, Play
  PROVE  RecordingInv' /\ PlayInv'
<1>1. /\ paused' = FALSE /\ recVars' = recVars /\ source' = source /\ events' = events
      /\ playhead' = playhead /\ at' = at /\ i' = i /\ pass' = pass /\ goal' = goal
      /\ since' = since /\ heldAt' = heldAt /\ sought' = sought /\ leaked' = leaked
      /\ controls' = controls
  BY DEF Play
<1>2. /\ session' = session /\ manifest' = manifest /\ written' = written
      /\ playing' = playing /\ t0' = t0 /\ t1' = t1
  BY <1>1 DEF recVars, source
<1>3. RecordingInv'
  BY <1>1, RecordingStutters
<1>4. OneRun(playing)' <=> OneRun(playing)
  BY <1>2 DEF OneRun, Recorded
<1>5. ReplayTypeOK'
  BY <1>1, <1>2, <1>3 DEF PlayInv, ReplayTypeOK, RecordingInv
<1>6. Shown' /\ Asleep' /\ StartsFirst' /\ Straight'
  BY <1>1, <1>2, <1>4 DEF PlayInv, Shown, Asleep, StartsFirst, Straight
<1>7. Quiet' /\ Target' /\ RestsEmpty'
  BY <1>1 DEF PlayInv, Quiet, Target, Goal, RestsEmpty
<1>8. QED BY <1>3, <1>5, <1>6, <1>7 DEF PlayInv

LEMMA PauseFact ==
  ASSUME RecordingInv, PlayInv, Pause
  PROVE  RecordingInv' /\ PlayInv'
<1>1. /\ paused' = TRUE /\ leaked' = 0 /\ recVars' = recVars /\ source' = source /\ events' = events
      /\ playhead' = playhead /\ at' = at /\ i' = i /\ pass' = pass /\ goal' = goal
      /\ since' = since /\ heldAt' = heldAt /\ sought' = sought
      /\ controls < MaxControls /\ controls' = controls + 1
  BY DEF Pause, Control
<1>2. /\ session' = session /\ manifest' = manifest /\ written' = written
      /\ playing' = playing /\ t0' = t0 /\ t1' = t1
  BY <1>1 DEF recVars, source
<1>3. RecordingInv'
  BY <1>1, RecordingStutters
<1>4. OneRun(playing)' <=> OneRun(playing)
  BY <1>2 DEF OneRun, Recorded
<1>5. ReplayTypeOK'
  <2>1. controls' \in 0 .. MaxControls
    BY <1>1, ReplayAssumption DEF PlayInv, ReplayTypeOK
  <2>2. QED BY <1>1, <1>2, <1>3, <2>1 DEF PlayInv, ReplayTypeOK, RecordingInv
<1>6. Shown' /\ Asleep' /\ StartsFirst' /\ Straight'
  BY <1>1, <1>2, <1>4 DEF PlayInv, Shown, Asleep, StartsFirst, Straight
<1>7. Quiet' /\ Target' /\ RestsEmpty'
  BY <1>1 DEF PlayInv, Quiet, Target, Goal, RestsEmpty
<1>8. QED BY <1>3, <1>5, <1>6, <1>7 DEF PlayInv

\* A seek goes no further than the span.
LEMMA ClampFact ==
  ASSUME NEW a \in Times, NEW b \in Times, NEW t \in Times
  PROVE  Max({a, Min({b, t})}) \in Times
<1> DEFINE m == Min({b, t})
<1>0. a \in Nat /\ b \in Nat /\ t \in Nat
  BY DEF Times
<1>1. m \in Times /\ m \in Nat
  <2>1. {b, t} \in SUBSET Nat /\ {b, t} # {}
    BY <1>0
  <2>2. m \in {b, t}
    BY <2>1, MinFact
  <2>3. QED BY <1>0, <2>2
<1> HIDE DEF m
<1>2. Max({a, m}) \in {a, m}
  <2>1. {a, m} \in SUBSET Nat /\ {a, m} # {} /\ Epoch + MaxWrites \in Nat /\ \A x \in {a, m} : x <= Epoch + MaxWrites
    BY <1>0, <1>1, RecordingAssumption DEF Times
  <2>2. QED BY <2>1, MaxFact
<1>3. QED BY <1>1, <1>2 DEF m

LEMMA SeekFact ==
  ASSUME RecordingInv, PlayInv, Seek
  PROVE  RecordingInv' /\ PlayInv'
<1>1. /\ recVars' = recVars /\ source' = source /\ events' = events /\ paused' = paused
      /\ at' = at /\ i' = i /\ pass' = pass /\ leaked' = leaked
      /\ goal' = playhead' /\ since' = <<>> /\ sought' = TRUE
      /\ heldAt' = (IF at = "held" THEN i ELSE 0)
      /\ controls < MaxControls /\ controls' = controls + 1
  BY DEF Seek, Control
<1>2. playhead' \in Times
  <2>1. PICK t \in Times : playhead' = Max({t0, Min({t1, t})})
    BY DEF Seek
  <2>2. QED BY <2>1, ClampFact DEF PlayInv, ReplayTypeOK
<1>3. /\ session' = session /\ manifest' = manifest /\ written' = written
      /\ playing' = playing /\ t0' = t0 /\ t1' = t1
  BY <1>1 DEF recVars, source
<1>4. RecordingInv'
  BY <1>1, RecordingStutters
<1>5. OneRun(playing)' <=> OneRun(playing)
  BY <1>3 DEF OneRun, Recorded
<1>6. ReplayTypeOK'
  <2>1. controls' \in 0 .. MaxControls
    BY <1>1, ReplayAssumption DEF PlayInv, ReplayTypeOK
  <2>2. heldAt' \in 0 .. Len(events) /\ since' \in Seq(DOMAIN events)
    BY <1>1 DEF PlayInv, ReplayTypeOK
  <2>3. QED BY <1>1, <1>2, <1>3, <1>4, <2>1, <2>2 DEF PlayInv, ReplayTypeOK, RecordingInv
<1>7. Shown' /\ Asleep' /\ StartsFirst'
  BY <1>1, <1>3, <1>5 DEF PlayInv, Shown, Asleep, StartsFirst
<1>8. Straight' /\ Quiet' /\ RestsEmpty'
  BY <1>1 DEF PlayInv, Straight, Quiet, RestsEmpty
<1>9. Target'
  <2>1. goal' # None
    BY <1>1, <1>2, ReplayAssumption DEF Times
  <2>2. QED BY <1>1, <2>1 DEF Target
<1>10. QED BY <1>4, <1>6, <1>7, <1>8, <1>9 DEF PlayInv

-----------------------------------------------------------------------------
(* The start, and the recorder meanwhile                                   *)

\* The first message of a finished segment is not later than the others of one run.
LEMMA HeadFact ==
  ASSUME RecordingInv, NEW s \in Session, NEW k \in Stream, NEW g \in ToSet(closed[s][k])
  PROVE  /\ g \in Seq(Message) /\ g # <<>>
         /\ \A m \in ToSet(g) : m \in Message /\ m \in Recorded(s, k)
         /\ Head(g) \in ToSet(g) /\ Last(g) \in ToSet(g)
         /\ OneRun(s) => \A m \in ToSet(g) : Head(g).stamp <= m.stamp
<1> DEFINE w == closed[s][k]
<1>1. w \in Seq(Segment) /\ <<>> \notin ToSet(w) /\ Lined(w) /\ Loaded(w) \subseteq Recorded(s, k)
  BY DEF RecordingInv, RecordingTypeOK, Kept
<1> HIDE DEF w
<1>2. PICK a \in DOMAIN w : g = w[a]
  BY DEF w, ToSet
<1>3. g \in Seq(Message) /\ g # <<>> /\ InOrder(g)
  BY <1>1, <1>2 DEF Segment, Lined, w
<1>4. /\ DOMAIN g = 1 .. Len(g) /\ Len(g) \in Nat /\ Len(g) # 0 /\ Head(g) = g[1] /\ Last(g) = g[Len(g)]
      /\ \A b \in 1 .. Len(g) : g[b] \in Message
  BY <1>3 DEF Last
<1>5. Head(g) \in ToSet(g) /\ Last(g) \in ToSet(g) /\ ToSet(g) \subseteq Message
  BY <1>4 DEF ToSet
<1>6. \A m \in ToSet(g) : m \in Recorded(s, k)
  BY <1>1, <1>2, <1>5 DEF Loaded
<1>7. ASSUME OneRun(s), NEW m \in ToSet(g) PROVE Head(g).stamp <= m.stamp
  <2>1. Head(g) \in Message /\ m \in Message /\ Head(g).stamp \in Nat /\ m.stamp \in Nat
    BY <1>5, MessageFact
  <2>2. PICK b \in 1 .. Len(g) : m = g[b]
    BY <1>4 DEF ToSet
  <2>3. m = Head(g) \/ Head(g).n < m.n
    BY <1>3, <1>4, <2>2 DEF InOrder
  <2>4. Head(g) \in Recorded(s, k) /\ m \in Recorded(s, k)
    BY <1>5, <1>6
  <2>5. CASE k = "frame"
    BY <1>7, <2>1, <2>3, <2>4, <2>5 DEF OneRun
  <2>6. CASE k = "logs"
    <3>1. Head(g) \in All /\ m \in All /\ Head(g).kind = "logs" /\ m.kind = "logs"
      BY <2>4, <2>6 DEF Recorded, All
    <3>2. QED BY <2>1, <2>3, <3>1 DEF RecordingInv, LogsRise
  <2>7. QED BY <2>5, <2>6 DEF Stream
<1>8. QED BY <1>3, <1>5, <1>6, <1>7

LEMMA SpanFact ==
  ASSUME RecordingInv, NEW s \in Session
  PROVE  /\ SpanStart(s) \in Times /\ SpanEnd(s) \in Times
         /\ OneRun(s) => \A m \in written[s] : ~manifest[s].stopped \/ SpanStart(s) <= m.stamp
         /\ ~manifest[s].stopped => SpanStart(s) = 0
<1> DEFINE H == {Head(g).stamp : g \in Listed(s)}
           L == {Last(g).stamp : g \in Listed(s)}
<1>0. 0 \in Times /\ Times \subseteq Nat /\ Epoch + MaxWrites \in Nat /\ \A t \in Times : t <= Epoch + MaxWrites
  BY RecordingAssumption DEF Times
<1>1. CASE Listed(s) = {}
  <2>1. SpanStart(s) = 0 /\ SpanEnd(s) = 0
    BY <1>1 DEF SpanStart, SpanEnd
  <2>2. \A m \in written[s] : m.stamp \in Nat
    BY MessageFact DEF RecordingInv, RecordingTypeOK
  <2>3. QED BY <1>0, <2>1, <2>2
<1>2. CASE Listed(s) # {}
  <2>1. manifest[s].stopped
    BY <1>2, NothingMerged
  <2>2. \A k \in Stream : manifest[s][k] = closed[s][k] /\ Loaded(closed[s][k]) = Recorded(s, k)
    BY <2>1 DEF RecordingInv, Finished
  <2>3. Listed(s) = ToSet(closed[s]["frame"]) \cup ToSet(closed[s]["logs"])
    BY <2>2 DEF Listed, Stream
  <2>4. \A g \in Listed(s) : \E k \in Stream : g \in ToSet(closed[s][k])
    BY <2>3 DEF Stream
  <2>5. ASSUME NEW g \in Listed(s)
        PROVE  Head(g).stamp \in Times /\ Last(g).stamp \in Times
    <3>1. PICK k \in Stream : g \in ToSet(closed[s][k])
      BY <2>4
    <3>2. \A m \in ToSet(g) : m \in Message /\ m \in Recorded(s, k)
      BY <3>1, HeadFact
    <3>3. \A m \in ToSet(g) : m \in All /\ m.stamp \in Nat
      BY <3>2, MessageFact DEF Recorded, All
    <3>4. Head(g) \in ToSet(g) /\ Last(g) \in ToSet(g)
      BY <3>1, HeadFact
    <3>5. QED BY <1>0, <3>3, <3>4, RecordingAssumption DEF RecordingInv, Numbered, Times
  <2>6. H \in SUBSET Nat /\ H # {} /\ L \in SUBSET Nat /\ L # {} /\ H \subseteq Times /\ L \subseteq Times
    BY <1>0, <1>2, <2>5
  <2>7. SpanStart(s) = Min(H) /\ SpanEnd(s) = Max(L)
    BY <1>2 DEF SpanStart, SpanEnd
  <2> HIDE DEF L
  <2>8. Min(H) \in H /\ \A h \in H : Min(H) <= h
    BY <2>6, MinFact
  <2>9. Max(L) \in L
    BY <1>0, <2>6, MaxFact
  <2>10. ASSUME OneRun(s), NEW m \in written[s] PROVE Min(H) <= m.stamp
    <3>1. m \in Message /\ m.kind \in Stream
      BY MessageFact DEF RecordingInv, RecordingTypeOK
    <3>2. PICK k \in Stream : k = m.kind
      BY <3>1
    <3>3. m \in Loaded(closed[s][k])
      BY <2>2, <3>2 DEF Recorded
    <3>4. PICK a \in DOMAIN closed[s][k] : m \in ToSet(closed[s][k][a])
      BY <3>3 DEF Loaded
    <3>5. PICK g \in ToSet(closed[s][k]) : m \in ToSet(g)
      BY <3>4 DEF ToSet
    <3>6. Head(g).stamp <= m.stamp
      BY <2>10, <3>5, HeadFact
    <3>7. g \in Listed(s)
      BY <2>3 DEF Stream
    <3>8. Head(g).stamp \in H /\ Min(H) <= Head(g).stamp
      BY <2>8, <3>7
    <3>9. QED BY <2>5, <2>6, <2>8, <3>1, <3>6, <3>7, <3>8, MessageFact DEF Times
  <2>11. QED BY <2>1, <2>6, <2>7, <2>8, <2>9, <2>10
<1>3. QED BY <1>1, <1>2

LEMMA LaunchFact ==
  ASSUME RecordingInv, PlayInv, Launch
  PROVE  RecordingInv' /\ PlayInv'
<1>1. /\ playing = 0 /\ playing' \in 1 .. session
      /\ t0' = SpanStart(playing') /\ t1' = SpanEnd(playing') /\ playhead' = t0'
      /\ recVars' = recVars /\ events' = events /\ paused' = paused /\ at' = at /\ i' = i
      /\ pass' = pass /\ goal' = goal /\ since' = since /\ heldAt' = heldAt /\ sought' = sought
      /\ leaked' = leaked /\ controls' = controls
  BY DEF Launch
<1>2. at = "resting" /\ events = <<>> /\ pass = <<>>
  BY <1>1 DEF PlayInv, Asleep
<1>3. PICK s \in Session : s = playing' /\ s \in 1 .. session
  BY <1>1, RecordingAssumption DEF RecordingInv, RecordingTypeOK, Session
<1>4. /\ SpanStart(s) \in Times /\ SpanEnd(s) \in Times
      /\ OneRun(s) => \A m \in written[s] : SpanStart(s) <= m.stamp
  <2>1. \A m \in written[s] : m.stamp \in Nat
    BY MessageFact DEF RecordingInv, RecordingTypeOK
  <2>2. QED BY <2>1, SpanFact
<1>5. /\ session' = session /\ written' = written
  BY <1>1 DEF recVars
<1>6. RecordingInv'
  BY <1>1, RecordingStutters
<1>7. OneRun(playing)' <=> OneRun(s)
  BY <1>3, <1>5 DEF OneRun, Recorded
<1>8. ReplayTypeOK'
  <2>1. playing' \in 0 .. session' /\ t0' \in Times /\ t1' \in Times /\ playhead' \in Times
    BY <1>1, <1>3, <1>4, <1>5
  <2>2. QED BY <1>1, <1>6, <2>1 DEF PlayInv, ReplayTypeOK, RecordingInv
<1>9. Shown' /\ Asleep'
  BY <1>1, <1>2 DEF Shown, Asleep
<1>10. StartsFirst'
  BY <1>1, <1>3, <1>4, <1>5, <1>7 DEF StartsFirst
<1>11. Straight' /\ Quiet' /\ Target' /\ RestsEmpty'
  BY <1>1, <1>2 DEF PlayInv, Straight, Quiet, Target, RestsEmpty
<1>12. QED BY <1>6, <1>8, <1>9, <1>10, <1>11 DEF PlayInv

\* What the recorder does leaves the replayer alone.
LEMMA RecorderFact ==
  ASSUME RecordingInv, PlayInv, RecorderStep \/ UNCHANGED recVars,
         UNCHANGED <<source, events, playhead, paused, at, i, pass, goal, since, heldAt,
                     sought, leaked, controls>>
  PROVE  RecordingInv' /\ PlayInv'
<1>1. /\ playing' = playing /\ t0' = t0 /\ t1' = t1 /\ playhead' = playhead /\ events' = events
      /\ paused' = paused /\ at' = at /\ i' = i
      /\ pass' = pass /\ goal' = goal /\ since' = since /\ heldAt' = heldAt /\ sought' = sought
      /\ leaked' = leaked /\ controls' = controls
  BY DEF source
<1>2. /\ RecordingInv'
      /\ \A s \in Session : manifest[s].stopped \/ s # session => manifest'[s] = manifest[s]
      /\ playing # 0 => session' = session /\ written' = written
  <2>1. CASE playing = 0 /\ RecordingNext
    BY <2>1, RecordingStep
  <2>2. CASE playing # 0 /\ Stop
    BY <2>2, StopFact
  <2>3. CASE UNCHANGED recVars
    BY <2>3, RecordingStutters DEF recVars
  <2>4. QED BY <2>1, <2>2, <2>3 DEF RecorderStep
<1>3. CASE playing = 0
  <2>1. at = "resting" /\ events = <<>> /\ pass = <<>>
    BY <1>3 DEF PlayInv, Asleep
  <2>2. session' \in Nat
    BY <1>2 DEF RecordingInv, RecordingTypeOK
  <2>3. ReplayTypeOK'
    BY <1>1, <1>2, <1>3, <2>2 DEF PlayInv, ReplayTypeOK, RecordingInv
  <2>4. Shown' /\ Asleep' /\ StartsFirst' /\ Straight'
    BY <1>1, <1>3, <2>1 DEF Shown, Asleep, StartsFirst, Straight
  <2>5. Quiet' /\ Target' /\ RestsEmpty'
    BY <1>1 DEF PlayInv, Quiet, Target, Goal, RestsEmpty
  <2>6. QED BY <1>2, <2>3, <2>4, <2>5 DEF PlayInv
<1>4. CASE playing # 0
  <2>1. session' = session /\ written' = written
    BY <1>2, <1>4
  <2>2. OneRun(playing)' <=> OneRun(playing)
    BY <1>1, <2>1 DEF OneRun, Recorded
  <2>3. ReplayTypeOK'
    BY <1>1, <1>2, <2>1 DEF PlayInv, ReplayTypeOK, RecordingInv
  <2>4. Shown'
    <3>1. playing \in Session
      BY <1>4, RecordingAssumption DEF PlayInv, ReplayTypeOK, RecordingInv, RecordingTypeOK, Session
    <3>2. QED BY <1>1, <1>2, <2>1, <3>1 DEF PlayInv, Shown
  <2>5. Asleep' /\ StartsFirst' /\ Straight'
    BY <1>1, <1>4, <2>1, <2>2 DEF PlayInv, Asleep, StartsFirst, Straight
  <2>6. Quiet' /\ Target' /\ RestsEmpty'
    BY <1>1 DEF PlayInv, Quiet, Target, Goal, RestsEmpty
  <2>7. QED BY <1>2, <2>3, <2>4, <2>5, <2>6 DEF PlayInv
<1>5. QED BY <1>3, <1>4

-----------------------------------------------------------------------------
(* What the pump shows                                                     *)

LEMMA PlayInvInit == ReplayInit => RecordingInv /\ PlayInv
<1> SUFFICES ASSUME ReplayInit PROVE RecordingInv /\ PlayInv
  OBVIOUS
<1>1. RecordingInv
  BY RecordingStarts DEF ReplayInit
<1>2. /\ playing = 0 /\ t0 = 0 /\ t1 = 0 /\ events = <<>> /\ playhead = 0 /\ paused = FALSE
      /\ at = "resting" /\ i = 0 /\ pass = <<>> /\ goal = None /\ since = <<>> /\ heldAt = 0
      /\ sought = FALSE /\ leaked = 0 /\ controls = 0
  BY DEF ReplayInit
<1>3. 0 \in Times
  BY RecordingAssumption DEF Times
<1>4. ReplayTypeOK
  <2>1. pass \in Seq(DOMAIN events) /\ since \in Seq(DOMAIN events) /\ events \in Seq(Message) /\ Len(events) = 0
    BY <1>2, EmptyFact
  <2>2. controls \in 0 .. MaxControls /\ playing \in 0 .. session
    BY <1>1, <1>2, ReplayAssumption DEF RecordingInv, RecordingTypeOK
  <2>3. i \in 0 .. Len(events) /\ heldAt \in 0 .. Len(events) /\ leaked \in Nat
    BY <1>2, <2>1
  <2>4. /\ t0 \in Times /\ t1 \in Times /\ playhead \in Times /\ goal \in Times \cup {None}
        /\ paused \in BOOLEAN /\ sought \in BOOLEAN /\ at = "resting"
    BY <1>2, <1>3
  <2>5. QED BY <1>1, <2>1, <2>2, <2>3, <2>4 DEF ReplayTypeOK, RecordingInv
<1>5. Shown /\ Asleep /\ StartsFirst /\ Straight /\ Quiet /\ Target /\ RestsEmpty
  BY <1>2 DEF Shown, Asleep, StartsFirst, Straight, Quiet, Target, RestsEmpty
<1>6. QED BY <1>1, <1>4, <1>5 DEF PlayInv

LEMMA PlayInvStep == RecordingInv /\ PlayInv /\ [ReplayNext]_replayVars => (RecordingInv /\ PlayInv)'
<1> SUFFICES ASSUME RecordingInv, PlayInv, [ReplayNext]_replayVars PROVE (RecordingInv /\ PlayInv)'
  OBVIOUS
<1>1. CASE RecorderStep /\ UNCHANGED <<source, events, playhead, paused, at, i, pass, goal, since,
                                heldAt, sought, leaked, controls>>
  BY <1>1, RecorderFact
<1>2. CASE Launch
  BY <1>2, LaunchFact
<1>3. CASE PumpStep
  BY <1>3, PumpFact
<1>4. CASE Play
  BY <1>4, PlayFact
<1>5. CASE Pause
  BY <1>5, PauseFact
<1>6. CASE Seek
  BY <1>6, SeekFact
<1>7. CASE SentRaises
  BY <1>7, SentRaisesFact
<1>8. CASE UNCHANGED replayVars
  BY <1>8, RecorderFact DEF replayVars
<1>9. QED BY <1>1, <1>2, <1>3, <1>4, <1>5, <1>6, <1>7, <1>8 DEF ReplayNext

\* A pass that nobody disturbs shows the session as it was recorded.
LEMMA WholeShown ==
  ASSUME RecordingInv, PlayInv
  PROVE  WholeSession
<1> SUFFICES ASSUME at = "resting", pass # <<>>, ~sought, OneRun(playing) PROVE
      /\ {events[n] : n \in ToSet(pass)} = written[playing]
      /\ \A a, b \in DOMAIN pass : a < b /\ events[pass[a]].kind = events[pass[b]].kind =>
           events[pass[a]].n < events[pass[b]].n
  BY DEF WholeSession
<1>1. playing \in Session
  BY RecordingAssumption DEF PlayInv, Asleep, ReplayTypeOK, RecordingInv, RecordingTypeOK, Session
<1>2. events \in Seq(Message) /\ DOMAIN events = 1 .. Len(events) /\ Len(events) \in Nat
  BY DEF PlayInv, ReplayTypeOK
<1>3. pass = Whole(Len(events))
  BY <1>1, RecordingAssumption DEF PlayInv, Straight, Session
<1>4. DOMAIN pass = DOMAIN events /\ \A a \in DOMAIN events : pass[a] = a
  BY <1>2, <1>3, WholeFact
<1>5. events # <<>>
  BY <1>2, <1>3, WholeFact
<1>6. ToSet(events) = written[playing] /\ Sorted(events)
  BY <1>5 DEF PlayInv, Shown
<1>7. {events[n] : n \in ToSet(pass)} = written[playing]
  <2>1. ToSet(pass) = DOMAIN events
    BY <1>4 DEF ToSet
  <2>2. QED BY <1>6, <2>1 DEF ToSet
<1>8. ASSUME NEW a \in DOMAIN events, NEW b \in DOMAIN events, a < b, events[a].kind = events[b].kind
      PROVE  events[a].n < events[b].n
  <2> DEFINE x == events[a]
             y == events[b]
  <2>1. x \in written[playing] /\ y \in written[playing] /\ x \in Message /\ y \in Message /\ Earlier(x, y)
    BY <1>2, <1>6, <1>8 DEF Sorted, ToSet
  <2>2. x \in All /\ y \in All /\ x.kind = y.kind
    BY <1>1, <1>8, <2>1 DEF All
  <2> HIDE DEF x, y
  <2>3. x.stamp \in Nat /\ y.stamp \in Nat /\ x.n \in Nat /\ y.n \in Nat /\ x.kind \in {"frame", "logs"}
    BY <2>1, MessageFact DEF Stream
  <2>4. x.stamp < y.stamp \/ x.n < y.n
    BY <2>1, <2>2 DEF Earlier
  <2>5. ASSUME y.n < x.n PROVE y.stamp <= x.stamp
    <3>1. CASE x.kind = "frame"
      BY <2>1, <2>2, <2>5, <3>1 DEF OneRun, Recorded
    <3>2. CASE x.kind = "logs"
      BY <2>2, <2>5, <3>2 DEF RecordingInv, LogsRise
    <3>3. QED BY <2>3, <3>1, <3>2
  <2>6. x.n # y.n
    <3>1. x.n = y.n => x = y
      BY <2>2 DEF RecordingInv, Numbered
    <3>2. ~Earlier(x, x)
      BY <2>1, EarlierFact
    <3>3. QED BY <2>1, <3>1, <3>2
  <2>7. x.n < y.n
    BY <2>3, <2>4, <2>5, <2>6
  <2>8. QED BY <2>7 DEF x, y
<1>9. QED BY <1>4, <1>7, <1>8

\* The replayer's state is well typed, every stopped session lists all that was recorded
\* of it, in the order of recording and once (recorder.py), and a pass in which nobody
\* seeks shows all of a session that covers one run (server.py, _replay_pump).
THEOREM ReplayInvariant == ReplaySpec => []ReplayInv
<1>1. RecordingInv /\ PlayInv => ReplayInv
  BY RecordingComplete, WholeShown DEF PlayInv, ReplayInv
<1>2. QED BY <1>1, PlayInvInit, PlayInvStep, PTL DEF ReplaySpec

\* A pause lets at most one message through, the one waited for; and where the pump was
\* held, a seek is honoured by the next message, which is the first one not behind its
\* goal (server.py, _replay_pump).
THEOREM PumpObeys == ReplaySpec => []TransportObeyed
<1>1. PlayInv => TransportObeyed
  BY DEF PlayInv, Quiet, Target, TransportObeyed, PauseHolds, HeldSeekHonoured
<1>2. QED BY <1>1, PlayInvInit, PlayInvStep, PTL DEF ReplaySpec

\* What a replay reads of a stopped session, or of one before the last, never changes:
\* the recorder gives every session a new name and writes its manifest once (recorder.py).
THEOREM SessionsStayAsTheyAre == ReplaySpec => SessionsImmutable
<1>1. RecordingInv /\ [ReplayNext]_replayVars =>
        [\A s \in Session : manifest[s].stopped \/ s # session => manifest'[s] = manifest[s]]_recVars
  <2> SUFFICES ASSUME RecordingInv, [ReplayNext]_replayVars, recVars' # recVars
               PROVE  \A s \in Session : manifest[s].stopped \/ s # session => manifest'[s] = manifest[s]
    OBVIOUS
  <2>1. RecorderStep
    BY DEF ReplayNext, replayVars, Launch, PumpStep, BeginPass, Resume, Due, Sent, SentRaises,
           Play, Pause, Seek
  <2>2. RecordingNext
    BY <2>1 DEF RecorderStep, RecordingNext
  <2>3. QED BY <2>2, RecordingStep
<1>2. QED BY <1>1, PlayInvInit, PlayInvStep, PTL DEF ReplaySpec, SessionsImmutable

=============================================================================
