------------------------------ MODULE FeedProofs ------------------------------
(***************************************************************************)
(* Proofs about Feed, for any viewers, limits and numbers of items: what a *)
(* pump has on its way to a viewer that stays connected is in order, and   *)
(* while the pump lives nothing of it is lost.                             *)
(*                                                                         *)
(* The way to a screen has five stretches: the store, the frames held, the *)
(* messages on the wire, what a suspended broadcast has yet to send, and   *)
(* what the source holds.  An item moves from one to the one before.       *)
(***************************************************************************)
EXTENDS Feed, FiniteSetTheorems, SequenceTheorems, WellFoundedInduction, TLAPS

Increasing(s) == \A i, j \in DOMAIN s : i < j => s[i] < s[j]

Below(s, t) == \A x \in ToSet(s), y \in ToSet(t) : x < y

\* The stretches of a way, front to back: store, held, wire (a sequence of messages),
\* broadcast and source.
Loaded(w) == {x \in Nat : \E n \in DOMAIN w : x \in ToSet(w[n])}

Stuff(s, h, w, c, p) == ToSet(s) \cup ToSet(h) \cup Loaded(w) \cup ToSet(c) \cup ToSet(p)

InLine(s, h, w, c, p) ==
  /\ Increasing(s) /\ Increasing(h) /\ Increasing(c) /\ Increasing(p)
  /\ \A n \in DOMAIN w : Increasing(w[n])
  /\ Below(s, h) /\ Below(s, c) /\ Below(s, p) /\ Below(h, c) /\ Below(h, p) /\ Below(c, p)
  /\ \A n \in DOMAIN w : Below(s, w[n]) /\ Below(h, w[n]) /\ Below(w[n], c) /\ Below(w[n], p)
  /\ \A m, n \in DOMAIN w : m < n => Below(w[m], w[n])

-----------------------------------------------------------------------------
(* Sequences                                                               *)

LEMMA EmptyFact == ToSet(<<>>) = {} /\ Increasing(<<>>) /\ <<>> \in Seq(Nat)
<1>1. DOMAIN <<>> = {} /\ <<>> \in Seq(Nat)
  OBVIOUS
<1>2. QED BY <1>1 DEF ToSet, Increasing

LEMMA ToSetFact ==
  ASSUME NEW S, NEW q \in Seq(S)
  PROVE  ToSet(q) \subseteq S /\ (\A i \in 1 .. Len(q) : q[i] \in ToSet(q)) /\ DOMAIN q = 1 .. Len(q)
BY DEF ToSet

LEMMA AppendFact ==
  ASSUME NEW q \in Seq(Nat), NEW x \in Nat, Increasing(q), \A y \in ToSet(q) : y < x
  PROVE  /\ Append(q, x) \in Seq(Nat) /\ Increasing(Append(q, x))
         /\ ToSet(Append(q, x)) = ToSet(q) \cup {x}
<1> DEFINE a == Append(q, x)
<1>1. /\ a \in Seq(Nat)
      /\ DOMAIN a = 1 .. Len(q) + 1 /\ DOMAIN q = 1 .. Len(q) /\ Len(q) \in Nat
      /\ \A i \in 1 .. Len(q) : a[i] = q[i] /\ q[i] \in Nat
      /\ a[Len(q) + 1] = x
  OBVIOUS
<1> HIDE DEF a
<1>2. ToSet(a) = ToSet(q) \cup {x}
  BY <1>1 DEF ToSet
<1>3. ASSUME NEW i \in DOMAIN a, NEW j \in DOMAIN a, i < j PROVE a[i] < a[j]
  <2>1. i \in 1 .. Len(q) /\ a[i] = q[i] /\ q[i] \in ToSet(q)
    BY <1>1, <1>3 DEF ToSet
  <2>2. CASE j = Len(q) + 1
    BY <1>1, <2>1, <2>2
  <2>3. CASE j \in 1 .. Len(q)
    BY <1>1, <1>3, <2>1, <2>3 DEF Increasing
  <2>4. QED BY <1>1, <2>2, <2>3
<1>4. QED BY <1>1, <1>2, <1>3 DEF Increasing, a

LEMMA ConcatFact ==
  ASSUME NEW a \in Seq(Nat), NEW b \in Seq(Nat), Increasing(a), Increasing(b), Below(a, b)
  PROVE  /\ a \o b \in Seq(Nat) /\ Increasing(a \o b)
         /\ ToSet(a \o b) = ToSet(a) \cup ToSet(b)
         /\ Len(a \o b) = Len(a) + Len(b)
<1> DEFINE c == a \o b
<1>1. /\ c \in Seq(Nat) /\ Len(c) = Len(a) + Len(b)
      /\ DOMAIN c = 1 .. Len(a) + Len(b) /\ DOMAIN a = 1 .. Len(a) /\ DOMAIN b = 1 .. Len(b)
      /\ Len(a) \in Nat /\ Len(b) \in Nat
      /\ \A i \in 1 .. Len(a) : c[i] = a[i] /\ a[i] \in Nat
      /\ \A i \in 1 .. Len(b) : c[Len(a) + i] = b[i] /\ b[i] \in Nat
  OBVIOUS
<1> HIDE DEF c
<1>2. \A i \in DOMAIN c : \/ i \in 1 .. Len(a) /\ c[i] = a[i]
                          \/ \E j \in 1 .. Len(b) : i = Len(a) + j /\ c[i] = b[j]
  <2> SUFFICES ASSUME NEW i \in DOMAIN c, i \notin 1 .. Len(a)
               PROVE  \E j \in 1 .. Len(b) : i = Len(a) + j /\ c[i] = b[j]
    BY <1>1
  <2>1. i - Len(a) \in 1 .. Len(b) /\ i = Len(a) + (i - Len(a))
    BY <1>1
  <2>2. QED BY <1>1, <2>1
<1>3. ToSet(c) = ToSet(a) \cup ToSet(b)
  <2>1. ToSet(c) \subseteq ToSet(a) \cup ToSet(b)
    BY <1>1, <1>2 DEF ToSet
  <2>2. \A i \in 1 .. Len(a) : i \in DOMAIN c
    BY <1>1
  <2>3. \A i \in 1 .. Len(b) : Len(a) + i \in DOMAIN c
    BY <1>1
  <2>4. ToSet(a) \subseteq ToSet(c)
    BY <1>1, <2>2 DEF ToSet
  <2>5. ToSet(b) \subseteq ToSet(c)
    BY <1>1, <2>3 DEF ToSet
  <2>6. QED BY <2>1, <2>4, <2>5
<1>4. ASSUME NEW i \in DOMAIN c, NEW j \in DOMAIN c, i < j PROVE c[i] < c[j]
  <2>1. CASE i \in 1 .. Len(a) /\ j \in 1 .. Len(a)
    BY <1>1, <1>4, <2>1 DEF Increasing
  <2>2. CASE i \in 1 .. Len(a) /\ j \notin 1 .. Len(a)
    <3>1. PICK k \in 1 .. Len(b) : c[j] = b[k]
      BY <1>2, <2>2
    <3>2. a[i] \in ToSet(a) /\ b[k] \in ToSet(b)
      BY <1>1, <2>2 DEF ToSet
    <3>3. QED BY <1>1, <2>2, <3>1, <3>2 DEF Below
  <2>3. CASE i \notin 1 .. Len(a)
    <3>1. PICK k \in 1 .. Len(b) : i = Len(a) + k /\ c[i] = b[k]
      BY <1>2, <2>3
    <3>2. j \notin 1 .. Len(a)
      BY <1>1, <1>4, <2>3
    <3>3. PICK l \in 1 .. Len(b) : j = Len(a) + l /\ c[j] = b[l]
      BY <1>2, <3>2
    <3>4. k < l
      BY <1>1, <1>4, <3>1, <3>3
    <3>5. QED BY <1>1, <3>1, <3>3, <3>4 DEF Increasing
  <2>4. QED BY <2>1, <2>2, <2>3
<1>5. QED BY <1>1, <1>3, <1>4 DEF Increasing, c

LEMMA TailFact ==
  ASSUME NEW S, NEW q \in Seq(S), q # <<>>
  PROVE  /\ Head(q) \in S /\ Head(q) = q[1] /\ 1 \in DOMAIN q
         /\ Tail(q) \in Seq(S) /\ Len(Tail(q)) = Len(q) - 1 /\ Len(q) \in Nat
         /\ \A i \in DOMAIN Tail(q) : i \in Nat /\ i + 1 \in DOMAIN q /\ 1 < i + 1 /\ Tail(q)[i] = q[i + 1]
         /\ \A i \in DOMAIN q : i = 1 \/ \E j \in DOMAIN Tail(q) : i = j + 1
<1>1. /\ Head(q) \in S /\ Tail(q) \in Seq(S) /\ Head(q) = q[1]
      /\ Len(q) \in Nat \ {0} /\ Len(Tail(q)) = Len(q) - 1
      /\ DOMAIN Tail(q) = 1 .. Len(q) - 1 /\ DOMAIN q = 1 .. Len(q)
      /\ \A i \in 1 .. Len(q) - 1 : Tail(q)[i] = q[i + 1]
  OBVIOUS
<1>2. \A n \in Nat \ {0} :
        /\ 1 \in 1 .. n
        /\ \A i \in 1 .. n - 1 : i \in Nat /\ i + 1 \in 1 .. n /\ 1 < i + 1
        /\ \A i \in 1 .. n : i # 1 => i - 1 \in 1 .. n - 1 /\ i = (i - 1) + 1
  OBVIOUS
<1>3. \A i \in DOMAIN q : i = 1 \/ \E j \in DOMAIN Tail(q) : i = j + 1
  BY <1>1, <1>2, Zenon
<1>4. QED BY <1>1, <1>2, <1>3, Zenon

LEMMA LastOfType ==
  ASSUME NEW S, NEW q \in Seq(S), NEW n \in Nat \ {0}
  PROVE  /\ LastOf(q, n) \in Seq(S) /\ Len(LastOf(q, n)) <= n
         /\ ToSet(LastOf(q, n)) \subseteq ToSet(q)
         /\ (q # <<>> => q[Len(q)] \in ToSet(LastOf(q, n)))
<1> DEFINE k == IF Len(q) > n THEN Len(q) - n + 1 ELSE 1
           r == LastOf(q, n)
<1>1. Len(q) \in Nat /\ DOMAIN q = 1 .. Len(q) /\ (q # <<>> => Len(q) > 0)
  OBVIOUS
<1>2. k \in Int /\ 1 <= k /\ Len(q) - k + 1 <= n /\ k <= Len(q) + 1 /\ (Len(q) > 0 => k <= Len(q))
  BY <1>1
<1>3. r = SubSeq(q, k, Len(q))
  BY DEF LastOf
<1> HIDE DEF k, r
<1>4. \A i \in k .. Len(q) : i \in 1 .. Len(q) /\ q[i] \in S
  BY <1>1, <1>2
<1>5. /\ r \in Seq(S) /\ Len(r) = (IF k <= Len(q) THEN Len(q) - k + 1 ELSE 0)
      /\ \A i \in 1 .. Len(q) - k + 1 : r[i] = q[k + i - 1]
  BY <1>1, <1>2, <1>3, <1>4, SubSeqProperties
<1>6. Len(r) = Len(q) - k + 1 /\ DOMAIN r = 1 .. Len(r)
  BY <1>1, <1>2, <1>5
<1>7. \A i \in 1 .. Len(q) - k + 1 : k + i - 1 \in 1 .. Len(q)
  BY <1>1, <1>2
<1>8. ToSet(r) \subseteq ToSet(q)
  BY <1>1, <1>5, <1>6, <1>7 DEF ToSet
<1>9. ASSUME q # <<>> PROVE q[Len(q)] \in ToSet(r)
  <2> DEFINE j == Len(q) - k + 1
  <2>1. j \in 1 .. Len(q) - k + 1 /\ k + j - 1 = Len(q)
    BY <1>1, <1>2, <1>9
  <2>2. r[j] = q[Len(q)] /\ j \in DOMAIN r
    BY <1>5, <1>6, <2>1
  <2>3. QED BY <2>2 DEF ToSet
<1>10. QED BY <1>2, <1>5, <1>6, <1>8, <1>9 DEF r

\* The ring keeps the newest.
LEMMA LastOfFact ==
  ASSUME NEW q \in Seq(Nat), Increasing(q), NEW n \in Nat \ {0}
  PROVE  /\ LastOf(q, n) \in Seq(Nat) /\ Increasing(LastOf(q, n))
         /\ ToSet(LastOf(q, n)) \subseteq ToSet(q)
         /\ Len(LastOf(q, n)) <= n /\ (Len(LastOf(q, n)) < n => LastOf(q, n) = q)
         /\ \A x \in ToSet(q) \ ToSet(LastOf(q, n)), y \in ToSet(LastOf(q, n)) : x < y
<1>1. DOMAIN q = 1 .. Len(q) /\ Len(q) \in Nat /\ \A i \in 1 .. Len(q) : q[i] \in Nat
  OBVIOUS
<1>2. CASE Len(q) <= n
  <2>0. ~(Len(q) > n)
    BY <1>1, <1>2
  <2>1. LastOf(q, n) = SubSeq(q, 1, Len(q))
    BY <2>0, Zenon DEF LastOf
  <2>2. SubSeq(q, 1, Len(q)) = q
    OBVIOUS
  <2>3. QED BY <1>1, <1>2, <2>1, <2>2
<1>3. CASE Len(q) > n
  <2> DEFINE k == Len(q) - n
             r == LastOf(q, n)
  <2>1. k \in Nat /\ k + n = Len(q) /\ k + 1 \in 1 .. Len(q)
    BY <1>1, <1>3
  <2>2. r = SubSeq(q, k + 1, Len(q))
    BY <1>1, <1>3 DEF LastOf
  <2>3. /\ r \in Seq(Nat) /\ Len(r) = n /\ DOMAIN r = 1 .. n
        /\ \A i \in 1 .. n : r[i] = q[k + i]
    BY <1>1, <2>1, <2>2
  <2> HIDE DEF k, r
  <2>4. \A i \in 1 .. n : k + i \in 1 .. Len(q)
    BY <1>1, <2>1
  <2>5. ToSet(r) \subseteq ToSet(q)
    BY <1>1, <2>3, <2>4 DEF ToSet
  <2>6. Increasing(r)
    <3>1. ASSUME NEW i \in 1 .. n, NEW j \in 1 .. n, i < j PROVE q[k + i] < q[k + j]
      <4>1. k + i < k + j
        BY <2>1, <3>1
      <4>2. QED BY <1>1, <2>4, <4>1 DEF Increasing
    <3>2. QED BY <2>3, <3>1 DEF Increasing
  <2>7. ASSUME NEW x \in ToSet(q) \ ToSet(r), NEW y \in ToSet(r) PROVE x < y
    <3>1. PICK i \in 1 .. Len(q) : x = q[i]
      BY <1>1 DEF ToSet
    <3>2. PICK j \in 1 .. n : y = q[k + j]
      BY <2>3 DEF ToSet
    <3>3. i <= k
      <4>1. SUFFICES ASSUME i > k PROVE FALSE
        BY <2>1
      <4>2. i - k \in 1 .. n /\ k + (i - k) = i
        BY <1>1, <2>1, <4>1
      <4>3. x \in ToSet(r)
        BY <2>3, <3>1, <4>2 DEF ToSet
      <4>4. QED BY <4>3
    <3>4. i < k + j
      BY <2>1, <3>3
    <3>5. QED BY <1>1, <2>4, <3>1, <3>2, <3>4 DEF Increasing
  <2>8. QED BY <1>1, <2>3, <2>5, <2>6, <2>7 DEF r
<1>4. QED BY <1>1, <1>2, <1>3

\* The least number of a set of numbers.
LEMMA LeastFact ==
  ASSUME NEW T \in SUBSET Nat, T # {}
  PROVE  \E n \in T : \A m \in T : n <= m
<1>1. PICK n \in T : \A m \in T : <<m, n>> \notin OpToRel(<, Nat)
  BY WFMin, NatLessThanWellFounded
<1>2. \A m \in T : ~ (m < n)
  BY <1>1 DEF OpToRel
<1>3. QED BY <1>2

\* A chain of concatenations: link i is f[i - 1] \o q[i].
Chained(f, q, N) == f = [i \in 1 .. N |-> IF i = 1 THEN q[i] ELSE f[i - 1] \o q[i]]

LEMMA ChainFact ==
  ASSUME NEW N \in Nat \ {0}, NEW q
  PROVE  \E f : Chained(f, q, N)
<1> DEFINE T == {n \in Nat \ {0} : ~ \E f : Chained(f, q, n)}
<1> SUFFICES ASSUME T # {} PROVE FALSE
  OBVIOUS
<1>1. PICK n \in T : \A m \in T : n <= m
  <2>1. T \in SUBSET Nat
    OBVIOUS
  <2>2. QED BY <2>1, LeastFact
<1>2. n \in Nat \ {0} /\ ~ \E f : Chained(f, q, n)
  OBVIOUS
<1>3. CASE n = 1
  <2> DEFINE g == [i \in 1 .. 1 |-> q[i]]
  <2>1. g = [i \in 1 .. 1 |-> IF i = 1 THEN q[i] ELSE g[i - 1] \o q[i]]
    OBVIOUS
  <2>2. Chained(g, q, n)
    BY <1>3, <2>1 DEF Chained
  <2>3. QED BY <1>2, <2>2
<1>4. CASE n # 1
  <2>1. n - 1 \in Nat \ {0} /\ ~ (n <= n - 1)
    BY <1>2, <1>4
  <2>2. n - 1 \notin T
    BY <1>1, <2>1
  <2>3. PICK f : Chained(f, q, n - 1)
    BY <2>1, <2>2
  <2> DEFINE g == [i \in 1 .. n |-> IF i = n THEN f[n - 1] \o q[n] ELSE f[i]]
             h == [i \in 1 .. n |-> IF i = 1 THEN q[i] ELSE g[i - 1] \o q[i]]
  <2>4. \A i \in 1 .. n - 1 : f[i] = IF i = 1 THEN q[i] ELSE f[i - 1] \o q[i]
    BY <2>3, Zenon DEF Chained
  <2>5. ASSUME NEW i \in 1 .. n PROVE g[i] = h[i]
    <3>1. CASE i = n
      <4>1. g[i - 1] = f[n - 1]
        BY <1>2, <1>4, <3>1
      <4>2. QED BY <1>4, <3>1, <4>1
    <3>2. CASE i = 1
      <4>1. 1 \in 1 .. n - 1
        BY <1>2, <1>4
      <4>2. QED BY <1>4, <2>4, <3>2, <4>1
    <3>3. CASE i # n /\ i # 1
      <4>1. i \in 1 .. n - 1 /\ i - 1 \in 1 .. n /\ i - 1 # n
        BY <1>2, <3>3
      <4>2. g[i] = f[i] /\ g[i - 1] = f[i - 1]
        BY <3>3, <4>1
      <4>3. QED BY <2>4, <3>3, <4>1, <4>2
    <3>4. QED BY <3>1, <3>2, <3>3
  <2>6. g = h
    BY <2>5
  <2>7. Chained(g, q, n)
    BY <2>6 DEF Chained
  <2>8. QED BY <1>2, <2>7
<1>5. QED BY <1>3, <1>4

\* Messages in order, put end to end.
LEMMA FlattenFact ==
  ASSUME NEW w \in Seq(Seq(Nat)),
         \A n \in DOMAIN w : Increasing(w[n]),
         \A m, n \in DOMAIN w : m < n => Below(w[m], w[n])
  PROVE  /\ FlattenSeq(w) \in Seq(Nat) /\ Increasing(FlattenSeq(w))
         /\ ToSet(FlattenSeq(w)) = Loaded(w)
<1>0. DOMAIN w = 1 .. Len(w) /\ Len(w) \in Nat /\ \A n \in DOMAIN w : w[n] \in Seq(Nat)
  OBVIOUS
<1>1. CASE Len(w) = 0
  <2>1. w = <<>> /\ FlattenSeq(w) = w
    BY <1>1 DEF FlattenSeq
  <2>2. Loaded(w) = {}
    BY <1>0, <1>1 DEF Loaded
  <2>3. QED BY <2>1, <2>2, EmptyFact
<1>2. CASE Len(w) # 0
  <2> DEFINE N == Len(w)
             f == CHOOSE f : Chained(f, w, N)
             Upto(n) == {x \in Nat : \E m \in 1 .. n : x \in ToSet(w[m])}
             Good(n) == f[n] \in Seq(Nat) /\ Increasing(f[n]) /\ ToSet(f[n]) = Upto(n)
             T == {n \in 1 .. N : ~ Good(n)}
  <2>1. N \in Nat \ {0}
    BY <1>0, <1>2
  <2>2. FlattenSeq(w) = f[N]
    BY <1>2, Zenon DEF FlattenSeq, Chained
  <2>3. Chained(f, w, N)
    BY <2>1, ChainFact
  <2> HIDE DEF f
  <2>4. \A i \in 1 .. N : f[i] = IF i = 1 THEN w[i] ELSE f[i - 1] \o w[i]
    BY <2>3, Zenon DEF Chained
  <2>5. T = {}
    <3> SUFFICES ASSUME T # {} PROVE FALSE
      OBVIOUS
    <3>1. PICK n \in T : \A m \in T : n <= m
      <4>1. T \in SUBSET Nat
        OBVIOUS
      <4>2. QED BY <4>1, LeastFact
    <3>2. n \in 1 .. N /\ ~ Good(n)
      BY <3>1
    <3>3. n \in Nat /\ n \in DOMAIN w /\ w[n] \in Seq(Nat) /\ Increasing(w[n]) /\ ToSet(w[n]) \subseteq Nat
      <4>1. n \in Nat /\ n \in DOMAIN w
        BY <1>0, <3>2
      <4>2. w[n] \in Seq(Nat) /\ Increasing(w[n])
        BY <1>0, <4>1, Zenon
      <4>3. ToSet(w[n]) \subseteq Nat
        BY <4>2, ToSetFact, Zenon
      <4>4. QED BY <4>1, <4>2, <4>3
    <3> HIDE DEF N
    <3>4. CASE n = 1
      <4>1. f[n] = w[n]
        BY <2>4, <3>2, <3>4
      <4>2. Upto(n) = ToSet(w[n])
        BY <3>3, <3>4
      <4>3. QED BY <3>2, <3>3, <4>1, <4>2
    <3>5. CASE n # 1
      <4>1. n - 1 \in 1 .. N /\ ~ (n <= n - 1)
        BY <2>1, <3>2, <3>5
      <4>2. Good(n - 1)
        BY <3>1, <4>1
      <4>3. f[n] = f[n - 1] \o w[n]
        BY <2>4, <3>2, <3>5
      <4>4. Below(f[n - 1], w[n])
        <5> SUFFICES ASSUME NEW x \in Upto(n - 1), NEW y \in ToSet(w[n]) PROVE x < y
          BY <4>2 DEF Below
        <5>1. PICK m \in 1 .. n - 1 : x \in ToSet(w[m])
          OBVIOUS
        <5>2. m \in DOMAIN w /\ m < n
          BY <1>0, <3>2, <3>3, <5>1 DEF N
        <5>3. Below(w[m], w[n])
          BY <3>3, <5>2
        <5>4. QED BY <5>1, <5>3, Zenon DEF Below
      <4>5. /\ f[n] \in Seq(Nat) /\ Increasing(f[n])
            /\ ToSet(f[n]) = Upto(n - 1) \cup ToSet(w[n])
        BY <3>3, <4>2, <4>3, <4>4, ConcatFact
      <4>6. Upto(n - 1) \cup ToSet(w[n]) = Upto(n)
        <5>1. \A m : m \in 1 .. n <=> (m \in 1 .. n - 1 \/ m = n)
          BY <3>3, <4>1
        <5>2. QED BY <3>3, <5>1
      <4>7. QED BY <3>2, <4>5, <4>6
    <3>6. QED BY <3>4, <3>5
  <2>6. Good(N)
    <3>1. N \in 1 .. N
      BY <2>1
    <3> HIDE DEF N, Good
    <3>2. QED BY <2>5, <3>1
  <2>7. Upto(N) = Loaded(w)
    BY <1>0 DEF Loaded
  <2>8. QED BY <2>2, <2>6, <2>7
<1>3. QED BY <1>1, <1>2

-----------------------------------------------------------------------------
(* The way to a screen                                                     *)

Pieces(s, h, w, c, p) ==
  /\ s \in Seq(Nat) /\ h \in Seq(Nat) /\ c \in Seq(Nat) /\ p \in Seq(Nat)
  /\ w \in Seq(Seq(Nat))

\* What loses items stays in line.
LEMMA InLineLess ==
  ASSUME NEW s, NEW h, NEW w, NEW c, NEW p, InLine(s, h, w, c, p),
         NEW s2, NEW h2, NEW c2, NEW p2,
         Increasing(s2), Increasing(h2), Increasing(c2), Increasing(p2),
         ToSet(s2) \subseteq ToSet(s), ToSet(h2) \subseteq ToSet(h),
         ToSet(c2) \subseteq ToSet(c), ToSet(p2) \subseteq ToSet(p)
  PROVE  /\ InLine(s2, h2, w, c2, p2)
         /\ Stuff(s2, h2, w, c2, p2) \subseteq Stuff(s, h, w, c, p)
<1>1. InLine(s2, h2, w, c2, p2)
  BY DEF InLine, Below
<1>2. QED BY <1>1 DEF Stuff

\* A new item joins the source.
LEMMA InLineIngest ==
  ASSUME NEW s, NEW h, NEW w, NEW c, NEW p, Pieces(s, h, w, c, p), InLine(s, h, w, c, p),
         NEW x \in Nat, \A y \in Stuff(s, h, w, c, p) : y < x
  PROVE  /\ Append(p, x) \in Seq(Nat) /\ InLine(s, h, w, c, Append(p, x))
         /\ Stuff(s, h, w, c, Append(p, x)) = Stuff(s, h, w, c, p) \cup {x}
<1>1. /\ \A y \in ToSet(s) : y < x
      /\ \A y \in ToSet(h) : y < x
      /\ \A y \in ToSet(c) : y < x
      /\ \A y \in ToSet(p) : y < x
      /\ \A y \in Loaded(w) : y < x
  BY Zenon DEF Stuff
<1>2. /\ Append(p, x) \in Seq(Nat) /\ Increasing(Append(p, x))
      /\ ToSet(Append(p, x)) = ToSet(p) \cup {x}
  BY <1>1, AppendFact DEF Pieces, InLine
<1>3. /\ Below(s, Append(p, x)) /\ Below(h, Append(p, x)) /\ Below(c, Append(p, x))
      /\ \A n \in DOMAIN w : Below(w[n], Append(p, x))
  <2>1. \A n \in DOMAIN w : \A y \in ToSet(w[n]) : y \in Nat
    BY DEF Pieces, ToSet
  <2>2. \A n \in DOMAIN w : \A y \in ToSet(w[n]) : y < x
    BY <1>1, <2>1 DEF Loaded
  <2>3. \A y \in ToSet(Append(p, x)) : y = x \/ y \in ToSet(p)
    BY <1>2
  <2>4. QED BY <1>1, <2>2, <2>3 DEF InLine, Below
<1>4. InLine(s, h, w, c, Append(p, x))
  BY <1>2, <1>3 DEF InLine
<1>5. Stuff(s, h, w, c, Append(p, x)) = Stuff(s, h, w, c, p) \cup {x}
  BY <1>2, Zenon DEF Stuff
<1>6. QED BY <1>2, <1>4, <1>5

\* The source is emptied into a broadcast.
LEMMA InLineTake ==
  ASSUME NEW s, NEW h, NEW w, NEW p, InLine(s, h, w, <<>>, p)
  PROVE  /\ InLine(s, h, w, p, <<>>)
         /\ Stuff(s, h, w, p, <<>>) = Stuff(s, h, w, <<>>, p)
BY EmptyFact DEF InLine, Below, Stuff

\* The broadcast reaches the viewer: its items join the wire.
LEMMA InLineReach ==
  ASSUME NEW s, NEW h, NEW w \in Seq(Seq(Nat)), NEW c \in Seq(Nat), NEW p, InLine(s, h, w, c, p)
  PROVE  /\ Append(w, c) \in Seq(Seq(Nat))
         /\ InLine(s, h, Append(w, c), <<>>, p)
         /\ Stuff(s, h, Append(w, c), <<>>, p) = Stuff(s, h, w, c, p)
<1> DEFINE v == Append(w, c)
<1>1. /\ v \in Seq(Seq(Nat)) /\ v[Len(w) + 1] = c /\ Len(w) + 1 \in DOMAIN v
      /\ Len(w) \in Nat /\ DOMAIN w = 1 .. Len(w) /\ DOMAIN v = 1 .. Len(w) + 1
      /\ \A n \in DOMAIN w : n \in DOMAIN v /\ v[n] = w[n]
  OBVIOUS
<1>2. \A n \in DOMAIN v : (n \in DOMAIN w /\ v[n] = w[n]) \/ (n = Len(w) + 1 /\ v[n] = c)
  BY <1>1
<1> HIDE DEF v
<1>3. Loaded(v) = Loaded(w) \cup ToSet(c)
  <2>1. ToSet(c) \subseteq Nat
    BY ToSetFact, Zenon
  <2>2. QED BY <1>1, <1>2, <2>1 DEF Loaded
<1>4. ASSUME NEW m \in DOMAIN v, NEW n \in DOMAIN v, m < n PROVE Below(v[m], v[n])
  <2>1. m \in DOMAIN w /\ v[m] = w[m]
    BY <1>1, <1>2, <1>4
  <2>2. QED BY <1>2, <1>4, <2>1 DEF InLine
<1>5. \A n \in DOMAIN v : Increasing(v[n]) /\ Below(s, v[n]) /\ Below(h, v[n]) /\ Below(v[n], p)
  BY <1>2 DEF InLine
<1>6. \A q : Below(q, <<>>) /\ Below(<<>>, q)
  BY EmptyFact DEF Below
<1>7. InLine(s, h, v, <<>>, p)
  BY <1>4, <1>5, <1>6, EmptyFact DEF InLine
<1>8. QED BY <1>1, <1>3, <1>7, EmptyFact DEF Stuff, v

\* A message of the other pump joins the wire.
LEMMA InLineBeside ==
  ASSUME NEW s, NEW h, NEW w \in Seq(Seq(Nat)), NEW c, NEW p, InLine(s, h, w, c, p)
  PROVE  /\ Append(w, <<>>) \in Seq(Seq(Nat))
         /\ InLine(s, h, Append(w, <<>>), c, p)
         /\ Stuff(s, h, Append(w, <<>>), c, p) = Stuff(s, h, w, c, p)
<1> DEFINE v == Append(w, <<>>)
<1>1. /\ v \in Seq(Seq(Nat))
      /\ Len(w) \in Nat /\ DOMAIN w = 1 .. Len(w) /\ DOMAIN v = 1 .. Len(w) + 1
      /\ \A n \in DOMAIN w : n \in DOMAIN v /\ v[n] = w[n]
      /\ v[Len(w) + 1] = <<>>
  BY EmptyFact
<1>2. \A n \in DOMAIN v : (n \in DOMAIN w /\ v[n] = w[n]) \/ v[n] = <<>>
  BY <1>1
<1> HIDE DEF v
<1>3. Loaded(v) = Loaded(w)
  BY <1>1, <1>2, EmptyFact DEF Loaded
<1>4. \A q : Below(q, <<>>) /\ Below(<<>>, q)
  BY EmptyFact DEF Below
<1>5. ASSUME NEW m \in DOMAIN v, NEW n \in DOMAIN v, m < n PROVE Below(v[m], v[n])
  BY <1>2, <1>4, <1>5 DEF InLine
<1>6. \A n \in DOMAIN v : /\ Increasing(v[n]) /\ Below(s, v[n]) /\ Below(h, v[n])
                          /\ Below(v[n], c) /\ Below(v[n], p)
  BY <1>2, <1>4, EmptyFact DEF InLine
<1>7. InLine(s, h, v, c, p)
  BY <1>5, <1>6 DEF InLine
<1>8. QED BY <1>1, <1>3, <1>7 DEF Stuff, v

\* The first message of the wire arrives and joins what is held.
LEMMA InLineArrive ==
  ASSUME NEW s, NEW h \in Seq(Nat), NEW w \in Seq(Seq(Nat)), w # <<>>, NEW c, NEW p,
         InLine(s, h, w, c, p)
  PROVE  /\ h \o Head(w) \in Seq(Nat) /\ Tail(w) \in Seq(Seq(Nat))
         /\ InLine(s, h \o Head(w), Tail(w), c, p)
         /\ Stuff(s, h \o Head(w), Tail(w), c, p) = Stuff(s, h, w, c, p)
<1> DEFINE a == Head(w)
           v == Tail(w)
           g == h \o a
<1>1. /\ a \in Seq(Nat) /\ a = w[1] /\ 1 \in DOMAIN w /\ v \in Seq(Seq(Nat))
      /\ \A i \in DOMAIN v : i \in Nat /\ i + 1 \in DOMAIN w /\ 1 < i + 1 /\ v[i] = w[i + 1]
      /\ \A i \in DOMAIN w : i = 1 \/ \E j \in DOMAIN v : i = j + 1
  BY TailFact
<1> HIDE DEF a, v
<1>2. Increasing(a) /\ Below(h, a)
  BY <1>1 DEF InLine
<1>3. g \in Seq(Nat) /\ Increasing(g) /\ ToSet(g) = ToSet(h) \cup ToSet(a)
  BY <1>1, <1>2, ConcatFact DEF InLine
<1> HIDE DEF g
<1>4. Loaded(w) = ToSet(a) \cup Loaded(v)
  <2>1. ToSet(a) \subseteq Nat
    BY <1>1, ToSetFact, Zenon
  <2>2. QED BY <1>1, <2>1 DEF Loaded
<1>5. ASSUME NEW n \in DOMAIN v
      PROVE  Increasing(v[n]) /\ Below(s, v[n]) /\ Below(g, v[n]) /\ Below(v[n], c) /\ Below(v[n], p)
  <2>1. /\ Increasing(v[n]) /\ Below(s, v[n]) /\ Below(h, v[n]) /\ Below(v[n], c) /\ Below(v[n], p)
        /\ Below(a, v[n])
    BY <1>1 DEF InLine
  <2>2. Below(g, v[n])
    BY <1>3, <2>1 DEF Below
  <2>3. QED BY <2>1, <2>2
<1>6. Below(s, g) /\ Below(g, c) /\ Below(g, p)
  <2>1. Below(s, a) /\ Below(a, c) /\ Below(a, p)
    BY <1>1 DEF InLine
  <2>2. Below(s, h) /\ Below(h, c) /\ Below(h, p)
    BY DEF InLine
  <2>3. QED BY <1>3, <2>1, <2>2 DEF Below
<1>7. ASSUME NEW m \in DOMAIN v, NEW n \in DOMAIN v, m < n PROVE Below(v[m], v[n])
  <2>1. m + 1 < n + 1
    BY <1>1, <1>7
  <2>2. QED BY <1>1, <2>1 DEF InLine
<1>8. InLine(s, g, v, c, p)
  BY <1>3, <1>5, <1>6, <1>7 DEF InLine
<1>9. QED BY <1>1, <1>3, <1>4, <1>8 DEF Stuff, a, v, g

\* What is held is shown.
LEMMA InLineFlush ==
  ASSUME NEW s \in Seq(Nat), NEW h \in Seq(Nat), NEW w, NEW c, NEW p, InLine(s, h, w, c, p)
  PROVE  /\ s \o h \in Seq(Nat)
         /\ InLine(s \o h, <<>>, w, c, p)
         /\ Stuff(s \o h, <<>>, w, c, p) = Stuff(s, h, w, c, p)
<1> DEFINE g == s \o h
<1>1. g \in Seq(Nat) /\ Increasing(g) /\ ToSet(g) = ToSet(s) \cup ToSet(h)
  BY ConcatFact DEF InLine
<1> HIDE DEF g
<1>2. \A q : Below(q, <<>>) /\ Below(<<>>, q)
  BY EmptyFact DEF Below
<1>3. /\ Below(g, c) /\ Below(g, p) /\ \A n \in DOMAIN w : Below(g, w[n])
  <2>1. Below(s, c) /\ Below(s, p) /\ Below(h, c) /\ Below(h, p)
    BY DEF InLine
  <2>2. \A n \in DOMAIN w : Below(s, w[n]) /\ Below(h, w[n])
    BY DEF InLine
  <2>3. QED BY <1>1, <2>1, <2>2 DEF Below
<1>4. InLine(g, <<>>, w, c, p)
  BY <1>1, <1>2, <1>3, EmptyFact DEF InLine
<1>5. QED BY <1>1, <1>4, EmptyFact DEF Stuff, g

\* The ring r of n rows has taken in what was held: it gave up only the oldest, and
\* nothing while it has room.
Ringed(s, h, w, c, p, n, r) ==
  /\ InLine(r, <<>>, w, c, p)
  /\ Stuff(r, <<>>, w, c, p) \subseteq Stuff(s, h, w, c, p)
  /\ \A e \in Stuff(s, h, w, c, p) \ Stuff(r, <<>>, w, c, p), f \in Stuff(r, <<>>, w, c, p) : e < f
  /\ Len(r) < n => Len(s) < n /\ Stuff(r, <<>>, w, c, p) = Stuff(s, h, w, c, p)

LEMMA InLineRing ==
  ASSUME NEW s \in Seq(Nat), NEW h \in Seq(Nat), NEW w, NEW c, NEW p, InLine(s, h, w, c, p),
         NEW n \in Nat \ {0}
  PROVE  Ringed(s, h, w, c, p, n, LastOf(s \o h, n))
<1> DEFINE g == s \o h
           r == LastOf(g, n)
<1>1. /\ g \in Seq(Nat) /\ InLine(g, <<>>, w, c, p)
      /\ Stuff(g, <<>>, w, c, p) = Stuff(s, h, w, c, p)
  BY InLineFlush
<1>2. Len(g) = Len(s) + Len(h) /\ Len(s) \in Nat /\ Len(h) \in Nat
  BY ConcatProperties
<1> HIDE DEF g
<1>3. Increasing(g) /\ Increasing(c) /\ Increasing(p)
  BY <1>1 DEF InLine
<1>4. /\ Increasing(r) /\ ToSet(r) \subseteq ToSet(g) /\ (Len(r) < n => r = g)
      /\ \A x \in ToSet(g) \ ToSet(r), y \in ToSet(r) : x < y
  BY <1>1, <1>3, LastOfFact
<1> HIDE DEF r
<1>5. InLine(r, <<>>, w, c, p) /\ Stuff(r, <<>>, w, c, p) \subseteq Stuff(g, <<>>, w, c, p)
  BY <1>1, <1>3, <1>4, EmptyFact, InLineLess
<1>6. ASSUME NEW e \in Stuff(g, <<>>, w, c, p) \ Stuff(r, <<>>, w, c, p), NEW f \in Stuff(r, <<>>, w, c, p)
      PROVE  e < f
  <2>1. e \in ToSet(g) \ ToSet(r)
    BY DEF Stuff
  <2>2. Below(g, c) /\ Below(g, p) /\ \A m \in DOMAIN w : Below(g, w[m])
    BY <1>1 DEF InLine
  <2>3. f \in ToSet(r) \/ f \in ToSet(c) \/ f \in ToSet(p) \/ f \in Loaded(w)
    BY EmptyFact DEF Stuff
  <2>4. QED BY <1>4, <2>1, <2>2, <2>3 DEF Below, Loaded
<1>7. ASSUME Len(r) < n PROVE Len(s) < n /\ r = g
  <2>1. r = g
    BY <1>4, <1>7
  <2>2. QED BY <1>2, <1>7, <2>1
<1>8. QED BY <1>1, <1>5, <1>6, <1>7 DEF Ringed, r, g

-----------------------------------------------------------------------------
(* The invariant                                                           *)

Held(p, v) == IF p = "state" THEN held[v] ELSE <<>>

\* What the messages on the wire carry of pump p.
Cargo(q, p) == [n \in DOMAIN q |-> IF q[n].of = p THEN q[n].items ELSE <<>>]

\* What a suspended broadcast has yet to send.
Afoot(b, v) == IF b.at = "suspended" /\ v \notin b.sent THEN b.items ELSE <<>>

Line(p, v) == InLine(shown[v][p], Held(p, v), Cargo(wire[v], p), Afoot(pump[p], v), pending[p])

\* Path(p, v) as a set.
OnWay(p, v) == Stuff(shown[v][p], Held(p, v), Cargo(wire[v], p), Afoot(pump[p], v), pending[p])

Waits(p, v) == IF pump[p].at = "suspended" /\ pump[p].on = v THEN 1 ELSE 0

FeedTypes ==
  /\ ingested \in [Pumps -> Nat] /\ ingested["state"] + ingested["logs"] <= MaxItems
  /\ cleared \in 0 .. ingested["state"]
  /\ lost \in SUBSET (1 .. ingested["logs"])
  /\ pending \in [Pumps -> Seq(Item)] /\ Len(pending["logs"]) <= LogRows
  /\ \A p \in Pumps : ToSet(pending[p]) \subseteq 1 .. ingested[p]
  /\ clients \in SUBSET Viewers
  /\ pump \in [Pumps -> Pump]
  /\ link \in [Viewers -> {"up", "lost", "down"}]
  /\ wire \in [Viewers -> Seq(Message)]
  /\ held \in [Steadfast -> Seq(Item)]
  /\ shown \in [Steadfast -> [Pumps -> Seq(Item)]]
  /\ asked \in SUBSET Operators

\* A send that suspends waits until the connection has drained, or is gone.
WiresBounded ==
  \A v \in Viewers :
    /\ Len(wire[v]) <= WireLimit + Waits("state", v) + Waits("logs", v)
    /\ link[v] # "up" => wire[v] = <<>>

\* A viewer that stays connected is in every round of every pump.
Connected ==
  \A v \in Steadfast :
    /\ link[v] = "up" /\ v \in clients
    /\ \A p \in Pumps : v \notin pump[p].dead /\ (pump[p].at = "suspended" => v \in pump[p].todo)

InLines ==
  \A p \in Pumps : \A v \in Steadfast : Line(p, v) /\ OnWay(p, v) \subseteq 1 .. ingested[p]

EventsOnWay ==
  pump["state"].at # "crashed" =>
    \A v \in Steadfast \ asked :
      LacksOldest({e \in OnWay("state", v) : e > cleared}, cleared + 1 .. ingested["state"],
                  shown[v]["state"], EventRows)

LogsOnWay ==
  pump["logs"].at # "crashed" =>
    \A v \in Steadfast :
      LacksOldest(OnWay("logs", v), (1 .. ingested["logs"]) \ lost, shown[v]["logs"], LogRows)

FeedIInv == FeedTypes /\ WiresBounded /\ Connected /\ InLines /\ EventsOnWay /\ LogsOnWay

-----------------------------------------------------------------------------
(* What the wire carries                                                   *)

LEMMA ItemsFact ==
  ASSUME FeedAssumption, NEW q \in Seq(Item)
  PROVE  q \in Seq(Nat) /\ ToSet(q) \subseteq Item
<1>1. Item \subseteq Nat
  BY DEF Item, FeedAssumption
<1>2. q \in Seq(Nat)
  BY <1>1, SeqMonotonic
<1>3. QED BY <1>2, ToSetFact

LEMMA CargoFact ==
  ASSUME FeedAssumption, NEW q \in Seq(Message), NEW p \in Pumps
  PROVE  /\ Cargo(q, p) \in Seq(Seq(Nat)) /\ Len(Cargo(q, p)) = Len(q) /\ DOMAIN Cargo(q, p) = 1 .. Len(q)
         /\ \A n \in 1 .. Len(q) :
              Cargo(q, p)[n] = IF q[n].of = p THEN q[n].items ELSE <<>>
<1>1. DOMAIN q = 1 .. Len(q) /\ Len(q) \in Nat /\ \A n \in 1 .. Len(q) : q[n] \in Message
  OBVIOUS
<1>2. ASSUME NEW n \in 1 .. Len(q)
      PROVE  (IF q[n].of = p THEN q[n].items ELSE <<>>) \in Seq(Nat)
  <2>1. q[n].items \in Seq(Item)
    BY <1>1 DEF Message
  <2>2. QED BY <2>1, ItemsFact, EmptyFact
<1>3. Cargo(q, p) = [n \in 1 .. Len(q) |-> IF q[n].of = p THEN q[n].items ELSE <<>>]
  BY <1>1 DEF Cargo
<1>4. QED BY <1>1, <1>2, <1>3

LEMMA CargoAppend ==
  ASSUME FeedAssumption, NEW q \in Seq(Message), NEW m \in Message, NEW p \in Pumps
  PROVE  Cargo(Append(q, m), p) = Append(Cargo(q, p), IF m.of = p THEN m.items ELSE <<>>)
<1> DEFINE i == IF m.of = p THEN m.items ELSE <<>>
           a == Cargo(Append(q, m), p)
           b == Append(Cargo(q, p), i)
<1>1. i \in Seq(Nat)
  <2>1. m.items \in Seq(Item)
    BY DEF Message
  <2>2. QED BY <2>1, ItemsFact, EmptyFact
<1>2. /\ Append(q, m) \in Seq(Message) /\ Len(Append(q, m)) = Len(q) + 1 /\ Len(q) \in Nat
      /\ \A n \in 1 .. Len(q) : Append(q, m)[n] = q[n]
      /\ Append(q, m)[Len(q) + 1] = m
  OBVIOUS
<1>3. /\ a \in Seq(Seq(Nat)) /\ Len(a) = Len(q) + 1
      /\ \A n \in 1 .. Len(q) + 1 :
           a[n] = IF Append(q, m)[n].of = p THEN Append(q, m)[n].items ELSE <<>>
  <2> DEFINE r == Append(q, m)
  <2> HIDE DEF r
  <2>1. r \in Seq(Message) /\ Len(r) = Len(q) + 1
    BY <1>2 DEF r
  <2>2. QED BY <2>1, CargoFact, Zenon DEF r
<1>4. /\ Cargo(q, p) \in Seq(Seq(Nat)) /\ Len(Cargo(q, p)) = Len(q)
      /\ \A n \in 1 .. Len(q) : Cargo(q, p)[n] = IF q[n].of = p THEN q[n].items ELSE <<>>
  BY CargoFact
<1> DEFINE c == Cargo(q, p)
<1> HIDE DEF i, c
<1>5. /\ Append(c, i) \in Seq(Seq(Nat)) /\ Len(Append(c, i)) = Len(c) + 1
      /\ \A n \in 1 .. Len(c) : Append(c, i)[n] = c[n]
      /\ Append(c, i)[Len(c) + 1] = i
  BY <1>1, <1>4 DEF c
<1>6. \A n \in 1 .. Len(q) + 1 : n \in 1 .. Len(q) \/ n = Len(q) + 1
  BY <1>2
<1>7. \A n \in 1 .. Len(q) + 1 : a[n] = Append(c, i)[n]
  BY <1>2, <1>3, <1>4, <1>5, <1>6, Zenon DEF i, c
<1>8. a = Append(c, i)
  <2> HIDE DEF a
  <2>1. Len(a) = Len(Append(c, i)) /\ \A n \in 1 .. Len(a) : a[n] = Append(c, i)[n]
    BY <1>3, <1>4, <1>5, <1>7, Zenon DEF c
  <2>2. QED BY <1>3, <1>5, <2>1, SeqEqual
<1>9. QED BY <1>8 DEF a, c, i

LEMMA CargoTail ==
  ASSUME FeedAssumption, NEW q \in Seq(Message), q # <<>>, NEW p \in Pumps
  PROVE  /\ Cargo(q, p) \in Seq(Seq(Nat)) /\ Cargo(q, p) # <<>>
         /\ Head(q) \in Message /\ Tail(q) \in Seq(Message)
         /\ Head(Cargo(q, p)) = IF Head(q).of = p THEN Head(q).items ELSE <<>>
         /\ Tail(Cargo(q, p)) = Cargo(Tail(q), p)
<1> DEFINE c == Cargo(q, p)
<1>1. /\ c \in Seq(Seq(Nat)) /\ Len(c) = Len(q)
      /\ \A n \in 1 .. Len(q) : c[n] = IF q[n].of = p THEN q[n].items ELSE <<>>
  BY CargoFact
<1>2. /\ Head(q) \in Message /\ Tail(q) \in Seq(Message) /\ Head(q) = q[1]
      /\ Len(q) \in Nat \ {0} /\ Len(Tail(q)) = Len(q) - 1
      /\ \A i \in 1 .. Len(q) - 1 : Tail(q)[i] = q[i + 1]
  OBVIOUS
<1>3. /\ Cargo(Tail(q), p) \in Seq(Seq(Nat)) /\ Len(Cargo(Tail(q), p)) = Len(q) - 1
      /\ \A n \in 1 .. Len(q) - 1 :
           Cargo(Tail(q), p)[n] = IF Tail(q)[n].of = p THEN Tail(q)[n].items ELSE <<>>
  <2> DEFINE r == Tail(q)
  <2> HIDE DEF r
  <2>1. r \in Seq(Message) /\ Len(r) = Len(q) - 1
    BY <1>2 DEF r
  <2>2. /\ Cargo(r, p) \in Seq(Seq(Nat)) /\ Len(Cargo(r, p)) = Len(r)
        /\ \A n \in 1 .. Len(r) : Cargo(r, p)[n] = IF r[n].of = p THEN r[n].items ELSE <<>>
    BY <2>1, CargoFact
  <2>3. QED BY <2>1, <2>2 DEF r
<1> HIDE DEF c
<1>4. /\ c # <<>> /\ Head(c) = c[1] /\ Tail(c) \in Seq(Seq(Nat)) /\ Len(Tail(c)) = Len(q) - 1
      /\ \A i \in 1 .. Len(q) - 1 : Tail(c)[i] = c[i + 1]
  BY <1>1, <1>2
<1>5. 1 \in 1 .. Len(q) /\ \A i \in 1 .. Len(q) - 1 : i + 1 \in 1 .. Len(q)
  BY <1>2
<1>6. Head(c) = IF Head(q).of = p THEN Head(q).items ELSE <<>>
  BY <1>1, <1>2, <1>4, <1>5, Zenon
<1>7. ASSUME NEW i \in 1 .. Len(q) - 1 PROVE Tail(c)[i] = Cargo(Tail(q), p)[i]
  <2>1. i + 1 \in 1 .. Len(q) /\ Tail(q)[i] = q[i + 1] /\ Tail(c)[i] = c[i + 1]
    BY <1>2, <1>4, <1>5, Zenon
  <2>2. c[i + 1] = IF q[i + 1].of = p THEN q[i + 1].items ELSE <<>>
    BY <1>1, <2>1, Zenon
  <2>3. Cargo(Tail(q), p)[i] = IF Tail(q)[i].of = p THEN Tail(q)[i].items ELSE <<>>
    BY <1>3, Zenon
  <2>4. QED BY <2>1, <2>2, <2>3, Zenon
<1>8. Tail(c) = Cargo(Tail(q), p)
  <2> DEFINE d == Tail(c)
             e == Cargo(Tail(q), p)
  <2>1. /\ d \in Seq(Seq(Nat)) /\ e \in Seq(Seq(Nat)) /\ Len(d) = Len(e)
        /\ \A i \in 1 .. Len(d) : d[i] = e[i]
    BY <1>3, <1>4, <1>7, Zenon
  <2> HIDE DEF d, e
  <2>2. d = e
    BY <2>1, SeqEqual
  <2>3. QED BY <2>2 DEF d, e
<1>9. QED BY <1>1, <1>2, <1>4, <1>6, <1>8 DEF c

\* A way none of whose stretches changes stays as it is.
LEMMA LineSame ==
  ASSUME NEW p, NEW v, shown'[v][p] = shown[v][p], Held(p, v)' = Held(p, v),
         Cargo(wire'[v], p) = Cargo(wire[v], p), Afoot(pump'[p], v) = Afoot(pump[p], v),
         pending'[p] = pending[p]
  PROVE  Line(p, v)' = Line(p, v) /\ OnWay(p, v)' = OnWay(p, v)
BY DEF Line, OnWay

\* The stretches of a way are sequences of items.
LEMMA Stretches ==
  ASSUME FeedAssumption, FeedTypes, NEW p \in Pumps, NEW v \in Steadfast
  PROVE  /\ Pieces(shown[v][p], Held(p, v), Cargo(wire[v], p), Afoot(pump[p], v), pending[p])
         /\ shown[v][p] \in Seq(Item) /\ Held(p, v) \in Seq(Item) /\ Afoot(pump[p], v) \in Seq(Item)
         /\ pending[p] \in Seq(Item) /\ pump[p].items \in Seq(Item) /\ wire[v] \in Seq(Message)
<1>1. <<>> \in Seq(Item)
  OBVIOUS
<1>2. v \in Viewers
  BY DEF FeedAssumption
<1>3. shown[v][p] \in Seq(Item) /\ pending[p] \in Seq(Item) /\ wire[v] \in Seq(Message)
  BY <1>2 DEF FeedTypes
<1>4. Held(p, v) \in Seq(Item)
  BY <1>1 DEF FeedTypes, Held
<1>5. pump[p].items \in Seq(Item)
  BY DEF FeedTypes, Pump
<1>6. Afoot(pump[p], v) \in Seq(Item)
  BY <1>1, <1>5 DEF Afoot
<1>7. QED BY <1>3, <1>4, <1>5, <1>6, ItemsFact, CargoFact DEF Pieces

-----------------------------------------------------------------------------
(* The sources                                                             *)

LEMMA PumpNames == Pumps = {"state", "logs"} /\ "state" \in Pumps /\ "logs" \in Pumps
BY DEF Pumps

LEMMA AppendSet ==
  ASSUME NEW S, NEW q \in Seq(S), NEW x \in S
  PROVE  ToSet(Append(q, x)) = ToSet(q) \cup {x} /\ Append(q, x)[Len(Append(q, x))] = x
         /\ Append(q, x) # <<>> /\ Append(q, x) \in Seq(S)
<1> DEFINE a == Append(q, x)
<1>1. /\ Len(q) \in Nat /\ DOMAIN q = 1 .. Len(q) /\ DOMAIN a = 1 .. Len(q) + 1 /\ Len(a) = Len(q) + 1
      /\ \A i \in 1 .. Len(q) : a[i] = q[i]
      /\ a[Len(q) + 1] = x /\ a \in Seq(S)
  OBVIOUS
<1>2. \A i \in 1 .. Len(q) + 1 : i \in 1 .. Len(q) \/ i = Len(q) + 1
  BY <1>1
<1>3. \A i \in 1 .. Len(q) : i \in 1 .. Len(q) + 1
  BY <1>1
<1>4. Len(q) + 1 \in 1 .. Len(q) + 1
  BY <1>1
<1> HIDE DEF a
<1>5. ToSet(a) = ToSet(q) \cup {x}
  BY <1>1, <1>2, <1>3, <1>4 DEF ToSet
<1>6. a # <<>>
  BY <1>1
<1>7. QED BY <1>1, <1>5, <1>6 DEF a

LEMMA IngestCaptureStep ==
  ASSUME FeedAssumption, FeedIInv, IngestCapture
  PROVE  FeedIInv'
<1> DEFINE x == ingested["state"] + 1
<1>1. /\ ingested["state"] \in Nat /\ ingested["logs"] \in Nat
      /\ ingested["state"] + ingested["logs"] < MaxItems /\ MaxItems \in Nat
      /\ ingested' \in [Pumps -> Nat] /\ ingested'["state"] = x /\ ingested'["logs"] = ingested["logs"]
      /\ cleared \in 0 .. ingested["state"]
  BY PumpNames DEF FeedIInv, FeedTypes, IngestCapture, Numbered, FeedAssumption
<1>2. /\ x \in Nat /\ x \in Item /\ x \in 1 .. x /\ x > cleared /\ \A y \in 1 .. ingested["state"] : y < x
      /\ 1 .. x = (1 .. ingested["state"]) \cup {x}
      /\ cleared + 1 .. x = (cleared + 1 .. ingested["state"]) \cup {x}
  BY <1>1 DEF Item
<1>3. /\ pending["state"] \in Seq(Item) /\ pending["logs"] \in Seq(Item)
      /\ pending' = [pending EXCEPT !["state"] = Append(@, x)]
      /\ pending'["state"] = Append(pending["state"], x) /\ pending'["logs"] = pending["logs"]
  BY <1>1, PumpNames DEF FeedIInv, FeedTypes, IngestCapture
<1>4. /\ UNCHANGED <<cleared, lost, clients, pump, link, wire, held, shown, asked>>
  BY DEF IngestCapture, viewVars
<1> HIDE DEF x
<1>5. FeedTypes'
  <2>1. Append(pending["state"], x) \in Seq(Item)
    BY <1>2, <1>3
  <2>2. pending' \in [Pumps -> Seq(Item)]
    BY <1>3, <2>1 DEF FeedIInv, FeedTypes
  <2>5. ASSUME NEW p \in Pumps PROVE ToSet(pending'[p]) \subseteq 1 .. ingested'[p]
    <3>1. /\ ToSet(pending["state"]) \subseteq 1 .. ingested["state"]
          /\ ToSet(pending["logs"]) \subseteq 1 .. ingested["logs"]
      BY PumpNames DEF FeedIInv, FeedTypes
    <3>2. ToSet(Append(pending["state"], x)) = ToSet(pending["state"]) \cup {x}
      BY <1>2, <1>3, AppendSet
    <3>3. QED BY <1>1, <1>2, <1>3, <3>1, <3>2, PumpNames
  <2>3. ingested'["state"] + ingested'["logs"] <= MaxItems /\ cleared \in 0 .. ingested'["state"]
    BY <1>1 DEF x
  <2>4. QED BY <1>1, <1>3, <1>4, <2>2, <2>3, <2>5 DEF FeedIInv, FeedTypes
<1>6. WiresBounded' /\ Connected'
  BY <1>4 DEF FeedIInv, WiresBounded, Waits, Connected
<1>7. ASSUME NEW v \in Steadfast
      PROVE  /\ Line("state", v)' /\ OnWay("state", v)' = OnWay("state", v) \cup {x}
             /\ OnWay("state", v) \subseteq 1 .. ingested["state"]
             /\ Line("logs", v)' /\ OnWay("logs", v)' = OnWay("logs", v)
             /\ OnWay("logs", v) \subseteq 1 .. ingested["logs"]
  <2>1. /\ Line("state", v) /\ OnWay("state", v) \subseteq 1 .. ingested["state"]
        /\ Line("logs", v) /\ OnWay("logs", v) \subseteq 1 .. ingested["logs"]
    BY PumpNames DEF FeedIInv, InLines
  <2>2. \A p \in Pumps : Held(p, v)' = Held(p, v)
    BY <1>4 DEF Held
  <2>3. Line("logs", v)' /\ OnWay("logs", v)' = OnWay("logs", v)
    BY <1>3, <1>4, <2>1, <2>2, PumpNames, LineSame
  <2>4. Pieces(shown[v]["state"], Held("state", v), Cargo(wire[v], "state"),
               Afoot(pump["state"], v), pending["state"])
    BY PumpNames, Stretches DEF FeedIInv
  <2>5. \A y \in OnWay("state", v) : y < x
    BY <1>2, <2>1
  <2> DEFINE s == shown[v]["state"]
             h == Held("state", v)
             w == Cargo(wire[v], "state")
             c == Afoot(pump["state"], v)
             q == pending["state"]
  <2>6. /\ InLine(s, h, w, c, Append(q, x))
        /\ Stuff(s, h, w, c, Append(q, x)) = Stuff(s, h, w, c, q) \cup {x}
    BY <1>2, <2>1, <2>4, <2>5, InLineIngest DEF Line, OnWay
  <2>7. Line("state", v)' /\ OnWay("state", v)' = OnWay("state", v) \cup {x}
    BY <1>3, <1>4, <2>2, <2>6, PumpNames DEF Line, OnWay
  <2>8. QED BY <2>1, <2>3, <2>7
<1>8. InLines'
  <2> SUFFICES ASSUME NEW p \in Pumps, NEW v \in Steadfast
               PROVE  Line(p, v)' /\ OnWay(p, v)' \subseteq 1 .. ingested'[p]
    BY DEF InLines
  <2>1. CASE p = "state"
    BY <1>1, <1>2, <1>7, <2>1
  <2>2. CASE p = "logs"
    BY <1>1, <1>7, <2>2
  <2>3. QED BY <2>1, <2>2, PumpNames
<1>9. EventsOnWay'
  <2> SUFFICES ASSUME pump["state"].at # "crashed", NEW v \in Steadfast \ asked
               PROVE  LacksOldest({e \in OnWay("state", v)' : e > cleared}, cleared + 1 .. x,
                                  shown[v]["state"], EventRows)
    BY <1>1, <1>4 DEF EventsOnWay
  <2> DEFINE way == {e \in OnWay("state", v) : e > cleared}
             due == cleared + 1 .. ingested["state"]
  <2>1. LacksOldest(way, due, shown[v]["state"], EventRows)
    BY DEF FeedIInv, EventsOnWay
  <2>2. {e \in OnWay("state", v)' : e > cleared} = way \cup {x}
    BY <1>2, <1>7
  <2>3. cleared + 1 .. x = due \cup {x} /\ \A e \in due : e < x
    BY <1>1, <1>2
  <2> HIDE DEF way, due
  <2>4. LacksOldest(way \cup {x}, due \cup {x}, shown[v]["state"], EventRows)
    BY <2>1, <2>3 DEF LacksOldest
  <2>5. QED BY <2>2, <2>3, <2>4
<1>10. LogsOnWay'
  BY <1>1, <1>4, <1>7 DEF FeedIInv, LogsOnWay
<1>11. QED BY <1>5, <1>6, <1>8, <1>9, <1>10 DEF FeedIInv

LEMMA IngestLogStep ==
  ASSUME FeedAssumption, FeedIInv, IngestLog
  PROVE  FeedIInv'
<1> DEFINE x == ingested["logs"] + 1
           q == pending["logs"]
           a == Append(q, x)
           r == LastOf(a, LogRows)
           gone == ToSet(q) \ ToSet(r)
<1>1. /\ ingested["state"] \in Nat /\ ingested["logs"] \in Nat
      /\ ingested["state"] + ingested["logs"] < MaxItems /\ MaxItems \in Nat
      /\ ingested' \in [Pumps -> Nat] /\ ingested'["logs"] = x /\ ingested'["state"] = ingested["state"]
      /\ cleared \in 0 .. ingested["state"] /\ lost \subseteq 1 .. ingested["logs"]
      /\ LogRows \in Nat \ {0}
  BY PumpNames DEF FeedIInv, FeedTypes, IngestLog, Numbered, FeedAssumption
<1>2. /\ x \in Nat /\ x \in Item /\ x \in 1 .. x /\ \A y \in 1 .. ingested["logs"] : y < x
      /\ 1 .. x = (1 .. ingested["logs"]) \cup {x} /\ x \notin 1 .. ingested["logs"]
  BY <1>1 DEF Item
<1>3. /\ q \in Seq(Item) /\ pending["state"] \in Seq(Item)
      /\ pending' = [pending EXCEPT !["logs"] = r]
      /\ pending'["logs"] = r /\ pending'["state"] = pending["state"]
      /\ lost' = lost \cup gone
  BY <1>1, PumpNames DEF FeedIInv, FeedTypes, IngestLog
<1>4. UNCHANGED <<cleared, clients, pump, link, wire, held, shown, asked>>
  BY DEF IngestLog, viewVars
<1> HIDE DEF x
<1> HIDE DEF q, r
<1>5. /\ a \in Seq(Item) /\ ToSet(a) = ToSet(q) \cup {x} /\ a # <<>> /\ a[Len(a)] = x
  BY <1>2, <1>3, AppendSet
<1> HIDE DEF a
<1>6. /\ r \in Seq(Item) /\ Len(r) <= LogRows /\ ToSet(r) \subseteq ToSet(q) \cup {x} /\ x \in ToSet(r)
  BY <1>1, <1>5, LastOfType DEF r
<1>7. ToSet(q) \subseteq 1 .. ingested["logs"]
  BY PumpNames DEF FeedIInv, FeedTypes, q
<1>8. gone = ToSet(a) \ ToSet(r) /\ x \notin gone
  BY <1>5, <1>6
<1>9. FeedTypes'
  <2>1. pending' \in [Pumps -> Seq(Item)] /\ Len(pending'["logs"]) <= LogRows
    BY <1>3, <1>6 DEF FeedIInv, FeedTypes
  <2>2. ingested'["state"] + ingested'["logs"] <= MaxItems /\ cleared \in 0 .. ingested'["state"]
    BY <1>1 DEF x
  <2>3. lost' \in SUBSET (1 .. ingested'["logs"])
    BY <1>1, <1>2, <1>3, <1>7
  <2>4. ASSUME NEW p \in Pumps PROVE ToSet(pending'[p]) \subseteq 1 .. ingested'[p]
    <3>1. ToSet(pending["state"]) \subseteq 1 .. ingested["state"]
      BY PumpNames DEF FeedIInv, FeedTypes
    <3>2. QED BY <1>1, <1>2, <1>3, <1>6, <1>7, <3>1, PumpNames
  <2>5. QED BY <1>1, <1>4, <2>1, <2>2, <2>3, <2>4 DEF FeedIInv, FeedTypes
<1>10. WiresBounded' /\ Connected'
  BY <1>4 DEF FeedIInv, WiresBounded, Waits, Connected
<1>11. ASSUME NEW v \in Steadfast
       PROVE  /\ Line("logs", v)' /\ OnWay("logs", v)' = (OnWay("logs", v) \cup {x}) \ gone
              /\ OnWay("logs", v) \subseteq 1 .. ingested["logs"]
              /\ Line("state", v)' /\ OnWay("state", v)' = OnWay("state", v)
              /\ OnWay("state", v) \subseteq 1 .. ingested["state"]
  <2> DEFINE s == shown[v]["logs"]
             h == Held("logs", v)
             w == Cargo(wire[v], "logs")
             c == Afoot(pump["logs"], v)
  <2>1. /\ Line("logs", v) /\ OnWay("logs", v) \subseteq 1 .. ingested["logs"]
        /\ Line("state", v) /\ OnWay("state", v) \subseteq 1 .. ingested["state"]
    BY PumpNames DEF FeedIInv, InLines
  <2>2. Pieces(s, h, w, c, q)
    BY PumpNames, Stretches DEF FeedIInv, q
  <2>3. InLine(s, h, w, c, q) /\ OnWay("logs", v) = Stuff(s, h, w, c, q)
    BY <2>1 DEF Line, OnWay, q
  <2>4. \A y \in OnWay("logs", v) : y < x
    BY <1>2, <2>1
  <2>5. \A p \in Pumps : Held(p, v)' = Held(p, v)
    BY <1>4 DEF Held
  <2>6. Line("state", v)' /\ OnWay("state", v)' = OnWay("state", v)
    BY <1>3, <1>4, <2>1, <2>5, PumpNames, LineSame
  <2>7. /\ Line("logs", v)' = InLine(s, h, w, c, r)
        /\ OnWay("logs", v)' = Stuff(s, h, w, c, r)
    BY <1>3, <1>4, <2>5, PumpNames DEF Line, OnWay
  <2> HIDE DEF s, h, w, c
  <2>8. InLine(s, h, w, c, a) /\ Stuff(s, h, w, c, a) = Stuff(s, h, w, c, q) \cup {x}
    BY <1>2, <2>2, <2>3, <2>4, InLineIngest DEF a
  <2>9. Increasing(s) /\ Increasing(h) /\ Increasing(c) /\ Increasing(a)
    BY <2>8 DEF InLine
  <2>10. /\ Increasing(r) /\ ToSet(r) \subseteq ToSet(a)
         /\ \A y \in ToSet(a) \ ToSet(r), z \in ToSet(r) : y < z
    <3>1. a \in Seq(Nat)
      BY <1>5, ItemsFact
    <3>2. QED BY <1>1, <2>9, <3>1, LastOfFact DEF r
  <2>11. InLine(s, h, w, c, r)
    BY <2>8, <2>9, <2>10, InLineLess
  <2>12. /\ Below(s, a) /\ Below(h, a) /\ Below(c, a)
         /\ \A n \in DOMAIN w : Below(w[n], a)
    BY <2>8 DEF InLine
  <2>13. \A y \in ToSet(s) \cup ToSet(h) \cup ToSet(c) \cup Loaded(w), z \in ToSet(a) : y < z
    BY <2>12 DEF Below, Loaded
  <2>14. gone \subseteq Nat /\ gone \subseteq ToSet(a)
    BY <1>7, <1>8
  <2>15. \A y \in ToSet(s) \cup ToSet(h) \cup ToSet(c) \cup Loaded(w) : y \notin gone
    BY <2>13, <2>14
  <2>16. Stuff(s, h, w, c, r) = Stuff(s, h, w, c, a) \ gone
    BY <1>8, <2>10, <2>15 DEF Stuff
  <2>17. QED BY <2>1, <2>3, <2>6, <2>7, <2>8, <2>11, <2>16
<1>12. InLines'
  <2> SUFFICES ASSUME NEW p \in Pumps, NEW v \in Steadfast
               PROVE  Line(p, v)' /\ OnWay(p, v)' \subseteq 1 .. ingested'[p]
    BY DEF InLines
  <2>1. CASE p = "state"
    BY <1>1, <1>11, <2>1
  <2>2. CASE p = "logs"
    BY <1>1, <1>2, <1>11, <2>2
  <2>3. QED BY <2>1, <2>2, PumpNames
<1>13. EventsOnWay'
  <2> SUFFICES ASSUME pump["state"].at # "crashed", NEW v \in Steadfast \ asked
               PROVE  LacksOldest({e \in OnWay("state", v)' : e > cleared},
                                  cleared + 1 .. ingested["state"], shown[v]["state"], EventRows)
    BY <1>1, <1>4 DEF EventsOnWay
  <2>1. OnWay("state", v)' = OnWay("state", v)
    BY <1>11
  <2>2. QED BY <2>1 DEF FeedIInv, EventsOnWay
<1>14. LogsOnWay'
  <2> SUFFICES ASSUME pump["logs"].at # "crashed", NEW v \in Steadfast
               PROVE  LacksOldest(OnWay("logs", v)', (1 .. ingested'["logs"]) \ lost',
                                  shown'[v]["logs"], LogRows)
    BY <1>4 DEF LogsOnWay
  <2> DEFINE due == (1 .. ingested["logs"]) \ lost
             way == OnWay("logs", v)
  <2>1. /\ way \subseteq due
        /\ \A e \in due \ way, f \in way : e < f
        /\ Len(shown[v]["logs"]) < LogRows => way = due
    BY DEF FeedIInv, LogsOnWay, LacksOldest
  <2>2. (1 .. ingested'["logs"]) \ lost' = (due \cup {x}) \ gone
    BY <1>1, <1>2, <1>3, <1>8
  <2>3. OnWay("logs", v)' = (way \cup {x}) \ gone
    BY <1>11
  <2>4. \A e \in due : e < x
    BY <1>2
  <2> HIDE DEF due, way
  <2>5. ASSUME NEW e \in ((due \cup {x}) \ gone) \ ((way \cup {x}) \ gone), NEW f \in (way \cup {x}) \ gone
        PROVE  e < f
    BY <2>1, <2>4
  <2>6. (way \cup {x}) \ gone \subseteq (due \cup {x}) \ gone
    BY <2>1
  <2>7. Len(shown'[v]["logs"]) < LogRows => (way \cup {x}) \ gone = (due \cup {x}) \ gone
    BY <1>4, <2>1
  <2>8. QED BY <2>2, <2>3, <2>5, <2>6, <2>7 DEF LacksOldest
<1>15. QED BY <1>9, <1>10, <1>12, <1>13, <1>14 DEF FeedIInv

-----------------------------------------------------------------------------
(* Connections, and scenarios.run                                          *)

\* What happens to other viewers leaves the ways to those that stay as they are.
LEMMA WaysUntouched ==
  ASSUME FeedAssumption, FeedIInv, UNCHANGED <<sourceVars, held, shown, asked>>,
         \A v \in Steadfast : wire'[v] = wire[v],
         \A p \in Pumps : /\ pump'[p].at = pump[p].at
                          /\ \A v \in Steadfast : Afoot(pump'[p], v) = Afoot(pump[p], v)
  PROVE  InLines' /\ EventsOnWay' /\ LogsOnWay'
<1>1. UNCHANGED <<ingested, cleared, lost, pending, held, shown, asked>>
  BY DEF sourceVars
<1>2. ASSUME NEW p \in Pumps, NEW v \in Steadfast
      PROVE  /\ Line(p, v)' = Line(p, v) /\ OnWay(p, v)' = OnWay(p, v)
             /\ Line(p, v) /\ OnWay(p, v) \subseteq 1 .. ingested[p]
  <2>1. Held(p, v)' = Held(p, v)
    BY <1>1 DEF Held
  <2>2. Line(p, v)' = Line(p, v) /\ OnWay(p, v)' = OnWay(p, v)
    BY <1>1, <2>1, LineSame
  <2>3. QED BY <2>2 DEF FeedIInv, InLines
<1>3. InLines'
  BY <1>1, <1>2 DEF InLines
<1>4. EventsOnWay'
  BY <1>1, <1>2, PumpNames DEF FeedIInv, EventsOnWay
<1>5. LogsOnWay'
  BY <1>1, <1>2, PumpNames DEF FeedIInv, LogsOnWay
<1>6. QED BY <1>3, <1>4, <1>5

LEMMA LoseStep ==
  ASSUME FeedAssumption, FeedIInv, NEW u \in Viewers \ Steadfast, Lose(u)
  PROVE  FeedIInv'
<1>1. /\ UNCHANGED <<sourceVars, clients, pump, held, shown, asked>>
      /\ UNCHANGED <<ingested, cleared, lost, pending>>
      /\ link' = [link EXCEPT ![u] = "lost"] /\ wire' = [wire EXCEPT ![u] = <<>>]
      /\ wire \in [Viewers -> Seq(Message)] /\ link \in [Viewers -> {"up", "lost", "down"}]
  BY DEF Lose, sourceVars, FeedIInv, FeedTypes
<1>2. \A v \in Steadfast : v \in Viewers /\ v # u
  BY DEF FeedAssumption
<1>3. InLines' /\ EventsOnWay' /\ LogsOnWay'
  BY <1>1, <1>2, WaysUntouched
<1>4. FeedTypes'
  BY <1>1 DEF FeedIInv, FeedTypes
<1>5. WiresBounded'
  <2> SUFFICES ASSUME NEW v \in Viewers
               PROVE  /\ Len(wire'[v]) <= WireLimit + Waits("state", v)' + Waits("logs", v)'
                      /\ link'[v] # "up" => wire'[v] = <<>>
    BY DEF WiresBounded
  <2>1. \A p \in Pumps : Waits(p, v)' = Waits(p, v) /\ Waits(p, v) \in {0, 1}
    BY <1>1 DEF Waits
  <2>2. CASE v = u
    BY <1>1, <2>1, <2>2, PumpNames DEF FeedAssumption
  <2>3. CASE v # u
    BY <1>1, <2>1, <2>3, PumpNames DEF FeedIInv, WiresBounded
  <2>4. QED BY <2>2, <2>3
<1>6. Connected'
  BY <1>1, <1>2 DEF FeedIInv, Connected
<1>7. QED BY <1>3, <1>4, <1>5, <1>6 DEF FeedIInv

LEMMA HandlerEndsStep ==
  ASSUME FeedAssumption, FeedIInv, NEW u \in Viewers \ Steadfast, HandlerEnds(u)
  PROVE  FeedIInv'
<1>1. /\ UNCHANGED <<sourceVars, pump, wire, held, shown, asked>>
      /\ UNCHANGED <<ingested, cleared, lost, pending>>
      /\ link[u] = "lost" /\ link' = [link EXCEPT ![u] = "down"] /\ clients' = clients \ {u}
      /\ link \in [Viewers -> {"up", "lost", "down"}]
  BY DEF HandlerEnds, sourceVars, FeedIInv, FeedTypes
<1>2. \A v \in Steadfast : v \in Viewers /\ v # u
  BY DEF FeedAssumption
<1>3. InLines' /\ EventsOnWay' /\ LogsOnWay'
  BY <1>1, <1>2, WaysUntouched
<1>4. FeedTypes'
  BY <1>1 DEF FeedIInv, FeedTypes
<1>5. WiresBounded'
  BY <1>1 DEF FeedIInv, WiresBounded, Waits
<1>6. Connected'
  BY <1>1, <1>2 DEF FeedIInv, Connected
<1>7. QED BY <1>3, <1>4, <1>5, <1>6 DEF FeedIInv

LEMMA HandlerStartsStep ==
  ASSUME FeedAssumption, FeedIInv, NEW u \in Viewers \ Steadfast, HandlerStarts(u)
  PROVE  FeedIInv'
<1>1. /\ UNCHANGED <<sourceVars, wire, held, shown, asked>>
      /\ UNCHANGED <<ingested, cleared, lost, pending>>
      /\ link[u] = "down" /\ link' = [link EXCEPT ![u] = "up"] /\ clients' = clients \cup {u}
      /\ link \in [Viewers -> {"up", "lost", "down"}] /\ pump \in [Pumps -> Pump]
  BY DEF HandlerStarts, sourceVars, FeedIInv, FeedTypes
<1>2. \A v \in Steadfast : v \in Viewers /\ v # u
  BY DEF FeedAssumption
<1>3. pump' = [p \in Pumps |->
                [pump[p] EXCEPT !.todo = @ \ {u}, !.sent = @ \ {u}, !.dead = @ \ {u},
                                !.on = IF @ = u THEN None ELSE @]]
  BY DEF HandlerStarts
<1>4. ASSUME NEW p \in Pumps
      PROVE  /\ pump'[p] \in Pump /\ pump'[p].at = pump[p].at /\ pump'[p].items = pump[p].items
             /\ pump'[p].todo = pump[p].todo \ {u} /\ pump'[p].sent = pump[p].sent \ {u}
             /\ pump'[p].dead = pump[p].dead \ {u}
             /\ pump'[p].on = IF pump[p].on = u THEN None ELSE pump[p].on
  <2>1. pump[p] \in Pump
    BY <1>1
  <2>2. pump'[p] = [pump[p] EXCEPT !.todo = @ \ {u}, !.sent = @ \ {u}, !.dead = @ \ {u},
                                   !.on = IF @ = u THEN None ELSE @]
    BY <1>3
  <2> DEFINE b == pump[p]
  <2>3. b \in Pump
    BY <2>1
  <2> HIDE DEF b
  <2>4. pump'[p] = [b EXCEPT !.todo = b.todo \ {u}, !.sent = b.sent \ {u}, !.dead = b.dead \ {u},
                            !.on = IF b.on = u THEN None ELSE b.on]
    BY <2>2 DEF b
  <2>5. \A on \in Viewers \cup {None} :
          [b EXCEPT !.todo = b.todo \ {u}, !.sent = b.sent \ {u}, !.dead = b.dead \ {u}, !.on = on] \in Pump
    BY <2>3 DEF Pump
  <2>6. (IF b.on = u THEN None ELSE b.on) \in Viewers \cup {None}
    BY <2>3 DEF Pump
  <2>7. pump'[p] \in Pump
    BY <2>4, <2>5, <2>6
  <2>8. \A on : LET c == [b EXCEPT !.todo = b.todo \ {u}, !.sent = b.sent \ {u}, !.dead = b.dead \ {u}, !.on = on]
               IN  /\ c.at = b.at /\ c.items = b.items /\ c.todo = b.todo \ {u} /\ c.sent = b.sent \ {u}
                   /\ c.dead = b.dead \ {u} /\ c.on = on
    BY <2>3 DEF Pump
  <2>9. QED BY <2>4, <2>7, <2>8 DEF b
<1>5. InLines' /\ EventsOnWay' /\ LogsOnWay'
  <2>1. \A p \in Pumps : \A v \in Steadfast : Afoot(pump'[p], v) = Afoot(pump[p], v)
    BY <1>2, <1>4 DEF Afoot
  <2>2. QED BY <1>1, <1>4, <2>1, WaysUntouched
<1>6. FeedTypes'
  <2>1. pump' \in [Pumps -> Pump]
    BY <1>3, <1>4
  <2>2. QED BY <1>1, <2>1 DEF FeedIInv, FeedTypes
<1>7. WiresBounded'
  <2> SUFFICES ASSUME NEW v \in Viewers
               PROVE  /\ Len(wire[v]) <= WireLimit + Waits("state", v)' + Waits("logs", v)'
                      /\ link'[v] # "up" => wire[v] = <<>>
    BY <1>1 DEF WiresBounded
  <2>1. \A p \in Pumps : Waits(p, v)' \in {0, 1}
    BY DEF Waits
  <2>2. CASE v = u
    <3>1. wire[v] = <<>> /\ Len(wire[v]) = 0
      BY <1>1, <2>2 DEF FeedIInv, WiresBounded
    <3>2. QED BY <2>1, <2>2, <3>1, PumpNames DEF FeedAssumption
  <2>3. CASE v # u
    <3>1. \A p \in Pumps : Waits(p, v)' = Waits(p, v)
      BY <1>4, <2>3 DEF Waits, FeedAssumption
    <3>2. QED BY <1>1, <2>3, <3>1, PumpNames DEF FeedIInv, WiresBounded
  <2>4. QED BY <2>2, <2>3
<1>8. Connected'
  BY <1>1, <1>2, <1>4 DEF FeedIInv, Connected
<1>9. QED BY <1>5, <1>6, <1>7, <1>8 DEF FeedIInv

\* A message leaves the head of the wire.
LEMMA ArrivesFact ==
  ASSUME FeedAssumption, FeedIInv, NEW u \in Viewers, NEW p \in Pumps, Arrives(u, p)
  PROVE  /\ UNCHANGED <<sourceVars, ingested, cleared, lost, pending, clients, pump, link, asked>>
         /\ wire[u] \in Seq(Message) /\ wire[u] # <<>> /\ Head(wire[u]).of = p
         /\ Head(wire[u]) \in Message /\ Head(wire[u]).items \in Seq(Item)
         /\ wire' \in [Viewers -> Seq(Message)] /\ wire'[u] = Tail(wire[u])
         /\ \A v \in Viewers \ {u} : wire'[v] = wire[v]
         /\ WiresBounded' /\ Connected'
<1>1. /\ UNCHANGED <<sourceVars, ingested, cleared, lost, pending, clients, pump, link, asked>>
      /\ wire[u] # <<>> /\ Head(wire[u]).of = p /\ wire' = [wire EXCEPT ![u] = Tail(wire[u])]
      /\ wire \in [Viewers -> Seq(Message)]
  BY DEF Arrives, sourceVars, FeedIInv, FeedTypes
<1>2. /\ wire[u] \in Seq(Message) /\ Head(wire[u]) \in Message /\ Tail(wire[u]) \in Seq(Message)
      /\ Len(Tail(wire[u])) = Len(wire[u]) - 1 /\ Len(wire[u]) \in Nat \ {0}
  BY <1>1
<1>3. Head(wire[u]).items \in Seq(Item)
  BY <1>2 DEF Message
<1>4. /\ wire' \in [Viewers -> Seq(Message)] /\ wire'[u] = Tail(wire[u])
      /\ \A v \in Viewers \ {u} : wire'[v] = wire[v]
  BY <1>1, <1>2
<1>5. WiresBounded'
  <2> SUFFICES ASSUME NEW v \in Viewers
               PROVE  /\ Len(wire'[v]) <= WireLimit + Waits("state", v)' + Waits("logs", v)'
                      /\ link'[v] # "up" => wire'[v] = <<>>
    BY DEF WiresBounded
  <2>1. /\ Len(wire[v]) <= WireLimit + Waits("state", v) + Waits("logs", v)
        /\ link[v] # "up" => wire[v] = <<>>
    BY DEF FeedIInv, WiresBounded
  <2>2. /\ Waits("state", v)' = Waits("state", v) /\ Waits("logs", v)' = Waits("logs", v)
        /\ Waits("state", v) \in Nat /\ Waits("logs", v) \in Nat
    BY <1>1 DEF Waits
  <2>3. CASE v = u
    <3>1. link'[v] = "up"
      BY <1>1, <2>1, <2>3
    <3>2. QED BY <1>2, <1>4, <2>1, <2>2, <2>3, <3>1 DEF FeedAssumption
  <2>4. CASE v # u
    BY <1>1, <1>4, <2>1, <2>2, <2>4
  <2>5. QED BY <2>3, <2>4
<1>6. Connected'
  BY <1>1 DEF FeedIInv, Connected
<1>7. QED BY <1>1, <1>2, <1>3, <1>4, <1>5, <1>6

LEMMA OnMessageElsewhereStep ==
  ASSUME FeedAssumption, FeedIInv, NEW u \in Viewers \ Steadfast, OnMessageElsewhere(u)
  PROVE  FeedIInv'
<1>1. PICK p \in Pumps : Arrives(u, p)
  BY DEF OnMessageElsewhere
<1>2. UNCHANGED <<held, shown>>
  BY DEF OnMessageElsewhere
<1>3. \A v \in Steadfast : v \in Viewers \ {u}
  BY DEF FeedAssumption
<1>4. InLines' /\ EventsOnWay' /\ LogsOnWay'
  BY <1>1, <1>2, <1>3, ArrivesFact, WaysUntouched
<1>5. FeedTypes'
  BY <1>1, <1>2, ArrivesFact DEF FeedIInv, FeedTypes
<1>6. QED BY <1>1, <1>4, <1>5, ArrivesFact DEF FeedIInv

LEMMA ProxyRunStep ==
  ASSUME FeedAssumption, FeedIInv, NEW u \in Steadfast, ProxyRun(u)
  PROVE  FeedIInv'
<1>1. /\ asked' = asked \ {u} /\ pending' = [pending EXCEPT !["state"] = <<>>]
      /\ cleared' = ingested["state"]
      /\ UNCHANGED <<ingested, lost, clients, pump, link, wire, held, shown>>
      /\ pending \in [Pumps -> Seq(Item)] /\ ingested \in [Pumps -> Nat]
  BY DEF ProxyRun, FeedIInv, FeedTypes
<1>2. pending'["state"] = <<>> /\ pending'["logs"] = pending["logs"] /\ pending' \in [Pumps -> Seq(Item)]
  BY <1>1, PumpNames
<1>3. FeedTypes'
  <2>1. cleared' \in 0 .. ingested["state"]
    BY <1>1, PumpNames
  <2>2. \A p \in Pumps : ToSet(pending'[p]) \subseteq 1 .. ingested[p]
    BY <1>2, PumpNames, EmptyFact DEF FeedIInv, FeedTypes
  <2>3. QED BY <1>1, <1>2, <2>1, <2>2 DEF FeedIInv, FeedTypes
<1>4. WiresBounded' /\ Connected'
  BY <1>1 DEF FeedIInv, WiresBounded, Waits, Connected
<1>5. ASSUME NEW v \in Steadfast
      PROVE  /\ Line("state", v)' /\ OnWay("state", v)' \subseteq OnWay("state", v)
             /\ Line("logs", v)' /\ OnWay("logs", v)' = OnWay("logs", v)
             /\ \A p \in Pumps : OnWay(p, v) \subseteq 1 .. ingested[p]
  <2>1. \A p \in Pumps : Line(p, v) /\ OnWay(p, v) \subseteq 1 .. ingested[p]
    BY DEF FeedIInv, InLines
  <2>2. \A p \in Pumps : Held(p, v)' = Held(p, v)
    BY <1>1 DEF Held
  <2>3. Line("logs", v)' /\ OnWay("logs", v)' = OnWay("logs", v)
    BY <1>1, <1>2, <2>1, <2>2, PumpNames, LineSame
  <2> DEFINE s == shown[v]["state"]
             h == Held("state", v)
             w == Cargo(wire[v], "state")
             c == Afoot(pump["state"], v)
             q == pending["state"]
  <2>4. InLine(s, h, w, c, q) /\ OnWay("state", v) = Stuff(s, h, w, c, q)
    BY <2>1, PumpNames DEF Line, OnWay
  <2>5. /\ Line("state", v)' = InLine(s, h, w, c, <<>>)
        /\ OnWay("state", v)' = Stuff(s, h, w, c, <<>>)
    BY <1>1, <1>2, <2>2, PumpNames DEF Line, OnWay
  <2> HIDE DEF s, h, w, c, q
  <2>6. Increasing(s) /\ Increasing(h) /\ Increasing(c) /\ Increasing(<<>>) /\ ToSet(<<>>) \subseteq ToSet(q)
    BY <2>4, EmptyFact DEF InLine
  <2>7. InLine(s, h, w, c, <<>>) /\ Stuff(s, h, w, c, <<>>) \subseteq Stuff(s, h, w, c, q)
    BY <2>4, <2>6, InLineLess
  <2>8. QED BY <2>1, <2>3, <2>4, <2>5, <2>7
<1>6. InLines'
  BY <1>1, <1>5, PumpNames DEF InLines
<1>7. EventsOnWay'
  <2> SUFFICES ASSUME NEW v \in Steadfast
               PROVE  /\ {e \in OnWay("state", v)' : e > cleared'} = {}
                      /\ cleared' + 1 .. ingested'["state"] = {}
    BY DEF EventsOnWay, LacksOldest
  <2>1. OnWay("state", v)' \subseteq 1 .. ingested["state"]
    BY <1>5, PumpNames
  <2>2. ingested["state"] \in Nat
    BY <1>1, PumpNames
  <2>3. QED BY <1>1, <2>1, <2>2
<1>8. LogsOnWay'
  BY <1>1, <1>5 DEF FeedIInv, LogsOnWay
<1>9. QED BY <1>3, <1>4, <1>6, <1>7, <1>8 DEF FeedIInv

-----------------------------------------------------------------------------
(* The viewers                                                             *)

LEMMA ConcatItems ==
  ASSUME NEW a \in Seq(Item), NEW b \in Seq(Item)
  PROVE  a \o b \in Seq(Item)
BY ConcatProperties

Rows(p) == IF p = "state" THEN EventRows ELSE LogRows

\* A way moves on, and loses its oldest only once the ring is full.
Moves(p, v) ==
  /\ OnWay(p, v)' \subseteq OnWay(p, v)
  /\ \A e \in OnWay(p, v) \ OnWay(p, v)', f \in OnWay(p, v)' : e < f
  /\ Len(shown'[v][p]) < Rows(p) => Len(shown[v][p]) < Rows(p) /\ OnWay(p, v)' = OnWay(p, v)

LEMMA LacksOldestStill ==
  ASSUME NEW way, NEW way2 \in SUBSET way, NEW due \in SUBSET Int, NEW ring, NEW ring2, NEW rows,
         LacksOldest(way, due, ring, rows),
         \A e \in way \ way2, f \in way2 : e < f,
         Len(ring2) < rows => Len(ring) < rows /\ way2 = way
  PROVE  LacksOldest(way2, due, ring2, rows)
BY DEF LacksOldest

\* One viewer moves items along its way, or drops some, and nothing else happens.
LEMMA OneWay ==
  ASSUME FeedAssumption, FeedIInv,
         UNCHANGED <<ingested, cleared, lost, pending, clients, pump, link>>,
         NEW u \in Steadfast,
         \A v \in Steadfast \ {u} : wire'[v] = wire[v] /\ held'[v] = held[v] /\ shown'[v] = shown[v],
         \A p \in Pumps : Line(p, u)' /\ OnWay(p, u)' \subseteq OnWay(p, u),
         asked \subseteq asked',
         u \notin asked' => Moves("state", u),
         Moves("logs", u)
  PROVE  InLines' /\ EventsOnWay' /\ LogsOnWay'
<1>1. ASSUME NEW p \in Pumps, NEW v \in Steadfast, v # u
      PROVE  Line(p, v)' = Line(p, v) /\ OnWay(p, v)' = OnWay(p, v)
  <2>1. wire'[v] = wire[v] /\ held'[v] = held[v] /\ shown'[v] = shown[v]
    BY <1>1
  <2>2. Held(p, v)' = Held(p, v)
    BY <2>1 DEF Held
  <2>3. QED BY <2>1, <2>2, LineSame
<1>2. InLines'
  <2> SUFFICES ASSUME NEW p \in Pumps, NEW v \in Steadfast
               PROVE  Line(p, v)' /\ OnWay(p, v)' \subseteq 1 .. ingested[p]
    BY DEF InLines
  <2>1. Line(p, v) /\ OnWay(p, v) \subseteq 1 .. ingested[p]
    BY DEF FeedIInv, InLines
  <2>2. QED BY <1>1, <2>1
<1>3. EventsOnWay'
  <2> SUFFICES ASSUME pump["state"].at # "crashed", NEW v \in Steadfast \ asked'
               PROVE  LacksOldest({e \in OnWay("state", v)' : e > cleared},
                                  cleared + 1 .. ingested["state"], shown'[v]["state"], EventRows)
    BY DEF EventsOnWay
  <2> DEFINE way == {e \in OnWay("state", v) : e > cleared}
             way2 == {e \in OnWay("state", v)' : e > cleared}
             due == cleared + 1 .. ingested["state"]
  <2>1. LacksOldest(way, due, shown[v]["state"], EventRows)
    BY DEF FeedIInv, EventsOnWay
  <2>2. CASE v # u
    <3>1. way2 = way /\ shown'[v] = shown[v]
      BY <1>1, <2>2, PumpNames
    <3>2. QED BY <2>1, <3>1
  <2>3. CASE v = u
    <3>1. /\ way2 \in SUBSET way /\ \A e \in way \ way2, f \in way2 : e < f
          /\ Len(shown'[v]["state"]) < EventRows => Len(shown[v]["state"]) < EventRows /\ way2 = way
      BY <2>3 DEF Moves, Rows
    <3>2. due \in SUBSET Int
      OBVIOUS
    <3> HIDE DEF way, way2, due
    <3>3. LacksOldest(way2, due, shown'[v]["state"], EventRows)
      BY <2>1, <3>1, <3>2, LacksOldestStill
    <3>4. QED BY <3>3 DEF way2, due
  <2>4. QED BY <2>2, <2>3
<1>4. LogsOnWay'
  <2> SUFFICES ASSUME pump["logs"].at # "crashed", NEW v \in Steadfast
               PROVE  LacksOldest(OnWay("logs", v)', (1 .. ingested["logs"]) \ lost,
                                  shown'[v]["logs"], LogRows)
    BY DEF LogsOnWay
  <2>1. LacksOldest(OnWay("logs", v), (1 .. ingested["logs"]) \ lost, shown[v]["logs"], LogRows)
    BY DEF FeedIInv, LogsOnWay
  <2>2. CASE v # u
    <3>1. OnWay("logs", v)' = OnWay("logs", v) /\ shown'[v] = shown[v]
      BY <1>1, <2>2, PumpNames
    <3>2. QED BY <2>1, <3>1
  <2>3. CASE v = u
    <3>1. /\ OnWay("logs", v)' \in SUBSET OnWay("logs", v)
          /\ \A e \in OnWay("logs", v) \ OnWay("logs", v)', f \in OnWay("logs", v)' : e < f
          /\ Len(shown'[v]["logs"]) < LogRows =>
               Len(shown[v]["logs"]) < LogRows /\ OnWay("logs", v)' = OnWay("logs", v)
      BY <2>3 DEF Moves, Rows
    <3>2. QED BY <2>1, <3>1, LacksOldestStill
  <2>4. QED BY <2>2, <2>3
<1>5. QED BY <1>2, <1>3, <1>4

\* The stretches of both ways of a viewer, its store and frames changed.
LEMMA FlushFrameStep ==
  ASSUME FeedAssumption, FeedIInv, NEW u \in Steadfast, FlushFrame(u)
  PROVE  FeedIInv'
<1> DEFINE s == shown[u]["state"]
           h == held[u]
           w == Cargo(wire[u], "state")
           c == Afoot(pump["state"], u)
           q == pending["state"]
           r == LastOf(s \o h, EventRows)
<1>1. /\ UNCHANGED <<ingested, cleared, lost, pending, clients, pump, link, wire, asked>>
      /\ held' = [held EXCEPT ![u] = <<>>]
      /\ shown' = [shown EXCEPT ![u]["state"] = r]
      /\ held \in [Steadfast -> Seq(Item)] /\ shown \in [Steadfast -> [Pumps -> Seq(Item)]]
  BY DEF FlushFrame, sourceVars, FeedIInv, FeedTypes
<1>2. s \in Seq(Item) /\ h \in Seq(Item) /\ <<>> \in Seq(Item) /\ EventRows \in Nat \ {0}
  BY <1>1, PumpNames DEF FeedAssumption
<1>11. r \in Seq(Item)
  <2>1. s \o h \in Seq(Item)
    BY <1>2, ConcatItems
  <2>2. QED BY <1>2, <2>1, LastOfType
<1>3. /\ held' \in [Steadfast -> Seq(Item)] /\ shown' \in [Steadfast -> [Pumps -> Seq(Item)]]
      /\ held'[u] = <<>> /\ shown'[u]["state"] = r /\ shown'[u]["logs"] = shown[u]["logs"]
      /\ \A v \in Steadfast \ {u} : held'[v] = held[v] /\ shown'[v] = shown[v]
  <2> HIDE DEF r
  <2>1. QED BY <1>1, <1>2, <1>11, PumpNames
<1>4. FeedTypes'
  BY <1>1, <1>3 DEF FeedIInv, FeedTypes
<1>5. WiresBounded' /\ Connected'
  BY <1>1 DEF FeedIInv, WiresBounded, Waits, Connected
<1>6. Line("state", u) /\ Line("logs", u)
  BY PumpNames DEF FeedIInv, InLines
<1>7. Line("state", u)' /\ Moves("state", u)
  <2>1. InLine(s, h, w, c, q) /\ OnWay("state", u) = Stuff(s, h, w, c, q)
    BY <1>6 DEF Line, OnWay, Held
  <2>2. /\ Line("state", u)' = InLine(r, <<>>, w, c, q)
        /\ OnWay("state", u)' = Stuff(r, <<>>, w, c, q)
    BY <1>1, <1>3 DEF Line, OnWay, Held
  <2>3. s \in Seq(Nat) /\ h \in Seq(Nat)
    BY <1>2, ItemsFact
  <2>4. shown'[u]["state"] = r /\ shown[u]["state"] = s
    BY <1>3
  <2>5. Ringed(s, h, w, c, q, EventRows, r)
    <3> HIDE DEF s, h, w, c, q
    <3>1. QED BY <1>2, <2>1, <2>3, InLineRing DEF r
  <2> HIDE DEF r, s, h, w, c, q
  <2>6. QED BY <2>1, <2>2, <2>4, <2>5 DEF Moves, Rows, Ringed
<1>8. Line("logs", u)' /\ OnWay("logs", u)' = OnWay("logs", u)
  <2>1. Held("logs", u)' = Held("logs", u)
    BY DEF Held
  <2>2. QED BY <1>1, <1>3, <1>6, <2>1, LineSame
<1>9. InLines' /\ EventsOnWay' /\ LogsOnWay'
  <2>1. \A p \in Pumps : Line(p, u)' /\ OnWay(p, u)' \subseteq OnWay(p, u)
    BY <1>7, <1>8, PumpNames DEF Moves
  <2>2. \A v \in Steadfast \ {u} : wire'[v] = wire[v] /\ held'[v] = held[v] /\ shown'[v] = shown[v]
    BY <1>1, <1>3
  <2>3. Moves("logs", u)
    BY <1>3, <1>8 DEF Moves
  <2>4. QED BY <1>1, <1>3, <1>7, <2>1, <2>2, <2>3, OneWay
<1>10. QED BY <1>4, <1>5, <1>9 DEF FeedIInv

LEMMA ClickRunStep ==
  ASSUME FeedAssumption, FeedIInv, NEW u \in Steadfast, ClickRun(u)
  PROVE  FeedIInv'
<1> DEFINE s == shown[u]["state"]
           h == held[u]
           w == Cargo(wire[u], "state")
           c == Afoot(pump["state"], u)
           q == pending["state"]
<1>1. /\ UNCHANGED <<ingested, cleared, lost, pending, clients, pump, link, wire, held>>
      /\ shown' = [shown EXCEPT ![u]["state"] = <<>>]
      /\ asked' = asked \cup {u} /\ u \in Operators
      /\ shown \in [Steadfast -> [Pumps -> Seq(Item)]]
  BY DEF ClickRun, sourceVars, FeedIInv, FeedTypes
<1>2. <<>> \in Seq(Item)
  OBVIOUS
<1>3. /\ shown' \in [Steadfast -> [Pumps -> Seq(Item)]]
      /\ shown'[u]["state"] = <<>> /\ shown'[u]["logs"] = shown[u]["logs"]
      /\ \A v \in Steadfast \ {u} : shown'[v] = shown[v]
  BY <1>1, <1>2, PumpNames
<1>4. FeedTypes'
  BY <1>1, <1>3 DEF FeedIInv, FeedTypes
<1>5. WiresBounded' /\ Connected'
  BY <1>1 DEF FeedIInv, WiresBounded, Waits, Connected
<1>6. Line("state", u) /\ Line("logs", u)
  BY PumpNames DEF FeedIInv, InLines
<1>7. Line("state", u)' /\ OnWay("state", u)' \subseteq OnWay("state", u)
  <2>1. InLine(s, h, w, c, q) /\ OnWay("state", u) = Stuff(s, h, w, c, q)
    BY <1>6 DEF Line, OnWay, Held
  <2>2. /\ Line("state", u)' = InLine(<<>>, h, w, c, q)
        /\ OnWay("state", u)' = Stuff(<<>>, h, w, c, q)
    BY <1>1, <1>3 DEF Line, OnWay, Held
  <2> HIDE DEF s, h, w, c, q
  <2>3. Increasing(<<>>) /\ Increasing(h) /\ Increasing(c) /\ Increasing(q) /\ ToSet(<<>>) \subseteq ToSet(s)
    BY <2>1, EmptyFact DEF InLine
  <2>4. QED BY <2>1, <2>2, <2>3, InLineLess
<1>8. Line("logs", u)' /\ OnWay("logs", u)' = OnWay("logs", u)
  <2>1. Held("logs", u)' = Held("logs", u)
    BY DEF Held
  <2>2. QED BY <1>1, <1>3, <1>6, <2>1, LineSame
<1>9. InLines' /\ EventsOnWay' /\ LogsOnWay'
  <2>1. \A p \in Pumps : Line(p, u)' /\ OnWay(p, u)' \subseteq OnWay(p, u)
    BY <1>7, <1>8, PumpNames
  <2>2. /\ asked \subseteq asked' /\ u \in asked'
        /\ \A v \in Steadfast \ {u} : wire'[v] = wire[v] /\ held'[v] = held[v] /\ shown'[v] = shown[v]
    BY <1>1, <1>3
  <2>3. Moves("logs", u)
    BY <1>3, <1>8 DEF Moves
  <2>4. QED BY <1>1, <1>3, <2>1, <2>2, <2>3, OneWay
<1>10. QED BY <1>4, <1>5, <1>9 DEF FeedIInv

LEMMA OnFrameStep ==
  ASSUME FeedAssumption, FeedIInv, NEW u \in Steadfast, OnFrame(u)
  PROVE  FeedIInv'
<1> DEFINE m == Head(wire[u])
<1>0. u \in Viewers /\ Arrives(u, "state") /\ \A v \in Steadfast \ {u} : v \in Viewers \ {u}
  BY DEF FeedAssumption, OnFrame
<1>1. /\ UNCHANGED <<ingested, cleared, lost, pending, clients, pump, link, asked>>
      /\ wire[u] \in Seq(Message) /\ wire[u] # <<>> /\ m.of = "state"
      /\ m \in Message /\ m.items \in Seq(Item)
      /\ wire' \in [Viewers -> Seq(Message)] /\ wire'[u] = Tail(wire[u])
      /\ \A v \in Steadfast \ {u} : wire'[v] = wire[v]
      /\ WiresBounded' /\ Connected'
  BY <1>0, PumpNames, ArrivesFact
<1>2. /\ held' = [held EXCEPT ![u] = held[u] \o m.items] /\ shown' = shown
      /\ held \in [Steadfast -> Seq(Item)]
  BY DEF OnFrame, FeedIInv, FeedTypes
<1> HIDE DEF m
<1>3. held[u] \in Seq(Item) /\ held[u] \o m.items \in Seq(Item)
  BY <1>1, <1>2, ConcatItems
<1>4. /\ held' \in [Steadfast -> Seq(Item)] /\ held'[u] = held[u] \o m.items
      /\ \A v \in Steadfast \ {u} : held'[v] = held[v]
  BY <1>2, <1>3
<1>5. FeedTypes'
  BY <1>1, <1>2, <1>4 DEF FeedIInv, FeedTypes
<1>6. ASSUME NEW p \in Pumps
      PROVE  Line(p, u)' /\ OnWay(p, u)' = OnWay(p, u)
  <2> DEFINE s == shown[u][p]
             h == Held(p, u)
             w == Cargo(wire[u], p)
             c == Afoot(pump[p], u)
             q == pending[p]
  <2>1. Line(p, u)
    BY DEF FeedIInv, InLines
  <2>2. /\ w \in Seq(Seq(Nat)) /\ w # <<>> /\ Tail(w) = Cargo(Tail(wire[u]), p)
        /\ Head(w) = IF p = "state" THEN m.items ELSE <<>>
    <3>1. /\ w \in Seq(Seq(Nat)) /\ w # <<>> /\ Tail(w) = Cargo(Tail(wire[u]), p)
          /\ Head(w) = IF m.of = p THEN m.items ELSE <<>>
      BY <1>1, CargoTail DEF m
    <3>2. QED BY <1>1, <3>1
  <2>3. h \in Seq(Nat)
    BY Stretches DEF FeedIInv, Pieces
  <2>4. h \o Head(w) = Held(p, u)'
    <3>1. CASE p = "state"
      BY <1>4, <2>2, <3>1 DEF Held
    <3>2. CASE p # "state"
      <4>1. h = <<>> /\ Head(w) = <<>> /\ Held(p, u)' = <<>>
        BY <2>2, <3>2 DEF Held
      <4>2. <<>> \o <<>> = <<>>
        BY EmptyFact, ConcatEmptySeq
      <4>3. QED BY <4>1, <4>2
    <3>3. QED BY <3>1, <3>2
  <2>5. InLine(s, h, w, c, q) /\ OnWay(p, u) = Stuff(s, h, w, c, q)
    BY <2>1 DEF Line, OnWay
  <2>6. /\ Line(p, u)' = InLine(s, h \o Head(w), Tail(w), c, q)
        /\ OnWay(p, u)' = Stuff(s, h \o Head(w), Tail(w), c, q)
    BY <1>1, <1>2, <2>2, <2>4 DEF Line, OnWay
  <2> HIDE DEF s, h, w, c, q
  <2>7. QED BY <2>2, <2>3, <2>5, <2>6, InLineArrive
<1>7. InLines' /\ EventsOnWay' /\ LogsOnWay'
  <2>1. \A p \in Pumps : Moves(p, u)
    BY <1>2, <1>6 DEF Moves
  <2>2. QED BY <1>1, <1>2, <1>4, <1>6, <2>1, PumpNames, OneWay
<1>8. QED BY <1>1, <1>5, <1>7 DEF FeedIInv

LEMMA OnLogsStep ==
  ASSUME FeedAssumption, FeedIInv, NEW u \in Steadfast, OnLogs(u)
  PROVE  FeedIInv'
<1> DEFINE m == Head(wire[u])
           s == shown[u]["logs"]
           g == s \o m.items
           r == LastOf(g, LogRows)
<1>0. u \in Viewers /\ Arrives(u, "logs") /\ \A v \in Steadfast \ {u} : v \in Viewers \ {u}
  BY DEF FeedAssumption, OnLogs
<1>1. /\ UNCHANGED <<ingested, cleared, lost, pending, clients, pump, link, asked>>
      /\ wire[u] \in Seq(Message) /\ wire[u] # <<>> /\ m.of = "logs"
      /\ m \in Message /\ m.items \in Seq(Item)
      /\ wire' \in [Viewers -> Seq(Message)] /\ wire'[u] = Tail(wire[u])
      /\ \A v \in Steadfast \ {u} : wire'[v] = wire[v]
      /\ WiresBounded' /\ Connected'
  BY <1>0, PumpNames, ArrivesFact
<1>2. /\ shown' = [shown EXCEPT ![u]["logs"] = r] /\ held' = held
      /\ shown \in [Steadfast -> [Pumps -> Seq(Item)]] /\ s \in Seq(Item)
  BY PumpNames DEF OnLogs, FeedIInv, FeedTypes
<1> HIDE DEF m, s
<1>3. g \in Seq(Item)
  BY <1>1, <1>2, ConcatItems
<1> HIDE DEF g
<1>4. r \in Seq(Item) /\ LogRows \in Nat \ {0}
  <2>1. LogRows \in Nat \ {0}
    BY DEF FeedAssumption
  <2>2. QED BY <1>3, <2>1, LastOfType
<1> HIDE DEF r
<1>5. /\ shown' \in [Steadfast -> [Pumps -> Seq(Item)]]
      /\ shown'[u]["logs"] = r /\ shown'[u]["state"] = shown[u]["state"]
      /\ \A v \in Steadfast \ {u} : shown'[v] = shown[v]
  BY <1>2, <1>4, PumpNames
<1>6. FeedTypes'
  BY <1>1, <1>2, <1>5 DEF FeedIInv, FeedTypes
<1>7. Line("state", u)' /\ OnWay("state", u)' = OnWay("state", u)
  <2> DEFINE t == shown[u]["state"]
             h == held[u]
             w == Cargo(wire[u], "state")
             c == Afoot(pump["state"], u)
             q == pending["state"]
  <2>1. Line("state", u)
    BY PumpNames DEF FeedIInv, InLines
  <2>2. /\ w \in Seq(Seq(Nat)) /\ w # <<>> /\ Tail(w) = Cargo(Tail(wire[u]), "state") /\ Head(w) = <<>>
    BY <1>1, PumpNames, CargoTail DEF m
  <2>3. h \in Seq(Nat) /\ h = Held("state", u)
    BY PumpNames, Stretches DEF FeedIInv, Pieces, Held
  <2>4. h \o Head(w) = h
    BY <2>2, <2>3, ConcatEmptySeq
  <2>5. InLine(t, h, w, c, q) /\ OnWay("state", u) = Stuff(t, h, w, c, q)
    BY <2>1 DEF Line, OnWay, Held
  <2>6. /\ Line("state", u)' = InLine(t, h, Tail(w), c, q)
        /\ OnWay("state", u)' = Stuff(t, h, Tail(w), c, q)
    BY <1>1, <1>2, <1>5, <2>2 DEF Line, OnWay, Held
  <2> HIDE DEF t, h, w, c, q
  <2>7. /\ InLine(t, h \o Head(w), Tail(w), c, q)
        /\ Stuff(t, h \o Head(w), Tail(w), c, q) = Stuff(t, h, w, c, q)
    BY <2>2, <2>3, <2>5, InLineArrive
  <2>8. QED BY <2>4, <2>5, <2>6, <2>7
<1>8. Line("logs", u)' /\ Moves("logs", u)
  <2> DEFINE w == Cargo(wire[u], "logs")
             c == Afoot(pump["logs"], u)
             q == pending["logs"]
  <2>1. Line("logs", u)
    BY PumpNames DEF FeedIInv, InLines
  <2>2. /\ w \in Seq(Seq(Nat)) /\ w # <<>> /\ Tail(w) = Cargo(Tail(wire[u]), "logs") /\ Head(w) = m.items
    BY <1>1, PumpNames, CargoTail DEF m
  <2>3. InLine(s, <<>>, w, c, q) /\ OnWay("logs", u) = Stuff(s, <<>>, w, c, q)
    BY <2>1 DEF Line, OnWay, Held, s
  <2>4. /\ Line("logs", u)' = InLine(r, <<>>, Tail(w), c, q)
        /\ OnWay("logs", u)' = Stuff(r, <<>>, Tail(w), c, q)
    BY <1>1, <1>2, <1>5, <2>2 DEF Line, OnWay, Held
  <2>5. s \in Seq(Nat) /\ m.items \in Seq(Nat)
    BY <1>1, <1>2, ItemsFact
  <2> DEFINE v == Tail(w)
  <2>6. <<>> \o Head(w) = m.items
    BY <2>2, <2>5, ConcatEmptySeq
  <2> HIDE DEF w, c, q
  <2>7. /\ InLine(s, m.items, v, c, q) /\ Stuff(s, m.items, v, c, q) = Stuff(s, <<>>, w, c, q)
    <3> DEFINE h == <<>>
    <3>1. h \in Seq(Nat) /\ InLine(s, h, w, c, q) /\ h \o Head(w) = m.items
      BY <2>3, <2>6, EmptyFact
    <3>2. Stuff(s, <<>>, w, c, q) = Stuff(s, h, w, c, q)
      OBVIOUS
    <3> HIDE DEF h
    <3>3. /\ InLine(s, h \o Head(w), Tail(w), c, q)
          /\ Stuff(s, h \o Head(w), Tail(w), c, q) = Stuff(s, h, w, c, q)
      BY <2>2, <3>1, InLineArrive
    <3>4. QED BY <3>1, <3>2, <3>3
  <2> HIDE DEF v
  <2>8. Ringed(s, m.items, v, c, q, LogRows, r)
    BY <1>4, <2>5, <2>7, InLineRing DEF r, g
  <2>9. Line("logs", u)' /\ OnWay("logs", u)' = Stuff(r, <<>>, v, c, q)
    BY <2>4, <2>8 DEF v, Ringed
  <2>10. shown'[u]["logs"] = r /\ shown[u]["logs"] = s
    BY <1>5 DEF s
  <2>11. QED BY <2>3, <2>7, <2>8, <2>9, <2>10 DEF Moves, Rows, Ringed
<1>9. InLines' /\ EventsOnWay' /\ LogsOnWay'
  <2>1. \A p \in Pumps : Line(p, u)' /\ OnWay(p, u)' \subseteq OnWay(p, u)
    BY <1>7, <1>8, PumpNames DEF Moves
  <2>2. \A v \in Steadfast \ {u} : wire'[v] = wire[v] /\ held'[v] = held[v] /\ shown'[v] = shown[v]
    BY <1>1, <1>2, <1>5
  <2>3. Moves("state", u)
    BY <1>5, <1>7 DEF Moves
  <2>4. QED BY <1>1, <1>8, <2>1, <2>2, <2>3, OneWay
<1>10. QED BY <1>1, <1>6, <1>9 DEF FeedIInv

-----------------------------------------------------------------------------
(* The pumps                                                               *)

LEMMA WaitsFact ==
  \A p \in Pumps : \A v \in Viewers :
    /\ Waits(p, v) \in {0, 1} /\ Waits(p, v)' \in {0, 1}
    /\ Waits(p, v) = 1 <=> (pump[p].at = "suspended" /\ pump[p].on = v)
    /\ Waits(p, v)' = 1 <=> (pump'[p].at = "suspended" /\ pump'[p].on = v)
BY DEF Waits

LEMMA PumpStates ==
  /\ Ready \in Pump /\ Ready.at = "ready" /\ Ready.dead = {} /\ Ready.sent = {} /\ Ready.on = None
  /\ Crashed \in Pump /\ Crashed.at = "crashed" /\ Crashed.dead = {}
<1>1. \A a \in {"ready", "suspended", "crashed"} : \A q \in Seq(Item) :
        [at |-> a, items |-> q, size |-> 0, todo |-> {}, sent |-> {}, dead |-> {}, on |-> None] \in Pump
  BY DEF Pump
<1>2. \A q : LET r == [at |-> "ready", items |-> q, size |-> 0, todo |-> {}, sent |-> {}, dead |-> {}, on |-> None]
            IN  [r EXCEPT !.at = "crashed"]
                  = [at |-> "crashed", items |-> q, size |-> 0, todo |-> {}, sent |-> {}, dead |-> {}, on |-> None]
  OBVIOUS
<1>3. <<>> \in Seq(Item)
  OBVIOUS
<1>4. Ready \in Pump
  BY <1>1, <1>3 DEF Ready
<1>5. Crashed = [at |-> "crashed", items |-> <<>>, size |-> 0, todo |-> {}, sent |-> {}, dead |-> {}, on |-> None]
  BY <1>2 DEF Ready, Crashed
<1>6. Crashed \in Pump
  BY <1>1, <1>3, <1>5
<1>7. QED BY <1>4, <1>5, <1>6 DEF Ready

\* Only the connection a pump waits for holds more for its sake.
LEMMA WireRoom ==
  ASSUME FeedAssumption, WiresBounded, wire \in [Viewers -> Seq(Message)], NEW p \in Pumps, NEW v \in Viewers,
         Waits(p, v) = 0 \/ Len(wire[v]) <= WireLimit,
         \A q \in Pumps \ {p} : Waits(q, v)' = Waits(q, v)
  PROVE  /\ Len(wire[v]) \in Nat /\ WireLimit \in Nat
         /\ Len(wire[v]) <= WireLimit + Waits("state", v)' + Waits("logs", v)'
         /\ Waits(p, v)' = 1 => Len(wire[v]) + 1 <= WireLimit + Waits("state", v)' + Waits("logs", v)'
<1>1. /\ Waits("state", v) \in {0, 1} /\ Waits("state", v)' \in {0, 1}
      /\ Waits("logs", v) \in {0, 1} /\ Waits("logs", v)' \in {0, 1}
  BY WaitsFact, PumpNames
<1>2. Len(wire[v]) <= WireLimit + Waits("state", v) + Waits("logs", v)
  BY DEF WiresBounded
<1>3. Len(wire[v]) \in Nat /\ WireLimit \in Nat
  BY DEF FeedAssumption
<1>4. CASE p = "state"
  <2>1. Waits("logs", v)' = Waits("logs", v)
    BY <1>4, PumpNames
  <2>2. QED BY <1>1, <1>2, <1>3, <1>4, <2>1
<1>5. CASE p = "logs"
  <2>1. Waits("state", v)' = Waits("state", v)
    BY <1>5, PumpNames
  <2>2. QED BY <1>1, <1>2, <1>3, <1>5, <2>1
<1>6. QED BY <1>4, <1>5, PumpNames

\* A pump dies, with what it had taken.
LEMMA CrashStep ==
  ASSUME FeedAssumption, FeedIInv, NEW p \in Pumps,
         pump' = [pump EXCEPT ![p] = Crashed],
         pending' = pending \/ pending' = [pending EXCEPT ![p] = <<>>],
         UNCHANGED <<ingested, cleared, lost, clients, link, wire, held, shown, asked>>,
         \A v \in Viewers : Waits(p, v) = 0 \/ Len(wire[v]) <= WireLimit
  PROVE  FeedIInv'
<1>1. /\ pump \in [Pumps -> Pump] /\ pending \in [Pumps -> Seq(Item)] /\ <<>> \in Seq(Item)
      /\ wire \in [Viewers -> Seq(Message)]
  BY DEF FeedIInv, FeedTypes
<1>2. /\ Ready \in Pump /\ Crashed \in Pump /\ Crashed.at = "crashed" /\ Crashed.dead = {}
  BY PumpStates
<1>3. pump' \in [Pumps -> Pump] /\ pump'[p] = Crashed /\ \A q \in Pumps \ {p} : pump'[q] = pump[q]
  BY <1>1, <1>2
<1>4. /\ pending' \in [Pumps -> Seq(Item)] /\ (pending'[p] = pending[p] \/ pending'[p] = <<>>)
      /\ \A q \in Pumps \ {p} : pending'[q] = pending[q]
  BY <1>1
<1>5. \A q \in Pumps : ToSet(pending'[q]) \subseteq ToSet(pending[q])
  BY <1>4, EmptyFact
<1>6. FeedTypes'
  <2>1. \A q \in Pumps : ToSet(pending'[q]) \subseteq 1 .. ingested[q]
    BY <1>5 DEF FeedIInv, FeedTypes
  <2>2. Len(pending'["logs"]) <= LogRows
    <3>1. Len(pending["logs"]) <= LogRows
      BY DEF FeedIInv, FeedTypes
    <3>2. Len(<<>>) <= LogRows
      BY DEF FeedAssumption
    <3>3. pending'["logs"] = pending["logs"] \/ pending'["logs"] = <<>>
      BY <1>4, PumpNames
    <3>4. QED BY <3>1, <3>2, <3>3
  <2>3. QED BY <1>3, <1>4, <2>1, <2>2 DEF FeedIInv, FeedTypes
<1>7. WiresBounded'
  <2> SUFFICES ASSUME NEW v \in Viewers
               PROVE  /\ Len(wire[v]) <= WireLimit + Waits("state", v)' + Waits("logs", v)'
                      /\ link[v] # "up" => wire[v] = <<>>
    BY DEF WiresBounded
  <2>1. \A q \in Pumps \ {p} : Waits(q, v)' = Waits(q, v)
    BY <1>3 DEF Waits
  <2>2. Len(wire[v]) <= WireLimit + Waits("state", v)' + Waits("logs", v)'
    BY <1>1, <2>1, WireRoom DEF FeedIInv
  <2>3. QED BY <2>2 DEF FeedIInv, WiresBounded
<1>8. Connected'
  BY <1>2, <1>3 DEF FeedIInv, Connected
<1>9. ASSUME NEW q \in Pumps, NEW v \in Steadfast
      PROVE  /\ Line(q, v)' /\ OnWay(q, v)' \subseteq OnWay(q, v)
             /\ q # p => OnWay(q, v)' = OnWay(q, v)
  <2>1. Line(q, v)
    BY DEF FeedIInv, InLines
  <2>2. Held(q, v)' = Held(q, v)
    BY DEF Held
  <2>3. CASE q # p
    <3>1. Afoot(pump'[q], v) = Afoot(pump[q], v) /\ pending'[q] = pending[q]
      BY <1>3, <1>4, <2>3
    <3>2. QED BY <2>1, <2>2, <3>1, LineSame
  <2>4. CASE q = p
    <3> DEFINE s == shown[v][p]
               h == Held(p, v)
               w == Cargo(wire[v], p)
               c == Afoot(pump[p], v)
               a == pending[p]
               a2 == pending'[p]
    <3>1. Afoot(pump'[p], v) = <<>>
      BY <1>2, <1>3 DEF Afoot
    <3>2. InLine(s, h, w, c, a) /\ OnWay(p, v) = Stuff(s, h, w, c, a)
      BY <2>1, <2>4 DEF Line, OnWay
    <3>3. /\ Line(p, v)' = InLine(s, h, w, <<>>, a2)
          /\ OnWay(p, v)' = Stuff(s, h, w, <<>>, a2)
      BY <2>2, <2>4, <3>1 DEF Line, OnWay
    <3>4. a2 = a \/ a2 = <<>>
      BY <1>4
    <3> HIDE DEF s, h, w, c, a, a2
    <3>5. /\ Increasing(s) /\ Increasing(h) /\ Increasing(<<>>) /\ Increasing(a2)
          /\ ToSet(<<>>) \subseteq ToSet(c) /\ ToSet(a2) \subseteq ToSet(a)
      BY <3>2, <3>4, EmptyFact DEF InLine
    <3>6. InLine(s, h, w, <<>>, a2) /\ Stuff(s, h, w, <<>>, a2) \subseteq Stuff(s, h, w, c, a)
      BY <3>2, <3>5, InLineLess
    <3>7. QED BY <2>4, <3>2, <3>3, <3>6
  <2>5. QED BY <2>3, <2>4
<1>10. InLines'
  BY <1>9 DEF FeedIInv, InLines
<1>11. EventsOnWay'
  <2>1. CASE p = "state"
    BY <1>2, <1>3, <2>1 DEF EventsOnWay
  <2>2. CASE p # "state"
    <3>1. pump'["state"] = pump["state"] /\ \A v \in Steadfast : OnWay("state", v)' = OnWay("state", v)
      BY <1>3, <1>9, <2>2, PumpNames
    <3>2. QED BY <3>1 DEF FeedIInv, EventsOnWay
  <2>3. QED BY <2>1, <2>2
<1>12. LogsOnWay'
  <2>1. CASE p = "logs"
    BY <1>2, <1>3, <2>1 DEF LogsOnWay
  <2>2. CASE p # "logs"
    <3>1. pump'["logs"] = pump["logs"] /\ \A v \in Steadfast : OnWay("logs", v)' = OnWay("logs", v)
      BY <1>3, <1>9, <2>2, PumpNames
    <3>2. QED BY <3>1 DEF FeedIInv, LogsOnWay
  <2>3. QED BY <2>1, <2>2
<1>13. QED BY <1>6, <1>7, <1>8, <1>10, <1>11, <1>12 DEF FeedIInv

LEMMA WriteRaisesStep ==
  ASSUME FeedAssumption, FeedIInv, NEW p \in Pumps, WriteRaises(p)
  PROVE  FeedIInv'
<1>1. \A v \in Viewers : Waits(p, v) = 0
  BY DEF WriteRaises, Waits
<1>2. QED BY <1>1, CrashStep DEF WriteRaises, viewVars

LEMMA ResumeRaisesStep ==
  ASSUME FeedAssumption, FeedIInv, NEW p \in Pumps, ResumeRaises(p)
  PROVE  FeedIInv'
<1>1. ASSUME NEW v \in Viewers, pump[p].on = v PROVE Len(wire[v]) <= WireLimit
  <2>1. (link[v] = "up" /\ Len(wire[v]) <= WireLimit) \/ link[v] # "up"
    BY <1>1 DEF ResumeRaises, Drains, Closed, FeedAssumption
  <2>2. link[v] # "up" => Len(wire[v]) = 0
    BY DEF FeedIInv, WiresBounded
  <2>3. QED BY <2>1, <2>2 DEF FeedAssumption
<1>2. \A v \in Viewers : Waits(p, v) = 0 \/ Len(wire[v]) <= WireLimit
  BY <1>1 DEF Waits
<1>3. QED BY <1>2, CrashStep DEF ResumeRaises, sourceVars, viewVars

\* What a broadcast has yet to send to a viewer.
Rest(b, v) == IF v \notin b.sent THEN b.items ELSE <<>>

\* A broadcast appends its message to some connections and goes on as n.
Delivers(p, m, to, n, rest) ==
  /\ m \in Message /\ m.of = p /\ to \in SUBSET Viewers /\ n \in Pump /\ n.at # "crashed"
  /\ wire' = [v \in Viewers |-> IF v \in to THEN Append(wire[v], m) ELSE wire[v]]
  /\ pump' = [pump EXCEPT ![p] = n]
  /\ clients' \in SUBSET Viewers /\ Steadfast \subseteq clients'
  /\ \A v \in to : link[v] = "up" /\ (Len(wire[v]) < WireLimit \/ (n.at = "suspended" /\ n.on = v))
  /\ \A v \in Steadfast :
       /\ v \notin n.dead /\ (n.at = "suspended" => v \in n.todo)
       /\ v \in to => rest[v] = m.items
       /\ Afoot(n, v) = IF v \in to THEN <<>> ELSE rest[v]

\* The ways are in line and whole if those of rest are taken for what it has yet to send.
Remains(p, rest) ==
  \A v \in Steadfast :
    /\ rest[v] \in Seq(Nat)
    /\ InLine(shown[v][p], Held(p, v), Cargo(wire[v], p), rest[v], pending'[p])
    /\ Stuff(shown[v][p], Held(p, v), Cargo(wire[v], p), rest[v], pending'[p]) = OnWay(p, v)

\* The source may have been emptied, and the connection waited for has drained.
Around(p) ==
  /\ pump[p].at # "crashed"
  /\ UNCHANGED <<ingested, cleared, lost, link, held, shown, asked>>
  /\ pending' \in [Pumps -> Seq(Item)] /\ Len(pending'["logs"]) <= LogRows
  /\ ToSet(pending'[p]) \subseteq ToSet(pending[p]) /\ \A q \in Pumps \ {p} : pending'[q] = pending[q]
  /\ \A v \in Viewers : Waits(p, v) = 0 \/ Len(wire[v]) <= WireLimit

LEMMA DeliveredStep ==
  ASSUME FeedAssumption, FeedIInv, NEW p \in Pumps, NEW m, NEW to, NEW n, NEW rest,
         Delivers(p, m, to, n, rest), Remains(p, rest), Around(p)
  PROVE  FeedIInv'
<1> USE DEF Delivers, Remains, Around
<1>1. /\ pump \in [Pumps -> Pump] /\ wire \in [Viewers -> Seq(Message)]
      /\ pump' \in [Pumps -> Pump] /\ pump'[p] = n /\ \A q \in Pumps \ {p} : pump'[q] = pump[q]
  BY DEF FeedIInv, FeedTypes
<1>2. \A v \in Viewers : wire[v] \in Seq(Message) /\ Append(wire[v], m) \in Seq(Message)
                         /\ Len(wire[v]) \in Nat /\ Len(Append(wire[v], m)) = Len(wire[v]) + 1
  BY <1>1
<1>3. /\ \A v \in Viewers : wire'[v] = IF v \in to THEN Append(wire[v], m) ELSE wire[v]
      /\ wire' \in [Viewers -> Seq(Message)]
  BY <1>2
<1>4. FeedTypes'
  <2>1. \A q \in Pumps : ToSet(pending'[q]) \subseteq 1 .. ingested[q]
    BY DEF FeedIInv, FeedTypes
  <2>2. QED BY <1>1, <1>3, <2>1 DEF FeedIInv, FeedTypes
<1>5. WiresBounded'
  <2> SUFFICES ASSUME NEW v \in Viewers
               PROVE  /\ Len(wire'[v]) <= WireLimit + Waits("state", v)' + Waits("logs", v)'
                      /\ link[v] # "up" => wire'[v] = <<>>
    BY DEF WiresBounded
  <2>1. \A q \in Pumps \ {p} : Waits(q, v)' = Waits(q, v)
    BY <1>1 DEF Waits
  <2>2. /\ Len(wire[v]) \in Nat /\ WireLimit \in Nat
        /\ Len(wire[v]) <= WireLimit + Waits("state", v)' + Waits("logs", v)'
        /\ Waits(p, v)' = 1 => Len(wire[v]) + 1 <= WireLimit + Waits("state", v)' + Waits("logs", v)'
    BY <1>1, <2>1, WireRoom DEF FeedIInv
  <2>3. CASE v \notin to
    BY <1>3, <2>2, <2>3 DEF FeedIInv, WiresBounded
  <2>4. CASE v \in to
    <3>1. Len(wire'[v]) = Len(wire[v]) + 1
      BY <1>2, <1>3, <2>4
    <3>2. Waits("state", v)' \in {0, 1} /\ Waits("logs", v)' \in {0, 1}
      BY WaitsFact, PumpNames
    <3>3. Len(wire[v]) < WireLimit \/ Waits(p, v)' = 1
      BY <1>1, <2>4 DEF Waits
    <3>4. QED BY <2>2, <2>4, <3>1, <3>2, <3>3
  <2>5. QED BY <2>3, <2>4
<1>6. Connected'
  BY <1>1 DEF FeedIInv, Connected
<1>7. ASSUME NEW q \in Pumps, NEW v \in Steadfast
      PROVE  Line(q, v)' /\ OnWay(q, v)' = OnWay(q, v)
  <2> DEFINE s == shown[v][q]
             h == Held(q, v)
             w == Cargo(wire[v], q)
             i == IF m.of = q THEN m.items ELSE <<>>
  <2>1. v \in Viewers /\ wire[v] \in Seq(Message)
    BY <1>2 DEF FeedAssumption
  <2>2. w \in Seq(Seq(Nat)) /\ Cargo(Append(wire[v], m), q) = Append(w, i)
    BY <2>1, CargoFact, CargoAppend
  <2>3. Held(q, v)' = Held(q, v)
    BY DEF Held
  <2>4. CASE q = p
    <3> DEFINE c == rest[v]
               a == pending'[p]
    <3>1. /\ InLine(s, h, w, c, a) /\ Stuff(s, h, w, c, a) = OnWay(q, v) /\ c \in Seq(Nat)
      BY <2>4
    <3>2. CASE v \in to
      <4>1. i = c /\ Afoot(n, v) = <<>> /\ wire'[v] = Append(wire[v], m)
        BY <1>3, <2>1, <2>4, <3>2
      <4>2. /\ Line(q, v)' = InLine(s, h, Append(w, c), <<>>, a)
            /\ OnWay(q, v)' = Stuff(s, h, Append(w, c), <<>>, a)
        BY <1>1, <2>2, <2>3, <2>4, <4>1 DEF Line, OnWay
      <4> HIDE DEF s, h, w, c, a
      <4>3. QED BY <2>2, <3>1, <4>2, InLineReach
    <3>3. CASE v \notin to
      <4>1. Afoot(n, v) = c /\ wire'[v] = wire[v]
        BY <1>3, <2>1, <2>4, <3>3
      <4>2. /\ Line(q, v)' = InLine(s, h, w, c, a)
            /\ OnWay(q, v)' = Stuff(s, h, w, c, a)
        BY <1>1, <2>3, <2>4, <4>1 DEF Line, OnWay
      <4>3. QED BY <3>1, <4>2
    <3>4. QED BY <3>2, <3>3
  <2>5. CASE q # p
    <3> DEFINE c == Afoot(pump[q], v)
               a == pending[q]
    <3>1. Line(q, v) /\ pending'[q] = pending[q] /\ Afoot(pump'[q], v) = Afoot(pump[q], v)
      BY <1>1, <2>5 DEF FeedIInv, InLines
    <3>2. CASE v \in to
      <4>1. i = <<>> /\ wire'[v] = Append(wire[v], m)
        BY <1>3, <2>1, <2>5, <3>2
      <4>2. InLine(s, h, w, c, a) /\ OnWay(q, v) = Stuff(s, h, w, c, a)
        BY <3>1 DEF Line, OnWay
      <4>3. /\ Line(q, v)' = InLine(s, h, Append(w, <<>>), c, a)
            /\ OnWay(q, v)' = Stuff(s, h, Append(w, <<>>), c, a)
        BY <2>2, <2>3, <3>1, <4>1 DEF Line, OnWay
      <4> HIDE DEF s, h, w, c, a
      <4>4. QED BY <2>2, <4>2, <4>3, InLineBeside
    <3>3. CASE v \notin to
      <4>1. wire'[v] = wire[v]
        BY <1>3, <2>1, <3>3
      <4>2. /\ Line(q, v)' = InLine(s, h, w, c, a)
            /\ OnWay(q, v)' = Stuff(s, h, w, c, a)
        BY <2>3, <3>1, <4>1 DEF Line, OnWay
      <4>3. QED BY <3>1, <4>2 DEF Line, OnWay
    <3>4. QED BY <3>2, <3>3
  <2>6. QED BY <2>4, <2>5
<1>8. InLines'
  BY <1>7 DEF FeedIInv, InLines
<1>9. \A q \in Pumps : pump'[q].at # "crashed" => pump[q].at # "crashed"
  BY <1>1
<1>10. EventsOnWay' /\ LogsOnWay'
  <2>1. UNCHANGED <<ingested, cleared, lost, shown, asked>>
    BY DEF Around
  <2>2. \A v \in Steadfast : \A q \in Pumps : OnWay(q, v)' = OnWay(q, v)
    BY <1>7
  <2>3. EventsOnWay /\ LogsOnWay
    BY DEF FeedIInv
  <2> HIDE DEF Delivers, Remains, Around
  <2>4. LogsOnWay'
    BY <1>9, <2>1, <2>2, <2>3, PumpNames DEF LogsOnWay
  <2>5. ASSUME pump["state"].at # "crashed", NEW v \in Steadfast \ asked
        PROVE  LacksOldest({e \in OnWay("state", v)' : e > cleared}, cleared + 1 .. ingested["state"],
                           shown[v]["state"], EventRows)
    <3>1. OnWay("state", v)' = OnWay("state", v)
      BY <2>2, PumpNames
    <3>2. QED BY <2>3, <2>5, <3>1 DEF EventsOnWay
  <2>6. EventsOnWay'
    BY <1>9, <2>1, <2>5, PumpNames DEF EventsOnWay
  <2>7. QED BY <2>4, <2>6
<1>11. QED BY <1>4, <1>5, <1>6, <1>8, <1>10 DEF FeedIInv

\* A round of a pump, from the client it has come to.
LEMMA BroadcastStep ==
  ASSUME FeedAssumption, FeedIInv, NEW p \in Pumps, NEW b \in Pump, Broadcast(p, b), Around(p),
         \A v \in Steadfast : v \notin b.dead /\ v \in b.todo,
         Remains(p, [v \in Steadfast |-> Rest(b, v)])
  PROVE  FeedIInv'
<1>1. PICK reach \in SUBSET (clients \ b.sent) :
        LET up == {v \in reach : link[v] = "up"}
            dead == b.dead \cup (reach \ up)
            Sent(to) == [v \in Viewers |-> IF v \in to
                                          THEN Append(wire[v], [of |-> p, items |-> b.items])
                                          ELSE wire[v]]
        IN /\ \A v \in up : Len(wire[v]) < WireLimit
           /\ \/ /\ b.todo \cap clients \subseteq b.sent \cup reach
                 /\ wire' = Sent(up)
                 /\ clients' = clients \ dead
                 /\ pump' = [pump EXCEPT ![p] = Ready]
              \/ \E v \in clients \ (b.sent \cup reach) :
                   /\ link[v] = "up" /\ Len(wire[v]) >= WireLimit
                   /\ wire' = Sent(up \cup {v})
                   /\ pump' = [pump EXCEPT ![p] = [b EXCEPT !.at = "suspended", !.on = v, !.dead = dead,
                                                           !.sent = @ \cup reach \cup {v}]]
                   /\ UNCHANGED clients
  BY DEF Broadcast
<1> DEFINE up == {v \in reach : link[v] = "up"}
           dead == b.dead \cup (reach \ up)
           m == [of |-> p, items |-> b.items]
           rest == [v \in Steadfast |-> Rest(b, v)]
<1>2. /\ b.items \in Seq(Item) /\ b.sent \in SUBSET Viewers /\ b.dead \in SUBSET Viewers /\ m \in Message
      /\ m.of = p /\ m.items = b.items
  BY DEF Pump, Message
<1>3. clients \in SUBSET Viewers /\ up \in SUBSET Viewers
  BY DEF FeedIInv, FeedTypes
<1>4. /\ \A v \in Steadfast : v \in Viewers /\ link[v] = "up" /\ v \in clients /\ v \notin dead
      /\ \A v \in Steadfast : v \in reach <=> v \in up
      /\ \A v \in up : link[v] = "up" /\ Len(wire[v]) < WireLimit /\ v \notin b.sent
  BY <1>1 DEF FeedIInv, Connected, FeedAssumption
<1>5. /\ Remains(p, rest)
      /\ \A v \in Steadfast : rest[v] = IF v \notin b.sent THEN m.items ELSE <<>>
  BY <1>2 DEF Rest
<1> HIDE DEF m, rest
<1>6. CASE /\ b.todo \cap clients \subseteq b.sent \cup reach
           /\ wire' = [v \in Viewers |-> IF v \in up THEN Append(wire[v], m) ELSE wire[v]]
           /\ clients' = clients \ dead
           /\ pump' = [pump EXCEPT ![p] = Ready]
  <2>1. \A v \in Steadfast : v \in clients' /\ v \notin Ready.dead /\ Ready.at # "suspended"
    BY <1>4, <1>6, PumpStates
  <2>2. \A v \in Steadfast : /\ v \in up => rest[v] = m.items
                             /\ Afoot(Ready, v) = IF v \in up THEN <<>> ELSE rest[v]
    <3> TAKE v \in Steadfast
    <3>1. v \in up => rest[v] = m.items
      BY <1>4, <1>5
    <3>2. Afoot(Ready, v) = <<>>
      BY PumpStates DEF Afoot
    <3>3. v \in b.sent \/ v \in up
      BY <1>4, <1>6
    <3>4. QED BY <1>5, <3>1, <3>2, <3>3
  <2>3. Ready \in Pump /\ Ready.at # "crashed" /\ clients' \in SUBSET Viewers /\ Steadfast \subseteq clients'
    BY <1>3, <1>6, <2>1, PumpStates
  <2> HIDE DEF up, dead
  <2>4. Delivers(p, m, up, Ready, rest)
    BY <1>2, <1>3, <1>4, <1>6, <2>1, <2>2, <2>3 DEF Delivers
  <2>5. QED BY <1>5, <2>4, DeliveredStep
<1>7. CASE \E u \in clients \ (b.sent \cup reach) :
             /\ link[u] = "up" /\ Len(wire[u]) >= WireLimit
             /\ wire' = [v \in Viewers |-> IF v \in up \cup {u} THEN Append(wire[v], m) ELSE wire[v]]
             /\ pump' = [pump EXCEPT ![p] = [b EXCEPT !.at = "suspended", !.on = u, !.dead = dead,
                                                     !.sent = @ \cup reach \cup {u}]]
             /\ UNCHANGED clients
  <2>1. PICK u \in clients \ (b.sent \cup reach) :
             /\ link[u] = "up" /\ Len(wire[u]) >= WireLimit
             /\ wire' = [v \in Viewers |-> IF v \in up \cup {u} THEN Append(wire[v], m) ELSE wire[v]]
             /\ pump' = [pump EXCEPT ![p] = [b EXCEPT !.at = "suspended", !.on = u, !.dead = dead,
                                                     !.sent = @ \cup reach \cup {u}]]
             /\ UNCHANGED clients
    BY <1>7
  <2> DEFINE to == up \cup {u}
             n == [b EXCEPT !.at = "suspended", !.on = u, !.dead = dead, !.sent = @ \cup reach \cup {u}]
  <2>2. /\ u \in Viewers /\ to \in SUBSET Viewers /\ dead \in SUBSET Viewers
        /\ b.sent \cup reach \cup {u} \in SUBSET Viewers
    BY <1>2, <1>3
  <2>3. /\ n \in Pump /\ n.at = "suspended" /\ n.on = u /\ n.dead = dead /\ n.todo = b.todo
        /\ n.items = m.items /\ n.sent = b.sent \cup reach \cup {u}
    <3> HIDE DEF dead, up
    <3>1. QED BY <1>2, <2>2 DEF Pump
  <2> HIDE DEF n
  <2>4. \A v \in Steadfast : v \in clients' /\ v \notin n.dead /\ v \in n.todo
    BY <1>4, <2>1, <2>3
  <2>5. \A v \in to : link[v] = "up" /\ (Len(wire[v]) < WireLimit \/ (n.at = "suspended" /\ n.on = v))
    BY <1>4, <2>1, <2>3
  <2>6. \A v \in Steadfast : /\ v \in to => rest[v] = m.items
                             /\ Afoot(n, v) = IF v \in to THEN <<>> ELSE rest[v]
    <3> TAKE v \in Steadfast
    <3>1. v \in to => v \notin b.sent /\ v \in n.sent
      BY <1>4, <2>1, <2>3
    <3>2. v \notin to => (v \in n.sent <=> v \in b.sent)
      BY <1>4, <2>1, <2>3
    <3>3. QED BY <1>5, <2>3, <3>1, <3>2 DEF Afoot
  <2>7. clients' \in SUBSET Viewers /\ Steadfast \subseteq clients' /\ n.at # "crashed"
    BY <1>3, <2>1, <2>3, <2>4
  <2>8. /\ wire' = [v \in Viewers |-> IF v \in to THEN Append(wire[v], m) ELSE wire[v]]
        /\ pump' = [pump EXCEPT ![p] = n]
    BY <2>1 DEF n
  <2> HIDE DEF to, up, dead
  <2>9. Delivers(p, m, to, n, rest)
    BY <1>2, <2>2, <2>3, <2>4, <2>5, <2>6, <2>7, <2>8 DEF Delivers
  <2>10. QED BY <1>5, <2>9, DeliveredStep
<1>8. QED BY <1>1, <1>6, <1>7 DEF m

LEMMA SendStep ==
  ASSUME FeedAssumption, FeedIInv, NEW p \in Pumps, Send(p)
  PROVE  FeedIInv'
<1> DEFINE b == Begun(p)
<1>1. /\ pump[p].at = "ready" /\ Broadcast(p, b) /\ pending' = [pending EXCEPT ![p] = <<>>]
      /\ UNCHANGED <<ingested, cleared, lost, link, held, shown, asked>>
      /\ pending \in [Pumps -> Seq(Item)] /\ clients \in SUBSET Viewers /\ <<>> \in Seq(Item)
  BY DEF Send, FeedIInv, FeedTypes
<1>2. pending' \in [Pumps -> Seq(Item)] /\ pending'[p] = <<>> /\ \A q \in Pumps \ {p} : pending'[q] = pending[q]
  BY <1>1
<1>3. Cardinality(clients) \in Nat
  BY <1>1, FS_Subset, FS_CardinalityType DEF FeedAssumption
<1>4. pending[p] \in Seq(Item)
  BY <1>1
<1>5. /\ b \in Pump /\ b.items = pending[p] /\ b.todo = clients /\ b.sent = Ready.sent /\ b.dead = Ready.dead
  <2> DEFINE k == Cardinality(clients)
  <2>2. b = [Ready EXCEPT !.items = pending[p], !.size = k, !.todo = clients]
    BY DEF Begun
  <2>3. Ready \in Pump /\ clients \in SUBSET Viewers /\ k \in Nat
    BY <1>1, <1>3, PumpStates
  <2> HIDE DEF b, k
  <2>4. QED BY <1>4, <2>2, <2>3 DEF Pump
<1>6. b.sent = {} /\ b.dead = {}
  BY <1>5, PumpStates
<1>7. Len(pending'["logs"]) <= LogRows
  <2>1. Len(pending["logs"]) <= LogRows /\ Len(<<>>) <= LogRows
    BY DEF FeedIInv, FeedTypes, FeedAssumption
  <2>2. pending'["logs"] = pending["logs"] \/ pending'["logs"] = <<>>
    BY <1>2, PumpNames
  <2>3. QED BY <2>1, <2>2
<1>8. \A v \in Steadfast : v \notin b.dead /\ v \in b.todo
  BY <1>5, <1>6 DEF FeedIInv, Connected
<1>9. \A v \in Viewers : Waits(p, v) = 0
  BY <1>1 DEF Waits
<1> DEFINE rest == [v \in Steadfast |-> Rest(b, v)]
<1>10. ASSUME NEW v \in Steadfast
       PROVE  /\ rest[v] \in Seq(Nat)
              /\ InLine(shown[v][p], Held(p, v), Cargo(wire[v], p), rest[v], pending'[p])
              /\ Stuff(shown[v][p], Held(p, v), Cargo(wire[v], p), rest[v], pending'[p]) = OnWay(p, v)
  <2>1. Line(p, v)
    BY DEF FeedIInv, InLines
  <2>2. Afoot(pump[p], v) = <<>>
    BY <1>1 DEF Afoot
  <2>3. rest[v] = pending[p]
    BY <1>5, <1>6 DEF Rest
  <2>4. /\ InLine(shown[v][p], Held(p, v), Cargo(wire[v], p), <<>>, pending[p])
        /\ OnWay(p, v) = Stuff(shown[v][p], Held(p, v), Cargo(wire[v], p), <<>>, pending[p])
    BY <2>1, <2>2 DEF Line, OnWay
  <2>5. pending[p] \in Seq(Nat)
    BY <1>4, ItemsFact
  <2> HIDE DEF rest
  <2>6. QED BY <1>2, <2>3, <2>4, <2>5, InLineTake
<1>11. Remains(p, rest)
  <2> HIDE DEF rest
  <2>1. QED BY <1>10 DEF Remains
<1>12. Around(p)
  <2>1. ToSet(pending'[p]) \subseteq ToSet(pending[p])
    BY <1>2, EmptyFact
  <2>2. QED BY <1>1, <1>2, <1>7, <1>9, <2>1 DEF Around
<1> HIDE DEF b
<1>13. QED BY <1>1, <1>5, <1>8, <1>11, <1>12, BroadcastStep

LEMMA ResumeStep ==
  ASSUME FeedAssumption, FeedIInv, NEW p \in Pumps, Resume(p)
  PROVE  FeedIInv'
<1> DEFINE o == pump[p]
<1>1. /\ o \in Pump /\ o.at = "suspended" /\ pending \in [Pumps -> Seq(Item)]
      /\ UNCHANGED <<ingested, cleared, lost, pending, link, held, shown, asked>>
  BY DEF Resume, sourceVars, FeedIInv, FeedTypes
<1>2. PICK b \in {[o EXCEPT !.on = None], [o EXCEPT !.on = None, !.dead = o.dead \cup {o.on}]} :
        /\ Broadcast(p, b)
        /\ \/ Drains(o.on) /\ b = [o EXCEPT !.on = None]
           \/ Closed(o.on) /\ b = [o EXCEPT !.on = None, !.dead = o.dead \cup {o.on}]
  BY DEF Resume
<1>3. ASSUME NEW v \in Viewers PROVE Waits(p, v) = 0 \/ Len(wire[v]) <= WireLimit
  <2>1. CASE o.on = v
    <3>1. Len(wire[v]) <= WireLimit \/ link[v] # "up"
      BY <1>2, <2>1 DEF Drains, Closed, FeedAssumption
    <3>2. link[v] # "up" => Len(wire[v]) = 0
      BY DEF FeedIInv, WiresBounded
    <3>3. QED BY <3>1, <3>2 DEF FeedAssumption
  <2>2. CASE o.on # v
    BY <2>2 DEF Waits
  <2>3. QED BY <2>1, <2>2
<1>4. Closed(o.on) => o.on \in Viewers /\ link[o.on] # "up"
  BY <1>1 DEF Closed, Pump
<1> HIDE DEF o
<1>5. /\ b \in Pump /\ b.sent = o.sent /\ b.items = o.items /\ b.todo = o.todo
      /\ b.dead = o.dead \/ (Closed(o.on) /\ b.dead = o.dead \cup {o.on})
  <2>1. None \in Viewers \cup {None} /\ o.dead \in SUBSET Viewers
    BY <1>1 DEF Pump
  <2>2. CASE b = [o EXCEPT !.on = None]
    BY <1>1, <2>1, <2>2 DEF Pump
  <2>3. CASE Closed(o.on) /\ b = [o EXCEPT !.on = None, !.dead = o.dead \cup {o.on}]
    <3>1. o.dead \cup {o.on} \in SUBSET Viewers
      BY <1>4, <2>1, <2>3
    <3>2. QED BY <1>1, <2>1, <2>3, <3>1 DEF Pump
  <2>4. QED BY <1>2, <2>2, <2>3
<1>6. \A v \in Steadfast : v \notin b.dead /\ v \in b.todo
  BY <1>1, <1>4, <1>5 DEF FeedIInv, Connected, o
<1> DEFINE rest == [v \in Steadfast |-> Rest(b, v)]
<1>7. ASSUME NEW v \in Steadfast
      PROVE  /\ rest[v] \in Seq(Nat)
             /\ InLine(shown[v][p], Held(p, v), Cargo(wire[v], p), rest[v], pending'[p])
             /\ Stuff(shown[v][p], Held(p, v), Cargo(wire[v], p), rest[v], pending'[p]) = OnWay(p, v)
  <2>1. Line(p, v)
    BY DEF FeedIInv, InLines
  <2>2. rest[v] = Afoot(pump[p], v)
    BY <1>1, <1>5 DEF Rest, Afoot, o
  <2>3. Afoot(pump[p], v) \in Seq(Nat)
    BY Stretches DEF FeedIInv, Pieces
  <2> HIDE DEF rest
  <2>4. QED BY <1>1, <2>1, <2>2, <2>3 DEF Line, OnWay
<1>8. Remains(p, rest)
  <2> HIDE DEF rest
  <2>1. QED BY <1>7 DEF Remains
<1>9. Around(p)
  BY <1>1, <1>3 DEF FeedIInv, FeedTypes, Around, o
<1>10. QED BY <1>2, <1>5, <1>6, <1>8, <1>9, BroadcastStep

-----------------------------------------------------------------------------
(* The theorems                                                            *)

LEMMA FeedInitHolds ==
  ASSUME FeedAssumption, FeedInit
  PROVE  FeedIInv
<1>1. <<>> \in Seq(Item) /\ <<>> \in Seq(Message) /\ Len(<<>>) = 0 /\ ToSet(<<>>) = {}
  BY EmptyFact
<1>2. FeedTypes
  <2>1. ingested["state"] = 0 /\ ingested["logs"] = 0 /\ ingested \in [Pumps -> Nat]
    BY PumpNames DEF FeedInit
  <2>2. pending \in [Pumps -> Seq(Item)] /\ \A p \in Pumps : pending[p] = <<>>
    BY <1>1 DEF FeedInit
  <2>3. /\ wire \in [Viewers -> Seq(Message)] /\ held \in [Steadfast -> Seq(Item)]
        /\ shown \in [Steadfast -> [Pumps -> Seq(Item)]]
    BY <1>1 DEF FeedInit
  <2>4. pump \in [Pumps -> Pump] /\ link \in [Viewers -> {"up", "lost", "down"}]
    BY PumpStates DEF FeedInit
  <2>5. 0 <= MaxItems /\ 0 <= LogRows
    BY DEF FeedAssumption
  <2>6. QED BY <1>1, <2>1, <2>2, <2>3, <2>4, <2>5, PumpNames DEF FeedInit, FeedTypes
<1>3. WiresBounded
  <2>1. \A p \in Pumps : \A v \in Viewers : Waits(p, v) = 0
    BY PumpStates DEF FeedInit, Waits
  <2>2. QED BY <1>1, <2>1, PumpNames DEF FeedInit, WiresBounded, FeedAssumption
<1>4. Connected
  BY PumpStates DEF FeedInit, Connected, FeedAssumption
<1>5. ASSUME NEW p \in Pumps, NEW v \in Steadfast
      PROVE  Line(p, v) /\ OnWay(p, v) = {} /\ shown[v][p] = <<>>
  <2> DEFINE w == Cargo(wire[v], p)
  <2>1. /\ shown[v][p] = <<>> /\ Held(p, v) = <<>> /\ Afoot(pump[p], v) = <<>> /\ pending[p] = <<>>
        /\ wire[v] = <<>>
    BY PumpStates DEF FeedInit, Held, Afoot, FeedAssumption
  <2>2. DOMAIN w = {}
    <3>1. wire[v] \in Seq(Message) /\ Len(wire[v]) = 0
      BY <1>1, <2>1
    <3>2. DOMAIN w = 1 .. 0
      BY <3>1, CargoFact
    <3>3. QED BY <3>2
  <2> HIDE DEF w
  <2>3. Line(p, v) <=> InLine(<<>>, <<>>, w, <<>>, <<>>)
    BY <2>1 DEF Line, w
  <2>4. OnWay(p, v) = Stuff(<<>>, <<>>, w, <<>>, <<>>)
    BY <2>1 DEF OnWay, w
  <2>5. InLine(<<>>, <<>>, w, <<>>, <<>>)
    BY <1>1, <2>2, EmptyFact DEF InLine, Below
  <2>6. Stuff(<<>>, <<>>, w, <<>>, <<>>) = {}
    BY <1>1, <2>2 DEF Stuff, Loaded
  <2>7. QED BY <2>1, <2>3, <2>4, <2>5, <2>6
<1>6. InLines
  BY <1>5 DEF InLines
<1>7. EventsOnWay /\ LogsOnWay
  BY <1>5, PumpNames DEF FeedInit, EventsOnWay, LogsOnWay, LacksOldest
<1>8. QED BY <1>2, <1>3, <1>4, <1>6, <1>7 DEF FeedIInv

LEMMA FeedStep ==
  ASSUME FeedAssumption, FeedIInv, [FeedNext]_feedVars
  PROVE  FeedIInv'
<1>1. CASE IngestCapture
  BY <1>1, IngestCaptureStep
<1>2. CASE IngestLog
  BY <1>2, IngestLogStep
<1>3. CASE \E p \in Pumps : PumpStep(p)
  BY <1>3, SendStep, WriteRaisesStep, ResumeStep, ResumeRaisesStep DEF PumpStep
<1>4. CASE \E v \in Viewers \ Steadfast :
             Lose(v) \/ HandlerEnds(v) \/ HandlerStarts(v) \/ OnMessageElsewhere(v)
  BY <1>4, LoseStep, HandlerEndsStep, HandlerStartsStep, OnMessageElsewhereStep
<1>5. CASE \E v \in Steadfast :
             OnFrame(v) \/ OnLogs(v) \/ FlushFrame(v) \/ ClickRun(v) \/ ProxyRun(v)
  BY <1>5, OnFrameStep, OnLogsStep, FlushFrameStep, ClickRunStep, ProxyRunStep
<1>6. CASE UNCHANGED feedVars
  <2>1. /\ UNCHANGED <<sourceVars, held, shown, asked>>
        /\ UNCHANGED <<ingested, cleared, lost, pending, clients, pump, link, wire, held, shown, asked>>
    BY <1>6 DEF feedVars, viewVars, sourceVars
  <2>2. FeedTypes' /\ WiresBounded' /\ Connected'
    BY <2>1 DEF FeedIInv, FeedTypes, WiresBounded, Waits, Connected
  <2>3. InLines' /\ EventsOnWay' /\ LogsOnWay'
    BY <2>1, WaysUntouched
  <2>4. QED BY <2>2, <2>3 DEF FeedIInv
<1>7. QED BY <1>1, <1>2, <1>3, <1>4, <1>5, <1>6 DEF FeedNext

\* The path is the stretches of the way, end to end.
LEMMA PathFact ==
  ASSUME FeedAssumption, FeedIInv, NEW p \in Pumps, NEW v \in Steadfast
  PROVE  Path(p, v) \in Seq(Nat) /\ Increasing(Path(p, v)) /\ ToSet(Path(p, v)) = OnWay(p, v)
<1> DEFINE s == shown[v][p]
           h == Held(p, v)
           w == Cargo(wire[v], p)
           c == Afoot(pump[p], v)
           q == pending[p]
           f == FlattenSeq(w)
<1>1. Path(p, v) = s \o h \o f \o c \o q
  BY Zenon DEF Path, Held, Cargo, Afoot
<1>2. Line(p, v) /\ Pieces(s, h, w, c, q)
  BY Stretches DEF FeedIInv, InLines
<1>3. InLine(s, h, w, c, q) /\ OnWay(p, v) = Stuff(s, h, w, c, q)
  BY <1>2 DEF Line, OnWay
<1> HIDE DEF s, h, w, c, q
<1>4. /\ s \in Seq(Nat) /\ h \in Seq(Nat) /\ c \in Seq(Nat) /\ q \in Seq(Nat) /\ w \in Seq(Seq(Nat))
      /\ Increasing(s) /\ Increasing(h) /\ Increasing(c) /\ Increasing(q)
      /\ Below(s, h) /\ Below(s, c) /\ Below(s, q) /\ Below(h, c) /\ Below(h, q) /\ Below(c, q)
  BY <1>2, <1>3 DEF Pieces, InLine
<1>5. f \in Seq(Nat) /\ Increasing(f) /\ ToSet(f) = Loaded(w)
  BY <1>3, <1>4, FlattenFact DEF InLine
<1> HIDE DEF f
<1>6. Below(s, f) /\ Below(h, f) /\ Below(f, c) /\ Below(f, q)
  BY <1>3, <1>5 DEF InLine, Below, Loaded
<1> DEFINE a == s \o h
<1>7. a \in Seq(Nat) /\ Increasing(a) /\ ToSet(a) = ToSet(s) \cup ToSet(h)
  BY <1>4, ConcatFact
<1> HIDE DEF a
<1> DEFINE b == a \o f
<1>8. Below(a, f)
  BY <1>6, <1>7 DEF Below
<1>9. b \in Seq(Nat) /\ Increasing(b) /\ ToSet(b) = ToSet(a) \cup ToSet(f)
  BY <1>5, <1>7, <1>8, ConcatFact
<1> HIDE DEF b
<1> DEFINE d == b \o c
<1>10. Below(b, c)
  BY <1>4, <1>6, <1>7, <1>9 DEF Below
<1>11. d \in Seq(Nat) /\ Increasing(d) /\ ToSet(d) = ToSet(b) \cup ToSet(c)
  BY <1>4, <1>9, <1>10, ConcatFact
<1> HIDE DEF d
<1> DEFINE e == d \o q
<1>12. Below(d, q)
  BY <1>4, <1>6, <1>7, <1>9, <1>11 DEF Below
<1>13. e \in Seq(Nat) /\ Increasing(e) /\ ToSet(e) = ToSet(d) \cup ToSet(q)
  BY <1>4, <1>11, <1>12, ConcatFact
<1>14. Path(p, v) = e
  BY <1>1, Zenon DEF a, b, d, e
<1>15. ToSet(e) = Stuff(s, h, w, c, q)
  BY <1>5, <1>7, <1>9, <1>11, <1>13 DEF Stuff
<1>16. QED BY <1>3, <1>13, <1>14, <1>15, Zenon

\* While a pump lives, no event since the last clear() and no log record that the bus still
\* had room for is dropped on its way to a viewer that stays connected, but for the oldest of
\* a full ring in its store, of whatever size those rings are: whichever clients
\* come and go, whichever sends suspend, and in whatever order the pumps go on.
THEOREM NothingIsLost == FeedSpec => []NothingLost
<1>1. FeedAssumption
  BY FeedAssumption
<1>2. FeedInit => FeedIInv
  BY <1>1, FeedInitHolds
<1>3. FeedIInv /\ [FeedNext]_feedVars => FeedIInv'
  BY <1>1, FeedStep
<1>4. FeedIInv => NothingLost
  <2> SUFFICES ASSUME FeedIInv PROVE EventsArrive /\ LogsArrive
    BY DEF NothingLost
  <2>1. \A p \in Pumps : \A v \in Steadfast : ToSet(Path(p, v)) = OnWay(p, v)
    BY <1>1, PathFact
  <2>2. EventsArrive
    BY <2>1, PumpNames DEF FeedIInv, EventsOnWay, EventsArrive
  <2>3. LogsArrive
    BY <2>1, PumpNames DEF FeedIInv, LogsOnWay, LogsArrive
  <2>4. QED BY <2>2, <2>3
<1>5. QED BY <1>2, <1>3, <1>4, PTL DEF FeedSpec

\* Of either pump, dead or alive, such a viewer is shown each item once and in the order of
\* its making, and no connection ever holds more than its limit and a message of each pump.
THEOREM FeedInvariant == FeedSpec => []FeedInv
<1>1. FeedAssumption
  BY FeedAssumption
<1>2. FeedInit => FeedIInv
  BY <1>1, FeedInitHolds
<1>3. FeedIInv /\ [FeedNext]_feedVars => FeedIInv'
  BY <1>1, FeedStep
<1>4. FeedIInv => FeedTypeOK
  <2> SUFFICES ASSUME FeedIInv PROVE FeedTypeOK
    OBVIOUS
  <2>1. FeedTypes
    BY DEF FeedIInv
  <2>2. /\ ingested["state"] \in Nat /\ ingested["logs"] \in Nat /\ MaxItems \in Nat
        /\ ingested["state"] + ingested["logs"] <= MaxItems /\ ingested \in [Pumps -> Nat]
    BY <1>1, <2>1, PumpNames DEF FeedTypes, FeedAssumption
  <2>3. ingested["state"] \in 0 .. MaxItems /\ ingested["logs"] \in 0 .. MaxItems
    BY <2>2
  <2>4. ingested \in [Pumps -> 0 .. MaxItems]
    BY <2>2, <2>3, PumpNames
  <2>5. lost \in SUBSET Item
    BY <2>1, <2>2 DEF FeedTypes, Item
  <2>6. Cardinality(Pumps) = 2
    <3>1. Cardinality({}) = 0 /\ IsFiniteSet({})
      BY FS_EmptySet
    <3>2. Cardinality({"state"}) = 1 /\ IsFiniteSet({"state"})
      BY <3>1, FS_AddElement
    <3>3. Cardinality({"state"} \cup {"logs"}) = 2
      BY <3>2, FS_AddElement
    <3>4. Pumps = {"state"} \cup {"logs"}
      BY DEF Pumps
    <3>5. QED BY <3>3, <3>4
  <2>7. \A v \in Viewers : Len(wire[v]) <= WireLimit + Cardinality(Pumps)
    <3> TAKE v \in Viewers
    <3>1. Waits("state", v) \in {0, 1} /\ Waits("logs", v) \in {0, 1}
      BY DEF Waits
    <3>2. Len(wire[v]) <= WireLimit + Waits("state", v) + Waits("logs", v)
      BY DEF FeedIInv, WiresBounded
    <3>3. Len(wire[v]) \in Nat /\ WireLimit \in Nat
      BY <1>1, <2>1 DEF FeedTypes, FeedAssumption
    <3>4. QED BY <2>6, <3>1, <3>2, <3>3
  <2>8. asked \in SUBSET Viewers
    BY <1>1, <2>1 DEF FeedTypes, FeedAssumption
  <2>9. QED BY <2>1, <2>4, <2>5, <2>7, <2>8 DEF FeedTypes, FeedTypeOK
<1>5. FeedIInv => InOrder
  <2> SUFFICES ASSUME FeedIInv, NEW p \in Pumps, NEW v \in Steadfast, NEW i \in 2 .. Len(Path(p, v))
               PROVE  Path(p, v)[i - 1] < Path(p, v)[i]
    BY DEF InOrder
  <2> DEFINE path == Path(p, v)
  <2>1. path \in Seq(Nat) /\ Increasing(path)
    BY <1>1, PathFact
  <2> HIDE DEF path
  <2>2. i - 1 \in DOMAIN path /\ i \in DOMAIN path /\ i - 1 < i
    <3>1. DOMAIN path = 1 .. Len(path) /\ Len(path) \in Nat /\ i \in 2 .. Len(path)
      BY <2>1 DEF path
    <3>2. QED BY <3>1
  <2>3. QED BY <2>1, <2>2 DEF Increasing, path
<1>6. QED BY <1>2, <1>3, <1>4, <1>5, PTL DEF FeedSpec, FeedInv

===============================================================================
