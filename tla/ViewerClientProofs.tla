-------------------------- MODULE ViewerClientProofs --------------------------
(***************************************************************************)
(* Proofs about ViewerClient: the page lives on one connection or on one   *)
(* timer, every answer meets its request, and the recording indicator      *)
(* never turns back, for any number of sockets, requests and recordings.   *)
(***************************************************************************)
EXTENDS ViewerClient, FiniteSetTheorems, TLAPS

RoadOf(acks, requests) == [n \in DOMAIN acks |-> acks[n].task] \o requests

SocketState == [phase : {"unused", "connecting", "open", "closing"},
                requests : Seq(Task), acks : Seq(Ack)]

SocketsOK(s) ==
  /\ s \in [Socket -> SocketState]
  /\ \A c \in Socket : s[c].phase # "open" => s[c].requests = <<>> /\ s[c].acks = <<>>

PendingOK(p) ==
  /\ p \in [Action -> Seq(Task)]
  /\ \A a \in Action : \A task \in ToSet(p[a]) : Name(task) = a

\* The requests p wait for what is on its way on socket x.
Meet(p, x) == x.phase # "closing" => \A a \in Action : Threads(p[a], RoadOf(x.acks, x.requests), a)

\* Statuses arrive in the order in which they were true, none before the one shown, v,
\* and none after what the recorder has come to, r.
Ordered(acks, v, r) ==
  /\ \A m, n \in DOMAIN acks : m <= n => acks[m].recorder <= acks[n].recorder
  /\ \A n \in DOMAIN acks : acks[n].recorder <= r
  /\ v # None => v <= r /\ \A n \in DOMAIN acks : v <= acks[n].recorder

PageOK ==
  /\ ws \in Socket
  /\ connected \in BOOLEAN /\ busy \in BOOLEAN /\ orphaned \in BOOLEAN
  /\ shown \in 0 .. MaxSwitches \cup {None}
  /\ recorder \in 0 .. MaxSwitches

\* The socket in use is the one the page sends on; where there is none, a timer runs.
Lifeline ==
  /\ timers \in {0, 1}
  /\ timers = 0 => \A c \in Socket : sock[c].phase # "unused" <=> c = ws
  /\ timers = 1 => \A c \in Socket : sock[c].phase = "unused"

ClientIInv ==
  /\ SocketsOK(sock) /\ PendingOK(pending) /\ PageOK
  /\ Lifeline
  /\ Ordered(sock[ws].acks, shown, recorder)
  /\ Meet(pending, sock[ws])

-----------------------------------------------------------------------------
(* Threads                                                                 *)

LEMMA ThreadsEmpty ==
  ASSUME NEW a
  PROVE  Threads(<<>>, <<>>, a)
<1>1. DOMAIN <<>> = {}
  OBVIOUS
<1>2. [n \in {} |-> n] \in [{} -> {}]
  OBVIOUS
<1>3. QED BY <1>1, <1>2 DEF Threads

\* A request that is sent joins the road and those that wait at the end.
LEMMA ThreadsAppend ==
  ASSUME NEW S, NEW p \in Seq(S), NEW q \in Seq(S), NEW a, NEW x \in S,
         Threads(p, q, a), Name(x) = a
  PROVE  Threads(Append(p, x), Append(q, x), a)
<1>1. PICK place \in [DOMAIN p -> DOMAIN q] :
        /\ \A m, n \in DOMAIN p : m < n => place[m] < place[n]
        /\ \A n \in DOMAIN p : q[place[n]] = p[n]
        /\ \A k \in DOMAIN q : Name(q[k]) = a <=> \E n \in DOMAIN p : place[n] = k
  BY DEF Threads
<1> DEFINE P == Append(p, x)
           Q == Append(q, x)
           new == [n \in DOMAIN P |-> IF n = Len(P) THEN Len(Q) ELSE place[n]]
<1>2. /\ DOMAIN p = 1 .. Len(p) /\ DOMAIN q = 1 .. Len(q) /\ Len(p) \in Nat /\ Len(q) \in Nat
      /\ DOMAIN P = 1 .. Len(p) + 1 /\ DOMAIN Q = 1 .. Len(q) + 1
      /\ Len(P) = Len(p) + 1 /\ Len(Q) = Len(q) + 1
      /\ \A n \in 1 .. Len(p) : P[n] = p[n]
      /\ \A n \in 1 .. Len(q) : Q[n] = q[n]
      /\ P[Len(p) + 1] = x /\ Q[Len(q) + 1] = x
  OBVIOUS
<1>3. \A n \in DOMAIN p : place[n] \in 1 .. Len(q)
  BY <1>1, <1>2
<1>4. \A n \in DOMAIN P : n # Len(P) => n \in DOMAIN p
  BY <1>2
<1> HIDE DEF P, Q
<1>5. new \in [DOMAIN P -> DOMAIN Q]
  BY <1>2, <1>3, <1>4
<1>6. \A m, n \in DOMAIN P : m < n => new[m] < new[n]
  BY <1>1, <1>2, <1>3, <1>4
<1>7. \A n \in DOMAIN P : Q[new[n]] = P[n]
  BY <1>1, <1>2, <1>3, <1>4
<1>8. ASSUME NEW k \in DOMAIN Q
      PROVE  Name(Q[k]) = a <=> \E n \in DOMAIN P : new[n] = k
  <2>1. CASE k = Len(Q)
    BY <1>2, <2>1
  <2>2. CASE k # Len(Q)
    <3>1. k \in DOMAIN q /\ Q[k] = q[k]
      BY <1>2, <2>2
    <3>2. (\E n \in DOMAIN P : new[n] = k) <=> \E n \in DOMAIN p : place[n] = k
      BY <1>2, <1>4, <2>2
    <3>3. QED BY <1>1, <3>1, <3>2
  <2>3. QED BY <2>1, <2>2
<1> HIDE DEF new
<1>9. QED BY <1>5, <1>6, <1>7, <1>8 DEF Threads, P, Q

LEMMA ThreadsOther ==
  ASSUME NEW S, NEW p \in Seq(S), NEW q \in Seq(S), NEW a, NEW x \in S,
         Threads(p, q, a), Name(x) # a
  PROVE  Threads(p, Append(q, x), a)
<1>1. PICK place \in [DOMAIN p -> DOMAIN q] :
        /\ \A m, n \in DOMAIN p : m < n => place[m] < place[n]
        /\ \A n \in DOMAIN p : q[place[n]] = p[n]
        /\ \A k \in DOMAIN q : Name(q[k]) = a <=> \E n \in DOMAIN p : place[n] = k
  BY DEF Threads
<1> DEFINE Q == Append(q, x)
<1>2. /\ DOMAIN p = 1 .. Len(p) /\ DOMAIN q = 1 .. Len(q) /\ Len(p) \in Nat /\ Len(q) \in Nat
      /\ DOMAIN Q = 1 .. Len(q) + 1
      /\ \A n \in 1 .. Len(q) : Q[n] = q[n]
      /\ Q[Len(q) + 1] = x
  OBVIOUS
<1>3. \A n \in DOMAIN p : place[n] \in 1 .. Len(q)
  BY <1>1, <1>2
<1> HIDE DEF Q
<1>4. place \in [DOMAIN p -> DOMAIN Q]
  BY <1>1, <1>2
<1>5. \A n \in DOMAIN p : Q[place[n]] = p[n]
  BY <1>1, <1>2, <1>3
<1>6. \A k \in DOMAIN Q : k \in DOMAIN q \/ k = Len(q) + 1
  BY <1>2
<1>7. ~ \E n \in DOMAIN p : place[n] = Len(q) + 1
  BY <1>2, <1>3
<1>8. \A k \in DOMAIN Q : Name(Q[k]) = a <=> \E n \in DOMAIN p : place[n] = k
  BY <1>1, <1>2, <1>6, <1>7
<1>9. QED BY <1>1, <1>4, <1>5, <1>8 DEF Threads, Q

\* The first task of the road is the one that has waited longest.
LEMMA ThreadsHead ==
  ASSUME NEW S, NEW p \in Seq(S), NEW q \in Seq(S), NEW a, q # <<>>,
         Threads(p, q, a), Name(Head(q)) = a
  PROVE  p # <<>> /\ Head(p) = Head(q) /\ Threads(Tail(p), Tail(q), a)
<1>1. PICK place \in [DOMAIN p -> DOMAIN q] :
        /\ \A m, n \in DOMAIN p : m < n => place[m] < place[n]
        /\ \A n \in DOMAIN p : q[place[n]] = p[n]
        /\ \A k \in DOMAIN q : Name(q[k]) = a <=> \E n \in DOMAIN p : place[n] = k
  BY DEF Threads
<1> DEFINE P == Tail(p)
           Q == Tail(q)
           new == [n \in DOMAIN P |-> place[n + 1] - 1]
<1>2. /\ DOMAIN p = 1 .. Len(p) /\ DOMAIN q = 1 .. Len(q) /\ Len(p) \in Nat /\ Len(q) \in Nat \ {0}
      /\ Head(q) = q[1]
  OBVIOUS
<1>3. 1 \in DOMAIN q
  BY <1>2
<1>4. PICK first \in DOMAIN p : place[first] = 1
  BY <1>1, <1>2, <1>3
<1>5. \A n \in DOMAIN p : place[n] \in 1 .. Len(q)
  BY <1>1, <1>2
<1>6. first = 1 /\ place[1] = 1 /\ 1 \in DOMAIN p
  <2>1. 1 \in DOMAIN p
    BY <1>2
  <2>2. ~(1 < first)
    BY <1>1, <1>4, <1>5, <2>1
  <2>3. QED BY <1>2, <1>4, <2>1, <2>2
<1>7. p # <<>> /\ Len(p) # 0
  BY <1>2, <1>6
<1>8. Head(p) = Head(q)
  BY <1>1, <1>2, <1>6, <1>7
<1>9. /\ DOMAIN P = 1 .. Len(p) - 1 /\ DOMAIN Q = 1 .. Len(q) - 1
      /\ \A n \in 1 .. Len(p) - 1 : P[n] = p[n + 1]
      /\ \A n \in 1 .. Len(q) - 1 : Q[n] = q[n + 1]
  BY <1>7
<1> HIDE DEF P, Q
<1>10. \A n \in DOMAIN P : n + 1 \in DOMAIN p /\ place[n + 1] \in 2 .. Len(q)
  <2> SUFFICES ASSUME NEW n \in DOMAIN P PROVE n + 1 \in DOMAIN p /\ place[n + 1] \in 2 .. Len(q)
    OBVIOUS
  <2>1. n + 1 \in DOMAIN p /\ 1 < n + 1
    BY <1>2, <1>9
  <2>2. place[1] < place[n + 1]
    BY <1>1, <1>6, <2>1
  <2>3. QED BY <1>2, <1>5, <1>6, <2>1, <2>2
<1>11. new \in [DOMAIN P -> DOMAIN Q]
  BY <1>2, <1>9, <1>10
<1>12. ASSUME NEW m \in DOMAIN P, NEW n \in DOMAIN P, m < n PROVE new[m] < new[n]
  <2>1. m + 1 < n + 1
    BY <1>2, <1>9, <1>12
  <2>2. place[m + 1] < place[n + 1]
    BY <1>1, <1>10, <2>1
  <2>3. QED BY <1>2, <1>10, <2>2
<1>13. \A n \in DOMAIN P : Q[new[n]] = P[n]
  <2> SUFFICES ASSUME NEW n \in DOMAIN P PROVE Q[new[n]] = P[n]
    OBVIOUS
  <2>1. new[n] \in 1 .. Len(q) - 1 /\ new[n] + 1 = place[n + 1]
    BY <1>2, <1>10
  <2>2. Q[new[n]] = q[place[n + 1]]
    BY <1>9, <2>1
  <2>3. QED BY <1>1, <1>9, <1>10, <2>2
<1>14. ASSUME NEW k \in DOMAIN Q
       PROVE  Name(Q[k]) = a <=> \E n \in DOMAIN P : new[n] = k
  <2>1. k + 1 \in DOMAIN q /\ Q[k] = q[k + 1] /\ k + 1 # 1 /\ k \in Nat
    BY <1>2, <1>9
  <2>2. ASSUME NEW n \in DOMAIN p, place[n] = k + 1 PROVE n - 1 \in DOMAIN P /\ new[n - 1] = k
    <3>1. n # 1
      BY <1>6, <2>1, <2>2
    <3>2. n - 1 \in DOMAIN P /\ n - 1 + 1 = n
      BY <1>2, <1>9, <3>1
    <3>3. QED BY <2>1, <2>2, <3>2
  <2>3. ASSUME NEW n \in DOMAIN P, new[n] = k PROVE n + 1 \in DOMAIN p /\ place[n + 1] = k + 1
    BY <1>2, <1>10, <2>1, <2>3
  <2> HIDE DEF new
  <2>4. QED BY <1>1, <2>1, <2>2, <2>3
<1> HIDE DEF new
<1>15. Threads(P, Q, a)
  BY <1>11, <1>12, <1>13, <1>14 DEF Threads
<1>16. QED BY <1>7, <1>8, <1>15 DEF P, Q

LEMMA ThreadsSkip ==
  ASSUME NEW S, NEW p \in Seq(S), NEW q \in Seq(S), NEW a, q # <<>>,
         Threads(p, q, a), Name(Head(q)) # a
  PROVE  Threads(p, Tail(q), a)
<1>1. PICK place \in [DOMAIN p -> DOMAIN q] :
        /\ \A m, n \in DOMAIN p : m < n => place[m] < place[n]
        /\ \A n \in DOMAIN p : q[place[n]] = p[n]
        /\ \A k \in DOMAIN q : Name(q[k]) = a <=> \E n \in DOMAIN p : place[n] = k
  BY DEF Threads
<1> DEFINE Q == Tail(q)
           new == [n \in DOMAIN p |-> place[n] - 1]
<1>2. /\ DOMAIN p = 1 .. Len(p) /\ DOMAIN q = 1 .. Len(q) /\ Len(p) \in Nat /\ Len(q) \in Nat \ {0}
      /\ Head(q) = q[1]
      /\ DOMAIN Q = 1 .. Len(q) - 1 /\ \A n \in 1 .. Len(q) - 1 : Q[n] = q[n + 1]
  OBVIOUS
<1> HIDE DEF Q
<1>3. 1 \in DOMAIN q
  BY <1>2
<1>4. \A n \in DOMAIN p : place[n] # 1
  BY <1>1, <1>2, <1>3
<1>5. \A n \in DOMAIN p : place[n] \in 2 .. Len(q)
  BY <1>1, <1>2, <1>4
<1>6. new \in [DOMAIN p -> DOMAIN Q]
  BY <1>2, <1>5
<1>7. \A m, n \in DOMAIN p : m < n => new[m] < new[n]
  BY <1>1, <1>2, <1>5
<1>8. \A n \in DOMAIN p : Q[new[n]] = p[n]
  <2> SUFFICES ASSUME NEW n \in DOMAIN p PROVE Q[new[n]] = p[n]
    OBVIOUS
  <2>1. new[n] \in 1 .. Len(q) - 1 /\ new[n] + 1 = place[n]
    BY <1>2, <1>5
  <2>2. QED BY <1>1, <1>2, <2>1
<1>9. ASSUME NEW k \in DOMAIN Q
      PROVE  Name(Q[k]) = a <=> \E n \in DOMAIN p : new[n] = k
  <2>1. k + 1 \in DOMAIN q /\ Q[k] = q[k + 1] /\ k \in Nat
    BY <1>2
  <2>2. \A n \in DOMAIN p : place[n] = k + 1 <=> new[n] = k
    BY <1>2, <1>5, <2>1
  <2> HIDE DEF new
  <2>3. QED BY <1>1, <2>1, <2>2
<1> HIDE DEF new
<1>10. QED BY <1>6, <1>7, <1>8, <1>9 DEF Threads, Q

-----------------------------------------------------------------------------
(* Tasks and the road                                                      *)

LEMMA TaskFact ==
  /\ \A task \in Task : Name(task) \in Action
  /\ \A c \in DOMAIN Chains : [chain |-> c, step |-> 1] \in Task
  /\ \A task \in Task, ok \in BOOLEAN : GoesOn(task, ok) => [task EXCEPT !.step = @ + 1] \in Task
<1>1. \A task \in Task : Name(task) \in Action
  BY DEF Action
<1>2. /\ DOMAIN Chains = {"refresh", "start", "stop", "poll", "run"}
      /\ \A c \in DOMAIN Chains : Len(Chains[c]) \in Nat \ {0} /\ DOMAIN Chains[c] = 1 .. Len(Chains[c])
  BY DEF Chains
<1>3. ASSUME NEW c \in DOMAIN Chains PROVE [chain |-> c, step |-> 1] \in Task
  <2>1. 1 \in DOMAIN Chains[c]
    BY <1>2
  <2>2. [chain |-> c, step |-> 1] \in [chain : {c}, step : DOMAIN Chains[c]]
    BY <2>1
  <2>3. QED BY <2>2 DEF Task
<1>4. ASSUME NEW task \in Task, NEW ok \in BOOLEAN, GoesOn(task, ok)
      PROVE  [task EXCEPT !.step = @ + 1] \in Task
  <2>1. PICK c \in DOMAIN Chains : task \in [chain : {c}, step : DOMAIN Chains[c]]
    BY DEF Task
  <2>2. task.chain = c /\ task.step \in 1 .. Len(Chains[c]) /\ task.step < Len(Chains[c])
    BY <1>2, <1>4, <2>1 DEF GoesOn
  <2>3. task.step + 1 \in DOMAIN Chains[c]
    BY <1>2, <2>2
  <2>4. [task EXCEPT !.step = @ + 1] \in [chain : {c}, step : DOMAIN Chains[c]]
    BY <2>1, <2>2, <2>3
  <2>5. QED BY <2>4 DEF Task
<1>5. QED BY <1>1, <1>3, <1>4

LEMMA RoadType ==
  ASSUME NEW acks \in Seq(Ack), NEW requests \in Seq(Task)
  PROVE  /\ RoadOf(acks, requests) \in Seq(Task)
         /\ DOMAIN RoadOf(acks, requests) = 1 .. Len(acks) + Len(requests)
         /\ \A n \in 1 .. Len(acks) : RoadOf(acks, requests)[n] = acks[n].task
         /\ \A n \in 1 .. Len(requests) : RoadOf(acks, requests)[Len(acks) + n] = requests[n]
<1> DEFINE tasks == [n \in DOMAIN acks |-> acks[n].task]
<1>1. DOMAIN acks = 1 .. Len(acks) /\ Len(acks) \in Nat /\ \A n \in 1 .. Len(acks) : acks[n] \in Ack
  OBVIOUS
<1>2. tasks \in [1 .. Len(acks) -> Task]
  BY <1>1 DEF Ack
<1>3. tasks \in Seq(Task) /\ Len(tasks) = Len(acks)
  BY <1>1, <1>2
<1>4. \A n \in 1 .. Len(acks) : tasks[n] = acks[n].task
  BY <1>1
<1> HIDE DEF tasks
<1>5. /\ tasks \o requests \in Seq(Task)
      /\ Len(tasks \o requests) = Len(acks) + Len(requests)
      /\ \A n \in 1 .. Len(acks) : (tasks \o requests)[n] = tasks[n]
      /\ \A n \in 1 .. Len(requests) : (tasks \o requests)[Len(acks) + n] = requests[n]
  BY <1>3
<1>6. QED BY <1>4, <1>5 DEF RoadOf, tasks

\* Two roads of one length that agree everywhere are one.
LEMMA SameRoad ==
  ASSUME NEW S, NEW p \in Seq(S), NEW q \in Seq(S), DOMAIN p = DOMAIN q,
         \A n \in DOMAIN p : p[n] = q[n]
  PROVE  p = q
<1>1. p = [n \in DOMAIN p |-> p[n]] /\ q = [n \in DOMAIN q |-> q[n]]
  OBVIOUS
<1>2. QED BY <1>1, Zenon

LEMMA RoadEmpty == RoadOf(<<>>, <<>>) = <<>>
BY DEF RoadOf

LEMMA RoadAppend ==
  ASSUME NEW acks \in Seq(Ack), NEW requests \in Seq(Task), NEW task \in Task
  PROVE  RoadOf(acks, Append(requests, task)) = Append(RoadOf(acks, requests), task)
<1> DEFINE p == RoadOf(acks, Append(requests, task))
           q == Append(RoadOf(acks, requests), task)
<1>1. /\ Append(requests, task) \in Seq(Task) /\ Len(Append(requests, task)) = Len(requests) + 1
      /\ Len(acks) \in Nat /\ Len(requests) \in Nat
      /\ \A n \in 1 .. Len(requests) : Append(requests, task)[n] = requests[n]
      /\ Append(requests, task)[Len(requests) + 1] = task
  OBVIOUS
<1>2. /\ p \in Seq(Task) /\ DOMAIN p = 1 .. Len(acks) + (Len(requests) + 1)
      /\ \A n \in 1 .. Len(acks) : p[n] = acks[n].task
      /\ \A n \in 1 .. Len(requests) : p[Len(acks) + n] = requests[n]
      /\ p[Len(acks) + (Len(requests) + 1)] = task
  <2> DEFINE more == Append(requests, task)
  <2>1. Len(requests) + 1 \in 1 .. Len(requests) + 1 /\ 1 .. Len(requests) \subseteq 1 .. Len(requests) + 1
    BY <1>1
  <2>2. more \in Seq(Task) /\ p = RoadOf(acks, more)
    BY <1>1
  <2> HIDE DEF more, p
  <2>3. /\ p \in Seq(Task)
        /\ DOMAIN p = 1 .. Len(acks) + Len(more)
        /\ \A n \in 1 .. Len(acks) : p[n] = acks[n].task
        /\ \A n \in 1 .. Len(more) : p[Len(acks) + n] = more[n]
    BY <2>2, RoadType
  <2>4. /\ Len(more) = Len(requests) + 1 /\ more[Len(requests) + 1] = task
        /\ \A n \in 1 .. Len(requests) : more[n] = requests[n]
    BY <1>1 DEF more
  <2>5. QED BY <2>1, <2>3, <2>4, Zenon
<1>3. /\ RoadOf(acks, requests) \in Seq(Task)
      /\ DOMAIN RoadOf(acks, requests) = 1 .. Len(acks) + Len(requests)
  BY RoadType
<1>4. Len(RoadOf(acks, requests)) = Len(acks) + Len(requests)
  BY <1>1, <1>3
<1>5. /\ q \in Seq(Task) /\ DOMAIN q = 1 .. Len(acks) + Len(requests) + 1
      /\ \A n \in 1 .. Len(acks) + Len(requests) : q[n] = RoadOf(acks, requests)[n]
      /\ q[Len(acks) + Len(requests) + 1] = task
  BY <1>3, <1>4
<1>6. /\ \A n \in 1 .. Len(acks) : q[n] = acks[n].task
      /\ \A n \in 1 .. Len(requests) : q[Len(acks) + n] = requests[n]
  <2>1. /\ \A n \in 1 .. Len(acks) : n \in 1 .. Len(acks) + Len(requests)
        /\ \A n \in 1 .. Len(requests) : Len(acks) + n \in 1 .. Len(acks) + Len(requests)
    BY <1>1
  <2>2. QED BY <1>5, <2>1, RoadType
<1> HIDE DEF p, q
<1>7. ASSUME NEW n \in DOMAIN p PROVE p[n] = q[n]
  <2>1. CASE n \in 1 .. Len(acks)
    BY <1>2, <1>6, <2>1
  <2>2. CASE n = Len(acks) + Len(requests) + 1
    BY <1>1, <1>2, <1>5, <2>2
  <2>3. CASE n \in Len(acks) + 1 .. Len(acks) + Len(requests)
    <3>1. n - Len(acks) \in 1 .. Len(requests) /\ Len(acks) + (n - Len(acks)) = n
      BY <1>1, <2>3
    <3>2. QED BY <1>2, <1>6, <3>1
  <2>4. \A i, j \in Nat : \A k \in 1 .. i + (j + 1) :
          k \in 1 .. i \/ k = i + j + 1 \/ k \in i + 1 .. i + j
    OBVIOUS
  <2>5. Len(acks) \in Nat /\ Len(requests) \in Nat /\ n \in 1 .. Len(acks) + (Len(requests) + 1)
    BY <1>1, <1>2
  <2>6. QED BY <2>1, <2>2, <2>3, <2>4, <2>5, Zenon
<1>8. DOMAIN p = DOMAIN q
  BY <1>1, <1>2, <1>5
<1>9. p = q
  BY <1>2, <1>5, <1>7, <1>8, SameRoad
<1>10. QED BY <1>9 DEF p, q

\* An answer takes the place of its request.
LEMMA RoadServe ==
  ASSUME NEW acks \in Seq(Ack), NEW requests \in Seq(Task), requests # <<>>, NEW ack \in Ack,
         ack.task = Head(requests)
  PROVE  RoadOf(Append(acks, ack), Tail(requests)) = RoadOf(acks, requests)
<1> DEFINE p == RoadOf(Append(acks, ack), Tail(requests))
           q == RoadOf(acks, requests)
<1>1. /\ Append(acks, ack) \in Seq(Ack) /\ Len(Append(acks, ack)) = Len(acks) + 1
      /\ Tail(requests) \in Seq(Task) /\ Len(Tail(requests)) = Len(requests) - 1
      /\ Len(acks) \in Nat /\ Len(requests) \in Nat \ {0}
      /\ \A n \in 1 .. Len(acks) : Append(acks, ack)[n] = acks[n]
      /\ Append(acks, ack)[Len(acks) + 1] = ack
      /\ \A n \in 1 .. Len(requests) - 1 : Tail(requests)[n] = requests[n + 1]
      /\ Head(requests) = requests[1]
  OBVIOUS
<1>2. /\ p \in Seq(Task) /\ DOMAIN p = 1 .. Len(acks) + 1 + (Len(requests) - 1)
      /\ \A n \in 1 .. Len(acks) + 1 : p[n] = Append(acks, ack)[n].task
      /\ \A n \in 1 .. Len(requests) - 1 : p[Len(acks) + 1 + n] = Tail(requests)[n]
  <2> DEFINE some == Append(acks, ack)
             rest == Tail(requests)
  <2>1. some \in Seq(Ack) /\ rest \in Seq(Task) /\ p = RoadOf(some, rest)
    BY <1>1
  <2>2. Len(some) = Len(acks) + 1 /\ Len(rest) = Len(requests) - 1
    BY <1>1
  <2> HIDE DEF some, rest, p
  <2>3. /\ p \in Seq(Task)
        /\ DOMAIN p = 1 .. Len(some) + Len(rest)
        /\ \A n \in 1 .. Len(some) : p[n] = some[n].task
        /\ \A n \in 1 .. Len(rest) : p[Len(some) + n] = rest[n]
    BY <2>1, RoadType
  <2>4. QED BY <2>2, <2>3, Zenon DEF some, rest
<1>3. /\ q \in Seq(Task) /\ DOMAIN q = 1 .. Len(acks) + Len(requests)
      /\ \A n \in 1 .. Len(acks) : q[n] = acks[n].task
      /\ \A n \in 1 .. Len(requests) : q[Len(acks) + n] = requests[n]
  BY RoadType
<1> HIDE DEF p, q
<1>4. ASSUME NEW n \in DOMAIN p PROVE p[n] = q[n]
  <2>1. CASE n \in 1 .. Len(acks)
    <3>1. n \in 1 .. Len(acks) + 1
      BY <1>1, <2>1
    <3>2. QED BY <1>1, <1>2, <1>3, <2>1, <3>1
  <2>2. CASE n = Len(acks) + 1
    <3>1. n \in 1 .. Len(acks) + 1 /\ 1 \in 1 .. Len(requests)
      BY <1>1, <2>2
    <3>2. p[n] = ack.task
      BY <1>1, <1>2, <2>2, <3>1
    <3>3. q[n] = requests[1]
      BY <1>3, <2>2, <3>1
    <3>4. QED BY <1>1, <3>2, <3>3
  <2>3. CASE n \in Len(acks) + 2 .. Len(acks) + Len(requests)
    <3>1. PICK k \in 1 .. Len(requests) - 1 : n = Len(acks) + 1 + k
      <4>1. n - Len(acks) - 1 \in 1 .. Len(requests) - 1 /\ n = Len(acks) + 1 + (n - Len(acks) - 1)
        BY <1>1, <2>3
      <4>2. QED BY <4>1
    <3>2. k + 1 \in 1 .. Len(requests) /\ n = Len(acks) + (k + 1)
      BY <1>1, <3>1
    <3>3. QED BY <1>1, <1>2, <1>3, <3>1, <3>2
  <2>4. QED BY <1>1, <1>2, <2>1, <2>2, <2>3
<1>5. DOMAIN p = DOMAIN q
  BY <1>1, <1>2, <1>3
<1>6. p = q
  BY <1>2, <1>3, <1>4, <1>5, SameRoad
<1>7. QED BY <1>6 DEF p, q

\* An answer that has arrived was at the head of the road.
LEMMA RoadAck ==
  ASSUME NEW acks \in Seq(Ack), NEW requests \in Seq(Task), acks # <<>>
  PROVE  /\ RoadOf(acks, requests) # <<>>
         /\ Head(RoadOf(acks, requests)) = Head(acks).task
         /\ RoadOf(Tail(acks), requests) = Tail(RoadOf(acks, requests))
<1> DEFINE r == RoadOf(acks, requests)
           p == RoadOf(Tail(acks), requests)
           q == Tail(r)
<1>1. /\ Tail(acks) \in Seq(Ack) /\ Len(Tail(acks)) = Len(acks) - 1
      /\ Len(acks) \in Nat \ {0} /\ Len(requests) \in Nat
      /\ \A n \in 1 .. Len(acks) - 1 : Tail(acks)[n] = acks[n + 1]
      /\ Head(acks) = acks[1]
  OBVIOUS
<1>2. /\ r \in Seq(Task) /\ DOMAIN r = 1 .. Len(acks) + Len(requests)
      /\ \A n \in 1 .. Len(acks) : r[n] = acks[n].task
      /\ \A n \in 1 .. Len(requests) : r[Len(acks) + n] = requests[n]
  BY RoadType
<1>3. /\ p \in Seq(Task) /\ DOMAIN p = 1 .. Len(acks) - 1 + Len(requests)
      /\ \A n \in 1 .. Len(acks) - 1 : p[n] = Tail(acks)[n].task
      /\ \A n \in 1 .. Len(requests) : p[Len(acks) - 1 + n] = requests[n]
  <2> DEFINE rest == Tail(acks)
  <2>1. rest \in Seq(Ack) /\ Len(rest) = Len(acks) - 1 /\ p = RoadOf(rest, requests)
    BY <1>1
  <2> HIDE DEF rest, p
  <2>2. /\ p \in Seq(Task)
        /\ DOMAIN p = 1 .. Len(rest) + Len(requests)
        /\ \A n \in 1 .. Len(rest) : p[n] = rest[n].task
        /\ \A n \in 1 .. Len(requests) : p[Len(rest) + n] = requests[n]
    BY <2>1, RoadType
  <2>3. QED BY <2>1, <2>2, Zenon DEF rest
<1> HIDE DEF r, p
<1>4. Len(r) = Len(acks) + Len(requests)
  BY <1>1, <1>2
<1>5. r # <<>> /\ Head(r) = r[1]
  BY <1>1, <1>2, <1>4
<1>6. Head(r) = Head(acks).task
  <2>1. 1 \in 1 .. Len(acks)
    BY <1>1
  <2>2. QED BY <1>1, <1>2, <1>5, <2>1
<1>7. /\ q \in Seq(Task) /\ DOMAIN q = 1 .. Len(acks) + Len(requests) - 1
      /\ \A n \in 1 .. Len(acks) + Len(requests) - 1 : q[n] = r[n + 1]
  BY <1>2, <1>4, <1>5
<1> HIDE DEF q
<1>8. ASSUME NEW n \in DOMAIN p PROVE p[n] = q[n]
  <2>1. CASE n \in 1 .. Len(acks) - 1
    <3>1. n + 1 \in 1 .. Len(acks) /\ n \in 1 .. Len(acks) + Len(requests) - 1
      BY <1>1, <2>1
    <3>2. QED BY <1>1, <1>2, <1>3, <1>7, <2>1, <3>1
  <2>2. CASE n \in Len(acks) .. Len(acks) + Len(requests) - 1
    <3>1. PICK k \in 1 .. Len(requests) : n = Len(acks) - 1 + k
      <4>1. n - Len(acks) + 1 \in 1 .. Len(requests) /\ n = Len(acks) - 1 + (n - Len(acks) + 1)
        BY <1>1, <2>2
      <4>2. QED BY <4>1
    <3>2. n + 1 = Len(acks) + k /\ n \in 1 .. Len(acks) + Len(requests) - 1
      BY <1>1, <3>1
    <3>3. QED BY <1>2, <1>3, <1>7, <3>1, <3>2
  <2>3. QED BY <1>1, <1>3, <2>1, <2>2
<1>9. DOMAIN p = DOMAIN q
  BY <1>1, <1>3, <1>7
<1>10. p = q
  BY <1>3, <1>7, <1>8, <1>9, SameRoad
<1>11. QED BY <1>5, <1>6, <1>10 DEF r, p, q

-----------------------------------------------------------------------------
(* The steps                                                               *)

LEMMA ToSetAppend ==
  ASSUME NEW S, NEW q \in Seq(S), NEW x \in S
  PROVE  Append(q, x) \in Seq(S) /\ ToSet(Append(q, x)) = ToSet(q) \cup {x}
<1>1. /\ Append(q, x) \in Seq(S)
      /\ DOMAIN Append(q, x) = 1 .. Len(q) + 1 /\ DOMAIN q = 1 .. Len(q) /\ Len(q) \in Nat
      /\ \A i \in 1 .. Len(q) : Append(q, x)[i] = q[i]
      /\ Append(q, x)[Len(q) + 1] = x
  OBVIOUS
<1>2. QED BY <1>1 DEF ToSet

LEMMA ToSetTail ==
  ASSUME NEW S, NEW q \in Seq(S), q # <<>>
  PROVE  Head(q) \in S /\ Tail(q) \in Seq(S) /\ ToSet(Tail(q)) \subseteq ToSet(q)
<1>1. /\ Head(q) \in S /\ Tail(q) \in Seq(S)
      /\ Len(q) \in Nat /\ DOMAIN Tail(q) = 1 .. Len(q) - 1 /\ DOMAIN q = 1 .. Len(q)
      /\ \A i \in 1 .. Len(q) - 1 : Tail(q)[i] = q[i + 1]
  OBVIOUS
<1>2. QED BY <1>1 DEF ToSet

\* request() where the socket is open joins the pending and the road alike; where it is
\* not, it does nothing.
LEMMA RequestFact ==
  ASSUME ws \in Socket, NEW task \in Task, NEW p, PendingOK(p), NEW s, SocketsOK(s), Meet(p, s[ws]),
         Request(task, p, s)
  PROVE  /\ PendingOK(pending') /\ SocketsOK(sock') /\ Meet(pending', sock'[ws])
         /\ \A c \in Socket : sock'[c].phase = s[c].phase /\ sock'[c].acks = s[c].acks
<1>1. CASE ~CanSend(s)
  BY <1>1 DEF Request
<1>2. CASE CanSend(s)
  <2> DEFINE name == Name(task)
             x == s[ws]
  <2>1. /\ x \in SocketState /\ x.phase = "open"
        /\ name \in Action /\ p[name] \in Seq(Task) /\ x.requests \in Seq(Task) /\ x.acks \in Seq(Ack)
    BY <1>2, TaskFact DEF CanSend, SocketsOK, SocketState, PendingOK
  <2>2. /\ pending' = [p EXCEPT ![name] = Append(p[name], task)]
        /\ sock' = [s EXCEPT ![ws].requests = Append(x.requests, task)]
    BY <1>2 DEF Request
  <2>3. /\ Append(p[name], task) \in Seq(Task)
        /\ ToSet(Append(p[name], task)) = ToSet(p[name]) \cup {task}
        /\ Append(x.requests, task) \in Seq(Task)
    BY <2>1, ToSetAppend
  <2>4. PendingOK(pending')
    <3>1. pending' \in [Action -> Seq(Task)]
      BY <2>1, <2>2, <2>3 DEF PendingOK
    <3>2. ASSUME NEW a \in Action, NEW other \in ToSet(pending'[a]) PROVE Name(other) = a
      BY <2>1, <2>2, <2>3, <3>2 DEF PendingOK
    <3>3. QED BY <3>1, <3>2 DEF PendingOK
  <2>5. /\ \A c \in Socket : sock'[c].phase = s[c].phase /\ sock'[c].acks = s[c].acks
        /\ \A c \in Socket \ {ws} : sock'[c] = s[c]
        /\ sock'[ws].requests = Append(x.requests, task)
        /\ sock' \in [Socket -> SocketState]
    BY <2>1, <2>2, <2>3 DEF SocketsOK, SocketState
  <2>6. SocketsOK(sock')
    BY <2>1, <2>5 DEF SocketsOK
  <2>7. RoadOf(x.acks, x.requests) \in Seq(Task)
    BY <2>1, RoadType
  <2>8. RoadOf(sock'[ws].acks, sock'[ws].requests) = Append(RoadOf(x.acks, x.requests), task)
    BY <2>1, <2>5, RoadAppend
  <2>9. ASSUME NEW a \in Action
        PROVE  Threads(pending'[a], RoadOf(sock'[ws].acks, sock'[ws].requests), a)
    <3>1. p[a] \in Seq(Task) /\ Threads(p[a], RoadOf(x.acks, x.requests), a)
      BY <2>1 DEF PendingOK, Meet
    <3>2. CASE a = name
      <4>1. pending'[a] = Append(p[a], task)
        BY <2>1, <2>2, <3>2 DEF PendingOK
      <4>2. Threads(Append(p[a], task), Append(RoadOf(x.acks, x.requests), task), a)
        BY <2>7, <3>1, <3>2, ThreadsAppend
      <4>3. QED BY <2>8, <4>1, <4>2
    <3>3. CASE a # name
      <4>1. pending'[a] = p[a]
        BY <2>1, <2>2, <3>3 DEF PendingOK
      <4>2. Threads(p[a], Append(RoadOf(x.acks, x.requests), task), a)
        BY <2>7, <3>1, <3>3, ThreadsOther
      <4>3. QED BY <2>8, <4>1, <4>2
    <3>4. QED BY <3>2, <3>3
  <2>10. QED BY <2>4, <2>5, <2>6, <2>9 DEF Meet
<1>3. QED BY <1>1, <1>2

\* A message on a socket, or one that can break, means that the page has this one.
LEMMA LifelineFact ==
  ASSUME ClientIInv, NEW c \in Socket, sock[c].phase # "unused"
  PROVE  c = ws /\ timers = 0
BY DEF ClientIInv, Lifeline

LEMMA UnusedFact ==
  /\ Unused \in SocketState /\ Connecting \in SocketState /\ Closing \in SocketState
  /\ Unused.phase = "unused" /\ Connecting.phase = "connecting" /\ Closing.phase = "closing"
  /\ \A x \in {Unused, Connecting, Closing} : x.requests = <<>> /\ x.acks = <<>>
<1>1. <<>> \in Seq(Task) /\ <<>> \in Seq(Ack)
  OBVIOUS
<1> DEFINE x(phase) == [phase |-> phase, requests |-> <<>>, acks |-> <<>>]
<1>2. Unused = x("unused")
  BY DEF Unused
<1>3. Connecting = x("connecting")
  BY DEF Unused, Connecting
<1>4. Closing = x("closing")
  BY DEF Unused, Closing
<1>5. x("unused") \in SocketState /\ x("connecting") \in SocketState /\ x("closing") \in SocketState
  BY <1>1, Zenon DEF SocketState
<1>6. QED BY <1>2, <1>3, <1>4, <1>5

\* What a step leaves of a socket that is not open.
LEMMA OrderedEmpty ==
  ASSUME NEW v, NEW r, v # None => v <= r
  PROVE  Ordered(<<>>, v, r)
<1>1. DOMAIN <<>> = {}
  OBVIOUS
<1>2. QED BY <1>1 DEF Ordered

LEMMA MeetEmpty ==
  ASSUME NEW p, NEW x, x.acks = <<>>, x.requests = <<>>, \A a \in Action : p[a] = <<>>
  PROVE  Meet(p, x)
BY ThreadsEmpty, RoadEmpty DEF Meet

LEMMA ClientInitInv == ClientInit => ClientIInv
<1> SUFFICES ASSUME ClientInit PROVE ClientIInv
  OBVIOUS
<1>1. 1 \in Socket
  BY ClientAssumption DEF Socket
<1>2. /\ \A c \in Socket : sock[c] = IF c = 1 THEN Connecting ELSE Unused
      /\ sock \in [Socket -> SocketState]
  BY UnusedFact DEF ClientInit
<1>3. SocketsOK(sock)
  BY <1>2, UnusedFact DEF SocketsOK
<1>4. <<>> \in Seq(Task) /\ ToSet(<<>>) = {}
  BY DEF ToSet
<1>5. PendingOK(pending)
  BY <1>4 DEF ClientInit, PendingOK
<1>6. PageOK
  <2>1. 0 \in 0 .. MaxSwitches
    BY ClientAssumption
  <2>2. QED BY <1>1, <2>1 DEF ClientInit, PageOK
<1>7. Lifeline
  BY <1>2, UnusedFact DEF ClientInit, Lifeline
<1>8. sock[ws] = Connecting
  BY <1>1, <1>2 DEF ClientInit
<1>9. Ordered(sock[ws].acks, shown, recorder)
  BY <1>8, UnusedFact, OrderedEmpty DEF ClientInit
<1>10. Meet(pending, sock[ws])
  BY <1>8, UnusedFact, MeetEmpty DEF ClientInit
<1>11. QED BY <1>3, <1>5, <1>6, <1>7, <1>9, <1>10 DEF ClientIInv

\* A request of a panel.
LEMMA PanelInv ==
  ASSUME ClientIInv, NEW task \in Task, Request(task, pending, sock),
         UNCHANGED <<ws, timers, shown, recorder>>, PageOK'
  PROVE  ClientIInv'
<1>1. ws \in Socket /\ PendingOK(pending) /\ SocketsOK(sock) /\ Meet(pending, sock[ws])
  BY DEF ClientIInv, PageOK
<1>2. /\ PendingOK(pending') /\ SocketsOK(sock') /\ Meet(pending', sock'[ws])
      /\ \A c \in Socket : sock'[c].phase = sock[c].phase /\ sock'[c].acks = sock[c].acks
  BY <1>1, RequestFact
<1>3. Lifeline'
  BY <1>2 DEF ClientIInv, Lifeline
<1>4. Ordered(sock'[ws].acks, shown, recorder)
  BY <1>1, <1>2 DEF ClientIInv
<1>5. QED BY <1>2, <1>3, <1>4 DEF ClientIInv

LEMMA OnOpenInv ==
  ASSUME ClientIInv, NEW c \in Socket, OnOpen(c)
  PROVE  ClientIInv'
<1> DEFINE s == [sock EXCEPT ![c].phase = "open"]
           task == [chain |-> "refresh", step |-> 1]
<1>1. /\ c = ws /\ timers = 0 /\ sock[c].phase = "connecting"
      /\ sock \in [Socket -> SocketState]
      /\ sock[c].requests = <<>> /\ sock[c].acks = <<>>
  BY LifelineFact DEF OnOpen, ClientIInv, SocketsOK
<1>2. /\ \A e \in Socket : s[e].acks = sock[e].acks /\ s[e].requests = sock[e].requests
      /\ \A e \in Socket : s[e].phase = IF e = ws THEN "open" ELSE sock[e].phase
      /\ s \in [Socket -> SocketState]
  BY <1>1 DEF SocketState
<1>3. task \in Task
  BY TaskFact DEF Chains
<1>4. Request(task, pending, s) /\ UNCHANGED <<ws, timers, shown, recorder>>
  BY DEF OnOpen
<1> HIDE DEF s, task
<1>5. SocketsOK(s)
  BY <1>1, <1>2 DEF ClientIInv, SocketsOK
<1>6. Meet(pending, s[ws])
  BY <1>1, <1>2 DEF ClientIInv, Meet
<1>7. /\ PendingOK(pending') /\ SocketsOK(sock') /\ Meet(pending', sock'[ws])
      /\ \A e \in Socket : sock'[e].phase = s[e].phase /\ sock'[e].acks = s[e].acks
  BY <1>1, <1>3, <1>4, <1>5, <1>6, RequestFact DEF ClientIInv
<1>8. PageOK'
  BY DEF OnOpen, ClientIInv, PageOK
<1>9. Lifeline'
  BY <1>1, <1>2, <1>4, <1>7 DEF ClientIInv, Lifeline
<1>10. Ordered(sock'[ws].acks, shown, recorder)
  BY <1>1, <1>2, <1>7 DEF ClientIInv
<1>11. QED BY <1>4, <1>7, <1>8, <1>9, <1>10 DEF ClientIInv

\* A socket that is lost leaves nothing on its way and a timer, or its onclose, to come.
LEMMA OnCloseInv ==
  ASSUME ClientIInv, NEW c \in Socket, OnClose(c)
  PROVE  ClientIInv'
<1>1. c = ws /\ timers = 0 /\ sock \in [Socket -> SocketState]
  BY LifelineFact DEF OnClose, ClientIInv, SocketsOK
<1>2. /\ sock'[ws] = Unused /\ \A e \in Socket \ {ws} : sock'[e] = sock[e]
      /\ sock' \in [Socket -> SocketState]
      /\ \A a \in Action : pending'[a] = <<>>
      /\ pending' = [a \in Action |-> <<>>] /\ timers' = 1 /\ UNCHANGED <<ws, shown, recorder>>
  BY <1>1, UnusedFact DEF OnClose
<1>3. SocketsOK(sock')
  BY <1>2, UnusedFact DEF ClientIInv, SocketsOK
<1>4. <<>> \in Seq(Task) /\ ToSet(<<>>) = {}
  BY DEF ToSet
<1>5. PendingOK(pending')
  BY <1>2, <1>4 DEF PendingOK
<1>6. PageOK'
  BY DEF OnClose, ClientIInv, PageOK
<1>7. Lifeline'
  BY <1>1, <1>2, UnusedFact DEF ClientIInv, Lifeline
<1>8. shown # None => shown <= recorder
  BY DEF ClientIInv, Ordered
<1>9. Ordered(sock'[ws].acks, shown, recorder)
  BY <1>2, <1>8, UnusedFact, OrderedEmpty
<1>10. Meet(pending', sock'[ws])
  BY <1>2, UnusedFact, MeetEmpty
<1>11. QED BY <1>2, <1>3, <1>5, <1>6, <1>7, <1>9, <1>10 DEF ClientIInv

LEMMA BreakInv ==
  ASSUME ClientIInv, NEW c \in Socket, sock[c].phase # "unused",
         sock' = [sock EXCEPT ![c] = Closing], UNCHANGED <<pending, pageVars, recorder>>
  PROVE  ClientIInv'
<1>1. c = ws /\ timers = 0 /\ sock \in [Socket -> SocketState]
  BY LifelineFact DEF ClientIInv, SocketsOK
<1>2. /\ sock'[ws] = Closing /\ \A e \in Socket \ {ws} : sock'[e] = sock[e]
      /\ sock' \in [Socket -> SocketState] /\ UNCHANGED <<ws, timers, shown, recorder, pending>>
  BY <1>1, UnusedFact DEF pageVars
<1>3. SocketsOK(sock')
  BY <1>2, UnusedFact DEF ClientIInv, SocketsOK
<1>4. PageOK' /\ PendingOK(pending')
  BY <1>2 DEF pageVars, ClientIInv, PageOK
<1>5. Lifeline'
  BY <1>1, <1>2, UnusedFact DEF ClientIInv, Lifeline
<1>6. shown # None => shown <= recorder
  BY DEF ClientIInv, Ordered
<1>7. Ordered(sock'[ws].acks, shown, recorder)
  BY <1>2, <1>6, UnusedFact, OrderedEmpty
<1>8. Meet(pending', sock'[ws])
  BY <1>2, UnusedFact DEF Meet
<1>9. QED BY <1>2, <1>3, <1>4, <1>5, <1>7, <1>8 DEF ClientIInv

\* The new socket takes the place of the old one, on which nothing was left.
LEMMA ReopenInv ==
  ASSUME ClientIInv, Reopen
  PROVE  ClientIInv'
<1>1. PICK c \in Socket : sock[c].phase = "unused" /\ sock' = [sock EXCEPT ![c] = Connecting] /\ ws' = c
  BY DEF Reopen
<1>2. /\ timers = 1 /\ timers' = 0 /\ UNCHANGED <<shown, recorder, pending>>
      /\ \A e \in Socket : sock[e].phase = "unused"
      /\ sock \in [Socket -> SocketState] /\ ws \in Socket
  BY DEF Reopen, ClientIInv, Lifeline, SocketsOK, PageOK
<1>3. sock[ws].requests = <<>> /\ sock[ws].acks = <<>>
  BY <1>2 DEF ClientIInv, SocketsOK
<1>4. sock'[c] = Connecting /\ (\A e \in Socket \ {c} : sock'[e] = sock[e]) /\ sock' \in [Socket -> SocketState]
  BY <1>1, <1>2, UnusedFact
<1>5. SocketsOK(sock')
  BY <1>4, UnusedFact DEF ClientIInv, SocketsOK
<1>6. PageOK' /\ PendingOK(pending')
  BY <1>1, <1>2 DEF Reopen, ClientIInv, PageOK
<1>7. Lifeline'
  BY <1>1, <1>2, <1>4, UnusedFact DEF Lifeline
<1>8. Meet(pending', sock'[ws'])
  BY <1>1, <1>2, <1>3, <1>4, UnusedFact DEF ClientIInv, Meet
<1>9. shown # None => shown <= recorder
  BY DEF ClientIInv, Ordered
<1>10. Ordered(sock'[ws'].acks, shown, recorder)
  BY <1>1, <1>4, <1>9, UnusedFact, OrderedEmpty
<1>11. QED BY <1>2, <1>5, <1>6, <1>7, <1>8, <1>10 DEF ClientIInv

\* Of an orderly queue of statuses the first is the oldest, and the others are not older.
LEMMA OrderedTail ==
  ASSUME NEW q \in Seq(Ack), q # <<>>, NEW v, NEW r \in Nat, Ordered(q, v, r)
  PROVE  /\ Head(q).recorder \in Nat /\ Head(q).recorder <= r
         /\ v # None => v <= Head(q).recorder
         /\ Ordered(Tail(q), v, r) /\ Ordered(Tail(q), Head(q).recorder, r)
<1> DEFINE rest == Tail(q)
<1>1. /\ DOMAIN q = 1 .. Len(q) /\ Len(q) \in Nat \ {0} /\ Head(q) = q[1]
      /\ DOMAIN rest = 1 .. Len(q) - 1
      /\ \A n \in 1 .. Len(q) - 1 : rest[n] = q[n + 1]
      /\ \A n \in 1 .. Len(q) : q[n] \in Ack
  OBVIOUS
<1> HIDE DEF rest
<1>2. 1 \in DOMAIN q /\ \A n \in DOMAIN rest : n \in Nat /\ n + 1 \in DOMAIN q /\ 1 <= n + 1
  BY <1>1
<1>3. \A n \in DOMAIN q : q[n].recorder \in Nat
  BY <1>1, ClientAssumption DEF Ack
<1>4. \A m, n \in DOMAIN rest : m <= n => rest[m].recorder <= rest[n].recorder
  <2> SUFFICES ASSUME NEW m \in DOMAIN rest, NEW n \in DOMAIN rest, m <= n
               PROVE  rest[m].recorder <= rest[n].recorder
    OBVIOUS
  <2>1. m + 1 <= n + 1
    BY <1>2
  <2>2. q[m + 1].recorder <= q[n + 1].recorder
    BY <1>2, <2>1 DEF Ordered
  <2>3. QED BY <1>1, <2>2
<1>5. \A n \in DOMAIN rest : rest[n].recorder <= r /\ q[1].recorder <= rest[n].recorder
  BY <1>1, <1>2 DEF Ordered
<1>6. q[1].recorder <= r /\ (v # None => v <= r /\ v <= q[1].recorder)
  BY <1>2 DEF Ordered
<1>7. v # None => \A n \in DOMAIN rest : v <= rest[n].recorder
  BY <1>1, <1>2 DEF Ordered
<1>8. Ordered(rest, v, r)
  BY <1>4, <1>5, <1>6, <1>7 DEF Ordered
<1>9. Ordered(rest, q[1].recorder, r)
  BY <1>4, <1>5, <1>6 DEF Ordered
<1>10. QED BY <1>1, <1>2, <1>3, <1>6, <1>8, <1>9 DEF rest

LEMMA OrderedAppend ==
  ASSUME NEW q \in Seq(Ack), NEW v, NEW r \in Nat, Ordered(q, v, r),
         NEW more \in Nat, r <= more, NEW ack \in Ack, ack.recorder = more,
         v = None \/ v \in Nat
  PROVE  Ordered(Append(q, ack), v, more)
<1> DEFINE Q == Append(q, ack)
<1>1. /\ DOMAIN q = 1 .. Len(q) /\ Len(q) \in Nat
      /\ DOMAIN Q = 1 .. Len(q) + 1
      /\ \A n \in 1 .. Len(q) : Q[n] = q[n]
      /\ Q[Len(q) + 1] = ack
      /\ \A n \in 1 .. Len(q) : q[n] \in Ack
  OBVIOUS
<1> HIDE DEF Q
<1>2. \A n \in DOMAIN Q : n \in DOMAIN q \/ n = Len(q) + 1
  BY <1>1
<1>3. \A n \in DOMAIN q : q[n].recorder \in Nat /\ q[n].recorder <= more /\ Q[n] = q[n]
  <2>1. \A n \in DOMAIN q : q[n].recorder \in Nat
    BY <1>1, ClientAssumption DEF Ack
  <2>2. QED BY <1>1, <2>1 DEF Ordered
<1>4. \A n \in DOMAIN Q : Q[n].recorder <= more
  BY <1>1, <1>2, <1>3
<1>5. ASSUME NEW m \in DOMAIN Q, NEW n \in DOMAIN Q, m <= n PROVE Q[m].recorder <= Q[n].recorder
  <2>1. CASE n = Len(q) + 1
    BY <1>1, <1>4, <2>1
  <2>2. CASE n \in DOMAIN q
    <3>1. m \in DOMAIN q
      BY <1>1, <1>5, <2>2
    <3>2. QED BY <1>3, <1>5, <2>2, <3>1 DEF Ordered
  <2>3. QED BY <1>2, <2>1, <2>2
<1>6. v # None => v <= more /\ \A n \in DOMAIN Q : v <= Q[n].recorder
  <2> SUFFICES ASSUME v # None PROVE v <= more /\ \A n \in DOMAIN Q : v <= Q[n].recorder
    OBVIOUS
  <2>1. v <= r /\ v \in Nat /\ \A n \in DOMAIN q : v <= q[n].recorder
    BY DEF Ordered
  <2>2. v <= more
    BY <2>1
  <2>3. QED BY <1>1, <1>2, <1>3, <2>1, <2>2
<1>7. QED BY <1>4, <1>5, <1>6 DEF Ordered, Q

\* The recorder goes on: no status on its way says more than it has come to.
LEMMA OrderedLater ==
  ASSUME NEW q \in Seq(Ack), NEW v, NEW r \in Nat, Ordered(q, v, r), NEW more \in Nat, r <= more,
         v = None \/ v \in Nat
  PROVE  Ordered(q, v, more)
<1>1. \A n \in DOMAIN q : q[n].recorder \in Nat
  <2>1. \A n \in DOMAIN q : q[n] \in Ack
    OBVIOUS
  <2>2. QED BY <2>1, ClientAssumption DEF Ack
<1>2. QED BY <1>1 DEF Ordered

\* An answer that arrives meets the request that has waited longest for it.
LEMMA OnAckFact ==
  ASSUME ClientIInv, NEW c \in Socket, sock[c].acks # <<>>
  PROVE  LET ack == Head(sock[c].acks)
             name == Name(ack.task)
             p == [pending EXCEPT ![name] = Tail(@)]
             s == [sock EXCEPT ![c].acks = Tail(@)]
         IN  /\ c = ws /\ timers = 0 /\ sock[c].phase = "open"
             /\ ack \in Ack /\ name \in Action
             /\ pending[name] # <<>> /\ Head(pending[name]) = ack.task
             /\ PendingOK(p) /\ SocketsOK(s) /\ Meet(p, s[c])
             /\ \A e \in Socket : s[e].phase = sock[e].phase
             /\ s[c].acks = Tail(sock[c].acks)
<1> DEFINE x == sock[c]
           ack == Head(x.acks)
           name == Name(ack.task)
           p == [pending EXCEPT ![name] = Tail(@)]
           s == [sock EXCEPT ![c].acks = Tail(@)]
           road == RoadOf(x.acks, x.requests)
<1>1. sock \in [Socket -> SocketState] /\ x \in SocketState /\ x.phase = "open"
  BY DEF ClientIInv, SocketsOK
<1>2. c = ws /\ timers = 0
  BY <1>1, LifelineFact
<1>3. x.acks \in Seq(Ack) /\ x.requests \in Seq(Task) /\ x.acks # <<>>
  BY <1>1 DEF SocketState
<1>4. ack \in Ack /\ Tail(x.acks) \in Seq(Ack)
  BY <1>3, ToSetTail
<1>5. ack.task \in Task /\ name \in Action
  BY <1>4, TaskFact DEF Ack
<1>6. /\ road \in Seq(Task) /\ road # <<>> /\ Head(road) = ack.task
      /\ RoadOf(Tail(x.acks), x.requests) = Tail(road)
  BY <1>3, RoadType, RoadAck
<1> HIDE DEF road
<1>7. \A a \in Action : pending[a] \in Seq(Task) /\ Threads(pending[a], road, a)
  BY <1>1, <1>2 DEF ClientIInv, Meet, PendingOK, road
<1>8. /\ pending[name] # <<>> /\ Head(pending[name]) = ack.task
      /\ Threads(Tail(pending[name]), Tail(road), name)
  <2>1. pending[name] \in Seq(Task) /\ Threads(pending[name], road, name) /\ Name(Head(road)) = name
    BY <1>5, <1>6, <1>7
  <2> HIDE DEF name
  <2>2. QED BY <1>6, <2>1, ThreadsHead
<1>9. Tail(pending[name]) \in Seq(Task) /\ ToSet(Tail(pending[name])) \subseteq ToSet(pending[name])
  BY <1>5, <1>7, <1>8, ToSetTail
<1>10. /\ p \in [Action -> Seq(Task)] /\ p[name] = Tail(pending[name])
       /\ \A a \in Action \ {name} : p[a] = pending[a]
  BY <1>5, <1>9 DEF ClientIInv, PendingOK
<1>11. PendingOK(p)
  <2>1. ASSUME NEW a \in Action, NEW task \in ToSet(p[a]) PROVE Name(task) = a
    <3>1. task \in ToSet(pending[a])
      BY <1>9, <1>10, <2>1
    <3>2. QED BY <3>1 DEF ClientIInv, PendingOK
  <2> HIDE DEF p
  <2>2. QED BY <1>10, <2>1 DEF PendingOK
<1>12. /\ s \in [Socket -> SocketState]
       /\ \A e \in Socket : s[e].phase = sock[e].phase /\ s[e].requests = sock[e].requests
       /\ s[c].acks = Tail(x.acks)
       /\ \A e \in Socket \ {c} : s[e] = sock[e]
  BY <1>1, <1>4 DEF SocketState
<1>13. SocketsOK(s)
  BY <1>1, <1>12 DEF ClientIInv, SocketsOK
<1> HIDE DEF p, s
<1>14. ASSUME NEW a \in Action PROVE Threads(p[a], RoadOf(s[c].acks, s[c].requests), a)
  <2>1. RoadOf(s[c].acks, s[c].requests) = Tail(road)
    BY <1>6, <1>12
  <2>2. CASE a = name
    BY <1>8, <1>10, <2>1, <2>2
  <2>3. CASE a # name
    <3>1. Threads(pending[a], Tail(road), a)
      BY <1>6, <1>7, <2>3, ThreadsSkip
    <3>2. QED BY <1>10, <2>1, <2>3, <3>1
  <2>4. QED BY <2>2, <2>3
<1>15. Meet(p, s[c])
  BY <1>14 DEF Meet
<1>16. QED BY <1>1, <1>2, <1>4, <1>5, <1>8, <1>11, <1>12, <1>13, <1>15 DEF p, s

\* Either nothing new is shown or the status that has arrived.
LEMMA OnAckShows ==
  ASSUME ClientIInv, NEW c \in Socket, OnAck(c)
  PROVE  shown' = shown \/ shown' = Head(sock[c].acks).recorder
<1>1. sock[c].acks # <<>>
  BY DEF OnAck
<1>2. QED BY <1>1, OnAckFact DEF OnAck

LEMMA OnAckInv ==
  ASSUME ClientIInv, NEW c \in Socket, OnAck(c)
  PROVE  ClientIInv'
<1> DEFINE ack == Head(sock[c].acks)
           name == Name(ack.task)
           p == [pending EXCEPT ![name] = Tail(@)]
           s == [sock EXCEPT ![c].acks = Tail(@)]
           task == Head(pending[name])
<1>1. sock[c].acks # <<>>
  BY DEF OnAck
<1>2. /\ c = ws /\ timers = 0 /\ sock[c].phase = "open"
      /\ ack \in Ack /\ name \in Action
      /\ pending[name] # <<>> /\ task = ack.task
      /\ PendingOK(p) /\ SocketsOK(s) /\ Meet(p, s[c])
      /\ \A e \in Socket : s[e].phase = sock[e].phase
      /\ s[c].acks = Tail(sock[c].acks)
  BY <1>1, OnAckFact
<1>3. /\ IF GoesOn(task, ack.ok) THEN Request([task EXCEPT !.step = @ + 1], p, s)
         ELSE pending' = p /\ sock' = s
      /\ busy' = (busy /\ task.chain # "run")
      /\ UNCHANGED <<ws, timers, connected, orphaned, recorder>>
  BY <1>2 DEF OnAck
<1>4. ack.task \in Task /\ ack.ok \in BOOLEAN
  BY <1>2 DEF Ack
<1>5. ws \in Socket /\ sock[c].acks \in Seq(Ack) /\ recorder \in Nat
  BY ClientAssumption DEF ClientIInv, PageOK, SocketsOK, SocketState
<1> HIDE DEF p, s, ack, name, task
<1>6. /\ PendingOK(pending') /\ SocketsOK(sock') /\ Meet(pending', sock'[ws])
      /\ \A e \in Socket : sock'[e].phase = s[e].phase /\ sock'[e].acks = s[e].acks
  <2>1. CASE GoesOn(task, ack.ok)
    <3>1. [task EXCEPT !.step = @ + 1] \in Task
      BY <1>2, <1>4, <2>1, TaskFact
    <3>2. Request([task EXCEPT !.step = @ + 1], p, s)
      BY <1>3, <2>1
    <3>3. PendingOK(p) /\ SocketsOK(s) /\ Meet(p, s[ws])
      BY <1>2
    <3>4. QED BY <1>5, <3>1, <3>2, <3>3, RequestFact
  <2>2. CASE ~GoesOn(task, ack.ok)
    BY <1>2, <1>3, <2>2
  <2>3. QED BY <2>1, <2>2
<1>7. Lifeline'
  BY <1>2, <1>3, <1>6 DEF ClientIInv, Lifeline
<1>8. shown' = shown \/ shown' = ack.recorder
  BY OnAckShows DEF ack
<1>9. ack.recorder \in 0 .. MaxSwitches
  BY <1>2 DEF Ack
<1>10. PageOK'
  BY <1>3, <1>8, <1>9 DEF ClientIInv, PageOK
<1>11. Ordered(sock[c].acks, shown, recorder)
  BY <1>2 DEF ClientIInv
<1>12. Ordered(Tail(sock[c].acks), shown, recorder) /\ Ordered(Tail(sock[c].acks), ack.recorder, recorder)
  BY <1>1, <1>5, <1>11, OrderedTail DEF ack
<1>13. Ordered(sock'[ws].acks, shown', recorder)
  BY <1>2, <1>5, <1>6, <1>8, <1>12
<1>14. QED BY <1>3, <1>6, <1>7, <1>10, <1>13 DEF ClientIInv

LEMMA ObeyFact ==
  ASSUME recorder \in 0 .. MaxSwitches, NEW task \in Task, Obey(task)
  PROVE  recorder' \in 0 .. MaxSwitches /\ recorder <= recorder'
<1>1. Active(recorder) => recorder # MaxSwitches
  BY ClientAssumption DEF Active
<1>2. recorder' = recorder \/ (recorder' = recorder + 1 /\ recorder # MaxSwitches)
  BY <1>1, ClientAssumption DEF Obey
<1>3. QED BY <1>2, ClientAssumption

\* An answer takes the place of its request, and says what the recorder has come to.
LEMMA ServeInv ==
  ASSUME ClientIInv, NEW c \in Socket, Serve(c)
  PROVE  ClientIInv'
<1> DEFINE x == sock[c]
           task == Head(x.requests)
<1>1. sock \in [Socket -> SocketState] /\ x \in SocketState /\ x.phase = "open" /\ x.requests # <<>>
  BY DEF Serve, ClientIInv, SocketsOK
<1>2. c = ws /\ timers = 0
  BY <1>1, LifelineFact
<1>3. x.acks \in Seq(Ack) /\ x.requests \in Seq(Task)
  BY <1>1 DEF SocketState
<1>4. task \in Task /\ Tail(x.requests) \in Seq(Task)
  BY <1>1, <1>3, ToSetTail
<1>5. recorder \in 0 .. MaxSwitches /\ (shown = None \/ shown \in Nat)
  BY ClientAssumption DEF ClientIInv, PageOK
<1>6. PICK ok \in BOOLEAN : Answer(c, task, ok) /\ (Obey(task) \/ UNCHANGED recorder)
  BY DEF Serve
<1>7. UNCHANGED <<pending, ws, timers, connected, shown, busy, orphaned>>
  BY DEF Serve, pageVars
<1>8. recorder' \in 0 .. MaxSwitches /\ recorder <= recorder'
  BY <1>4, <1>5, <1>6, ObeyFact, ClientAssumption
<1> DEFINE ack == [task |-> task, ok |-> ok, recorder |-> recorder']
<1>9. ack \in Ack /\ ack.task = task /\ ack.recorder = recorder'
  BY <1>4, <1>8 DEF Ack
<1>10. sock' = [sock EXCEPT ![c].requests = Tail(@), ![c].acks = Append(@, ack)]
  BY <1>6 DEF Answer
<1> HIDE DEF ack
<1>11. Append(x.acks, ack) \in Seq(Ack)
  BY <1>3, <1>9, ToSetAppend
<1>12. /\ sock' \in [Socket -> SocketState]
       /\ \A e \in Socket : sock'[e].phase = sock[e].phase
       /\ \A e \in Socket \ {c} : sock'[e] = sock[e]
       /\ sock'[c].requests = Tail(x.requests) /\ sock'[c].acks = Append(x.acks, ack)
  BY <1>1, <1>4, <1>10, <1>11 DEF SocketState
<1>13. SocketsOK(sock')
  BY <1>1, <1>12 DEF ClientIInv, SocketsOK
<1>14. RoadOf(sock'[c].acks, sock'[c].requests) = RoadOf(x.acks, x.requests)
  BY <1>1, <1>3, <1>9, <1>12, RoadServe
<1>15. Meet(pending', sock'[ws'])
  BY <1>2, <1>7, <1>12, <1>14 DEF ClientIInv, Meet
<1>16. Lifeline'
  BY <1>2, <1>7, <1>12 DEF ClientIInv, Lifeline
<1>17. PageOK' /\ PendingOK(pending')
  BY <1>7, <1>8 DEF ClientIInv, PageOK
<1>18. Ordered(sock'[c].acks, shown, recorder')
  <2>1. recorder \in Nat /\ recorder' \in Nat /\ Ordered(x.acks, shown, recorder)
    BY <1>2, <1>5, <1>8, ClientAssumption DEF ClientIInv
  <2> HIDE DEF x
  <2>2. Ordered(Append(x.acks, ack), shown, recorder')
    BY <1>3, <1>5, <1>8, <1>9, <2>1, OrderedAppend
  <2>3. QED BY <1>12, <2>2
<1>19. QED BY <1>2, <1>7, <1>13, <1>15, <1>16, <1>17, <1>18 DEF ClientIInv

LEMMA SwitchInv ==
  ASSUME ClientIInv, Switch
  PROVE  ClientIInv'
<1>1. UNCHANGED <<sock, pending, ws, timers, connected, shown, busy, orphaned>>
  BY DEF Switch, pageVars
<1>2. /\ recorder \in Nat /\ recorder' \in Nat /\ recorder <= recorder' /\ recorder' \in 0 .. MaxSwitches
      /\ (shown = None \/ shown \in Nat)
  BY ClientAssumption DEF Switch, ClientIInv, PageOK
<1>3. sock[ws].acks \in Seq(Ack) /\ Ordered(sock[ws].acks, shown, recorder)
  BY DEF ClientIInv, SocketsOK, SocketState, PageOK
<1>4. Ordered(sock[ws].acks, shown, recorder')
  BY <1>2, <1>3, OrderedLater
<1>5. PageOK' /\ Lifeline'
  BY <1>1, <1>2 DEF ClientIInv, PageOK, Lifeline
<1>6. QED BY <1>1, <1>4, <1>5 DEF ClientIInv

LEMMA ClientNextInv == ClientIInv /\ [ClientNext]_clientVars => ClientIInv'
<1> SUFFICES ASSUME ClientIInv, [ClientNext]_clientVars PROVE ClientIInv'
  OBVIOUS
<1>1. ASSUME NEW c \in Socket, ServeRaises(c) \/ Break(c) PROVE ClientIInv'
  <2>1. sock[c].phase # "unused"
    BY <1>1 DEF ServeRaises, Break, ClientIInv, SocketsOK
  <2>2. sock' = [sock EXCEPT ![c] = Closing] /\ UNCHANGED <<pending, pageVars, recorder>>
    BY <1>1 DEF ServeRaises, Break
  <2>3. QED BY <2>1, <2>2, BreakInv
<1>2. CASE ClickRecord \/ ClickStop \/ Poll \/ ClickRun
  <2>1. \A n \in {"start", "stop", "poll", "run"} : [chain |-> n, step |-> 1] \in Task
    BY TaskFact DEF Chains
  <2>2. PICK task \in Task : Request(task, pending, sock)
    BY <1>2, <2>1 DEF ClickRecord, ClickStop, Poll, ClickRun
  <2>3. UNCHANGED <<ws, timers, shown, recorder>>
    BY <1>2 DEF ClickRecord, ClickStop, Poll, ClickRun, pageVars
  <2>4. PageOK'
    BY <1>2 DEF ClickRecord, ClickStop, Poll, ClickRun, pageVars, CanSend, ClientIInv, PageOK
  <2>5. QED BY <2>2, <2>3, <2>4, PanelInv
<1>3. CASE UNCHANGED clientVars
  BY <1>3 DEF clientVars, ClientIInv, PageOK, Lifeline
<1>4. QED BY <1>1, <1>2, <1>3, OnOpenInv, OnCloseInv, OnAckInv, ServeInv, ReopenInv, SwitchInv DEF ClientNext

-----------------------------------------------------------------------------

\* What the page, its connection and the gateway's recorder have to do with each other,
\* in every reachable state.
THEOREM ClientInvariant == ClientSpec => []ClientIInv
BY ClientInitInv, ClientNextInv, PTL DEF ClientSpec

\* However often connections break, the page has one socket, or one timer that will open
\* one, and never two of either (ConnectionProvider.tsx).
THEOREM OneConnection == ClientSpec => []ClientInv
<1>1. ASSUME ClientIInv PROVE ClientInv
  <2>1. ClientTypeOK
    BY <1>1 DEF ClientIInv, SocketsOK, SocketState, PendingOK, PageOK, Lifeline, ClientTypeOK
  <2> DEFINE inUse == {c \in Socket : sock[c].phase # "unused"}
  <2>2. CASE timers = 0
    <3>1. inUse = {ws}
      BY <1>1, <2>2 DEF ClientIInv, Lifeline, PageOK
    <3>2. Cardinality(inUse) = 1
      BY <3>1, FS_Singleton
    <3>3. QED BY <2>1, <2>2, <3>2 DEF ClientInv, OneLifeline
  <2>3. CASE timers = 1
    <3>1. inUse = {}
      BY <1>1, <2>3 DEF ClientIInv, Lifeline
    <3>2. Cardinality(inUse) = 0
      BY <3>1, FS_EmptySet
    <3>3. QED BY <2>1, <2>3, <3>2 DEF ClientInv, OneLifeline
  <2>4. QED BY <1>1, <2>2, <2>3 DEF ClientIInv, Lifeline
<1>2. QED BY <1>1, ClientInvariant, PTL

\* Matched by action and order alone, every answer that is on its way will still settle
\* the request it belongs to, and every request that waits is on its way, whatever panels
\* ask at once and whatever was lost with an earlier connection.
THEOREM EveryAnswerMeetsItsRequest == ClientSpec => []AnswersMeetRequests
<1>1. ClientIInv => AnswersMeetRequests
  BY DEF ClientIInv, Meet, RoadOf, AnswersMeetRequests, Road
<1>2. QED BY <1>1, ClientInvariant, PTL

\* The recording indicator never goes back to a state it has left.
THEOREM IndicatorNeverTurnsBack == ClientSpec => ShownInOrder
<1>1. ASSUME ClientIInv, [ClientNext]_clientVars, shown # None PROVE shown' >= shown
  <2>1. shown \in Nat /\ recorder \in Nat
    BY <1>1, ClientAssumption DEF ClientIInv, PageOK
  <2>2. ASSUME NEW c \in Socket, OnAck(c) PROVE shown' >= shown
    <3>1. sock[c].acks # <<>> /\ (shown' = shown \/ shown' = Head(sock[c].acks).recorder)
      BY <1>1, <2>2, OnAckShows DEF OnAck
    <3>2. c = ws /\ sock[c].acks \in Seq(Ack) /\ Ordered(sock[c].acks, shown, recorder)
      BY <1>1, <3>1, OnAckFact DEF ClientIInv, SocketsOK, SocketState
    <3>3. Head(sock[c].acks).recorder \in Nat /\ shown <= Head(sock[c].acks).recorder
      BY <1>1, <2>1, <3>1, <3>2, OrderedTail
    <3>4. QED BY <2>1, <3>1, <3>3
  <2>3. (\E c \in Socket : OnAck(c)) \/ shown' = shown
    BY <1>1 DEF ClientNext, clientVars, pageVars, OnOpen, OnClose, Serve, ServeRaises, Break, Reopen,
                ClickRecord, ClickStop, Poll, ClickRun, Switch
  <2>4. QED BY <2>1, <2>2, <2>3
<1>2. ClientIInv /\ [ClientNext]_clientVars => [shown # None => shown' >= shown]_shown
  BY <1>1
<1>3. QED BY <1>2, ClientInvariant, PTL DEF ClientSpec, ShownInOrder

=============================================================================
