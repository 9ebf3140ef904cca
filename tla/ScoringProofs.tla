---------------------------- MODULE ScoringProofs ----------------------------
(***************************************************************************)
(* Proofs about Scoring: the two judges of a capture agree and every shot  *)
(* is scored once, under both profiles and for any drones and targets, any *)
(* length of the run and any lag and reach that ScoringAssumption allows.  *)
(* The core of it is that a judge that decides by what it knows of a       *)
(* target decides as the other one will: what either knows, and what is on *)
(* its way to it, is never too old for the reach to cover.                 *)
(***************************************************************************)
EXTENDS Scoring, FiniteSetTheorems, SequenceTheorems, TLAPS

\* A distance of at most r.
Within(p, q, r) == p - q \in -r .. r

\* How far the place of an attacker is from the last odometry of it.
Slack == IF profile = "gazebo" THEN 1 ELSE 0

\* How many ticks lie between two truths.
Gap == IF profile = "gazebo" THEN MaxLag ELSE 1

Fresh(m) == sent \in m.at .. m.at + MaxLag

InFlight(d) == ToSet(claimsA[d]) \cup ToSet(claimsM[d])

Clocks ==
  /\ ended = "no" => clock < MaxTime
  /\ profile = "software-sim" => time = sent

\* Nothing is under way for too long, and no event is as early as the first truth.
Ages ==
  /\ \A d \in Drones : \A m \in InFlight(d) : Fresh(m) /\ m.at > MaxLag
  /\ \A t \in Targets : \A x \in ToSet(truthM[t]) : Fresh(x)

\* No attacker has been flying for longer than the run.
Bounds ==
  \A t \in Targets :
    /\ Within(body[t], 0, sent)
    /\ odom[t] = None => Within(pos[t], 0, time)
    /\ odom[t] # None => profile = "gazebo" /\ Within(odom[t], 0, sent) /\ Within(pos[t], 0, sent + 1)

\* The attacker simulation knows where its attackers are.
Tracked(t) ==
  /\ profile = "gazebo" /\ sent > MaxLag => odom[t] # None /\ Within(odom[t], body[t], 1)
  /\ time > MaxLag => Within(pos[t], Place(t), 2 * Slack + sent - time)

\* The truths on their way, q, lead from what the monitor knows to where the attacker
\* is: they come one after the other, and none is wider of it than it is old.
Leads(q, known, place, now, tick, slack, gap) ==
  /\ \A i \in 1 .. Len(q) : q[i].at > MaxLag => Within(q[i].point, place, slack + now - q[i].at)
  /\ \A i \in 1 .. Len(q) - 1 : q[i + 1].at <= q[i].at + gap
  /\ q # <<>> => q[Len(q)].at >= tick
  /\ q = <<>> /\ tick > MaxLag => known # None /\ Within(known, place, slack + now - tick)
  /\ q # <<>> /\ q[1].at > 2 * MaxLag =>
       known # None /\ Within(known, place, slack + gap + now - q[1].at)

Reported(t) == Leads(truthM[t], truth[t], Place(t), sent, time, Slack, Gap)

TrackInv == \A t \in alive : Tracked(t) /\ Reported(t)

\* The places by which a judge may decide on target t, now or later.
Known(t) == {pos[t], truth[t]} \cup {x.point : x \in ToSet(truthM[t])}

\* An event that hits its target whoever judges it, and one that no judge will accept.
Sure(m) == truth[m.target] # None /\ \A p \in Known(m.target) : InReach(p, m.point)
Vain(m) == truth[m.target] # None /\ \A p \in Known(m.target) : ~InReach(p, m.point)

Near(m) == Sure(m) /\ Within(m.point, Place(m.target), Margin + sent - m.at)
Far(m)  == Vain(m) /\ ~Within(m.point, Place(m.target), 2 * Reach - Margin - (sent - m.at))

Shots(q) == {m \in ToSet(q) : m.result = "SUCCESS"}

AimInv ==
  \A d \in Drones : \A m \in Shots(claimsA[d]) \cup Shots(claimsM[d]) :
    m.target \in alive \ unclear => Near(m) \/ Far(m)

\* What one judge has decided and the other has not is still on its way to the other.
OnTheWay ==
  /\ \A d \in Drones :
       /\ \A m \in Shots(claimsM[d]) :
            m.target \in alive \ unclear /\ Sure(m) => m \in Shots(claimsA[d])
       /\ \A m \in Shots(claimsA[d]) :
            m.target \in alive \ unclear /\ Sure(m) =>
              m \in Shots(claimsM[d]) \/ m.target \in captured
  /\ \A t \in (captured \cap alive) \ unclear :
       \E d \in Drones : \E m \in Shots(claimsA[d]) : m.target = t /\ Sure(m)
  /\ \A t \in Targets \ (alive \cup captured \cup unclear) :
       \E d \in Drones : \E m \in Shots(claimsM[d]) : m.target = t /\ Sure(m)
  /\ done \/ ended = "neutralised" => alive = {}

Counted ==
  /\ \A d \in Drones : Len(claimsM[d]) <= claims
  /\ ShotsScoredOnce

ScoringIInv ==
  /\ ScoringTypeOK /\ Clocks /\ Ages /\ Bounds
  /\ TrackInv /\ AimInv /\ OnTheWay /\ Counted

-----------------------------------------------------------------------------
(* Sequences and constants                                                 *)

LEMMA ToSetType ==
  ASSUME NEW S, NEW q \in Seq(S)
  PROVE  ToSet(q) \subseteq S /\ \A i \in 1 .. Len(q) : q[i] \in ToSet(q)
BY DEF ToSet

LEMMA ToSetAppend ==
  ASSUME NEW S, NEW q \in Seq(S), NEW x \in S
  PROVE  /\ Append(q, x) \in Seq(S)
         /\ ToSet(Append(q, x)) = ToSet(q) \cup {x}
<1>1. /\ Append(q, x) \in Seq(S)
      /\ DOMAIN Append(q, x) = 1 .. Len(q) + 1 /\ DOMAIN q = 1 .. Len(q) /\ Len(q) \in Nat
      /\ \A i \in 1 .. Len(q) : Append(q, x)[i] = q[i]
      /\ Append(q, x)[Len(q) + 1] = x
  OBVIOUS
<1>2. QED BY <1>1 DEF ToSet

LEMMA ToSetTail ==
  ASSUME NEW S, NEW q \in Seq(S), q # <<>>
  PROVE  /\ Head(q) \in S /\ Tail(q) \in Seq(S)
         /\ ToSet(q) = {Head(q)} \cup ToSet(Tail(q))
<1>1. /\ Head(q) \in S /\ Tail(q) \in Seq(S) /\ Head(q) = q[1]
      /\ Len(q) \in Nat \ {0} /\ Len(Tail(q)) = Len(q) - 1
      /\ DOMAIN Tail(q) = 1 .. Len(q) - 1 /\ DOMAIN q = 1 .. Len(q)
      /\ \A i \in 1 .. Len(q) - 1 : Tail(q)[i] = q[i + 1]
  OBVIOUS
<1>2. ToSet(q) \subseteq {Head(q)} \cup ToSet(Tail(q))
  <2> SUFFICES ASSUME NEW i \in 1 .. Len(q) PROVE q[i] \in {Head(q)} \cup ToSet(Tail(q))
    BY <1>1 DEF ToSet
  <2>1. i # 1 => i - 1 \in 1 .. Len(q) - 1 /\ Tail(q)[i - 1] = q[i]
    BY <1>1
  <2>2. QED BY <1>1, <2>1 DEF ToSet
<1>3. ToSet(Tail(q)) \cup {Head(q)} \subseteq ToSet(q)
  BY <1>1 DEF ToSet
<1>4. QED BY <1>1, <1>2, <1>3

LEMMA ParameterFact ==
  /\ MaxTime \in Nat \ {0} /\ Reach \in Nat /\ Margin \in Nat \ {0} /\ MaxLag \in Nat \ {0}
  /\ Margin + MaxLag < Reach
  /\ "gazebo" \in Profiles => Margin + 2 * MaxLag < Reach
  /\ Profiles \subseteq {"software-sim", "gazebo"}
  /\ Headings \subseteq {-1, 1} /\ Offsets \subseteq Int
  /\ Point = -MaxTime - MaxLag .. MaxTime + MaxLag /\ None \notin Point
  /\ MaxClaims \in [Profiles -> Nat]
BY ScoringAssumption DEF Point

-----------------------------------------------------------------------------
(* Types, clocks, ages and bounds                                          *)

\* ScoringTypeOK in three parts.
NumbersOK ==
  /\ profile \in Profiles
  /\ clock \in 0 .. MaxTime /\ sent \in clock .. clock + MaxLag /\ time \in sent - MaxLag .. sent
  /\ falseFires \in Nat /\ ended \in {"no", "neutralised", "max_time"}
  /\ claims \in 0 .. MaxClaims[profile] /\ shots \in 0 .. claims /\ unclear \subseteq Targets

PlacesOK ==
  /\ body \in [Targets -> Point] /\ cmd \in [Targets -> Headings \cup {0}]
  /\ odom \in [Targets -> Point \cup {None}]
  /\ pos \in [Targets -> Point] /\ alive \subseteq Targets /\ done \in BOOLEAN

QueuesOK ==
  /\ claimsA \in [Drones -> Seq(Claim)] /\ claimsM \in [Drones -> Seq(Claim)]
  /\ truthM \in [Targets -> Seq(Truth)] /\ truth \in [Targets -> Point \cup {None}]
  /\ captured \subseteq Targets

LEMMA TypeParts == ScoringTypeOK <=> NumbersOK /\ PlacesOK /\ QueuesOK
BY DEF ScoringTypeOK, NumbersOK, PlacesOK, QueuesOK

\* No tick is sent after the end.
LEMMA NumbersKept ==
  ASSUME NumbersOK, Clocks, ScoringNext
  PROVE  NumbersOK'
<1> USE ParameterFact DEF NumbersOK, Clocks, gazebo, world, score, fired
<1> DEFINE Others == UNCHANGED <<profile, clock, falseFires, ended, claims, shots, unclear>>
<1>1. CASE Tick
  <2>1. Others /\ ended = "no" /\ profile = "software-sim" /\ sent - clock < MaxLag
        /\ sent' = sent + 1 /\ time' = time + 1
    BY <1>1 DEF Tick, InTime
  <2>2. QED BY <2>1
<1>2. CASE GazeboStep
  <2>1. Others /\ sent - clock < MaxLag /\ sent - time < MaxLag /\ sent' = sent + 1 /\ time' = time
    BY <1>2 DEF GazeboStep, InTime
  <2>2. QED BY <2>1
<1>3. CASE OnClockTick
  <2>1. Others /\ time < sent /\ sent' = sent /\ time' = time + 1
    BY <1>3 DEF OnClockTick
  <2>2. QED BY <2>1
<1>4. ASSUME NEW d \in Drones, Declare(d) PROVE NumbersOK'
  BY <1>4 DEF Declare
<1>5. ASSUME NEW d \in Drones, OnCapture(d) PROVE NumbersOK'
  BY <1>5 DEF OnCapture
<1>6. ASSUME NEW d \in Drones, OnEvent(d) PROVE NumbersOK'
  BY <1>6 DEF OnEvent
<1>7. ASSUME NEW t \in Targets, OnTruth(t) PROVE NumbersOK'
  BY <1>7 DEF OnTruth
<1>8. ASSUME NEW t \in Targets, OnOdom(t) PROVE NumbersOK'
  BY <1>8 DEF OnOdom
<1>9. CASE OnDone
  BY <1>9 DEF OnDone
<1>10. CASE OnClock
  BY <1>10 DEF OnClock
<1>11. QED
  BY <1>1, <1>2, <1>3, <1>4, <1>5, <1>6, <1>7, <1>8, <1>9, <1>10 DEF ScoringNext

LEMMA PointFact ==
  /\ Point \subseteq Int /\ None \notin Point
  /\ \A h \in Headings : h = -1 \/ h = 1
<1>1. Point \subseteq Int
  BY ParameterFact
<1>2. QED BY <1>1, ScoringAssumption

LEMMA Typing ==
  ASSUME ScoringTypeOK
  PROVE  /\ profile \in {"software-sim", "gazebo"} /\ profile \in Profiles
         /\ clock \in Nat /\ sent \in Nat /\ time \in Int /\ time <= sent /\ sent <= time + MaxLag
         /\ \A t \in Targets :
              /\ body[t] \in Int /\ pos[t] \in Int /\ (cmd[t] = -1 \/ cmd[t] = 0 \/ cmd[t] = 1)
              /\ body[t] # None
              /\ odom[t] # None => odom[t] \in Int
              /\ truth[t] # None => truth[t] \in Int
<1>1. /\ profile \in {"software-sim", "gazebo"} /\ profile \in Profiles
      /\ clock \in Nat /\ sent \in Nat /\ time \in Int /\ time <= sent /\ sent <= time + MaxLag
  BY ParameterFact DEF ScoringTypeOK
<1>2. ASSUME NEW t \in Targets
      PROVE  /\ body[t] \in Point /\ pos[t] \in Point /\ (cmd[t] \in Headings \/ cmd[t] = 0)
             /\ odom[t] \in Point \cup {None} /\ truth[t] \in Point \cup {None}
  BY DEF ScoringTypeOK
<1>3. QED
  BY <1>1, <1>2, PointFact

\* What the three steps that make time pass do.
LEMMA TickFact ==
  ASSUME ScoringTypeOK, Tick
  PROVE  /\ ended = "no" /\ profile = "software-sim" /\ sent' = sent + 1 /\ time' = time + 1
         /\ InTime
         /\ pos' \in [Targets -> Int] /\ truthM' = [t \in Targets |-> truthM'[t]]
         /\ \A t \in Targets :
              /\ t \notin alive => pos'[t] = pos[t] /\ truthM'[t] = truthM[t]
              /\ t \in alive =>
                   /\ pos'[t] \in {pos[t] - 1, pos[t] + 1}
                   /\ truthM'[t] = Append(truthM[t], [point |-> pos'[t], at |-> sent'])
         /\ done' = (done \/ alive = {})
         /\ UNCHANGED <<profile, body, cmd, odom, alive, clock, truth, captured, falseFires,
                        ended, claims, shots, unclear, claimsA, claimsM>>
<1>1. PICK heading \in [Targets -> Headings] : pos' = Flown(pos, heading)
  BY DEF Tick
<1>2. \A t \in Targets : (heading[t] = -1 \/ heading[t] = 1) /\ pos[t] \in Int
  BY <1>1, Typing, PointFact
<1>3. pos' \in [Targets -> Int] /\ \A t \in Targets :
        IF t \in alive THEN pos'[t] \in {pos[t] - 1, pos[t] + 1} ELSE pos'[t] = pos[t]
  <2>1. pos' = [t \in Targets |-> IF t \in alive THEN pos[t] + heading[t] ELSE pos[t]]
    BY <1>1 DEF Flown
  <2>2. QED BY <1>2, <2>1
<1>4. QED BY <1>3 DEF Tick, Publish, gazebo, score, fired

LEMMA GazeboStepFact ==
  ASSUME ScoringTypeOK, GazeboStep
  PROVE  /\ ended = "no" /\ profile = "gazebo" /\ sent' = sent + 1 /\ sent - time < MaxLag
         /\ InTime
         /\ \A t \in alive : odom[t] = body[t] \/ sent < MaxLag
         /\ body' \in [Targets -> Int]
         /\ \A t \in Targets : body'[t] \in {body[t] - 1, body[t], body[t] + 1}
         /\ UNCHANGED <<profile, cmd, odom, time, pos, alive, done, clock, truth, captured,
                        falseFires, ended, claims, shots, unclear, claimsA, claimsM, truthM>>
<1>1. \A t \in Targets : (cmd[t] = -1 \/ cmd[t] = 0 \/ cmd[t] = 1) /\ body[t] \in Int
  BY Typing
<1>2. body' = [t \in Targets |-> body[t] + cmd[t]]
  BY DEF GazeboStep
<1>3. body' \in [Targets -> Int] /\ \A t \in Targets : body'[t] \in {body[t] - 1, body[t], body[t] + 1}
  BY <1>1, <1>2
<1>4. QED BY <1>3 DEF GazeboStep, world, score, fired

LEMMA OnClockTickFact ==
  ASSUME ScoringTypeOK, OnClockTick
  PROVE  /\ ended = "no" /\ profile = "gazebo" /\ time < sent /\ time' = time + 1 /\ sent' = sent
         /\ pos' \in [Targets -> Int] /\ truthM' = [t \in Targets |-> truthM'[t]]
         /\ cmd' \in [Targets -> Headings \cup {0}]
         /\ \A t \in Targets :
              /\ t \notin alive => pos'[t] = pos[t] /\ truthM'[t] = truthM[t]
              /\ t \in alive /\ odom[t] # None =>
                   /\ pos'[t] \in {odom[t] - 1, odom[t] + 1}
                   /\ truthM'[t] = Append(truthM[t], [point |-> odom[t], at |-> sent])
              /\ t \in alive /\ odom[t] = None =>
                   /\ pos'[t] \in {pos[t] - 1, pos[t] + 1}
                   /\ truthM'[t] = Append(truthM[t], [point |-> pos'[t], at |-> sent])
         /\ done' = (done \/ alive = {})
         /\ UNCHANGED <<profile, body, odom, alive, clock, truth, captured, falseFires,
                        ended, claims, shots, unclear, claimsA, claimsM>>
<1> DEFINE known == [t \in Targets |-> IF t \in alive /\ odom[t] # None THEN odom[t] ELSE pos[t]]
<1>1. PICK heading \in [Targets -> Headings] :
        /\ pos' = Flown(known, heading)
        /\ cmd' = [t \in Targets |-> IF t \in alive THEN heading[t] ELSE cmd[t]]
  BY DEF OnClockTick
<1>2. \A t \in Targets : (heading[t] = -1 \/ heading[t] = 1) /\ known[t] \in Int
  BY <1>1, Typing, PointFact
<1>3. pos' \in [Targets -> Int] /\ \A t \in Targets :
        IF t \in alive THEN pos'[t] \in {known[t] - 1, known[t] + 1} ELSE pos'[t] = known[t]
  <2> HIDE DEF known
  <2>1. pos' = [t \in Targets |-> IF t \in alive THEN known[t] + heading[t] ELSE known[t]]
    BY <1>1 DEF Flown
  <2>2. QED BY <1>2, <2>1
<1>4. /\ Publish([t \in Targets |-> IF odom[t] # None THEN odom[t] ELSE pos'[t]])
      /\ sent' = sent
  BY DEF OnClockTick
<1>5. truthM' = [t \in Targets |-> truthM'[t]] /\ \A t \in Targets :
        truthM'[t] = IF t \in alive
                     THEN Append(truthM[t], [point |-> IF odom[t] # None THEN odom[t] ELSE pos'[t],
                                             at |-> sent])
                     ELSE truthM[t]
  BY <1>4 DEF Publish
<1>6. cmd' \in [Targets -> Headings \cup {0}]
  BY <1>1 DEF ScoringTypeOK
<1>7. QED BY <1>3, <1>4, <1>5, <1>6 DEF OnClockTick, Publish, score, fired

LEMMA ClocksKept ==
  ASSUME NumbersOK, Clocks, ScoringNext
  PROVE  Clocks'
<1> USE ParameterFact DEF NumbersOK, Clocks, gazebo, world, score, fired
<1>1. CASE Tick
  BY <1>1 DEF Tick
<1>2. CASE GazeboStep
  BY <1>2 DEF GazeboStep
<1>3. CASE OnClockTick
  BY <1>3 DEF OnClockTick
<1>4. ASSUME NEW d \in Drones, Declare(d) PROVE Clocks'
  BY <1>4 DEF Declare
<1>5. ASSUME NEW d \in Drones, OnCapture(d) PROVE Clocks'
  BY <1>5 DEF OnCapture
<1>6. ASSUME NEW d \in Drones, OnEvent(d) PROVE Clocks'
  BY <1>6 DEF OnEvent
<1>7. ASSUME NEW t \in Targets, OnTruth(t) PROVE Clocks'
  BY <1>7 DEF OnTruth
<1>8. ASSUME NEW t \in Targets, OnOdom(t) PROVE Clocks'
  BY <1>8 DEF OnOdom
<1>9. CASE OnDone
  BY <1>9 DEF OnDone
<1>10. CASE OnClock
  BY <1>10 DEF OnClock
<1>11. QED
  BY <1>1, <1>2, <1>3, <1>4, <1>5, <1>6, <1>7, <1>8, <1>9, <1>10 DEF ScoringNext

LEMMA BoundsKept ==
  ASSUME ScoringTypeOK, Bounds, ScoringNext
  PROVE  Bounds'
<1> USE Typing DEF Bounds, Within
<1>1. CASE Tick
  <2> SUFFICES ASSUME NEW t \in Targets
               PROVE  /\ Within(body[t], 0, sent)'
                      /\ odom'[t] = None /\ Within(pos[t], 0, time)'
    OBVIOUS
  <2>1. body' = body /\ odom' = odom /\ profile = "software-sim" /\ sent' = sent + 1 /\ time' = time + 1
        /\ pos'[t] \in {pos[t] - 1, pos[t], pos[t] + 1}
    BY <1>1, TickFact
  <2>2. odom[t] = None
    BY <2>1
  <2>3. QED BY <2>1, <2>2
<1>2. CASE GazeboStep
  <2>1. odom' = odom /\ pos' = pos /\ sent' = sent + 1 /\ time' = time /\ profile' = profile
        /\ \A t \in Targets : body'[t] \in {body[t] - 1, body[t], body[t] + 1}
    BY <1>2, GazeboStepFact
  <2>2. QED BY <2>1
<1>3. CASE OnClockTick
  <2> SUFFICES ASSUME NEW t \in Targets
               PROVE  /\ odom[t] = None => Within(pos[t], 0, time)'
                      /\ odom[t] # None => Within(pos[t], 0, sent + 1)'
    BY <1>3, OnClockTickFact
  <2>1. /\ sent' = sent /\ time' = time + 1 /\ pos'[t] \in Int
        /\ odom[t] = None => pos'[t] \in {pos[t] - 1, pos[t], pos[t] + 1}
        /\ odom[t] # None => pos'[t] \in {odom[t] - 1, pos[t], odom[t] + 1}
    BY <1>3, OnClockTickFact
  <2>2. QED BY <2>1
<1>4. ASSUME NEW d \in Drones, Declare(d) PROVE Bounds'
  BY <1>4 DEF gazebo, world, Declare
<1>5. ASSUME NEW d \in Drones, OnCapture(d) PROVE Bounds'
  BY <1>5 DEF gazebo, OnCapture
<1>6. ASSUME NEW d \in Drones, OnEvent(d) PROVE Bounds'
  BY <1>6 DEF gazebo, world, OnEvent
<1>7. ASSUME NEW t \in Targets, OnTruth(t) PROVE Bounds'
  BY <1>7 DEF gazebo, world, OnTruth
<1>8. ASSUME NEW t \in Targets, OnOdom(t) PROVE Bounds'
  <2> SUFFICES ASSUME NEW u \in Targets
               PROVE  /\ odom'[u] = None => Within(pos[u], 0, time)
                      /\ odom'[u] # None =>
                           profile = "gazebo" /\ Within(odom'[u], 0, sent) /\ Within(pos[u], 0, sent + 1)
    BY <1>8 DEF OnOdom, world
  <2>1. profile = "gazebo" /\ odom'[u] = IF u = t THEN body[u] ELSE odom[u]
    BY <1>8 DEF OnOdom, ScoringTypeOK
  <2>2. /\ sent \in Nat /\ time \in Int /\ time <= sent /\ pos[u] \in Int /\ body[u] # None
        /\ Within(body[u], 0, sent)
        /\ odom[u] # None => Within(odom[u], 0, sent) /\ Within(pos[u], 0, sent + 1)
        /\ odom[u] = None => Within(pos[u], 0, time)
    OBVIOUS
  <2>3. QED BY <2>1, <2>2
<1>9. CASE OnDone
  BY <1>9 DEF gazebo, world, OnDone
<1>10. CASE OnClock
  BY <1>10 DEF gazebo, world, OnClock
<1>11. QED
  BY <1>1, <1>2, <1>3, <1>4, <1>5, <1>6, <1>7, <1>8, <1>9, <1>10 DEF ScoringNext

\* No tick is sent once the run has ended.
LEMMA Horizon ==
  ASSUME ScoringTypeOK, Clocks, ended = "no"
  PROVE  /\ sent \in Nat /\ time \in Int
         /\ sent + 1 <= MaxTime + MaxLag /\ time + 1 <= MaxTime + MaxLag
         /\ InTime => sent + 2 <= MaxTime + MaxLag
BY ParameterFact DEF ScoringTypeOK, Clocks, InTime

LEMMA InPoint ==
  ASSUME NEW p \in Int, NEW n \in Int, n <= MaxTime + MaxLag, Within(p, 0, n)
  PROVE  p \in Point
BY ParameterFact DEF Within

LEMMA PlacesKept ==
  ASSUME ScoringTypeOK, Clocks, Bounds, Bounds', ScoringNext
  PROVE  PlacesOK'
<1> USE DEF PlacesOK, gazebo, world
<1>0. PlacesOK
  BY TypeParts
<1>1. CASE Tick
  <2>1. pos' \in [Targets -> Point]
    <3> SUFFICES ASSUME NEW t \in Targets PROVE pos'[t] \in Point
      BY <1>1, TickFact
    <3>0. pos'[t] \in Int /\ time' = time + 1 /\ ended = "no"
      BY <1>1, TickFact
    <3>1. time + 1 \in Int /\ time + 1 <= MaxTime + MaxLag
      BY <3>0, Horizon
    <3>2. Within(pos'[t], 0, time')
      <4>1. odom'[t] = None
        BY <1>1, TickFact DEF Bounds
      <4>2. QED BY <4>1 DEF Bounds, Within
    <3>3. QED BY <3>0, <3>1, <3>2, InPoint
  <2>2. QED BY <1>0, <1>1, <2>1, TickFact
<1>2. CASE GazeboStep
  <2>1. body' \in [Targets -> Point]
    <3> SUFFICES ASSUME NEW t \in Targets PROVE body'[t] \in Point
      BY <1>2, GazeboStepFact
    <3>1. body'[t] \in Int /\ sent' = sent + 1 /\ sent + 1 \in Int /\ sent + 1 <= MaxTime + MaxLag
      BY <1>2, GazeboStepFact, Horizon, Typing, ParameterFact
    <3>2. Within(body'[t], 0, sent')
      BY DEF Bounds, Within
    <3>3. QED BY <3>1, <3>2, InPoint
  <2>2. QED BY <1>0, <1>2, <2>1, GazeboStepFact
<1>3. CASE OnClockTick
  <2>1. pos' \in [Targets -> Point]
    <3> SUFFICES ASSUME NEW t \in Targets PROVE pos'[t] \in Point
      BY <1>3, OnClockTickFact
    <3>0. pos'[t] \in Int /\ sent' = sent /\ time' = time + 1 /\ ended = "no"
      BY <1>3, OnClockTickFact
    <3>1. /\ time + 1 \in Int /\ time + 1 <= MaxTime + MaxLag
          /\ sent + 1 \in Int /\ sent + 1 <= MaxTime + MaxLag
      BY <3>0, Horizon
    <3>2. Within(pos'[t], 0, time') \/ Within(pos'[t], 0, sent' + 1)
      BY DEF Bounds, Within
    <3>3. QED BY <3>0, <3>1, <3>2, InPoint
  <2>2. QED BY <1>0, <1>3, <2>1, OnClockTickFact
<1>4. ASSUME NEW d \in Drones, Declare(d) PROVE PlacesOK'
  BY <1>0, <1>4 DEF Declare
<1>5. ASSUME NEW d \in Drones, OnCapture(d) PROVE PlacesOK'
  BY <1>0, <1>5 DEF OnCapture
<1>6. ASSUME NEW d \in Drones, OnEvent(d) PROVE PlacesOK'
  BY <1>0, <1>6 DEF OnEvent
<1>7. ASSUME NEW t \in Targets, OnTruth(t) PROVE PlacesOK'
  BY <1>0, <1>7 DEF OnTruth
<1>8. ASSUME NEW t \in Targets, OnOdom(t) PROVE PlacesOK'
  BY <1>0, <1>8 DEF OnOdom
<1>9. CASE OnDone
  BY <1>0, <1>9 DEF OnDone
<1>10. CASE OnClock
  BY <1>0, <1>10 DEF OnClock
<1>11. QED
  BY <1>1, <1>2, <1>3, <1>4, <1>5, <1>6, <1>7, <1>8, <1>9, <1>10 DEF ScoringNext

\* What the three steps at a queue do.
\* Clearly in reach, or clearly out of it.
Declared(m) ==
  \/ Within(m.point, Place(m.target), Margin)
  \/ ~Within(m.point, Place(m.target), 2 * Reach - Margin)

LEMMA DeclareFact ==
  ASSUME ScoringTypeOK, NEW d \in Drones, Declare(d)
  PROVE  \E m \in Claim :
           /\ m.at = sent
           /\ m.result = "SUCCESS" /\ m.target \notin unclear' => Declared(m)
           /\ claimsA' = [claimsA EXCEPT ![d] = Append(@, m)]
           /\ claimsM' = [claimsM EXCEPT ![d] = Append(@, m)]
           /\ shots' = IF m.result = "SUCCESS" THEN shots + 1 ELSE shots
           /\ unclear \subseteq unclear' /\ unclear' \subseteq Targets
<1>1. PICK t \in Targets, r \in {"SUCCESS", "MISS"}, off \in Offsets :
        LET m == [target |-> t, result |-> r, point |-> Place(t) + off, at |-> sent]
        IN  /\ claimsA' = [claimsA EXCEPT ![d] = Append(@, m)]
            /\ claimsM' = [claimsM EXCEPT ![d] = Append(@, m)]
            /\ shots' = IF r = "SUCCESS" THEN shots + 1 ELSE shots
            /\ unclear' = IF r = "SUCCESS" /\ ~Clear(off) THEN unclear \cup {t} ELSE unclear
  BY DEF Declare
<1> DEFINE m == [target |-> t, result |-> r, point |-> Place(t) + off, at |-> sent]
<1>2. Place(t) \in Int /\ sent \in Nat /\ off \in Int
  BY Typing, ParameterFact DEF Place
<1>3. m \in Claim
  BY <1>2 DEF Claim
<1>4. m.point - Place(m.target) = off
  BY <1>2
<1>5. Clear(off) => Declared(m)
  <2>1. -(2 * Reach - Margin) = Margin - 2 * Reach
    BY ParameterFact
  <2> HIDE DEF m
  <2>2. QED BY <1>4, <2>1 DEF Clear, Declared, Within
<1>6. unclear \subseteq unclear' /\ unclear' \subseteq Targets
  BY <1>1 DEF ScoringTypeOK
<1>7. m.result = "SUCCESS" /\ m.target \notin unclear' => Declared(m)
  BY <1>1, <1>5
<1>8. WITNESS m \in Claim
<1>9. QED BY <1>1, <1>6, <1>7

LEMMA QueuesKept ==
  ASSUME ScoringTypeOK, Clocks, Bounds, PlacesOK', ScoringNext
  PROVE  QueuesOK'
<1> USE DEF QueuesOK, gazebo, world, score, fired
<1>0. QueuesOK
  BY TypeParts
<1>1. CASE Tick
  <2>1. ASSUME NEW t \in Targets PROVE truthM'[t] \in Seq(Truth)
    <3>1. pos'[t] \in Point /\ sent' \in Nat
      BY <1>1, TickFact, Typing DEF PlacesOK
    <3>2. [point |-> pos'[t], at |-> sent'] \in Truth
      BY <3>1 DEF Truth
    <3>3. truthM[t] \in Seq(Truth)
      BY <1>0
    <3>4. truthM'[t] = truthM[t] \/ truthM'[t] = Append(truthM[t], [point |-> pos'[t], at |-> sent'])
      BY <1>1, TickFact
    <3>5. QED BY <3>2, <3>3, <3>4, ToSetAppend
  <2>2. QED BY <1>0, <1>1, <2>1, TickFact
<1>2. CASE GazeboStep
  BY <1>0, <1>2, GazeboStepFact
<1>3. CASE OnClockTick
  <2>1. ASSUME NEW t \in Targets PROVE truthM'[t] \in Seq(Truth)
    <3>1. pos'[t] \in Point /\ sent \in Nat /\ (odom[t] # None => odom[t] \in Point)
      BY Typing DEF PlacesOK, ScoringTypeOK
    <3>2. /\ [point |-> pos'[t], at |-> sent] \in Truth
          /\ odom[t] # None => [point |-> odom[t], at |-> sent] \in Truth
      BY <3>1 DEF Truth
    <3>3. truthM[t] \in Seq(Truth)
      BY <1>0
    <3>4. \/ truthM'[t] = truthM[t]
          \/ truthM'[t] = Append(truthM[t], [point |-> pos'[t], at |-> sent])
          \/ odom[t] # None /\ truthM'[t] = Append(truthM[t], [point |-> odom[t], at |-> sent])
      BY <1>3, OnClockTickFact
    <3>5. QED BY <3>2, <3>3, <3>4, ToSetAppend
  <2>2. QED BY <1>0, <1>3, <2>1, OnClockTickFact
<1>4. ASSUME NEW d \in Drones, Declare(d) PROVE QueuesOK'
  <2>1. PICK m \in Claim : /\ claimsA' = [claimsA EXCEPT ![d] = Append(@, m)]
                           /\ claimsM' = [claimsM EXCEPT ![d] = Append(@, m)]
    BY <1>4, DeclareFact
  <2>2. QED BY <1>0, <1>4, <2>1 DEF Declare
<1>5. ASSUME NEW d \in Drones, OnCapture(d) PROVE QueuesOK'
  BY <1>0, <1>5 DEF OnCapture
<1>6. ASSUME NEW d \in Drones, OnEvent(d) PROVE QueuesOK'
  <2>1. Head(claimsM[d]) \in Claim
    BY <1>0, <1>6, ToSetTail DEF OnEvent
  <2>2. Head(claimsM[d]).target \in Targets
    BY <2>1 DEF Claim
  <2>3. QED BY <1>0, <1>6, <2>2 DEF OnEvent
<1>7. ASSUME NEW t \in Targets, OnTruth(t) PROVE QueuesOK'
  <2>1. Head(truthM[t]) \in Truth
    BY <1>0, <1>7, ToSetTail DEF OnTruth
  <2>2. Head(truthM[t]).point \in Point
    BY <2>1 DEF Truth
  <2>3. QED BY <1>0, <1>7, <2>2 DEF OnTruth
<1>8. ASSUME NEW t \in Targets, OnOdom(t) PROVE QueuesOK'
  BY <1>0, <1>8 DEF OnOdom
<1>9. CASE OnDone
  BY <1>0, <1>9 DEF OnDone
<1>10. CASE OnClock
  BY <1>0, <1>10 DEF OnClock
<1>11. QED
  BY <1>1, <1>2, <1>3, <1>4, <1>5, <1>6, <1>7, <1>8, <1>9, <1>10 DEF ScoringNext

LEMMA Contents ==
  ASSUME ScoringTypeOK
  PROVE  /\ \A d \in Drones : /\ claimsA[d] \in Seq(Claim) /\ ToSet(claimsA[d]) \subseteq Claim
                              /\ claimsM[d] \in Seq(Claim) /\ ToSet(claimsM[d]) \subseteq Claim
         /\ \A t \in Targets : truthM[t] \in Seq(Truth) /\ ToSet(truthM[t]) \subseteq Truth
         /\ \A m \in Claim : m.target \in Targets /\ m.point \in Int /\ m.at \in Nat
         /\ \A x \in Truth : x.point \in Point /\ x.point \in Int /\ x.at \in Nat
<1>1. /\ \A m \in Claim : m.target \in Targets /\ m.point \in Int /\ m.at \in Nat
      /\ \A x \in Truth : x.point \in Point /\ x.point \in Int /\ x.at \in Nat
  BY PointFact DEF Claim, Truth
<1>2. /\ \A d \in Drones : claimsA[d] \in Seq(Claim) /\ claimsM[d] \in Seq(Claim)
      /\ \A t \in Targets : truthM[t] \in Seq(Truth)
  BY DEF ScoringTypeOK
<1>3. QED BY <1>1, <1>2, ToSetType

\* The truth of a tick, one for each attacker that lives.
LEMMA Published ==
  ASSUME ScoringTypeOK, PlacesOK', NEW t \in alive, Tick \/ OnClockTick
  PROVE  \E x \in Truth :
           /\ x.at = sent'
           /\ x.point = IF odom[t] # None /\ ~Tick THEN odom[t] ELSE pos'[t]
           /\ truthM'[t] = Append(truthM[t], x)
<1> DEFINE point == IF odom[t] # None /\ ~Tick THEN odom[t] ELSE pos'[t]
<1> DEFINE x == [point |-> point, at |-> sent']
<1>1. t \in Targets
  BY DEF ScoringTypeOK
<1>2. point \in Point
  BY <1>1, PointFact DEF ScoringTypeOK, PlacesOK
<1>3. sent' \in Nat
  BY TickFact, OnClockTickFact, Typing
<1>4. x \in Truth
  BY <1>2, <1>3 DEF Truth
<1>5. truthM'[t] = Append(truthM[t], x)
  BY <1>1, TickFact, OnClockTickFact
<1>6. WITNESS x \in Truth
<1>7. QED BY <1>5

LEMMA StillYoung ==
  ASSUME ScoringTypeOK, Ages, InTime
  PROVE  /\ \A d \in Drones : \A m \in InFlight(d) : sent + 1 \in m.at .. m.at + MaxLag
         /\ \A t \in Targets : \A x \in ToSet(truthM[t]) : sent + 1 \in x.at .. x.at + MaxLag
<1>0. sent \in Nat /\ MaxLag \in Nat
  BY Typing, ParameterFact
<1>1. ASSUME NEW d \in Drones, NEW m \in InFlight(d) PROVE sent + 1 \in m.at .. m.at + MaxLag
  <2>1. m.at \in Nat /\ sent \in m.at .. m.at + MaxLag /\ sent - m.at < MaxLag
    BY <1>1, Contents DEF Ages, Fresh, InTime, Young, InFlight
  <2>2. QED BY <1>0, <2>1
<1>2. ASSUME NEW t \in Targets, NEW x \in ToSet(truthM[t]) PROVE sent + 1 \in x.at .. x.at + MaxLag
  <2>1. x.at \in Nat /\ sent \in x.at .. x.at + MaxLag /\ sent - x.at < MaxLag
    BY <1>2, Contents DEF Ages, Fresh, InTime, Young
  <2>2. QED BY <1>0, <2>1
<1>3. QED BY <1>1, <1>2

LEMMA AgesKept ==
  ASSUME ScoringTypeOK, PlacesOK', Ages, ScoringNext
  PROVE  Ages'
<1> USE Typing DEF Ages, InFlight, Fresh
<1>a. ASSUME Tick \/ OnClockTick, NEW t \in Targets, NEW y \in ToSet(truthM'[t])
      PROVE  y \in ToSet(truthM[t]) \/ (y \in Truth /\ y.at = sent')
  <2>1. CASE t \in alive
    <3>1. PICK x \in Truth : x.at = sent' /\ truthM'[t] = Append(truthM[t], x)
      BY <1>a, <2>1, Published
    <3>2. truthM[t] \in Seq(Truth)
      BY Contents
    <3>3. ToSet(truthM'[t]) = ToSet(truthM[t]) \cup {x}
      BY <3>1, <3>2, ToSetAppend
    <3>4. QED BY <1>a, <3>1, <3>3
  <2>2. CASE t \notin alive
    BY <1>a, <2>2, TickFact, OnClockTickFact
  <2>3. QED BY <2>1, <2>2
<1>1. CASE Tick
  <2>1. sent' = sent + 1 /\ claimsA' = claimsA /\ claimsM' = claimsM /\ InTime
    BY <1>1, TickFact
  <2>2. ASSUME NEW t \in Targets, NEW y \in ToSet(truthM'[t]) PROVE sent' \in y.at .. y.at + MaxLag
    BY <1>1, <1>a, <2>1, <2>2, StillYoung, ParameterFact
  <2>3. QED BY <2>1, <2>2, StillYoung
<1>2. CASE GazeboStep
  <2>1. sent' = sent + 1 /\ claimsA' = claimsA /\ claimsM' = claimsM /\ truthM' = truthM /\ InTime
    BY <1>2, GazeboStepFact
  <2>2. QED BY <2>1, StillYoung
<1>3. CASE OnClockTick
  <2>1. sent' = sent /\ claimsA' = claimsA /\ claimsM' = claimsM
    BY <1>3, OnClockTickFact
  <2>2. ASSUME NEW t \in Targets, NEW y \in ToSet(truthM'[t]) PROVE sent' \in y.at .. y.at + MaxLag
    BY <1>3, <1>a, <2>1, <2>2, ParameterFact
  <2>3. QED BY <2>1, <2>2
<1>4. ASSUME NEW d \in Drones, Declare(d) PROVE Ages'
  <2>1. PICK m \in Claim : /\ m.at = sent
                           /\ claimsA' = [claimsA EXCEPT ![d] = Append(@, m)]
                           /\ claimsM' = [claimsM EXCEPT ![d] = Append(@, m)]
    BY <1>4, DeclareFact
  <2>2. sent \in m.at .. m.at + MaxLag /\ m.at > MaxLag
    BY <1>4, <2>1, ParameterFact DEF Declare
  <2>3. \A e \in Drones : /\ ToSet(claimsA'[e]) \subseteq ToSet(claimsA[e]) \cup {m}
                          /\ ToSet(claimsM'[e]) \subseteq ToSet(claimsM[e]) \cup {m}
    BY <2>1, Contents, ToSetAppend DEF ScoringTypeOK
  <2>4. sent' = sent /\ truthM' = truthM
    BY <1>4 DEF Declare
  <2>5. QED BY <2>2, <2>3, <2>4
<1>5. ASSUME NEW d \in Drones, OnCapture(d) PROVE Ages'
  <2>1. \A e \in Drones : ToSet(claimsA'[e]) \subseteq ToSet(claimsA[e])
    BY <1>5, Contents, ToSetTail DEF OnCapture, ScoringTypeOK
  <2>2. sent' = sent /\ truthM' = truthM /\ claimsM' = claimsM
    BY <1>5 DEF OnCapture
  <2>3. QED BY <2>1, <2>2
<1>6. ASSUME NEW d \in Drones, OnEvent(d) PROVE Ages'
  <2>1. \A e \in Drones : ToSet(claimsM'[e]) \subseteq ToSet(claimsM[e])
    BY <1>6, Contents, ToSetTail DEF OnEvent, ScoringTypeOK
  <2>2. sent' = sent /\ truthM' = truthM /\ claimsA' = claimsA
    BY <1>6 DEF OnEvent
  <2>3. QED BY <2>1, <2>2
<1>7. ASSUME NEW t \in Targets, OnTruth(t) PROVE Ages'
  <2>1. \A u \in Targets : ToSet(truthM'[u]) \subseteq ToSet(truthM[u])
    BY <1>7, Contents, ToSetTail DEF OnTruth, ScoringTypeOK
  <2>2. sent' = sent /\ claimsA' = claimsA /\ claimsM' = claimsM
    BY <1>7 DEF OnTruth
  <2>3. QED BY <2>1, <2>2
<1>8. ASSUME NEW t \in Targets, OnOdom(t) PROVE Ages'
  BY <1>8 DEF OnOdom
<1>9. CASE OnDone
  BY <1>9 DEF OnDone
<1>10. CASE OnClock
  BY <1>10 DEF OnClock
<1>11. QED
  BY <1>1, <1>2, <1>3, <1>4, <1>5, <1>6, <1>7, <1>8, <1>9, <1>10 DEF ScoringNext

-----------------------------------------------------------------------------
(* What the two judges know of a target that lives                         *)

\* What a truth of age now - a says of a place, a tick later and of an older truth.
LEMMA Aged ==
  ASSUME NEW p \in Int, NEW q \in Int, NEW z \in Int, NEW c \in Int, NEW now \in Int, NEW a \in Int,
         Within(p, q, c + now - a), Within(z, q, 1)
  PROVE  Within(p, z, c + (now + 1) - a)
BY DEF Within

LEMMA Older ==
  ASSUME NEW p \in Int, NEW q \in Int, NEW now \in Int,
         NEW c \in Int, NEW a \in Int, NEW e \in Int, NEW b \in Int,
         Within(p, q, c + now - a), c + b <= e + a
  PROVE  Within(p, q, e + now - b)
BY DEF Within

LEMMA TruthFact ==
  /\ MaxLag \in Nat \ {0}
  /\ \A x \in Truth : x.at \in Nat /\ x.point \in Int /\ x.point # None
  /\ \A q \in Seq(Truth) : /\ Len(q) \in Nat
                           /\ \A i \in 1 .. Len(q) : q[i] \in Truth
                           /\ q # <<>> <=> Len(q) > 0
<1>1. \A x \in Truth : x.at \in Nat /\ x.point \in Int /\ x.point # None
  BY PointFact DEF Truth
<1>2. QED BY <1>1, ParameterFact

\* A tick of flight.
LEMMA LeadsOn ==
  ASSUME NEW q \in Seq(Truth), NEW known, known # None => known \in Int,
         NEW place \in Int, NEW next \in Int, Within(next, place, 1),
         NEW now \in Int, NEW tick \in Int, NEW slack \in Nat, NEW gap \in Nat,
         Leads(q, known, place, now, tick, slack, gap)
  PROVE  Leads(q, known, next, now + 1, tick, slack, gap)
<1>1. ASSUME NEW i \in 1 .. Len(q), q[i].at > MaxLag
      PROVE  Within(q[i].point, next, slack + (now + 1) - q[i].at)
  <2>1. Within(q[i].point, place, slack + now - q[i].at)
    BY <1>1 DEF Leads
  <2>2. q[i].at \in Int /\ q[i].point \in Int /\ slack \in Int
    BY TruthFact
  <2>3. QED BY <2>1, <2>2, Aged, Zenon
<1>2. q = <<>> /\ tick > MaxLag => known # None /\ Within(known, next, slack + (now + 1) - tick)
  BY DEF Leads, Within
<1>3. q # <<>> /\ q[1].at > 2 * MaxLag =>
        known # None /\ Within(known, next, slack + gap + (now + 1) - q[1].at)
  <2> SUFFICES ASSUME q # <<>>, q[1].at > 2 * MaxLag
               PROVE  known # None /\ Within(known, next, slack + gap + (now + 1) - q[1].at)
    OBVIOUS
  <2>1. known # None /\ Within(known, place, slack + gap + now - q[1].at)
    BY DEF Leads
  <2>2. q[1].at \in Int /\ known \in Int /\ slack + gap \in Int
    BY <2>1, TruthFact
  <2>3. QED BY <2>1, <2>2, Aged, Zenon
<1>4. QED BY <1>1, <1>2, <1>3 DEF Leads

\* A truth is sent.
LEMMA LeadsPublished ==
  ASSUME NEW q \in Seq(Truth), NEW known, known # None => known \in Int,
         NEW place \in Int, NEW now \in Int, NEW tick \in Int, NEW slack \in Nat, NEW gap \in Nat,
         Leads(q, known, place, now, tick, slack, gap),
         tick < now, now <= tick + gap, gap <= MaxLag,
         NEW x \in Truth, x.at = now, now > MaxLag => Within(x.point, place, slack)
  PROVE  Leads(Append(q, x), known, place, now, tick + 1, slack, gap)
<1> DEFINE r == Append(q, x)
<1>1. x.at \in Nat /\ x.point \in Int /\ Len(q) \in Nat /\ MaxLag \in Nat \ {0} /\ (q = <<>> <=> Len(q) = 0)
  BY TruthFact
<1>2. /\ Len(r) = Len(q) + 1 /\ r # <<>> /\ r[Len(q) + 1] = x
      /\ \A i \in 1 .. Len(q) : r[i] = q[i]
  OBVIOUS
<1> HIDE DEF r
<1>3. ASSUME NEW i \in 1 .. Len(r), r[i].at > MaxLag
      PROVE  Within(r[i].point, place, slack + now - r[i].at)
  <2>1. CASE i = Len(q) + 1
    BY <1>1, <1>2, <1>3, <2>1 DEF Within
  <2>2. CASE i # Len(q) + 1
    <3>1. i \in 1 .. Len(q) /\ r[i] = q[i]
      BY <1>1, <1>2, <2>2
    <3>2. QED BY <1>3, <3>1 DEF Leads
  <2>3. QED BY <2>1, <2>2
<1>4. ASSUME NEW i \in 1 .. Len(r) - 1 PROVE r[i + 1].at <= r[i].at + gap
  <2>1. CASE i = Len(q)
    <3>1. q # <<>> /\ r[i + 1] = x /\ r[i] = q[Len(q)] /\ q[Len(q)].at \in Nat
      BY <1>1, <1>2, <1>4, <2>1, TruthFact
    <3>2. q[Len(q)].at >= tick
      BY <3>1 DEF Leads
    <3>3. QED BY <3>1, <3>2
  <2>2. CASE i # Len(q)
    <3>1. i \in 1 .. Len(q) - 1 /\ r[i + 1] = q[i + 1] /\ r[i] = q[i]
      BY <1>1, <1>2, <1>4, <2>2
    <3>2. QED BY <3>1 DEF Leads
  <2>3. QED BY <2>1, <2>2
<1>5. ASSUME r[1].at > 2 * MaxLag
      PROVE  known # None /\ Within(known, place, slack + gap + now - r[1].at)
  <2>1. CASE q = <<>>
    <3>1. r[1] = x /\ tick > MaxLag
      BY <1>1, <1>2, <1>5, <2>1
    <3>2. known # None /\ Within(known, place, slack + now - tick)
      BY <2>1, <3>1 DEF Leads
    <3>3. slack + r[1].at <= (slack + gap) + tick
      BY <1>1, <3>1
    <3>4. ASSUME NEW a \in Int, slack + a <= (slack + gap) + tick
          PROVE  Within(known, place, slack + gap + now - a)
      <4>1. known \in Int /\ slack \in Int /\ slack + gap \in Int
        BY <3>2
      <4>2. QED BY <3>2, <3>4, <4>1, Older, Zenon
    <3>5. r[1].at \in Int
      BY <1>1, <3>1
    <3>6. Within(known, place, slack + gap + now - r[1].at)
      BY <3>3, <3>4, <3>5, Zenon
    <3>7. QED BY <3>2, <3>6
  <2>2. CASE q # <<>>
    <3>1. r[1] = q[1]
      BY <1>1, <1>2, <2>2
    <3>2. QED BY <1>5, <2>2, <3>1 DEF Leads
  <2>3. QED BY <2>1, <2>2
<1>6. r[Len(r)].at >= tick + 1
  BY <1>1, <1>2
<1>7. Leads(r, known, place, now, tick + 1, slack, gap)
  BY <1>2, <1>3, <1>4, <1>5, <1>6 DEF Leads
<1>8. QED BY <1>7 DEF r

\* A truth arrives.
LEMMA LeadsDelivered ==
  ASSUME NEW q \in Seq(Truth), q # <<>>, NEW known, known # None => known \in Int,
         NEW place \in Int, NEW now \in Int, NEW tick \in Int, NEW slack \in Nat, NEW gap \in Nat,
         Leads(q, known, place, now, tick, slack, gap), gap <= MaxLag
  PROVE  Leads(Tail(q), Head(q).point, place, now, tick, slack, gap)
<1> DEFINE r == Tail(q)
<1>1. /\ Len(q) \in Nat \ {0} /\ MaxLag \in Nat \ {0}
      /\ q[1].at \in Nat /\ q[1].point \in Int /\ q[1].point # None
  BY TruthFact
<1>2. /\ Head(q) = q[1] /\ Len(r) = Len(q) - 1
      /\ \A i \in 1 .. Len(q) - 1 : r[i] = q[i + 1]
      /\ r = <<>> <=> Len(r) = 0
  <2>1. /\ Tail(q) \in Seq(Truth) /\ Len(Tail(q)) = Len(q) - 1
        /\ \A i \in 1 .. Len(Tail(q)) : Tail(q)[i] = q[i + 1]
    BY HeadTailProperties
  <2>2. Head(q) = q[1]
    OBVIOUS
  <2>3. \A z \in Seq(Truth) : z = <<>> <=> Len(z) = 0
    BY TruthFact
  <2>4. QED BY <1>1, <2>1, <2>2, <2>3
<1> HIDE DEF r
<1>3. ASSUME NEW i \in 1 .. Len(r), r[i].at > MaxLag
      PROVE  Within(r[i].point, place, slack + now - r[i].at)
  <2>1. r[i] = q[i + 1] /\ i + 1 \in 1 .. Len(q)
    BY <1>1, <1>2, <1>3
  <2>2. QED BY <1>3, <2>1 DEF Leads
<1>4. ASSUME NEW i \in 1 .. Len(r) - 1 PROVE r[i + 1].at <= r[i].at + gap
  <2>1. r[i] = q[i + 1] /\ r[i + 1] = q[(i + 1) + 1] /\ i + 1 \in 1 .. Len(q) - 1
    BY <1>1, <1>2, <1>4
  <2>2. QED BY <2>1 DEF Leads
<1>5. r # <<>> => r[Len(r)].at >= tick
  <2>1. r # <<>> => r[Len(r)] = q[Len(q)]
    BY <1>1, <1>2
  <2>2. QED BY <2>1 DEF Leads
<1>6. ASSUME r = <<>>, tick > MaxLag
      PROVE  Within(q[1].point, place, slack + now - tick)
  <2>1. Len(q) = 1
    BY <1>1, <1>2, <1>6
  <2>2. q[1].at >= tick
    BY <2>1 DEF Leads
  <2>3. Within(q[1].point, place, slack + now - q[1].at)
    BY <1>1, <1>6, <2>1, <2>2 DEF Leads
  <2>4. slack + tick <= slack + q[1].at
    BY <1>1, <2>2
  <2>5. slack \in Int /\ q[1].at \in Int /\ q[1].point \in Int
    BY <1>1
  <2>6. QED BY <2>3, <2>4, <2>5, Older, Zenon
<1>7. ASSUME r # <<>>, r[1].at > 2 * MaxLag
      PROVE  Within(q[1].point, place, slack + gap + now - r[1].at)
  <2>1. r[1] = q[1 + 1] /\ 1 \in 1 .. Len(q) - 1 /\ q[2].at \in Nat
    BY <1>1, <1>2, <1>7, TruthFact
  <2>2. q[2].at <= q[1].at + gap
    BY <2>1 DEF Leads
  <2>3. q[1].at > MaxLag
    BY <1>1, <1>7, <2>1, <2>2
  <2>4. Within(q[1].point, place, slack + now - q[1].at)
    BY <1>1, <2>3 DEF Leads
  <2>5. slack + r[1].at <= (slack + gap) + q[1].at
    BY <1>1, <2>1, <2>2
  <2>6. /\ slack \in Int /\ slack + gap \in Int /\ r[1].at \in Int
        /\ q[1].at \in Int /\ q[1].point \in Int
    BY <1>1, <2>1
  <2>7. QED BY <2>4, <2>5, <2>6, Older, Zenon
<1>8. Leads(r, q[1].point, place, now, tick, slack, gap)
  BY <1>1, <1>3, <1>4, <1>5, <1>6, <1>7 DEF Leads
<1>9. QED BY <1>2, <1>8 DEF r

LEMMA ProfileFact ==
  ASSUME ScoringTypeOK
  PROVE  /\ Slack \in Nat /\ Gap \in Nat /\ Gap <= MaxLag
         /\ profile = "software-sim" => Slack = 0 /\ Gap = 1 /\ \A t : Place(t) = pos[t]
         /\ profile = "gazebo" => Slack = 1 /\ Gap = MaxLag /\ \A t : Place(t) = body[t]
         /\ \A t \in Targets : Place(t) \in Int
BY Typing, ParameterFact DEF Slack, Gap, Place

LEMMA TrackKept ==
  ASSUME ScoringTypeOK, PlacesOK', Clocks, TrackInv, ScoringNext
  PROVE  TrackInv'
<1>0. ASSUME NEW t \in alive
      PROVE  /\ t \in Targets /\ Tracked(t) /\ Reported(t)
             /\ truthM[t] \in Seq(Truth) /\ Place(t) \in Int
             /\ pos[t] \in Int /\ body[t] \in Int /\ sent \in Int /\ time \in Int
             /\ truth[t] # None => truth[t] \in Int
  BY Contents, Typing, ProfileFact DEF TrackInv, ScoringTypeOK
<1>i. /\ sent \in Int /\ time \in Int /\ time <= sent /\ MaxLag \in Nat \ {0}
      /\ \A t \in alive : /\ t \in Targets /\ Tracked(t) /\ pos[t] \in Int /\ body[t] \in Int
                          /\ body[t] # None /\ (odom[t] # None => odom[t] \in Int)
  BY <1>0, Typing, ParameterFact
<1>s. ASSUME UNCHANGED <<profile, sent, time, body, pos, odom, truth, truthM>>, alive' \subseteq alive
      PROVE  TrackInv'
  BY <1>s DEF TrackInv, Tracked, Reported, Leads, Place, Slack, Gap
<1>1. CASE Tick
  <2>1. profile = "software-sim" /\ profile' = profile /\ sent' = sent + 1 /\ time' = time + 1
        /\ alive' = alive /\ truth' = truth /\ time = sent
    BY <1>1, TickFact DEF Clocks
  <2> SUFFICES ASSUME NEW t \in alive PROVE Tracked(t)' /\ Reported(t)'
    BY <2>1 DEF TrackInv
  <2>2. pos'[t] \in Int /\ pos'[t] \in {pos[t] - 1, pos[t] + 1}
    BY <1>0, <1>1, TickFact
  <2>3. PICK x \in Truth : x.at = sent + 1 /\ x.point = pos'[t] /\ truthM'[t] = Append(truthM[t], x)
    BY <1>1, <2>1, Published
  <2>4. Leads(truthM[t], truth[t], pos'[t], sent + 1, time, 0, 1)
    <3>1. Leads(truthM[t], truth[t], pos[t], sent, time, 0, 1)
      BY <1>0, <2>1, ProfileFact DEF Reported
    <3>2. Within(pos'[t], pos[t], 1)
      BY <1>0, <2>2 DEF Within
    <3>3. QED BY <1>0, <2>2, <3>1, <3>2, LeadsOn
  <2>5. Leads(truthM'[t], truth[t], pos'[t], sent + 1, time + 1, 0, 1)
    <3>1. Within(x.point, pos'[t], 0)
      BY <2>2, <2>3 DEF Within
    <3>2. time < sent + 1 /\ sent + 1 <= time + 1 /\ 1 <= MaxLag /\ sent + 1 \in Int
      BY <1>0, <2>1, ParameterFact
    <3>3. QED BY <1>0, <2>2, <2>3, <2>4, <3>1, <3>2, LeadsPublished
  <2>6. Reported(t)'
    BY <2>1, <2>5 DEF Reported, Place, Slack, Gap
  <2>7. Tracked(t)'
    <3>1. Within(pos'[t], pos'[t], 2 * 0 + (sent + 1) - (time + 1))
      BY <1>i, <2>1, <2>2 DEF Within
    <3>2. QED BY <2>1, <3>1 DEF Tracked, Place, Slack
  <2>8. QED BY <2>6, <2>7
<1>2. CASE GazeboStep
  <2>1. profile = "gazebo" /\ profile' = profile /\ sent' = sent + 1 /\ time' = time
        /\ alive' = alive /\ truth' = truth /\ truthM' = truthM /\ odom' = odom /\ pos' = pos
    BY <1>2, GazeboStepFact
  <2> SUFFICES ASSUME NEW t \in alive PROVE Tracked(t)' /\ Reported(t)'
    BY <2>1 DEF TrackInv
  <2>2. body'[t] \in Int /\ body'[t] \in {body[t] - 1, body[t], body[t] + 1}
        /\ (odom[t] = body[t] \/ sent < MaxLag)
    BY <1>0, <1>2, GazeboStepFact
  <2>3. Within(body'[t], body[t], 1)
    BY <1>0, <2>2 DEF Within
  <2>4. Leads(truthM[t], truth[t], body'[t], sent + 1, time, 1, MaxLag)
    <3>1. Leads(truthM[t], truth[t], body[t], sent, time, 1, MaxLag) /\ MaxLag \in Nat
      BY <1>0, <2>1, ProfileFact, ParameterFact DEF Reported
    <3>2. QED BY <1>0, <2>2, <2>3, <3>1, LeadsOn
  <2>5. Reported(t)'
    BY <2>1, <2>4 DEF Reported, Place, Slack, Gap
  <2>6. sent + 1 > MaxLag => odom[t] # None /\ Within(odom[t], body'[t], 1)
    BY <1>i, <2>2 DEF Within
  <2>7. time > MaxLag => Within(pos[t], body'[t], 2 + (sent + 1) - time)
    <3>1. time > MaxLag => Within(pos[t], body[t], 2 * 1 + sent - time)
      BY <1>i, <2>1 DEF Tracked, Place, Slack
    <3>2. QED BY <1>i, <2>2, <3>1 DEF Within
  <2>8. Tracked(t)'
    BY <2>1, <2>6, <2>7 DEF Tracked, Place, Slack
  <2>9. QED BY <2>5, <2>8
<1>3. CASE OnClockTick
  <2>1. profile = "gazebo" /\ profile' = profile /\ sent' = sent /\ time' = time + 1 /\ time < sent
        /\ alive' = alive /\ truth' = truth /\ odom' = odom /\ body' = body
    BY <1>3, OnClockTickFact
  <2> SUFFICES ASSUME NEW t \in alive PROVE Tracked(t)' /\ Reported(t)'
    BY <2>1 DEF TrackInv
  <2>2. sent > MaxLag => odom[t] # None /\ odom[t] \in Int /\ Within(odom[t], body[t], 1)
    BY <1>0, <2>1, Typing DEF Tracked
  <2>3. ~Tick
    BY <2>1 DEF Tick
  <2>4. PICK x \in Truth : /\ x.at = sent /\ (odom[t] # None => x.point = odom[t])
                           /\ truthM'[t] = Append(truthM[t], x)
    BY <1>3, <2>1, <2>3, Published
  <2>5. Leads(truthM'[t], truth[t], body[t], sent, time + 1, 1, MaxLag)
    <3>0. sent > MaxLag => Within(x.point, body[t], 1)
      BY <2>2, <2>4
    <3>1. Leads(truthM[t], truth[t], body[t], sent, time, 1, MaxLag) /\ MaxLag \in Nat
      BY <1>0, <2>1, ProfileFact, ParameterFact DEF Reported
    <3>2. /\ sent <= time + MaxLag /\ time < sent /\ MaxLag <= MaxLag /\ 1 \in Nat
          /\ t \in Targets /\ truthM[t] \in Seq(Truth) /\ (truth[t] # None => truth[t] \in Int)
          /\ body[t] \in Int /\ sent \in Int /\ time \in Int
      BY <1>0, <1>i, <2>1, Typing
    <3>3. Leads(Append(truthM[t], x), truth[t], body[t], sent, time + 1, 1, MaxLag)
      BY <2>4, <3>0, <3>1, <3>2, LeadsPublished, Zenon
    <3>4. QED BY <2>4, <3>3
  <2>6. Reported(t)'
    BY <2>1, <2>5 DEF Reported, Place, Slack, Gap
  <2>7. sent > MaxLag => Within(pos'[t], body[t], 2)
    <3>1. sent > MaxLag => pos'[t] \in {odom[t] - 1, odom[t] + 1}
      BY <1>i, <1>3, <2>2, OnClockTickFact
    <3>2. QED BY <1>i, <2>2, <3>1 DEF Within
  <2>8. time + 1 > MaxLag => Within(pos'[t], body[t], 2 + sent - (time + 1))
    <3>1. time + 1 > MaxLag => sent > MaxLag
      BY <1>i, <2>1
    <3>2. pos'[t] \in Int
      BY <1>i, <1>3, OnClockTickFact
    <3>3. QED BY <1>i, <2>1, <2>7, <3>1, <3>2 DEF Within
  <2>9. Tracked(t)'
    BY <2>1, <2>2, <2>8 DEF Tracked, Place, Slack
  <2>10. QED BY <2>6, <2>9
<1>4. ASSUME NEW d \in Drones, Declare(d) PROVE TrackInv'
  BY <1>4, <1>s DEF Declare, gazebo, world, score
<1>5. ASSUME NEW d \in Drones, OnCapture(d) PROVE TrackInv'
  BY <1>5, <1>s DEF OnCapture, gazebo, score
<1>6. ASSUME NEW d \in Drones, OnEvent(d) PROVE TrackInv'
  BY <1>6, <1>s DEF OnEvent, gazebo, world
<1>7. ASSUME NEW u \in Targets, OnTruth(u) PROVE TrackInv'
  <2>1. /\ UNCHANGED <<profile, sent, time, body, pos, odom, alive>>
        /\ truthM[u] # <<>>
        /\ truth' = [truth EXCEPT ![u] = Head(truthM[u]).point]
        /\ truthM' = [truthM EXCEPT ![u] = Tail(@)]
    BY <1>7 DEF OnTruth, gazebo, world
  <2> SUFFICES ASSUME NEW t \in alive PROVE Tracked(t)' /\ Reported(t)'
    BY <2>1 DEF TrackInv
  <2>2. Tracked(t)'
    BY <1>0, <2>1 DEF Tracked, Place, Slack
  <2>3. Leads(truthM'[t], truth'[t], Place(t), sent, time, Slack, Gap)
    <3>1. CASE t = u
      <4>1. truthM'[t] = Tail(truthM[t]) /\ truth'[t] = Head(truthM[t]).point
        BY <1>0, <2>1, <3>1 DEF ScoringTypeOK
      <4>2. Leads(Tail(truthM[t]), Head(truthM[t]).point, Place(t), sent, time, Slack, Gap)
        BY <1>0, <2>1, <3>1, ProfileFact, LeadsDelivered DEF Reported
      <4>3. QED BY <4>1, <4>2
    <3>2. CASE t # u
      <4>1. truthM'[t] = truthM[t] /\ truth'[t] = truth[t]
        BY <1>0, <2>1, <3>2 DEF ScoringTypeOK
      <4>2. QED BY <1>0, <4>1 DEF Reported
    <3>3. QED BY <3>1, <3>2
  <2>4. QED BY <2>1, <2>2, <2>3 DEF Reported, Place, Slack, Gap
<1>8. ASSUME NEW u \in Targets, OnOdom(u) PROVE TrackInv'
  <2>1. /\ UNCHANGED <<profile, sent, time, body, pos, alive, truth, truthM>>
        /\ odom' = [odom EXCEPT ![u] = body[u]]
    BY <1>8 DEF OnOdom, world, score
  <2> SUFFICES ASSUME NEW t \in alive PROVE Tracked(t)' /\ Reported(t)'
    BY <2>1 DEF TrackInv
  <2>2. odom'[t] = odom[t] \/ odom'[t] = body[t]
    BY <1>0, <2>1 DEF ScoringTypeOK
  <2>3. Within(body[t], body[t], 1) /\ body[t] # None
    BY <1>0, Typing DEF Within
  <2>4. Tracked(t)'
    BY <1>0, <2>1, <2>2, <2>3 DEF Tracked, Place, Slack
  <2>5. Reported(t)'
    BY <1>0, <2>1 DEF Reported, Place, Slack, Gap
  <2>6. QED BY <2>4, <2>5
<1>9. CASE OnDone
  BY <1>9, <1>s DEF OnDone, gazebo, world
<1>10. CASE OnClock
  BY <1>10, <1>s DEF OnClock, gazebo, world
<1>11. QED
  BY <1>1, <1>2, <1>3, <1>4, <1>5, <1>6, <1>7, <1>8, <1>9, <1>10 DEF ScoringNext

-----------------------------------------------------------------------------
(* What is known of the target of an event on its way                      *)

\* The reach covers the age of all that a judge may know.
LEMMA ReachFact ==
  ASSUME ScoringTypeOK
  PROVE  /\ Margin + MaxLag + 2 * Slack <= Reach /\ MaxLag + 2 * Slack < Reach
         /\ Margin + MaxLag + Gap + Slack <= Reach /\ MaxLag + Gap + Slack < Reach
<1>1. CASE profile = "software-sim"
  BY <1>1, ProfileFact, ParameterFact
<1>2. CASE profile = "gazebo"
  BY <1>2, ProfileFact, ParameterFact, Typing
<1>3. QED BY <1>1, <1>2, Typing

LEMMA PlaceKept ==
  ASSUME ScoringTypeOK, ScoringNext
  PROVE  /\ profile' = profile
         /\ \/ sent' = sent /\ \A t \in alive : Place(t)' = Place(t)
            \/ sent' = sent + 1 /\ \A t \in alive : Place(t)' \in {Place(t) - 1, Place(t), Place(t) + 1}
<1> USE DEF Place
<1>1. CASE Tick
  BY <1>1, TickFact DEF ScoringTypeOK
<1>2. CASE GazeboStep
  BY <1>2, GazeboStepFact DEF ScoringTypeOK
<1>3. CASE OnClockTick
  BY <1>3, OnClockTickFact DEF ScoringTypeOK
<1>4. CASE \/ \E d \in Drones : Declare(d) \/ OnCapture(d) \/ OnEvent(d)
           \/ \E t \in Targets : OnTruth(t) \/ OnOdom(t)
           \/ OnDone \/ OnClock
  BY <1>4 DEF Declare, OnCapture, OnEvent, OnTruth, OnOdom, OnDone, OnClock, gazebo, world, score
<1>5. QED BY <1>1, <1>2, <1>3, <1>4 DEF ScoringNext

\* All that anybody gets to know of an attacker is where it is, more or less; nobody gets
\* to know anything more of a dead one.
LEMMA KnownKept ==
  ASSUME ScoringTypeOK, PlacesOK', TrackInv, ScoringNext, NEW t \in Targets
  PROVE  /\ truth[t] # None => truth'[t] # None
         /\ \A p \in Known(t)' :
              \/ p \in Known(t)
              \/ t \in alive /\ p \in Int /\ (sent > MaxLag => Within(p, Place(t)', 2 * Slack))
<1>s. ASSUME UNCHANGED <<pos, truth, truthM>>
      PROVE  /\ truth[t] # None => truth'[t] # None
             /\ \A p \in Known(t)' : p \in Known(t)
  BY <1>s DEF Known
<1>d. ASSUME UNCHANGED truth, t \notin alive, pos'[t] = pos[t], truthM'[t] = truthM[t]
      PROVE  /\ truth[t] # None => truth'[t] # None
             /\ \A p \in Known(t)' : p \in Known(t)
  BY <1>d DEF Known
<1>1. CASE Tick
  <2>1. truth' = truth
    BY <1>1, TickFact
  <2>2. CASE t \notin alive
    BY <1>1, <1>d, <2>2, TickFact
  <2>3. CASE t \in alive
    <3>1. PICK x \in Truth : x.point = pos'[t] /\ truthM'[t] = Append(truthM[t], x)
      BY <1>1, <2>3, Published
    <3>2. ToSet(truthM'[t]) = ToSet(truthM[t]) \cup {x}
      BY <3>1, Contents, ToSetAppend
    <3>3. \A p \in Known(t)' : p \in Known(t) \/ p = pos'[t]
      BY <2>1, <3>1, <3>2 DEF Known
    <3>4. profile = "software-sim" /\ profile' = profile /\ pos'[t] \in Int
      BY <1>1, TickFact
    <3>5. Place(t)' = pos'[t] /\ Within(pos'[t], pos'[t], 2 * Slack)
      BY <3>4, ProfileFact DEF Place, Within
    <3>6. QED BY <2>1, <2>3, <3>3, <3>4, <3>5
  <2>4. QED BY <2>2, <2>3
<1>2. CASE GazeboStep
  BY <1>2, <1>s, GazeboStepFact
<1>3. CASE OnClockTick
  <2>1. truth' = truth /\ body' = body /\ profile' = profile /\ profile = "gazebo"
    BY <1>3, OnClockTickFact
  <2>2. CASE t \notin alive
    BY <1>3, <1>d, <2>2, OnClockTickFact
  <2>3. CASE t \in alive
    <3>1. PICK x \in Truth : /\ truthM'[t] = Append(truthM[t], x)
                             /\ x.point = IF odom[t] # None THEN odom[t] ELSE pos'[t]
      BY <1>3, <2>1, <2>3, Published DEF Tick
    <3>2. ToSet(truthM'[t]) = ToSet(truthM[t]) \cup {x}
      BY <3>1, Contents, ToSetAppend
    <3>3. \A p \in Known(t)' : p \in Known(t) \/ p = pos'[t] \/ p = x.point
      BY <2>1, <3>1, <3>2 DEF Known
    <3>4. pos'[t] \in Int /\ x.point \in Int /\ body[t] \in Int
      BY <1>3, OnClockTickFact, TruthFact, Typing
    <3>5. sent > MaxLag => /\ odom[t] \in Int /\ Within(odom[t], body[t], 1) /\ x.point = odom[t]
                           /\ pos'[t] \in {odom[t] - 1, odom[t] + 1}
      BY <1>3, <2>1, <2>3, <3>1, OnClockTickFact, Typing DEF TrackInv, Tracked
    <3>6. sent > MaxLag => Within(pos'[t], body[t], 2) /\ Within(x.point, body[t], 2)
      BY <3>4, <3>5 DEF Within
    <3>7. Place(t)' = body[t] /\ 2 * Slack = 2
      BY <2>1, ProfileFact DEF Place
    <3>8. QED BY <2>1, <2>3, <3>3, <3>4, <3>6, <3>7
  <2>4. QED BY <2>2, <2>3
<1>4. ASSUME NEW u \in Targets, OnTruth(u)
      PROVE  /\ truth[t] # None => truth'[t] # None
             /\ \A p \in Known(t)' : p \in Known(t)
  <2>1. CASE t = u
    <3>1. /\ pos' = pos /\ truthM[t] # <<>> /\ truth'[t] = Head(truthM[t]).point
          /\ truthM'[t] = Tail(truthM[t])
      BY <1>4, <2>1 DEF OnTruth, ScoringTypeOK, world
    <3>2. /\ Head(truthM[t]) \in Truth
          /\ ToSet(truthM[t]) = {Head(truthM[t])} \cup ToSet(Tail(truthM[t]))
      BY <3>1, Contents, ToSetTail
    <3>3. QED BY <3>1, <3>2, TruthFact DEF Known
  <2>2. CASE t # u
    BY <1>4, <2>2 DEF OnTruth, ScoringTypeOK, Known, world
  <2>3. QED BY <2>1, <2>2
<1>5. CASE \/ \E d \in Drones : Declare(d) \/ OnCapture(d) \/ OnEvent(d)
           \/ \E u \in Targets : OnOdom(u)
           \/ OnDone \/ OnClock
  BY <1>5, <1>s DEF Declare, OnCapture, OnEvent, OnOdom, OnDone, OnClock, gazebo, world, score
<1>6. QED BY <1>1, <1>2, <1>3, <1>4, <1>5 DEF ScoringNext

\* What has been judged right stays right, and what has been judged wide stays wide, for
\* as long as it is on its way.
LEMMA AimStep ==
  ASSUME ScoringTypeOK, PlacesOK', TrackInv, ScoringNext,
         NEW m \in Claim, Fresh(m), Fresh(m)', m.at > MaxLag
  PROVE  /\ m.target \in alive => (Near(m) => Near(m)') /\ (Far(m) => Far(m)')
         /\ m.target \notin alive => (Sure(m) => Sure(m)')
<1> DEFINE t == m.target
<1>1. t \in Targets /\ m.point \in Int /\ m.at \in Nat
  BY Contents
<1>2. CASE t \notin alive
  BY <1>1, <1>2, KnownKept DEF Sure
<1>3. CASE t \in alive
  <2>1. /\ sent \in Int /\ sent' \in Int /\ Place(t) \in Int /\ Place(t)' \in Int /\ Slack \in Nat
        /\ MaxLag \in Nat \ {0} /\ Margin \in Nat /\ Reach \in Nat
        /\ sent - m.at <= MaxLag /\ sent' - m.at <= MaxLag /\ sent > MaxLag
    <3>1. /\ sent \in Int /\ Place(t) \in Int /\ Slack \in Nat
          /\ MaxLag \in Nat \ {0} /\ Margin \in Nat /\ Reach \in Nat
      BY <1>1, Typing, ProfileFact, ParameterFact
    <3>2. sent' \in Int /\ Place(t)' \in Int
      BY <1>1, <1>3, <3>1, PlaceKept
    <3>3. QED BY <1>1, <3>1, <3>2 DEF Fresh
  <2>2. \/ sent' = sent /\ Place(t)' = Place(t)
        \/ sent' = sent + 1 /\ Place(t)' \in {Place(t) - 1, Place(t), Place(t) + 1}
    BY <1>3, PlaceKept
  <2>3. \A p \in Known(t)' : p \in Known(t) \/ (p \in Int /\ Within(p, Place(t)', 2 * Slack))
    BY <1>1, <2>1, KnownKept
  <2>4. ASSUME Near(m) PROVE Near(m)'
    <3>1. Within(m.point, Place(t)', Margin + sent' - m.at)
      <4>1. Within(m.point, Place(t), Margin + sent - m.at)
        BY <2>4 DEF Near
      <4>2. QED BY <1>1, <2>1, <2>2, <4>1 DEF Within
    <3>2. ASSUME NEW p \in Known(t)' PROVE InReach(p, m.point)
      <4>1. CASE p \in Known(t)
        BY <2>4, <4>1 DEF Near, Sure
      <4>2. CASE p \in Int /\ Within(p, Place(t)', 2 * Slack)
        BY <1>1, <2>1, <3>1, <4>2, ReachFact DEF Within, InReach
      <4>3. QED BY <2>3, <3>2, <4>1, <4>2
    <3>3. truth'[t] # None
      BY <1>1, <2>4, KnownKept DEF Near, Sure
    <3>4. QED BY <3>1, <3>2, <3>3 DEF Near, Sure
  <2>5. ASSUME Far(m) PROVE Far(m)'
    <3>1. ~Within(m.point, Place(t)', 2 * Reach - Margin - (sent' - m.at))
      <4>1. ~Within(m.point, Place(t), 2 * Reach - Margin - (sent - m.at))
        BY <2>5 DEF Far
      <4>2. QED BY <1>1, <2>1, <2>2, <4>1 DEF Within
    <3>2. ASSUME NEW p \in Known(t)' PROVE ~InReach(p, m.point)
      <4>1. CASE p \in Known(t)
        BY <2>5, <4>1 DEF Far, Vain
      <4>2. CASE p \in Int /\ Within(p, Place(t)', 2 * Slack)
        BY <1>1, <2>1, <3>1, <4>2, ReachFact DEF Within, InReach
      <4>3. QED BY <2>3, <3>2, <4>1, <4>2
    <3>3. truth'[t] # None
      BY <1>1, <2>5, KnownKept DEF Far, Vain
    <3>4. QED BY <3>1, <3>2, <3>3 DEF Far, Vain
  <2>6. QED BY <1>3, <2>4, <2>5
<1>4. QED BY <1>2, <1>3

\* By the time of a capture the monitor has heard of its target, not long ago.
LEMMA TruthIsNear ==
  ASSUME ScoringTypeOK, Ages, TrackInv, time > 3 * MaxLag, NEW t \in alive
  PROVE  /\ truth[t] # None
         /\ \A p \in Known(t) : p \in Int /\ Within(p, Place(t), MaxLag + Gap + Slack)
<1> DEFINE q == truthM[t]
<1>1. /\ t \in Targets /\ q \in Seq(Truth) /\ Reported(t) /\ Tracked(t)
  BY Contents DEF TrackInv, ScoringTypeOK
<1>2. /\ sent \in Int /\ time \in Int /\ Place(t) \in Int /\ time <= sent /\ sent <= time + MaxLag
      /\ Slack \in Nat /\ Gap \in Nat /\ MaxLag \in Nat \ {0} /\ pos[t] \in Int /\ Slack <= Gap
  <2>1. t \in Targets
    BY <1>1
  <2>2. QED BY <2>1, Typing, ProfileFact, ParameterFact
<1>3. \A x \in ToSet(q) : x.at \in Int /\ x.point \in Int /\ sent - x.at <= MaxLag /\ x.at > 2 * MaxLag
  <2>1. \A x \in ToSet(q) : x.at \in Int /\ x.point \in Int /\ sent \in x.at .. x.at + MaxLag
    BY <1>1, Contents DEF Ages, Fresh
  <2>2. QED BY <1>2, <2>1
<1>4. truth[t] # None /\ Within(truth[t], Place(t), MaxLag + Gap + Slack)
  <2>1. CASE q = <<>>
    <3>1. truth[t] # None /\ Within(truth[t], Place(t), Slack + sent - time)
      BY <1>1, <1>2, <2>1 DEF Reported, Leads
    <3>2. truth[t] \in Int
      BY <1>1, <3>1, Typing
    <3>3. QED BY <1>2, <3>1, <3>2 DEF Within
  <2>2. CASE q # <<>>
    <3>1. q[1] \in ToSet(q)
      BY <1>1, <2>2 DEF ToSet
    <3>2. truth[t] # None /\ Within(truth[t], Place(t), Slack + Gap + sent - q[1].at)
      BY <1>1, <1>3, <2>2, <3>1 DEF Reported, Leads
    <3>3. truth[t] \in Int
      BY <1>1, <3>2, Typing
    <3>4. PICK a \in Int : a = q[1].at /\ sent - a <= MaxLag
      BY <1>3, <3>1
    <3>5. Within(truth[t], Place(t), Slack + Gap + sent - a)
      BY <3>2, <3>4
    <3>6. QED BY <1>2, <3>2, <3>3, <3>4, <3>5 DEF Within
  <2>3. QED BY <2>1, <2>2
<1>5. ASSUME NEW x \in ToSet(q) PROVE Within(x.point, Place(t), MaxLag + Gap + Slack)
  <2>1. PICK i \in 1 .. Len(q) : x = q[i]
    BY <1>1, <1>5 DEF ToSet
  <2>2. x.at \in Int /\ x.point \in Int /\ sent - x.at <= MaxLag /\ x.at > MaxLag
    BY <1>2, <1>3, <1>5
  <2>3. Within(x.point, Place(t), Slack + sent - x.at)
    BY <1>1, <2>1, <2>2 DEF Reported, Leads
  <2>4. QED BY <1>2, <2>2, <2>3 DEF Within
<1>6. Within(pos[t], Place(t), MaxLag + Gap + Slack)
  <2>1. Within(pos[t], Place(t), 2 * Slack + sent - time)
    BY <1>1, <1>2 DEF Tracked
  <2>2. QED BY <1>2, <2>1 DEF Within
<1>7. truth[t] \in Int
  BY <1>1, <1>4, Typing
<1>8. QED BY <1>2, <1>3, <1>4, <1>5, <1>6, <1>7 DEF Known

LEMMA QueueStep ==
  ASSUME ScoringTypeOK, ScoringNext
  PROVE  /\ alive' \subseteq alive /\ unclear \subseteq unclear'
         /\ \A d \in Drones :
              \/ Declare(d)
              \/ /\ ToSet(claimsA'[d]) \subseteq ToSet(claimsA[d])
                 /\ ToSet(claimsM'[d]) \subseteq ToSet(claimsM[d])
<1> USE DEF world, fired
<1>1. CASE Tick \/ GazeboStep \/ OnClockTick
  BY <1>1, TickFact, GazeboStepFact, OnClockTickFact
<1>2. ASSUME NEW d \in Drones, Declare(d) \/ OnCapture(d) \/ OnEvent(d)
      PROVE  /\ alive' \subseteq alive /\ unclear \subseteq unclear'
             /\ \A e \in Drones :
                  \/ Declare(e)
                  \/ /\ ToSet(claimsA'[e]) \subseteq ToSet(claimsA[e])
                     /\ ToSet(claimsM'[e]) \subseteq ToSet(claimsM[e])
  <2>1. CASE Declare(d)
    BY <2>1, DeclareFact DEF ScoringTypeOK, Declare
  <2>2. CASE OnCapture(d)
    BY <2>2, Contents, ToSetTail DEF ScoringTypeOK, OnCapture
  <2>3. CASE OnEvent(d)
    BY <2>3, Contents, ToSetTail DEF ScoringTypeOK, OnEvent
  <2>4. QED BY <1>2, <2>1, <2>2, <2>3
<1>3. CASE (\E t \in Targets : OnTruth(t) \/ OnOdom(t)) \/ OnDone \/ OnClock
  BY <1>3 DEF OnTruth, OnOdom, OnDone, OnClock
<1>4. QED BY <1>1, <1>2, <1>3 DEF ScoringNext

\* What a drone declares clearly is right for either judge, or wrong for both.
LEMMA DeclaredAim ==
  ASSUME ScoringTypeOK, Ages, TrackInv, time > 3 * MaxLag,
         NEW m \in Claim, m.target \in alive, m.at = sent,
         Declared(m)
  PROVE  Near(m) \/ Far(m)
<1> DEFINE t == m.target
<1>1. /\ t \in Targets /\ m.point \in Int /\ Place(t) \in Int /\ sent \in Int
      /\ Slack \in Nat /\ Gap \in Nat /\ MaxLag \in Nat /\ Margin \in Nat /\ Reach \in Nat
  <2>1. t \in Targets /\ m.point \in Int
    BY Contents
  <2>2. QED BY <2>1, Typing, ProfileFact, ParameterFact
<1>2. truth[t] # None /\ \A p \in Known(t) : p \in Int /\ Within(p, Place(t), MaxLag + Gap + Slack)
  BY TruthIsNear
<1>3. CASE Within(m.point, Place(t), Margin)
  <2>1. Within(m.point, Place(t), Margin + sent - m.at)
    BY <1>1, <1>3 DEF Within
  <2>2. ASSUME NEW p \in Known(t) PROVE InReach(p, m.point)
    BY <1>1, <1>2, <1>3, ReachFact DEF Within, InReach
  <2>3. QED BY <1>2, <2>1, <2>2 DEF Near, Sure
<1>4. CASE ~Within(m.point, Place(t), 2 * Reach - Margin)
  <2>1. ~Within(m.point, Place(t), 2 * Reach - Margin - (sent - m.at))
    BY <1>1, <1>4 DEF Within
  <2>2. ASSUME NEW p \in Known(t) PROVE ~InReach(p, m.point)
    BY <1>1, <1>2, <1>4, ReachFact DEF Within, InReach
  <2>3. QED BY <1>2, <2>1, <2>2 DEF Far, Vain
<1>5. QED BY <1>3, <1>4 DEF Declared

LEMMA AimKept ==
  ASSUME ScoringTypeOK, PlacesOK', Ages, Ages', TrackInv, AimInv, ScoringNext
  PROVE  AimInv'
<1> SUFFICES ASSUME NEW d \in Drones, NEW m \in Shots(claimsA[d])' \cup Shots(claimsM[d])',
                    m.target \in alive' \ unclear'
             PROVE  Near(m)' \/ Far(m)'
  BY DEF AimInv
<1>1. m.target \in alive \ unclear
  BY QueueStep
<1>2. CASE m \in Shots(claimsA[d]) \cup Shots(claimsM[d])
  <2>1. m \in InFlight(d) /\ m \in InFlight(d)'
    BY <1>2 DEF Shots, InFlight
  <2>2. m \in Claim /\ Fresh(m) /\ Fresh(m)' /\ m.at > MaxLag
    BY <2>1, Contents DEF Ages, InFlight
  <2>3. QED BY <1>1, <1>2, <2>2, AimStep DEF AimInv
<1>3. CASE m \notin Shots(claimsA[d]) \cup Shots(claimsM[d])
  <2>1. Declare(d)
    BY <1>3, QueueStep DEF Shots
  <2>2. PICK n \in Claim :
          /\ n.at = sent
          /\ n.result = "SUCCESS" /\ n.target \notin unclear' => Declared(n)
          /\ claimsA' = [claimsA EXCEPT ![d] = Append(@, n)]
          /\ claimsM' = [claimsM EXCEPT ![d] = Append(@, n)]
    BY <2>1, DeclareFact
  <2>3. /\ ToSet(claimsA'[d]) = ToSet(claimsA[d]) \cup {n}
        /\ ToSet(claimsM'[d]) = ToSet(claimsM[d]) \cup {n}
    BY <2>2, Contents, ToSetAppend DEF ScoringTypeOK
  <2>4. m = n /\ n.result = "SUCCESS"
    BY <1>3, <2>3 DEF Shots
  <2>5. Near(m) \/ Far(m)
    BY <1>1, <2>1, <2>2, <2>4, DeclaredAim DEF Declare
  <2>6. UNCHANGED <<profile, sent, body, pos, truth, truthM>>
    BY <2>1 DEF Declare, gazebo, world, score
  <2>7. QED BY <2>5, <2>6 DEF Near, Far, Sure, Vain, Known, Place
<1>4. QED BY <1>2, <1>3

\* A step does not change the mind of a judge about an event on its way.
LEMMA Sureness ==
  ASSUME ScoringTypeOK, PlacesOK', Ages, Ages', TrackInv, AimInv, ScoringNext,
         NEW d \in Drones, NEW m \in Shots(claimsA[d]) \cup Shots(claimsM[d])
  PROVE  m.target \notin unclear =>
           /\ m.target \in alive => (Sure(m)' <=> Sure(m))
           /\ Sure(m) => Sure(m)'
<1>1. CASE UNCHANGED <<pos, truth, truthM>>
  BY <1>1 DEF Sure, Known
<1>2. CASE UNCHANGED <<claimsA, claimsM>>
  <2>1. m \in InFlight(d) /\ m \in InFlight(d)'
    BY <1>2 DEF Shots, InFlight
  <2>2. m \in Claim /\ Fresh(m) /\ Fresh(m)' /\ m.at > MaxLag
    BY <2>1, Contents DEF Ages, InFlight
  <2>3. m.target \in alive \ unclear => Near(m) \/ Far(m)
    BY DEF AimInv
  <2>4. /\ (Near(m) => Sure(m)) /\ (Far(m) => ~Sure(m))
        /\ (Near(m)' => Sure(m)') /\ (Far(m)' => ~Sure(m)')
    BY DEF Near, Far, Sure, Vain, Known
  <2>5. QED BY <2>2, <2>3, <2>4, AimStep
<1>3. CASE Tick \/ GazeboStep \/ OnClockTick
  BY <1>2, <1>3, TickFact, GazeboStepFact, OnClockTickFact
<1>4. CASE \E t \in Targets : OnTruth(t)
  BY <1>2, <1>4 DEF OnTruth
<1>5. CASE \/ \E e \in Drones : Declare(e) \/ OnCapture(e) \/ OnEvent(e)
           \/ \E t \in Targets : OnOdom(t)
           \/ OnDone \/ OnClock
  BY <1>1, <1>5 DEF Declare, OnCapture, OnEvent, OnOdom, OnDone, OnClock, world, score
<1>6. QED BY <1>3, <1>4, <1>5 DEF ScoringNext

LEMMA OnTheWayKept ==
  ASSUME ScoringTypeOK, PlacesOK', Ages, Ages', TrackInv, AimInv, OnTheWay, ScoringNext
  PROVE  OnTheWay'
<1> USE DEF OnTheWay
<1>0. \A d \in Drones : \A m \in Shots(claimsA[d]) \cup Shots(claimsM[d]) :
        /\ m.target \in Targets
        /\ m.target \in alive \ unclear => (Sure(m)' <=> Sure(m))
        /\ m.target \notin unclear /\ Sure(m) => Sure(m)'
  BY Sureness, Contents DEF Shots
<1>a. ASSUME UNCHANGED <<claimsA, claimsM, alive, captured, unclear>>, done' \/ ended' = "neutralised" => alive = {}
      PROVE  OnTheWay'
  <2>1. \A d \in Drones : Shots(claimsA[d])' = Shots(claimsA[d]) /\ Shots(claimsM[d])' = Shots(claimsM[d])
    BY <1>a DEF Shots
  <2>2. ASSUME NEW t \in (captured \cap alive) \ unclear
        PROVE  \E d \in Drones : \E m \in Shots(claimsA[d]) : m.target = t /\ Sure(m)'
    BY <1>0
  <2>3. ASSUME NEW t \in Targets \ (alive \cup captured \cup unclear)
        PROVE  \E d \in Drones : \E m \in Shots(claimsM[d]) : m.target = t /\ Sure(m)'
    BY <1>0
  <2>4. QED BY <1>0, <1>a, <2>1, <2>2, <2>3
<1>1. CASE Tick
  BY <1>1, <1>a, TickFact
<1>2. CASE GazeboStep
  BY <1>2, <1>a, GazeboStepFact
<1>3. CASE OnClockTick
  BY <1>3, <1>a, OnClockTickFact
<1>4. ASSUME NEW d \in Drones, Declare(d) PROVE OnTheWay'
  <2>1. PICK n \in Claim : /\ claimsA' = [claimsA EXCEPT ![d] = Append(@, n)]
                           /\ claimsM' = [claimsM EXCEPT ![d] = Append(@, n)]
                           /\ unclear \subseteq unclear'
    BY <1>4, DeclareFact
  <2>2. UNCHANGED <<pos, truth, truthM, alive, captured, done, ended>>
    BY <1>4 DEF Declare, world, score
  <2>3. \A m : Sure(m)' <=> Sure(m)
    BY <2>2 DEF Sure, Known
  <2>4. DEFINE new == IF n.result = "SUCCESS" THEN {n} ELSE {}
  <2>5. \A e \in Drones :
          /\ Shots(claimsA[e])' = Shots(claimsA[e]) \cup (IF e = d THEN new ELSE {})
          /\ Shots(claimsM[e])' = Shots(claimsM[e]) \cup (IF e = d THEN new ELSE {})
    <3>1. \A e \in Drones :
            /\ ToSet(claimsA'[e]) = ToSet(claimsA[e]) \cup (IF e = d THEN {n} ELSE {})
            /\ ToSet(claimsM'[e]) = ToSet(claimsM[e]) \cup (IF e = d THEN {n} ELSE {})
      BY <2>1, Contents, ToSetAppend DEF ScoringTypeOK
    <3>2. QED BY <3>1 DEF Shots
  <2>6. \A m \in new : m \in Shots(claimsA[d])' /\ m \in Shots(claimsM[d])'
    BY <2>5
  <2> HIDE DEF new
  <2>7. ASSUME NEW e \in Drones
        PROVE  /\ \A m \in Shots(claimsM[e])' :
                    m.target \in alive \ unclear' /\ Sure(m)' => m \in Shots(claimsA[e])'
               /\ \A m \in Shots(claimsA[e])' :
                    m.target \in alive \ unclear' /\ Sure(m)' =>
                      m \in Shots(claimsM[e])' \/ m.target \in captured
    BY <2>1, <2>3, <2>5, <2>6
  <2>8. ASSUME NEW t \in (captured \cap alive) \ unclear'
        PROVE  \E e \in Drones : \E m \in Shots(claimsA[e])' : m.target = t /\ Sure(m)'
    <3>1. PICK e \in Drones : \E m \in Shots(claimsA[e]) : m.target = t /\ Sure(m)
      BY <2>1
    <3>2. QED BY <2>3, <2>5, <3>1
  <2>9. ASSUME NEW t \in Targets \ (alive \cup captured \cup unclear')
        PROVE  \E e \in Drones : \E m \in Shots(claimsM[e])' : m.target = t /\ Sure(m)'
    <3>1. PICK e \in Drones : \E m \in Shots(claimsM[e]) : m.target = t /\ Sure(m)
      BY <2>1
    <3>2. QED BY <2>3, <2>5, <3>1
  <2>10. QED BY <2>2, <2>7, <2>8, <2>9
<1>5. ASSUME NEW d \in Drones, OnCapture(d) PROVE OnTheWay'
  <2> DEFINE h == Head(claimsA[d])
  <2>1. /\ UNCHANGED <<pos, truth, truthM, claimsM, captured, done, ended, unclear>>
        /\ claimsA' = [claimsA EXCEPT ![d] = Tail(@)] /\ claimsA[d] # <<>>
        /\ alive' = IF h.result = "SUCCESS" /\ InReach(pos[h.target], h.point)
                    THEN alive \ {h.target} ELSE alive
    BY <1>5 DEF OnCapture, score, fired
  <2>2. \A m : Sure(m)' <=> Sure(m)
    BY <2>1 DEF Sure, Known
  <2>3. /\ h \in Claim /\ h \in ToSet(claimsA[d])
        /\ \A e \in Drones : /\ Shots(claimsA[e])' \subseteq Shots(claimsA[e])
                             /\ Shots(claimsA[e]) \subseteq Shots(claimsA[e])' \cup {h}
                             /\ e # d => Shots(claimsA[e])' = Shots(claimsA[e])
                             /\ Shots(claimsM[e])' = Shots(claimsM[e])
    BY <2>1, Contents, ToSetTail DEF ScoringTypeOK, Shots
  <2>4. h.result = "SUCCESS" => h \in Shots(claimsA[d])
    BY <2>3 DEF Shots
  <2>5. ASSUME NEW e \in Drones, NEW m \in Shots(claimsA[e]), m.target \in alive', Sure(m)
        PROVE  m \in Shots(claimsA[e])'
    <3>1. InReach(pos[m.target], m.point)
      BY <2>5 DEF Sure, Known
    <3>2. m.result = "SUCCESS"
      BY DEF Shots
    <3>3. m # h
      BY <2>1, <2>5, <3>1, <3>2
    <3>4. QED BY <2>3, <3>3
  <2>6. ASSUME NEW t \in alive \ alive', t \notin captured, t \notin unclear
        PROVE  \E e \in Drones : \E m \in Shots(claimsM[e]) : m.target = t /\ Sure(m)
    <3>1. h.result = "SUCCESS" /\ InReach(pos[h.target], h.point) /\ t = h.target
      BY <2>1, <2>6
    <3>2. Near(h) \/ Far(h)
      BY <2>4, <2>6, <3>1 DEF AimInv
    <3>3. Sure(h)
      BY <3>1, <3>2 DEF Near, Far, Vain, Known
    <3>4. QED BY <2>4, <2>6, <3>1, <3>3
  <2>7. alive' \subseteq alive
    BY <2>1
  <2>8. QED BY <2>1, <2>2, <2>3, <2>5, <2>6, <2>7
<1>6. ASSUME NEW d \in Drones, OnEvent(d) PROVE OnTheWay'
  <2> DEFINE h == Head(claimsM[d])
  <2> DEFINE hit == /\ h.result = "SUCCESS" /\ truth[h.target] # None
                    /\ InReach(truth[h.target], h.point) /\ h.target \notin captured
  <2>1. /\ UNCHANGED <<pos, truth, truthM, claimsA, alive, done, ended, unclear>>
        /\ claimsM' = [claimsM EXCEPT ![d] = Tail(@)] /\ claimsM[d] # <<>>
        /\ captured' = IF hit THEN captured \cup {h.target} ELSE captured
    BY <1>6 DEF OnEvent, world, fired
  <2>2. \A m : Sure(m)' <=> Sure(m)
    BY <2>1 DEF Sure, Known
  <2>3. /\ h \in Claim /\ h \in ToSet(claimsM[d])
        /\ \A e \in Drones : /\ Shots(claimsM[e])' \subseteq Shots(claimsM[e])
                             /\ Shots(claimsM[e]) \subseteq Shots(claimsM[e])' \cup {h}
                             /\ Shots(claimsA[e])' = Shots(claimsA[e])
    BY <2>1, Contents, ToSetTail DEF ScoringTypeOK, Shots
  <2>4. h.result = "SUCCESS" => h \in Shots(claimsM[d])
    BY <2>3 DEF Shots
  <2>5. ASSUME NEW e \in Drones, NEW m \in Shots(claimsM[e]), Sure(m), m.target \notin captured'
        PROVE  m \in Shots(claimsM[e])'
    <3>1. truth[m.target] # None /\ InReach(truth[m.target], m.point) /\ m.result = "SUCCESS"
      BY <2>5 DEF Sure, Known, Shots
    <3>2. m # h
      BY <2>1, <2>5, <3>1
    <3>3. QED BY <2>3, <3>2
  <2>6. ASSUME NEW t \in captured' \cap alive, t \notin captured, t \notin unclear
        PROVE  \E e \in Drones : \E m \in Shots(claimsA[e]) : m.target = t /\ Sure(m)
    <3>1. hit /\ t = h.target
      BY <2>1, <2>6
    <3>2. Near(h) \/ Far(h)
      BY <2>4, <2>6, <3>1 DEF AimInv
    <3>3. Sure(h)
      BY <3>1, <3>2 DEF Near, Far, Vain, Known
    <3>4. QED BY <2>4, <2>6, <3>1, <3>3
  <2>7. captured \subseteq captured'
    BY <2>1
  <2>8. ASSUME NEW e \in Drones
        PROVE  /\ \A m \in Shots(claimsM[e])' :
                    m.target \in alive \ unclear /\ Sure(m)' => m \in Shots(claimsA[e])'
               /\ \A m \in Shots(claimsA[e])' :
                    m.target \in alive \ unclear /\ Sure(m)' =>
                      m \in Shots(claimsM[e])' \/ m.target \in captured'
    BY <2>2, <2>3, <2>5, <2>7
  <2>9. ASSUME NEW t \in (captured' \cap alive) \ unclear
        PROVE  \E e \in Drones : \E m \in Shots(claimsA[e])' : m.target = t /\ Sure(m)'
    BY <2>2, <2>3, <2>6
  <2>10. ASSUME NEW t \in Targets \ (alive \cup captured' \cup unclear)
         PROVE  \E e \in Drones : \E m \in Shots(claimsM[e])' : m.target = t /\ Sure(m)'
    <3>1. PICK e \in Drones : \E m \in Shots(claimsM[e]) : m.target = t /\ Sure(m)
      BY <2>7
    <3>2. QED BY <2>2, <2>5, <3>1
  <2>11. QED BY <2>1, <2>8, <2>9, <2>10
<1>7. CASE \E t \in Targets : OnTruth(t)
  BY <1>7, <1>a DEF OnTruth, world, fired
<1>8. CASE \E t \in Targets : OnOdom(t)
  BY <1>8, <1>a DEF OnOdom, world, score, fired
<1>9. CASE OnDone
  BY <1>9, <1>a DEF OnDone, world, fired
<1>10. CASE OnClock
  BY <1>10, <1>a DEF OnClock, world, fired
<1>11. QED
  BY <1>1, <1>2, <1>3, <1>4, <1>5, <1>6, <1>7, <1>8, <1>9, <1>10 DEF ScoringNext

-----------------------------------------------------------------------------
(* The count of the shots                                                  *)

\* The places in the monitor's queues at which a shot waits to be scored.
Waiting == {c \in Drones \X (1 .. MaxClaims[profile]) :
              c[2] \in DOMAIN claimsM[c[1]] /\ claimsM[c[1]][c[2]].result = "SUCCESS"}

LEMMA SlotsFact ==
  ASSUME ScoringTypeOK
  PROVE  /\ claims \in Nat /\ shots \in Nat /\ falseFires \in Nat /\ MaxClaims[profile] \in Nat
         /\ IsFiniteSet(Drones \X (1 .. MaxClaims[profile]))
<1>1. MaxClaims[profile] \in Nat
  BY ParameterFact DEF ScoringTypeOK
<1>2. claims \in Nat /\ shots \in Nat /\ falseFires \in Nat
  BY <1>1 DEF ScoringTypeOK
<1>3. IsFiniteSet(1 .. MaxClaims[profile])
  BY <1>1, FS_Interval
<1>4. QED BY <1>1, <1>2, <1>3, ScoringAssumption, FS_Product

LEMMA WaitingFact ==
  ASSUME ScoringTypeOK
  PROVE  /\ IsFiniteSet(Waiting) /\ Unscored = Cardinality(Waiting) /\ Unscored \in Nat
         /\ IsFiniteSet(captured) /\ Cardinality(captured) \in Nat
<1>1. IsFiniteSet(Waiting)
  BY SlotsFact, FS_Subset DEF Waiting
<1>2. IsFiniteSet(captured)
  BY ScoringAssumption, FS_Subset DEF ScoringTypeOK
<1>3. QED BY <1>1, <1>2, FS_CardinalityType DEF Unscored, Waiting

\* A shot joins the queue behind all the others.
LEMMA WaitingDeclared ==
  ASSUME ScoringTypeOK, ScoringTypeOK', Counted, NEW d \in Drones, Declare(d)
  PROVE  /\ \A e \in Drones : Len(claimsM'[e]) <= claims'
         /\ Unscored' - Unscored = shots' - shots
<1>1. PICK m \in Claim : /\ claimsM' = [claimsM EXCEPT ![d] = Append(@, m)]
                         /\ shots' = IF m.result = "SUCCESS" THEN shots + 1 ELSE shots
  BY DeclareFact
<1>2. profile' = profile /\ claims' = claims + 1 /\ claims + 1 <= MaxClaims[profile]
      /\ claims \in Nat /\ shots \in Nat /\ MaxClaims[profile] \in Nat
  BY ParameterFact DEF Declare, gazebo, ScoringTypeOK
<1> DEFINE n == Len(claimsM[d]) + 1
<1> DEFINE q == claimsM[d]
<1>3. /\ q \in Seq(Claim) /\ n \in 1 .. MaxClaims[profile]
      /\ \A e \in Drones : Len(claimsM[e]) \in Nat /\ Len(claimsM[e]) <= claims
      /\ DOMAIN q = 1 .. Len(q) /\ DOMAIN Append(q, m) = 1 .. n
      /\ Append(q, m)[n] = m /\ \A i \in 1 .. Len(q) : Append(q, m)[i] = q[i]
      /\ Len(Append(q, m)) = n
  <2>1. \A e \in Drones : Len(claimsM[e]) \in Nat /\ Len(claimsM[e]) <= claims
    BY Contents DEF Counted
  <2>2. q \in Seq(Claim)
    BY Contents
  <2>3. n \in 1 .. MaxClaims[profile]
    BY <1>2, <2>1
  <2>4. QED BY <2>1, <2>2, <2>3
<1>4. claimsM'[d] = Append(q, m) /\ \A e \in Drones \ {d} : claimsM'[e] = claimsM[e]
  BY <1>1 DEF ScoringTypeOK
<1>5. \A e \in Drones : Len(claimsM'[e]) <= claims'
  BY <1>2, <1>3, <1>4
<1> DEFINE new == IF m.result = "SUCCESS" THEN {<<d, n>>} ELSE {}
<1>6. Waiting' = Waiting \cup new
  <2>1. \A i : (i \in 1 .. n) <=> (i \in 1 .. Len(q) \/ i = n)
    BY <1>3
  <2>2. Len(q) + 1 \notin 1 .. Len(q)
    BY <1>3
  <2> SUFFICES ASSUME NEW e \in Drones, NEW i \in 1 .. MaxClaims[profile]
               PROVE  <<e, i>> \in Waiting' <=> <<e, i>> \in Waiting \/ <<e, i>> \in new
    BY <1>2, <1>3 DEF Waiting
  <2>3. CASE e # d
    BY <1>2, <1>4, <2>3 DEF Waiting
  <2>4. CASE e = d
    BY <1>2, <1>3, <1>4, <2>1, <2>2, <2>4 DEF Waiting
  <2>5. QED BY <2>3, <2>4
<1>7. <<d, n>> \notin Waiting
  BY <1>3 DEF Waiting
<1>8. CASE m.result = "SUCCESS"
  <2>1. Cardinality(Waiting') = Cardinality(Waiting) + 1
    BY <1>6, <1>7, <1>8, WaitingFact, FS_AddElement
  <2>2. Unscored' = Cardinality(Waiting')
    BY DEF Unscored, Waiting
  <2>3. QED BY <1>1, <1>2, <1>5, <1>8, <2>1, <2>2, WaitingFact
<1>9. CASE m.result # "SUCCESS"
  <2>1. Waiting' = Waiting
    BY <1>6, <1>9
  <2>2. Unscored' = Cardinality(Waiting')
    BY DEF Unscored, Waiting
  <2>3. QED BY <1>1, <1>2, <1>5, <1>9, <2>1, <2>2, WaitingFact
<1>10. QED BY <1>8, <1>9

\* The first of a queue leaves it and the others move up.
LEMMA WaitingScored ==
  ASSUME ScoringTypeOK, ScoringTypeOK', Counted, NEW d \in Drones, OnEvent(d)
  PROVE  /\ \A e \in Drones : Len(claimsM'[e]) <= claims'
         /\ Unscored = Unscored' + (IF Head(claimsM[d]).result = "SUCCESS" THEN 1 ELSE 0)
<1> DEFINE q == claimsM[d]
<1> DEFINE Top == MaxClaims[profile]
<1>1. /\ profile' = profile /\ claims' = claims /\ claims <= Top /\ claims \in Nat /\ Top \in Nat
      /\ q # <<>> /\ claimsM' = [claimsM EXCEPT ![d] = Tail(@)]
  BY ParameterFact DEF OnEvent, gazebo, fired, ScoringTypeOK
<1>2. claimsM'[d] = Tail(q) /\ \A e \in Drones \ {d} : claimsM'[e] = claimsM[e]
  BY <1>1 DEF ScoringTypeOK
<1>3. /\ q \in Seq(Claim)
      /\ \A e \in Drones : Len(claimsM[e]) \in Nat /\ Len(claimsM[e]) <= claims
  BY Contents DEF Counted
<1>4. /\ Len(q) \in Nat \ {0} /\ Len(q) <= Top /\ Len(Tail(q)) = Len(q) - 1 /\ Head(q) = q[1]
      /\ DOMAIN q = 1 .. Len(q) /\ DOMAIN Tail(q) = 1 .. Len(q) - 1
      /\ \A i \in 1 .. Len(q) - 1 : Tail(q)[i] = q[i + 1]
  <2>1. /\ Len(q) \in Nat \ {0} /\ Len(Tail(q)) = Len(q) - 1 /\ Head(q) = q[1]
        /\ DOMAIN q = 1 .. Len(q) /\ DOMAIN Tail(q) = 1 .. Len(q) - 1
        /\ \A i \in 1 .. Len(q) - 1 : Tail(q)[i] = q[i + 1]
    BY <1>1, <1>3
  <2>2. Len(q) <= Top
    BY <1>1, <1>3
  <2>3. QED BY <2>1, <2>2
<1> HIDE DEF q, Top
<1>5. \A e \in Drones : Len(claimsM'[e]) <= claims'
  BY <1>1, <1>2, <1>3, <1>4 DEF q
<1> DEFINE Rest == Waiting \ {<<d, 1>>}
<1> DEFINE up == [c \in Waiting' |-> IF c[1] = d THEN <<d, c[2] + 1>> ELSE c]
<1>6. \A e \in Drones, i \in 1 .. Top :
        /\ <<e, i>> \in Waiting <=> i \in DOMAIN claimsM[e] /\ claimsM[e][i].result = "SUCCESS"
        /\ <<e, i>> \in Waiting' <=> i \in DOMAIN claimsM'[e] /\ claimsM'[e][i].result = "SUCCESS"
  BY <1>1 DEF Waiting, Top
<1>7. \A c \in Waiting \cup Waiting' : c[1] \in Drones /\ c[2] \in 1 .. Top /\ c = <<c[1], c[2]>>
  BY <1>1 DEF Waiting, Top
<1>8. \A i \in 1 .. Top : <<d, i>> \in Waiting' <=> i \in 1 .. Len(q) - 1 /\ q[i + 1].result = "SUCCESS"
  BY <1>2, <1>4, <1>6
<1>9. \A i \in 1 .. Top : <<d, i>> \in Waiting <=> i \in 1 .. Len(q) /\ q[i].result = "SUCCESS"
  BY <1>4, <1>6 DEF q
<1>10. \A e \in Drones \ {d}, i \in 1 .. Top : <<e, i>> \in Waiting' <=> <<e, i>> \in Waiting
  BY <1>2, <1>6
<1>11. up \in [Waiting' -> Rest]
  <2> SUFFICES ASSUME NEW c \in Waiting' PROVE up[c] \in Rest
    OBVIOUS
  <2>1. CASE c[1] = d
    <3>1. c[2] \in 1 .. Len(q) - 1 /\ q[c[2] + 1].result = "SUCCESS"
      BY <1>7, <1>8, <2>1
    <3>2. c[2] + 1 \in 1 .. Top /\ c[2] + 1 \in 1 .. Len(q) /\ c[2] + 1 # 1
      BY <1>1, <1>4, <3>1
    <3>3. QED BY <1>9, <2>1, <3>1, <3>2
  <2>2. CASE c[1] # d
    BY <1>7, <1>10, <2>2
  <2>3. QED BY <2>1, <2>2
<1>12. \A b, c \in Waiting' : up[b] = up[c] => b = c
  <2> SUFFICES ASSUME NEW b \in Waiting', NEW c \in Waiting', up[b] = up[c] PROVE b = c
    OBVIOUS
  <2>1. b = <<b[1], b[2]>> /\ c = <<c[1], c[2]>> /\ b[2] \in Int /\ c[2] \in Int
    BY <1>7
  <2>2. CASE b[1] = d /\ c[1] = d
    <3>1. <<d, b[2] + 1>> = <<d, c[2] + 1>>
      BY <2>2
    <3>2. b[2] + 1 = c[2] + 1
      BY <3>1
    <3>3. QED BY <2>1, <2>2, <3>2
  <2>3. CASE b[1] # d \/ c[1] # d
    BY <2>1, <2>3
  <2>4. QED BY <2>2, <2>3
<1>13. \A c \in Rest : \E b \in Waiting' : up[b] = c
  <2> SUFFICES ASSUME NEW c \in Rest PROVE \E b \in Waiting' : up[b] = c
    OBVIOUS
  <2>1. CASE c[1] = d
    <3>1. c = <<d, c[2]>> /\ c[2] \in 1 .. Len(q) /\ q[c[2]].result = "SUCCESS" /\ c[2] # 1
      BY <1>7, <1>9, <2>1
    <3>2. PICK i \in 1 .. Len(q) - 1 : i + 1 = c[2] /\ i \in 1 .. Top
      <4>1. c[2] - 1 \in 1 .. Len(q) - 1 /\ c[2] - 1 \in 1 .. Top /\ (c[2] - 1) + 1 = c[2]
        BY <1>1, <1>4, <3>1
      <4>2. QED BY <4>1
    <3>3. <<d, i>> \in Waiting'
      BY <1>8, <3>1, <3>2
    <3>4. up[<<d, i>>] = <<d, i + 1>>
      BY <3>3
    <3>5. QED BY <3>1, <3>2, <3>3, <3>4
  <2>2. CASE c[1] # d
    <3>1. c \in Waiting'
      BY <1>7, <1>10, <2>2
    <3>2. QED BY <2>2, <3>1
  <2>3. QED BY <2>1, <2>2
<1>14. Cardinality(Waiting') = Cardinality(Rest)
  <2>1. up \in Injection(Waiting', Rest)
    BY <1>11, <1>12 DEF Injection, IsInjective
  <2>2. up \in Surjection(Waiting', Rest)
    BY <1>11, <1>13 DEF Surjection
  <2>3. IsFiniteSet(Rest)
    BY WaitingFact, FS_RemoveElement
  <2>4. QED BY <2>1, <2>2, <2>3, FS_Injection
<1>15. Cardinality(Rest) = IF Head(q).result = "SUCCESS" THEN Cardinality(Waiting) - 1 ELSE Cardinality(Waiting)
  <2>1. <<d, 1>> \in Waiting <=> Head(q).result = "SUCCESS"
    BY <1>1, <1>4, <1>9
  <2>2. QED BY <2>1, WaitingFact, FS_RemoveElement
<1>16. Unscored' = Cardinality(Waiting')
  BY DEF Unscored, Waiting
<1>17. QED BY <1>5, <1>14, <1>15, <1>16, WaitingFact DEF q

LEMMA CountedKept ==
  ASSUME ScoringTypeOK, ScoringTypeOK', Counted, ScoringNext
  PROVE  Counted'
<1>s. ASSUME UNCHANGED <<profile, claimsM, claims, shots, captured, falseFires>> PROVE Counted'
  BY <1>s DEF Counted, ShotsScoredOnce, Unscored
<1>1. ASSUME NEW d \in Drones, Declare(d) PROVE Counted'
  <2>1. captured' = captured /\ falseFires' = falseFires
    BY <1>1 DEF Declare, score
  <2>2. shots \in Nat /\ (shots' = shots \/ shots' = shots + 1) /\ falseFires \in Nat
        /\ Unscored \in Nat /\ Cardinality(captured) \in Nat
    BY <1>1, DeclareFact, SlotsFact, WaitingFact
  <2>3. Unscored' \in Nat
    <3>1. Waiting' \subseteq Drones \X (1 .. MaxClaims[profile])
      BY <1>1 DEF Declare, gazebo, Waiting
    <3>2. Unscored' = Cardinality(Waiting')
      BY DEF Unscored, Waiting
    <3>3. QED BY <3>1, <3>2, SlotsFact, FS_Subset, FS_CardinalityType
  <2>4. Unscored' - Unscored = shots' - shots
    BY <1>1, WaitingDeclared
  <2>5. ShotsScoredOnce'
    BY <2>1, <2>2, <2>3, <2>4 DEF Counted, ShotsScoredOnce
  <2>6. QED BY <1>1, <2>5, WaitingDeclared DEF Counted
<1>2. ASSUME NEW d \in Drones, OnEvent(d) PROVE Counted'
  <2> DEFINE h == Head(claimsM[d])
  <2> DEFINE hit == /\ h.result = "SUCCESS" /\ truth[h.target] # None
                    /\ InReach(truth[h.target], h.point) /\ h.target \notin captured
  <2>1. /\ shots' = shots
        /\ captured' = IF hit THEN captured \cup {h.target} ELSE captured
        /\ falseFires' = IF h.result = "SUCCESS" /\ ~hit THEN falseFires + 1 ELSE falseFires
    BY <1>2 DEF OnEvent, fired
  <2>2. Unscored = Unscored' + (IF h.result = "SUCCESS" THEN 1 ELSE 0)
    BY <1>2, WaitingScored
  <2>3. shots \in Nat /\ falseFires \in Nat /\ Unscored \in Nat /\ Cardinality(captured) \in Nat
    BY SlotsFact, WaitingFact
  <2>4. Unscored' \in Nat
    <3>1. Waiting' \subseteq Drones \X (1 .. MaxClaims[profile])
      BY <1>2 DEF OnEvent, gazebo, Waiting
    <3>2. Unscored' = Cardinality(Waiting')
      BY DEF Unscored, Waiting
    <3>3. QED BY <3>1, <3>2, SlotsFact, FS_Subset, FS_CardinalityType
  <2>5. Cardinality(captured') = IF hit THEN Cardinality(captured) + 1 ELSE Cardinality(captured)
    BY <2>1, WaitingFact, FS_AddElement
  <2>6. ShotsScoredOnce'
    BY <2>1, <2>2, <2>3, <2>4, <2>5 DEF Counted, ShotsScoredOnce
  <2>7. QED BY <1>2, <2>6, WaitingScored DEF Counted
<1>3. CASE Tick
  BY <1>3, <1>s, TickFact
<1>4. CASE GazeboStep
  BY <1>4, <1>s, GazeboStepFact
<1>5. CASE OnClockTick
  BY <1>5, <1>s, OnClockTickFact
<1>6. CASE (\E d \in Drones : OnCapture(d)) \/ (\E t \in Targets : OnTruth(t) \/ OnOdom(t)) \/ OnDone \/ OnClock
  BY <1>6, <1>s DEF OnCapture, OnTruth, OnOdom, OnDone, OnClock, gazebo, score, fired
<1>7. QED BY <1>1, <1>2, <1>3, <1>4, <1>5, <1>6 DEF ScoringNext

-----------------------------------------------------------------------------

LEMMA ScoringInitInv == ScoringInit => ScoringIInv
<1> SUFFICES ASSUME ScoringInit PROVE ScoringIInv
  OBVIOUS
<1> USE DEF ScoringInit
<1>0. ASSUME NEW S PROVE ToSet(<<>>) = {} /\ <<>> \in Seq(S) /\ Len(<<>>) = 0
  BY DEF ToSet
<1>1. 0 \in Point
  BY ParameterFact
<1>2. ScoringTypeOK
  <2>1. NumbersOK
    BY ParameterFact DEF NumbersOK
  <2>2. PlacesOK
    BY <1>1 DEF PlacesOK
  <2>3. QueuesOK
    BY <1>0 DEF QueuesOK
  <2>4. QED BY <2>1, <2>2, <2>3, TypeParts
<1>3. Clocks /\ Ages /\ Bounds
  BY <1>0, ParameterFact DEF Clocks, Ages, InFlight, Bounds, Within
<1>4. TrackInv
  <2>1. \A t \in alive : Place(t) = 0 /\ pos[t] = 0 /\ truthM[t] = <<>> /\ t \in Targets
    BY DEF Place
  <2>2. \A t \in alive : Tracked(t)
    BY <2>1, ParameterFact DEF Tracked
  <2>3. \A t \in alive : Reported(t)
    BY <2>1, ParameterFact DEF Reported, Leads
  <2>4. QED BY <2>2, <2>3 DEF TrackInv
<1>5. AimInv /\ OnTheWay
  BY <1>0 DEF AimInv, OnTheWay, Shots
<1>6. Counted
  <2>1. Waiting = {}
    BY <1>0 DEF Waiting
  <2>2. Unscored = 0 /\ Cardinality(captured) = 0
    BY <2>1, FS_EmptySet DEF Unscored, Waiting
  <2>3. QED BY <1>0, <2>2 DEF Counted, ShotsScoredOnce
<1>7. QED BY <1>2, <1>3, <1>4, <1>5, <1>6 DEF ScoringIInv

\* In every state of every run under either profile the numbers, places and queues are
\* of their types, what the judges know is recent, and what is on its way to them is
\* judged alike by both, unless a capture of its target was declared by an estimate near
\* the edge of the reach.
THEOREM ScoringInvariant == ScoringSpec => []ScoringIInv
<1>1. ScoringIInv /\ [ScoringNext]_scoringVars => ScoringIInv'
  <2> SUFFICES ASSUME ScoringIInv, [ScoringNext]_scoringVars PROVE ScoringIInv'
    OBVIOUS
  <2> USE DEF ScoringIInv
  <2>1. CASE ScoringNext
    <3>1. NumbersOK' /\ Clocks' /\ Bounds'
      BY <2>1, NumbersKept, ClocksKept, BoundsKept, TypeParts
    <3>2. PlacesOK'
      BY <2>1, <3>1, PlacesKept
    <3>3. QueuesOK'
      BY <2>1, <3>2, QueuesKept
    <3>4. ScoringTypeOK'
      BY <3>1, <3>2, <3>3 DEF ScoringTypeOK, NumbersOK, PlacesOK, QueuesOK
    <3>5. Ages' /\ TrackInv'
      BY <2>1, <3>2, AgesKept, TrackKept
    <3>6. AimInv' /\ OnTheWay'
      BY <2>1, <3>2, <3>5, AimKept, OnTheWayKept
    <3>7. Counted'
      BY <2>1, <3>4, CountedKept
    <3>8. QED BY <3>1, <3>4, <3>5, <3>6, <3>7
  <2>2. CASE UNCHANGED scoringVars
    BY <2>2 DEF scoringVars, gazebo, world, score, fired, ScoringTypeOK, Clocks, Ages, InFlight,
                Fresh, Bounds, TrackInv, Tracked, Reported, Leads, Place, Slack, Gap, AimInv, Near,
                Far, Sure, Vain, Known, Shots, OnTheWay, Counted, ShotsScoredOnce, Unscored
  <2>3. QED BY <2>1, <2>2
<1>2. QED BY <1>1, ScoringInitInv, PTL DEF ScoringSpec

\* The two judges of a capture, each with its own clock and its own queues, agree up to
\* what is still on its way about every target whose captures were all declared clearly
\* in its reach or clearly out of it; and by whatever estimates drones declare, the run is
\* called neutralised only when nobody lives, and every shot is scored once
\* (attacker_sim_node.py, monitor_node.py).
THEOREM JudgesAgreeOnAll == ScoringSpec => []ScoringInv
<1>1. ASSUME ScoringIInv PROVE ScoringInv
  <2> USE <1>1 DEF ScoringIInv
  <2>1. \A d \in Drones : \A m \in Shots(claimsA[d]) \cup Shots(claimsM[d]) :
          /\ m.target \in Targets /\ m.result = "SUCCESS"
          /\ Sure(m) => InReach(pos[m.target], m.point)
    BY Contents DEF Shots, Sure, Known
  <2>2. ASSUME NEW t \in captured, t \in alive, t \notin unclear PROVE Coming(claimsA, t)
    BY <2>1, <2>2 DEF OnTheWay, Coming, Shots
  <2>3. ASSUME NEW t \in Targets, t \notin alive, t \notin captured, t \notin unclear PROVE Coming(claimsM, t)
    BY <2>1, <2>3 DEF OnTheWay, Coming, Shots
  <2>4. JudgesAgree
    BY <2>2, <2>3 DEF JudgesAgree, OnTheWay
  <2>5. QED BY <2>4 DEF ScoringInv, Counted
<1>2. QED BY <1>1, ScoringInvariant, PTL

=============================================================================
