---------------------------- MODULE FixtureProofs ----------------------------
(***************************************************************************)
(* Proofs about Fixture, for any pages, targets and period: no capture is  *)
(* missed by a page.  What a frame showed of the pass that runs is either  *)
(* still in the aggregator and alive, or its capture is among the events   *)
(* that the next frame brings.  And the statuses on their way to the pages *)
(* are in the order in which the pass was in them.                         *)
(***************************************************************************)
EXTENDS Fixture, FiniteSetTheorems, TLAPS

ScenesCurrent ==
  \A p \in Steadfast :
    /\ scene[p].run <= runSeq
    /\ scene[p].run = runSeq => scene[p].owed \subseteq (tracks \ captured) \cup events

CaptureInv == FixtureTypeOK /\ ScenesCurrent /\ CapturesAnnounced

LEMMA StatusFact ==
  ASSUME FixtureTypeOK
  PROVE  /\ StatusOf(state) \in Status
         /\ StatusOf("STOPPED") \in Status
         /\ BeginStatus \in Status
         /\ HaltStatus \in Seq(Status)
<1>1. runSeq \in Nat /\ runSeq + 1 \in Nat /\ state \in {"RUNNING", "STOPPED"}
  BY DEF FixtureTypeOK
<1>2. StatusOf(state) \in Status /\ StatusOf("STOPPED") \in Status
  BY <1>1 DEF StatusOf, Status
<1>3. BeginStatus \in Status
  BY <1>1 DEF BeginStatus, Status
<1>4. QED BY <1>2, <1>3 DEF HaltStatus

LEMMA RemoveFact ==
  ASSUME NEW S, NEW q \in Seq(S), NEW k \in DOMAIN q
  PROVE  /\ RemoveAt(q, k) \in Seq(S) /\ DOMAIN q = 1 .. Len(q) /\ Len(q) \in Nat \ {0}
         /\ DOMAIN RemoveAt(q, k) = 1 .. Len(q) - 1
         /\ \A i \in 1 .. Len(q) - 1 : RemoveAt(q, k)[i] = IF i < k THEN q[i] ELSE q[i + 1]
<1>1. k \in 1 .. Len(q) /\ Len(q) \in Nat \ {0} /\ DOMAIN q = 1 .. Len(q)
  OBVIOUS
<1> DEFINE a == SubSeq(q, 1, k - 1)
           b == SubSeq(q, k + 1, Len(q))
<1>2. /\ a \in Seq(S) /\ Len(a) = k - 1
      /\ \A i \in 1 .. k - 1 : a[i] = q[i]
  BY <1>1
<1>3. /\ b \in Seq(S) /\ Len(b) = Len(q) - k
      /\ \A i \in 1 .. Len(q) - k : b[i] = q[k + i]
  BY <1>1
<1>4. RemoveAt(q, k) = a \o b
  BY DEF RemoveAt
<1> HIDE DEF a, b
<1>5. /\ a \o b \in Seq(S) /\ Len(a \o b) = (k - 1) + (Len(q) - k)
      /\ DOMAIN (a \o b) = 1 .. Len(a \o b)
      /\ \A i \in 1 .. (k - 1) + (Len(q) - k) :
           (a \o b)[i] = IF i <= k - 1 THEN a[i] ELSE b[i - (k - 1)]
  <2>1. k - 1 \in Nat /\ Len(q) - k \in Nat
    BY <1>1
  <2>2. QED BY <1>2, <1>3, <2>1
<1>6. (k - 1) + (Len(q) - k) = Len(q) - 1
  BY <1>1
<1>7. ASSUME NEW i \in 1 .. Len(q) - 1 PROVE (a \o b)[i] = IF i < k THEN q[i] ELSE q[i + 1]
  <2>1. CASE i < k
    BY <1>1, <1>2, <1>5, <1>6, <2>1
  <2>2. CASE ~(i < k)
    <3>1. (a \o b)[i] = b[i - (k - 1)]
      BY <1>1, <1>5, <1>6, <2>2
    <3>2. i - (k - 1) \in 1 .. Len(q) - k /\ k + (i - (k - 1)) = i + 1
      BY <1>1, <2>2
    <3>3. QED BY <1>3, <2>2, <3>1, <3>2
  <2>3. QED BY <2>1, <2>2
<1>8. QED BY <1>1, <1>4, <1>5, <1>6, <1>7

\* The broadcasts q2 are those of q, with other pages to visit.
Retargeted(q, q2) ==
  /\ q2 \in Seq(Broadcast) /\ DOMAIN q2 = DOMAIN q
  /\ \A k \in DOMAIN q : q2[k].status = q[k].status

LEMMA AppendFact ==
  ASSUME NEW q \in Seq(Status), NEW s \in Status
  PROVE  Append(q, s) \in Seq(Status)
OBVIOUS

LEMMA CaptureInit == FixtureInit => CaptureInv
<1> SUFFICES ASSUME FixtureInit PROVE CaptureInv
  OBVIOUS
<1>1. calls \in Seq(Status)
  BY DEF FixtureInit
<1>2. FixtureTypeOK
  <2>1. phase \in 0 .. Period - 1 /\ runSeq \in Nat /\ Steadfast \subseteq Pages
    BY FixtureAssumption DEF FixtureInit
  <2>2. /\ loop = [at |-> "free", page |-> None, status |-> None]
        /\ scene = [p \in Steadfast |-> [run |-> 0, tracks |-> {}, owed |-> {}]]
    BY DEF FixtureInit, Free, EmptyScene
  <2>3. /\ loop \in [at : {"free", "begin", "halt", "tell"}, page : Pages \cup {None},
                     status : Status \cup {None}]
        /\ loop.at # "tell"
    BY <2>2
  <2>4. scene \in [Steadfast -> [run : Nat, tracks : SUBSET Targets, owed : SUBSET Targets]]
    BY <2>2
  <2>5. panel \in [Pages -> Status \cup {None}] /\ asked \in [Pages -> {"nothing", "run", "stop", "setSpeed"}]
    BY DEF FixtureInit
  <2>6. sends \in Seq(Broadcast) /\ missed = {}
    BY DEF FixtureInit
  <2>7. QED BY <1>1, <2>1, <2>3, <2>4, <2>5, <2>6 DEF FixtureInit, FixtureTypeOK
<1>3. ScenesCurrent /\ CapturesAnnounced
  BY DEF FixtureInit, ScenesCurrent, CapturesAnnounced, EmptyScene
<1>4. QED BY <1>2, <1>3 DEF CaptureInv

-----------------------------------------------------------------------------

\* The thread: a captured target goes from the tracks to the events.
LEMMA ThreadInv ==
  ASSUME CaptureInv, ThreadStep
  PROVE  CaptureInv'
<1> USE DEF CaptureInv, FixtureTypeOK, ScenesCurrent, CapturesAnnounced, aggVars, pageVars, sendVars, runVars
<1>1. CASE StepTargets
  BY <1>1, FixtureAssumption DEF StepTargets, Alive
<1>2. ASSUME NEW t \in Targets, CaptureTarget(t) PROVE CaptureInv'
  BY <1>2 DEF CaptureTarget, Alive
<1>3. CASE ExpireTrack
  BY <1>3 DEF ExpireTrack, Alive
<1>4. CASE Tick
  <2>1. StatusOf(state) \in Status
    BY StatusFact
  <2>2. calls' \in Seq(Status)
    <3>1. calls \in Seq(Status) /\ (calls' = calls \/ calls' = Append(calls, StatusOf(state)))
      BY <1>4 DEF Tick
    <3>2. QED BY <2>1, <3>1, AppendFact
  <2>3. QED BY <1>4, <2>2, FixtureAssumption DEF Tick
<1>5. CASE Complete
  <2>1. calls' \in Seq(Status)
    BY <1>5, StatusFact DEF Complete
  <2>2. QED BY <1>5, <2>1 DEF Complete
<1>6. CASE Leave
  BY <1>6 DEF Leave
<1>7. QED BY <1>1, <1>2, <1>3, <1>4, <1>5, <1>6 DEF ThreadStep

LEMMA BroadcastFact ==
  ASSUME NEW q \in Seq(Broadcast), NEW k \in DOMAIN q
  PROVE  q[k] \in Broadcast /\ q[k].status \in Status /\ q[k].todo \in SUBSET Pages
<1>1. q[k] \in Broadcast
  OBVIOUS
<1>2. QED BY <1>1 DEF Broadcast

LEMMA UpFact ==
  ASSUME FixtureTypeOK
  PROVE  Cardinality(up) \in Nat
<1>1. IsFiniteSet(up)
  BY FixtureAssumption, FS_Subset DEF FixtureTypeOK
<1>2. QED BY <1>1, FS_CardinalityType

\* A broadcast that begins, goes on or ends.
LEMMA StatusTypes ==
  ASSUME FixtureTypeOK, BroadcastStatus \/ SendStep
  PROVE  /\ sends' \in Seq(Broadcast) /\ missed' \in SUBSET Steadfast
         /\ calls' \in Seq(Status) /\ panel' \in [Pages -> Status \cup {None}]
<1>0. /\ sends \in Seq(Broadcast) /\ calls \in Seq(Status) /\ missed \in SUBSET Steadfast
      /\ panel \in [Pages -> Status \cup {None}] /\ up \in SUBSET Pages
      /\ Steadfast \subseteq Pages
  BY FixtureAssumption DEF FixtureTypeOK
<1>1. ASSUME NEW s \in Status, NEW to \in SUBSET Pages, NEW k, Reach(s, to, k)
      PROVE  missed' \in SUBSET Steadfast /\ panel' \in [Pages -> Status \cup {None}]
  BY <1>0, <1>1 DEF Reach
<1>2. CASE BroadcastStatus
  <2>1. Head(calls) \in Status /\ Tail(calls) \in Seq(Status)
    BY <1>0, <1>2 DEF BroadcastStatus
  <2>2. PICK to \in SUBSET up :
          /\ Reach(Head(calls), to, Len(sends) + 1)
          /\ sends' = IF to = up THEN sends
                      ELSE Append(sends, [status |-> Head(calls), todo |-> up \ to,
                                          size |-> Cardinality(up)])
    BY <1>2 DEF BroadcastStatus
  <2>3. [status |-> Head(calls), todo |-> up \ to, size |-> Cardinality(up)] \in Broadcast
    BY <1>0, <2>1, UpFact DEF Broadcast
  <2>4. sends' \in Seq(Broadcast)
    BY <1>0, <2>2, <2>3
  <2>5. calls' = Tail(calls)
    BY <1>2 DEF BroadcastStatus
  <2>6. QED BY <1>0, <1>1, <2>1, <2>2, <2>4, <2>5
<1>3. ASSUME NEW k \in DOMAIN sends, SendEnds(k)
      PROVE  /\ sends' \in Seq(Broadcast) /\ missed' \in SUBSET Steadfast
             /\ calls' = calls /\ panel' = panel
  BY <1>0, <1>3, RemoveFact DEF SendEnds
<1>4. ASSUME NEW k \in DOMAIN sends, NEW to \in SUBSET sends[k].todo, SendOn(k, to)
      PROVE  /\ sends' \in Seq(Broadcast) /\ missed' \in SUBSET Steadfast
             /\ calls' = calls /\ panel' \in [Pages -> Status \cup {None}]
  <2>1. sends[k] \in Broadcast /\ sends[k].status \in Status /\ to \in SUBSET Pages
    BY <1>0, BroadcastFact
  <2>2. [sends EXCEPT ![k].todo = @ \ to] \in Seq(Broadcast)
    <3>1. [sends[k] EXCEPT !.todo = @ \ to] \in Broadcast
      BY <2>1 DEF Broadcast
    <3>2. QED BY <1>0, <3>1
  <2>3. RemoveAt(sends, k) \in Seq(Broadcast)
    BY <1>0, RemoveFact
  <2>4. QED BY <1>1, <1>4, <2>1, <2>2, <2>3 DEF SendOn
<1>5. QED BY <1>0, <1>2, <1>3, <1>4 DEF SendStep

\* The proxy: a new pass begins with an aggregator that holds nothing of the old one.
LEMMA LoopInv ==
  ASSUME CaptureInv, LoopStep
  PROVE  CaptureInv'
<1> USE DEF CaptureInv, FixtureTypeOK, ScenesCurrent, CapturesAnnounced, aggVars, pageVars, sendVars, runVars,
        threadVars, Answered, Free
<1>1. ASSUME NEW p \in Pages, Halt(p) PROVE CaptureInv'
  BY <1>1 DEF Halt
<1>2. ASSUME NEW p \in Pages, SetSpeed(p) PROVE CaptureInv'
  BY <1>2, StatusFact DEF SetSpeed
<1>3. CASE Halted
  <2>1. calls' \in Seq(Status)
    BY <1>3, StatusFact DEF Halted
  <2>2. QED BY <1>3, <2>1 DEF Halted
<1>4. CASE Began
  <2>1. calls' \in Seq(Status)
    BY <1>4, StatusFact DEF Began
  <2>2. 0 \in 0 .. Period - 1 /\ runSeq + 1 \in Nat /\ \A p \in Steadfast : scene[p].run < runSeq + 1
    BY FixtureAssumption
  <2>3. FixtureTypeOK'
    BY <1>4, <2>1, <2>2 DEF Began
  <2>4. ScenesCurrent' /\ CapturesAnnounced'
    BY <1>4, <2>2 DEF Began
  <2>5. QED BY <2>3, <2>4
<1>5. CASE SpeedTold
  <2>1. calls \in Seq(Status) /\ loop.status \in Status
    BY <1>5 DEF SpeedTold
  <2>2. calls' \in Seq(Status)
    BY <1>5, <2>1, AppendFact DEF SpeedTold
  <2>3. QED BY <1>5, <2>2 DEF SpeedTold
<1>6. CASE BroadcastStatus \/ SendStep
  <2>1. /\ sends' \in Seq(Broadcast) /\ missed' \in SUBSET Steadfast
        /\ calls' \in Seq(Status) /\ panel' \in [Pages -> Status \cup {None}]
    BY <1>6, StatusTypes
  <2>2. UNCHANGED <<threadVars, runVars, aggVars, loop, asked, up, scene, raced>>
    BY <1>6 DEF BroadcastStatus, SendStep, SendEnds, SendOn
  <2>3. QED BY <2>1, <2>2
<1>7. QED BY <1>1, <1>2, <1>3, <1>4, <1>5, <1>6 DEF LoopStep

\* The pump: it takes the events together with the tracks.
LEMMA FrameInv ==
  ASSUME CaptureInv, BroadcastFrame
  PROVE  CaptureInv'
<1> USE DEF CaptureInv, FixtureTypeOK, ScenesCurrent, CapturesAnnounced, runVars, threadVars, sendVars
<1>1. /\ UNCHANGED <<threadVars, runVars, tracks, loop, calls, asked, up, sendVars, raced>>
      /\ events' = {} /\ scene' = [p \in Steadfast |-> Show(scene[p])]
  BY DEF BroadcastFrame
<1>2. ASSUME NEW p \in Steadfast
      PROVE  /\ scene'[p] \in [run : Nat, tracks : SUBSET Targets, owed : SUBSET Targets]
             /\ scene'[p].run = runSeq /\ scene'[p].tracks = tracks
             /\ scene'[p].owed \subseteq tracks \ captured
  BY <1>1 DEF Show, Uncaptured
<1>3. QED BY <1>1, <1>2

LEMMA ClosingFact ==
  ASSUME FixtureTypeOK, NEW p \in Pages, ClosePage(p)
  PROVE  /\ Retargeted(sends, sends')
         /\ \A k \in DOMAIN sends : sends'[k].todo = sends[k].todo \ {p}
<1>1. sends \in Seq(Broadcast) /\ \A k \in DOMAIN sends : sends[k] \in Broadcast
  BY BroadcastFact DEF FixtureTypeOK
<1> DEFINE x(k) == [sends[k] EXCEPT !.todo = @ \ {p}]
<1>2. sends' = [k \in DOMAIN sends |-> x(k)]
  BY DEF ClosePage
<1>3. \A k \in DOMAIN sends : /\ x(k) \in Broadcast
                              /\ sends'[k].status = sends[k].status
                              /\ sends'[k].todo = sends[k].todo \ {p}
  BY <1>1, <1>2 DEF Broadcast
<1> HIDE DEF x
<1>4. sends' \in Seq(Broadcast) /\ DOMAIN sends' = DOMAIN sends
  <2>1. DOMAIN sends = 1 .. Len(sends) /\ Len(sends) \in Nat
    BY <1>1
  <2>2. QED BY <1>2, <1>3, <2>1
<1>5. QED BY <1>3, <1>4 DEF Retargeted

LEMMA OpeningFact ==
  ASSUME FixtureTypeOK, NEW p \in Pages, OpenPage(p)
  PROVE  /\ Retargeted(sends, sends')
         /\ \A k \in DOMAIN sends : sends'[k].todo \subseteq sends[k].todo \cup {p}
<1>1. sends \in Seq(Broadcast) /\ \A k \in DOMAIN sends : sends[k] \in Broadcast
  BY BroadcastFact DEF FixtureTypeOK
<1>0. PICK visits \in SUBSET DOMAIN sends :
        sends' = [k \in DOMAIN sends |->
                    [sends[k] EXCEPT !.todo = IF k \in visits THEN @ \cup {p} ELSE @]]
  BY DEF OpenPage
<1> DEFINE x(k) == [sends[k] EXCEPT !.todo = IF k \in visits THEN @ \cup {p} ELSE @]
<1>2. sends' = [k \in DOMAIN sends |-> x(k)]
  BY <1>0
<1>3. \A k \in DOMAIN sends :
        /\ x(k) \in Broadcast
        /\ sends'[k].status = sends[k].status
        /\ sends'[k].todo \subseteq sends[k].todo \cup {p}
  BY <1>1, <1>2 DEF Broadcast
<1> HIDE DEF x
<1>4. sends' \in Seq(Broadcast) /\ DOMAIN sends' = DOMAIN sends
  <2>1. DOMAIN sends = 1 .. Len(sends) /\ Len(sends) \in Nat
    BY <1>1
  <2>2. QED BY <1>2, <1>3, <2>1
<1>5. QED BY <1>3, <1>4 DEF Retargeted

LEMMA PageInv ==
  ASSUME CaptureInv, NEW p \in Pages,
         ClickRun(p) \/ (\E action \in {"stop", "setSpeed"} : Click(p, action))
           \/ ClosePage(p) \/ OpenPage(p)
  PROVE  CaptureInv'
<1> USE DEF CaptureInv, FixtureTypeOK, ScenesCurrent, CapturesAnnounced, runVars, threadVars, aggVars,
        sendVars
<1>1. CASE ClickRun(p)
  BY <1>1 DEF ClickRun, EmptyScene
<1>2. ASSUME NEW action \in {"stop", "setSpeed"}, Click(p, action) PROVE CaptureInv'
  BY <1>2 DEF Click
<1>3. CASE ClosePage(p)
  BY <1>3, ClosingFact, FixtureAssumption DEF ClosePage, Retargeted
<1>4. CASE OpenPage(p)
  <2>1. sends' \in Seq(Broadcast)
    BY <1>4, OpeningFact DEF Retargeted
  <2>2. /\ up' = up \cup {p}
        /\ UNCHANGED <<threadVars, runVars, aggVars, loop, calls, asked, panel, scene, raced, missed>>
    BY <1>4 DEF OpenPage
  <2>3. QED BY <2>1, <2>2
<1>5. QED BY <1>1, <1>2, <1>3, <1>4

LEMMA CaptureNext == CaptureInv /\ [FixtureNext]_fixtureVars => CaptureInv'
<1> SUFFICES ASSUME CaptureInv, [FixtureNext]_fixtureVars PROVE CaptureInv'
  OBVIOUS
<1>1. CASE UNCHANGED fixtureVars
  BY <1>1 DEF fixtureVars, threadVars, runVars, aggVars, pageVars, sendVars, CaptureInv, FixtureTypeOK,
              ScenesCurrent, CapturesAnnounced
<1>2. QED BY <1>1, ThreadInv, LoopInv, FrameInv, PageInv DEF FixtureNext

\* However the passes, the frames and the clicks of any number of pages interleave, a
\* target leaves the map of a page only with its capture or its run.
THEOREM NoCaptureMissed == FixtureSpec => []FixtureInv
<1>1. CaptureInv => FixtureInv
  BY DEF CaptureInv, FixtureInv
<1>2. QED BY CaptureInit, CaptureNext, <1>1, PTL DEF FixtureSpec

-----------------------------------------------------------------------------
(* The order of the statuses                                               *)

\* Status y may be shown after x; r are the passes of which two are told at once.
Follows(x, y, r) ==
  \/ y.run > x.run
  \/ y.run = x.run /\ (x.state = "STOPPED" => y.state = "STOPPED" \/ x.run \in r)

\* The statuses that are shown and being sent.
Told(shown, q) ==
  {shown[p] : p \in {x \in Pages : shown[x] # None}} \cup {q[k].status : k \in DOMAIN q}

\* The statuses q are in order and come after those told.
Trail(told, q, r) ==
  /\ \A a, b \in DOMAIN q : a < b => Follows(q[a], q[b], r)
  /\ \A e \in told : \A a \in DOMAIN q : Follows(e, q[a], r)

\* Status s may be told after them.
MayCome(told, q, s, r) ==
  /\ \A a \in DOMAIN q : Follows(q[a], s, r)
  /\ \A e \in told : Follows(e, s, r)

\* The broadcasts under way, q, are in order, each after what the pages it has yet to
\* visit show.
InLine(shown, q, r) ==
  /\ \A j, k \in DOMAIN q : j < k => Follows(q[j].status, q[k].status, r)
  /\ \A k \in DOMAIN q : \A p \in q[k].todo : shown[p] # None => Follows(shown[p], q[k].status, r)

\* No page that is not connected shows or is to be sent anything.
Connected(shown, q, pages) ==
  /\ \A p \in Pages \ pages : shown[p] = None
  /\ \A k \in DOMAIN q : q[k].todo \subseteq pages

\* The pass that runs, and what a change of speed has yet to tell, come last.
StatusOrder ==
  /\ state = "STOPPED" => thread = "ended"
  /\ InLine(panel, sends, raced) /\ Connected(panel, sends, up)
  /\ Trail(Told(panel, sends), calls, raced)
  /\ MayCome(Told(panel, sends), calls, StatusOf(state), raced)
  /\ loop.at = "tell" =>
       /\ loop.status.run = runSeq
       /\ MayCome(Told(panel, sends), calls, loop.status, raced)
       /\ Follows(loop.status, StatusOf(state), raced)

LEMMA ToldFact ==
  ASSUME FixtureTypeOK
  PROVE  Told(panel, sends) \in SUBSET Status
<1>1. panel \in [Pages -> Status \cup {None}] /\ \A k \in DOMAIN sends : sends[k].status \in Status
  BY BroadcastFact DEF FixtureTypeOK
<1>2. QED BY <1>1 DEF Told

LEMMA FollowsFact ==
  ASSUME NEW x \in Status, NEW y \in Status, NEW z \in Status, NEW r, NEW r2, r \subseteq r2
  PROVE  /\ Follows(x, x, r)
         /\ Follows(x, y, r) => Follows(x, y, r2)
         /\ Follows(x, y, r) /\ (z.run > y.run \/ (z.run = y.run /\ z.state = "STOPPED")) => Follows(x, z, r)
<1>1. x.run \in Nat /\ y.run \in Nat /\ z.run \in Nat
  BY DEF Status
<1>2. QED BY <1>1 DEF Follows

LEMMA InLineGrows ==
  ASSUME NEW r, NEW r2, r \subseteq r2, InLine(panel, sends, r)
  PROVE  InLine(panel, sends, r2)
BY DEF InLine, Follows

\* The first status of q is told.
LEMMA TakeFact ==
  ASSUME NEW told \in SUBSET Status, NEW q \in Seq(Status), q # <<>>, NEW r, Trail(told, q, r)
  PROVE  /\ Head(q) \in Status /\ Tail(q) \in Seq(Status)
         /\ \A e \in told : Follows(e, Head(q), r)
         /\ Trail(told \cup {Head(q)}, Tail(q), r)
         /\ \A s : MayCome(told, q, s, r) => MayCome(told \cup {Head(q)}, Tail(q), s, r)
<1>1. /\ Head(q) = q[1] /\ 1 \in DOMAIN q /\ q[1] \in Status /\ Tail(q) \in Seq(Status)
      /\ \A a \in DOMAIN Tail(q) : a \in Int /\ a + 1 \in DOMAIN q /\ 1 < a + 1 /\ Tail(q)[a] = q[a + 1]
  <2>1. /\ Len(q) \in Nat \ {0} /\ DOMAIN q = 1 .. Len(q)
        /\ DOMAIN Tail(q) = 1 .. Len(q) - 1
        /\ \A a \in 1 .. Len(q) - 1 : Tail(q)[a] = q[a + 1]
    OBVIOUS
  <2>2. \A a \in 1 .. Len(q) - 1 : a + 1 \in 1 .. Len(q) /\ 1 < a + 1
    BY <2>1
  <2>3. QED BY <2>1, <2>2
<1>2. ASSUME NEW a \in DOMAIN Tail(q), NEW b \in DOMAIN Tail(q), a < b
      PROVE  Follows(Tail(q)[a], Tail(q)[b], r)
  <2>1. a + 1 < b + 1
    BY <1>1, <1>2
  <2>2. QED BY <1>1, <2>1 DEF Trail
<1>3. ASSUME NEW e \in told \cup {Head(q)}, NEW a \in DOMAIN Tail(q)
      PROVE  Follows(e, Tail(q)[a], r)
  BY <1>1 DEF Trail
<1>4. ASSUME NEW s, MayCome(told, q, s, r) PROVE MayCome(told \cup {Head(q)}, Tail(q), s, r)
  BY <1>1, <1>4 DEF MayCome
<1>5. Trail(told \cup {Head(q)}, Tail(q), r)
  BY <1>2, <1>3 DEF Trail
<1>6. QED BY <1>1, <1>4, <1>5 DEF Trail

LEMMA FewerTold ==
  ASSUME NEW told, NEW fewer, fewer \subseteq told, NEW q, NEW r
  PROVE  /\ Trail(told, q, r) => Trail(fewer, q, r)
         /\ \A s : MayCome(told, q, s, r) => MayCome(fewer, q, s, r)
BY DEF Trail, MayCome

\* The k-th broadcast is over.
LEMMA DropFact ==
  ASSUME NEW q \in Seq(Broadcast), NEW k \in DOMAIN q, NEW shown, NEW r, NEW pages,
         \A i, j \in DOMAIN q : i < j => Follows(q[i].status, q[j].status, r),
         \A i \in DOMAIN q \ {k} : \A p \in q[i].todo :
            shown[p] # None => Follows(shown[p], q[i].status, r),
         Connected(shown, q, pages)
  PROVE  /\ InLine(shown, RemoveAt(q, k), r) /\ Connected(shown, RemoveAt(q, k), pages)
         /\ \A i \in DOMAIN RemoveAt(q, k) : \E j \in DOMAIN q : RemoveAt(q, k)[i].status = q[j].status
<1> DEFINE w == RemoveAt(q, k)
           at(i) == IF i < k THEN i ELSE i + 1
<1>1. /\ DOMAIN q = 1 .. Len(q) /\ Len(q) \in Nat \ {0} /\ DOMAIN w = 1 .. Len(q) - 1
      /\ \A i \in 1 .. Len(q) - 1 : w[i] = q[at(i)]
  <2>1. /\ DOMAIN q = 1 .. Len(q) /\ Len(q) \in Nat \ {0} /\ DOMAIN w = 1 .. Len(q) - 1
        /\ \A i \in 1 .. Len(q) - 1 : w[i] = IF i < k THEN q[i] ELSE q[i + 1]
    BY RemoveFact
  <2>2. QED BY <2>1
<1>2. k \in Int /\ \A i \in 1 .. Len(q) - 1 : at(i) \in DOMAIN q \ {k}
  BY <1>1
<1>3. \A i, j \in 1 .. Len(q) - 1 : i < j => at(i) < at(j)
  BY <1>1, <1>2
<1> HIDE DEF w, at
<1>4. ASSUME NEW i \in DOMAIN w, NEW j \in DOMAIN w, i < j PROVE Follows(w[i].status, w[j].status, r)
  BY <1>1, <1>2, <1>3, <1>4
<1>5. ASSUME NEW i \in DOMAIN w, NEW p \in w[i].todo, shown[p] # None
      PROVE  Follows(shown[p], w[i].status, r)
  BY <1>1, <1>2, <1>5
<1>6. \A i \in DOMAIN w : w[i].todo \subseteq pages
  BY <1>1, <1>2 DEF Connected
<1>7. \A i \in DOMAIN w : \E j \in DOMAIN q : w[i].status = q[j].status
  BY <1>1, <1>2
<1>8. InLine(shown, w, r) /\ Connected(shown, w, pages)
  BY <1>4, <1>5, <1>6 DEF InLine, Connected
<1>9. QED BY <1>7, <1>8 DEF w

LEMMA TrailFact ==
  ASSUME NEW told \in SUBSET Status, NEW q \in Seq(Status), NEW r, NEW r2, r \subseteq r2
  PROVE  /\ Trail(told, q, r) => Trail(told, q, r2)
         /\ \A s \in Status : MayCome(told, q, s, r) => MayCome(told, q, s, r2)
         /\ \A s, t \in Status : MayCome(told, q, s, r)
              /\ (t.run > s.run \/ (t.run = s.run /\ t.state = "STOPPED")) => MayCome(told, q, t, r)
<1>1. \A a \in DOMAIN q : q[a] \in Status
  OBVIOUS
<1>2. Trail(told, q, r) => Trail(told, q, r2)
  BY <1>1, FollowsFact DEF Trail
<1>3. ASSUME NEW s \in Status, MayCome(told, q, s, r) PROVE MayCome(told, q, s, r2)
  BY <1>1, <1>3, FollowsFact DEF MayCome
<1>4. ASSUME NEW s \in Status, NEW t \in Status, MayCome(told, q, s, r),
             t.run > s.run \/ (t.run = s.run /\ t.state = "STOPPED")
      PROVE  MayCome(told, q, t, r)
  BY <1>1, <1>4, FollowsFact DEF MayCome
<1>5. QED BY <1>2, <1>3, <1>4

LEMMA TellFact ==
  ASSUME NEW told \in SUBSET Status, NEW q \in Seq(Status), NEW r, NEW s \in Status,
         Trail(told, q, r), MayCome(told, q, s, r)
  PROVE  /\ Append(q, s) \in Seq(Status) /\ Trail(told, Append(q, s), r)
         /\ \A t \in Status : MayCome(told, q, t, r) /\ Follows(s, t, r)
                                => MayCome(told, Append(q, s), t, r)
<1> DEFINE c == Append(q, s)
<1>1. /\ c \in Seq(Status)
      /\ DOMAIN c = 1 .. Len(q) + 1 /\ DOMAIN q = 1 .. Len(q) /\ Len(q) \in Nat
      /\ \A a \in 1 .. Len(q) : c[a] = q[a]
      /\ c[Len(q) + 1] = s
  OBVIOUS
<1> HIDE DEF c
<1>2. \A a \in DOMAIN c : (a \in DOMAIN q /\ c[a] = q[a]) \/ (a = Len(q) + 1 /\ c[a] = s)
  <2>1. \A a \in 1 .. Len(q) + 1 : a \in 1 .. Len(q) \/ a = Len(q) + 1
    BY <1>1
  <2>2. QED BY <1>1, <2>1, Zenon
<1>3. ASSUME NEW a \in DOMAIN c, NEW b \in DOMAIN c, a < b PROVE Follows(c[a], c[b], r)
  <2>1. a \in DOMAIN q /\ c[a] = q[a]
    BY <1>1, <1>3
  <2>2. QED BY <1>2, <1>3, <2>1 DEF Trail, MayCome
<1>4. ASSUME NEW e \in told, NEW a \in DOMAIN c PROVE Follows(e, c[a], r)
  BY <1>2, <1>4 DEF Trail, MayCome
<1>5. ASSUME NEW t \in Status, MayCome(told, q, t, r), Follows(s, t, r) PROVE MayCome(told, c, t, r)
  BY <1>2, <1>5 DEF MayCome
<1>6. Trail(told, c, r)
  BY <1>3, <1>4 DEF Trail
<1>7. QED BY <1>1, <1>5, <1>6 DEF c

\* Steps that tell nothing.
LEMMA OrderKept ==
  ASSUME StatusOrder, calls' = calls, state' = state, runSeq' = runSeq, panel' = panel, sends' = sends, up' = up,
         raced' = raced,
         loop' = loop \/ loop'.at # "tell", state = "STOPPED" => thread' = "ended"
  PROVE  StatusOrder'
<1>1. StatusOf(state)' = StatusOf(state)
  BY DEF StatusOf
<1>2. QED BY <1>1 DEF StatusOrder

LEMMA OrderInit == FixtureInit => StatusOrder
BY DEF FixtureInit, StatusOrder, Trail, MayCome, InLine, Connected, Told, Free

LEMMA OrderThread ==
  ASSUME FixtureTypeOK, StatusOrder, ThreadStep
  PROVE  StatusOrder'
<1>0. /\ Told(panel, sends) \in SUBSET Status /\ calls \in Seq(Status)
      /\ state \in {"RUNNING", "STOPPED"} /\ runSeq \in Nat
      /\ (loop.at = "tell" => loop.status \in Status)
  BY ToldFact DEF FixtureTypeOK
<1> DEFINE now == StatusOf(state)
           end == StatusOf("STOPPED")
<1>1. /\ now \in Status /\ end \in Status
      /\ now.run = runSeq /\ now.state = state /\ end.run = runSeq /\ end.state = "STOPPED"
  BY <1>0, StatusFact DEF StatusOf
<1>2. /\ Trail(Told(panel, sends), calls, raced) /\ MayCome(Told(panel, sends), calls, now, raced)
      /\ loop.at = "tell" => /\ loop.status.run = runSeq /\ MayCome(Told(panel, sends), calls, loop.status, raced)
                             /\ Follows(loop.status, now, raced)
  BY DEF StatusOrder
<1>3. thread # "ended" => state = "RUNNING"
  BY <1>0 DEF StatusOrder
<1>4. CASE StepTargets
  BY <1>3, <1>4, OrderKept DEF StepTargets, runVars, pageVars, sendVars
<1>5. ASSUME NEW t \in Targets, CaptureTarget(t) PROVE StatusOrder'
  BY <1>3, <1>5, OrderKept DEF CaptureTarget, runVars, pageVars, sendVars
<1>6. CASE ExpireTrack
  BY <1>3, <1>6, OrderKept DEF ExpireTrack, runVars, pageVars, sendVars
<1>7. CASE Leave
  BY <1>7, OrderKept DEF Leave, runVars, pageVars, sendVars
<1>8. CASE Tick
  <2>1. /\ state = "RUNNING" /\ state' = state /\ runSeq' = runSeq
        /\ panel' = panel /\ sends' = sends /\ up' = up /\ raced' = raced /\ loop' = loop
        /\ calls' = calls \/ calls' = Append(calls, now)
    BY <1>3, <1>8 DEF Tick, runVars, pageVars, sendVars
  <2>2. StatusOf(state)' = now
    BY <2>1 DEF StatusOf
  <2> HIDE DEF now
  <2>3. CASE calls' = calls
    BY <2>1, <2>3, OrderKept
  <2>4. CASE calls' = Append(calls, now)
    <3>1. /\ Trail(Told(panel, sends), Append(calls, now), raced)
          /\ \A t \in Status : MayCome(Told(panel, sends), calls, t, raced) /\ Follows(now, t, raced)
                                 => MayCome(Told(panel, sends), Append(calls, now), t, raced)
      BY <1>0, <1>1, <1>2, TellFact
    <3>2. Follows(now, now, raced)
      BY <1>1, FollowsFact
    <3>3. loop.at = "tell" => Follows(now, loop.status, raced)
      BY <1>1, <1>2, <2>1 DEF Follows
    <3>4. QED BY <1>0, <1>1, <1>2, <2>1, <2>2, <2>4, <3>1, <3>2, <3>3 DEF StatusOrder
  <2>5. QED BY <2>1, <2>3, <2>4
<1>9. CASE Complete
  <2>1. /\ state = "RUNNING" /\ state' = "STOPPED" /\ thread' = "ended" /\ runSeq' = runSeq
        /\ panel' = panel /\ sends' = sends /\ up' = up /\ loop' = loop
        /\ calls' = Append(calls, end)
        /\ raced' = raced \cup {run \in {runSeq} : loop.at = "tell"}
    BY <1>3, <1>9 DEF Complete, pageVars, sendVars
  <2>2. PICK r : r = raced'
    OBVIOUS
  <2>3. raced \subseteq r /\ (loop.at = "tell" => runSeq \in r)
    BY <2>1, <2>2
  <2>4. StatusOf(state)' = end
    BY <2>1 DEF StatusOf
  <2> HIDE DEF now, end
  <2>5. /\ Trail(Told(panel, sends), calls, r) /\ MayCome(Told(panel, sends), calls, now, r)
        /\ loop.at = "tell" => MayCome(Told(panel, sends), calls, loop.status, r)
    BY <1>0, <1>1, <1>2, <2>3, TrailFact
  <2>a. InLine(panel, sends, r) /\ Connected(panel, sends, up)
    BY <2>3, InLineGrows DEF StatusOrder
  <2>6. MayCome(Told(panel, sends), calls, end, r)
    BY <1>0, <1>1, <2>1, <2>5, TrailFact
  <2>7. /\ Trail(Told(panel, sends), Append(calls, end), r)
        /\ \A t \in Status : MayCome(Told(panel, sends), calls, t, r) /\ Follows(end, t, r)
                               => MayCome(Told(panel, sends), Append(calls, end), t, r)
    BY <1>0, <1>1, <2>5, <2>6, TellFact
  <2>8. Follows(end, end, r)
    BY <1>1, FollowsFact
  <2>9. loop.at = "tell" => Follows(end, loop.status, r) /\ Follows(loop.status, end, r)
    BY <1>1, <1>2, <2>3 DEF Follows
  <2>10. QED BY <1>0, <1>1, <1>2, <2>1, <2>2, <2>4, <2>5, <2>6, <2>7, <2>8, <2>9, <2>a DEF StatusOrder
<1>10. QED BY <1>4, <1>5, <1>6, <1>7, <1>8, <1>9 DEF ThreadStep

\* A status is sent to more pages.
LEMMA ReachFact ==
  ASSUME FixtureTypeOK, InLine(panel, sends, raced), Connected(panel, sends, up),
         NEW s \in Status, NEW to \in SUBSET up, NEW n, Reach(s, to, n),
         \A k \in DOMAIN sends : ~(k < n) =>
           \A p \in sends[k].todo \cap to : k = n \/ Follows(s, sends[k].status, raced)
  PROVE  /\ \A k \in DOMAIN sends : k # n => \A p \in sends[k].todo :
              panel'[p] # None => Follows(panel'[p], sends[k].status, raced)
         /\ Connected(panel', sends, up)
         /\ \A p \in Pages : panel'[p] = IF p \in to THEN s ELSE panel[p]
<1>1. up \subseteq Pages /\ \A p \in Pages : panel'[p] = IF p \in to THEN s ELSE panel[p]
  BY DEF Reach, FixtureTypeOK
<1>2. Connected(panel', sends, up)
  BY <1>1 DEF Connected
<1>3. ASSUME NEW k \in DOMAIN sends, k # n, NEW p \in sends[k].todo, panel'[p] # None
      PROVE  Follows(panel'[p], sends[k].status, raced)
  <2>1. p \in Pages
    BY <1>1 DEF Connected
  <2>2. CASE p \in to
    <3>1. ~(k < n)
      BY <1>3, <2>2 DEF Reach
    <3>2. QED BY <1>1, <1>3, <2>1, <2>2, <3>1
  <2>3. CASE p \notin to
    BY <1>1, <1>3, <2>1, <2>3 DEF InLine
  <2>4. QED BY <2>2, <2>3
<1>4. QED BY <1>1, <1>2, <1>3

\* A broadcast that begins, goes on or ends.
LEMMA OrderSends ==
  ASSUME FixtureTypeOK, StatusOrder, BroadcastStatus \/ SendStep
  PROVE  StatusOrder'
<1> DEFINE told == Told(panel, sends)
<1>0. /\ told \in SUBSET Status /\ calls \in Seq(Status) /\ sends \in Seq(Broadcast)
      /\ \A k \in DOMAIN sends : sends[k].status \in Status /\ sends[k].status \in told
      /\ \A p \in Pages : panel[p] # None => panel[p] \in told
      /\ DOMAIN sends = 1 .. Len(sends) /\ Len(sends) \in Nat /\ up \subseteq Pages
  BY ToldFact, BroadcastFact DEF FixtureTypeOK, Told
<1>1. /\ InLine(panel, sends, raced) /\ Connected(panel, sends, up)
      /\ Trail(told, calls, raced) /\ MayCome(told, calls, StatusOf(state), raced)
      /\ loop.at = "tell" => /\ loop.status.run = runSeq /\ MayCome(told, calls, loop.status, raced)
                             /\ Follows(loop.status, StatusOf(state), raced)
      /\ state = "STOPPED" => thread = "ended"
  BY DEF StatusOrder
<1>2. /\ UNCHANGED <<thread, state, runSeq, raced, up, loop>> /\ loop.at # "tell"
      /\ StatusOf(state)' = StatusOf(state)
  BY DEF BroadcastStatus, SendStep, SendEnds, SendOn, Free, threadVars, runVars, StatusOf
<1> HIDE DEF told
<1>3. SUFFICES /\ InLine(panel', sends', raced) /\ Connected(panel', sends', up)
               /\ Trail(Told(panel', sends'), calls', raced)
               /\ MayCome(Told(panel', sends'), calls', StatusOf(state), raced)
  BY <1>1, <1>2 DEF StatusOrder
<1>4. CASE BroadcastStatus
  <2>1. PICK to \in SUBSET up :
          /\ Reach(Head(calls), to, Len(sends) + 1)
          /\ sends' = IF to = up THEN sends
                      ELSE Append(sends, [status |-> Head(calls), todo |-> up \ to,
                                          size |-> Cardinality(up)])
    BY <1>4 DEF BroadcastStatus
  <2>2. calls # <<>> /\ calls' = Tail(calls)
    BY <1>4 DEF BroadcastStatus
  <2> DEFINE s == Head(calls)
  <2>3. /\ s \in Status /\ \A e \in told : Follows(e, s, raced)
        /\ Trail(told \cup {s}, calls', raced)
        /\ MayCome(told \cup {s}, calls', StatusOf(state), raced)
    BY <1>0, <1>1, <2>2, TakeFact
  <2> HIDE DEF s
  <2>4. /\ \A k \in DOMAIN sends : \A p \in sends[k].todo :
             panel'[p] # None => Follows(panel'[p], sends[k].status, raced)
        /\ Connected(panel', sends, up)
        /\ \A p \in Pages : panel'[p] = IF p \in to THEN s ELSE panel[p]
    <3>1. \A k \in DOMAIN sends : k < Len(sends) + 1 /\ k # Len(sends) + 1
      BY <1>0
    <3>2. Reach(s, to, Len(sends) + 1)
      BY <2>1 DEF s
    <3>3. QED BY <1>1, <2>3, <3>1, <3>2, ReachFact
  <2>5. InLine(panel', sends, raced) /\ Told(panel', sends) \subseteq told \cup {s}
    BY <1>0, <1>1, <2>4 DEF InLine, Told
  <2>6. CASE to = up
    BY <2>1, <2>3, <2>4, <2>5, <2>6, FewerTold
  <2>7. CASE to # up
    <3> DEFINE n == Len(sends) + 1
    <3>1. /\ DOMAIN sends' = 1 .. n /\ n \in Nat
          /\ \A k \in DOMAIN sends : sends'[k] = sends[k]
          /\ sends'[n].status = s /\ sends'[n].todo = up \ to
          /\ \A k \in 1 .. n : k \in DOMAIN sends \/ k = n
      BY <1>0, <2>1, <2>7 DEF s
    <3>2. ASSUME NEW j \in DOMAIN sends', NEW k \in DOMAIN sends', j < k
          PROVE  Follows(sends'[j].status, sends'[k].status, raced)
      <4>1. j \in DOMAIN sends
        BY <1>0, <3>1, <3>2
      <4>2. CASE k \in DOMAIN sends
        BY <1>1, <3>1, <3>2, <4>1, <4>2 DEF InLine
      <4>3. CASE k = n
        BY <1>0, <2>3, <3>1, <4>1, <4>3
      <4>4. QED BY <3>1, <4>2, <4>3
    <3>3. ASSUME NEW k \in DOMAIN sends', NEW p \in sends'[k].todo, panel'[p] # None
          PROVE  Follows(panel'[p], sends'[k].status, raced)
      <4>1. CASE k \in DOMAIN sends
        BY <2>4, <3>1, <3>3, <4>1
      <4>2. CASE k = n
        <5>1. p \in up /\ p \notin to /\ p \in Pages
          BY <1>0, <3>1, <3>3, <4>2
        <5>2. QED BY <1>0, <2>3, <2>4, <3>1, <3>3, <4>2, <5>1
      <4>3. QED BY <3>1, <4>1, <4>2
    <3> HIDE DEF n
    <3>4. InLine(panel', sends', raced)
      BY <3>2, <3>3 DEF InLine
    <3>5. Connected(panel', sends', up)
      BY <2>4, <3>1 DEF Connected
    <3>6. Told(panel', sends') \subseteq told \cup {s}
      BY <2>5, <3>1 DEF Told
    <3>7. QED BY <2>3, <3>4, <3>5, <3>6, FewerTold
  <2>8. QED BY <2>6, <2>7
<1>5. ASSUME NEW k \in DOMAIN sends, SendEnds(k)
      PROVE  /\ InLine(panel', sends', raced) /\ Connected(panel', sends', up)
             /\ Told(panel', sends') \subseteq told /\ calls' = calls
  <2>1. sends' = RemoveAt(sends, k) /\ panel' = panel /\ calls' = calls
    BY <1>5 DEF SendEnds
  <2>2. /\ InLine(panel, RemoveAt(sends, k), raced) /\ Connected(panel, RemoveAt(sends, k), up)
        /\ \A i \in DOMAIN RemoveAt(sends, k) : \E j \in DOMAIN sends :
             RemoveAt(sends, k)[i].status = sends[j].status
    <3>1. /\ \A i, j \in DOMAIN sends : i < j => Follows(sends[i].status, sends[j].status, raced)
          /\ \A i \in DOMAIN sends \ {k} : \A p \in sends[i].todo :
               panel[p] # None => Follows(panel[p], sends[i].status, raced)
      BY <1>1 DEF InLine
    <3>2. QED BY <1>0, <1>1, <3>1, DropFact
  <2>3. Told(panel, RemoveAt(sends, k)) \subseteq told
    BY <1>0, <2>2 DEF Told
  <2>4. QED BY <2>1, <2>2, <2>3
<1>6. ASSUME NEW k \in DOMAIN sends, NEW to \in SUBSET sends[k].todo, SendOn(k, to)
      PROVE  /\ InLine(panel', sends', raced) /\ Connected(panel', sends', up)
             /\ Told(panel', sends') \subseteq told /\ calls' = calls
  <2> DEFINE s == sends[k].status
  <2>1. /\ Reach(s, to, k) /\ calls' = calls
        /\ sends' = IF to = sends[k].todo THEN RemoveAt(sends, k)
                    ELSE [sends EXCEPT ![k].todo = @ \ to]
    BY <1>6 DEF SendOn
  <2>2. to \in SUBSET up /\ s \in Status /\ s \in told
    BY <1>0, <1>1 DEF Connected
  <2>3. \A j \in DOMAIN sends : ~(j < k) => j = k \/ Follows(s, sends[j].status, raced)
    BY <1>0, <1>1 DEF InLine
  <2> HIDE DEF s
  <2>4. /\ \A j \in DOMAIN sends : j # k => \A p \in sends[j].todo :
              panel'[p] # None => Follows(panel'[p], sends[j].status, raced)
        /\ Connected(panel', sends, up)
        /\ \A p \in Pages : panel'[p] = IF p \in to THEN s ELSE panel[p]
    BY <1>1, <2>1, <2>2, <2>3, ReachFact
  <2>5. CASE to = sends[k].todo
    <3>1. sends' = RemoveAt(sends, k)
      BY <2>1, <2>5
    <3>2. /\ InLine(panel', RemoveAt(sends, k), raced) /\ Connected(panel', RemoveAt(sends, k), up)
          /\ \A i \in DOMAIN RemoveAt(sends, k) : \E j \in DOMAIN sends :
               RemoveAt(sends, k)[i].status = sends[j].status
      <4>1. \A i, j \in DOMAIN sends : i < j => Follows(sends[i].status, sends[j].status, raced)
        BY <1>1 DEF InLine
      <4>2. QED BY <1>0, <2>4, <4>1, DropFact
    <3>3. Told(panel', RemoveAt(sends, k)) \subseteq told
      BY <1>0, <2>2, <2>4, <3>2 DEF Told
    <3>4. QED BY <2>1, <3>1, <3>2, <3>3
  <2>6. CASE to # sends[k].todo
    <3>1. /\ DOMAIN sends' = DOMAIN sends
          /\ \A j \in DOMAIN sends : /\ sends'[j].status = sends[j].status
                                     /\ j # k => sends'[j].todo = sends[j].todo
          /\ sends'[k].todo = sends[k].todo \ to
      <4>1. sends' = [sends EXCEPT ![k].todo = @ \ to] /\ \A j \in DOMAIN sends : sends[j] \in Broadcast
        BY <1>0, <2>1, <2>6, BroadcastFact
      <4>2. QED BY <1>0, <4>1 DEF Broadcast
    <3>2. ASSUME NEW p \in sends'[k].todo, panel'[p] # None PROVE Follows(panel'[p], sends'[k].status, raced)
      <4>1. p \in sends[k].todo /\ p \notin to /\ p \in Pages
        BY <1>0, <1>1, <3>1, <3>2 DEF Connected
      <4>2. QED BY <1>1, <2>4, <3>1, <3>2, <4>1 DEF InLine
    <3>3. InLine(panel', sends', raced)
      BY <1>1, <2>4, <3>1, <3>2 DEF InLine
    <3>4. Connected(panel', sends', up)
      BY <2>4, <3>1 DEF Connected
    <3>5. Told(panel', sends') \subseteq told
      BY <1>0, <2>2, <2>4, <3>1 DEF Told
    <3>6. QED BY <2>1, <3>3, <3>4, <3>5
  <2>7. QED BY <2>5, <2>6
<1>7. CASE SendStep
  BY <1>1, <1>5, <1>6, <1>7, FewerTold DEF SendStep
<1>8. QED BY <1>4, <1>7

LEMMA OrderLoop ==
  ASSUME FixtureTypeOK, StatusOrder, LoopStep
  PROVE  StatusOrder'
<1>0. /\ Told(panel, sends) \in SUBSET Status /\ calls \in Seq(Status)
      /\ state \in {"RUNNING", "STOPPED"} /\ runSeq \in Nat
      /\ (loop.at = "tell" => loop.status \in Status)
  BY ToldFact DEF FixtureTypeOK
<1> DEFINE now == StatusOf(state)
           end == StatusOf("STOPPED")
           begin == BeginStatus
<1>1. /\ now \in Status /\ end \in Status /\ now.run = runSeq /\ now.state = state
      /\ end.run = runSeq /\ end.state = "STOPPED"
      /\ begin \in Status /\ begin.run = runSeq + 1
  BY <1>0, StatusFact DEF StatusOf, BeginStatus
<1>2. /\ Trail(Told(panel, sends), calls, raced) /\ MayCome(Told(panel, sends), calls, now, raced)
      /\ loop.at = "tell" => /\ loop.status.run = runSeq /\ MayCome(Told(panel, sends), calls, loop.status, raced)
                             /\ Follows(loop.status, now, raced)
  BY DEF StatusOrder
\* What a halt leaves for the loop.
<1> DEFINE q == calls \o HaltStatus
<1>3. /\ q \in Seq(Status) /\ Trail(Told(panel, sends), q, raced)
      /\ MayCome(Told(panel, sends), q, end, raced) /\ MayCome(Told(panel, sends), q, begin, raced)
  <2>1. MayCome(Told(panel, sends), calls, end, raced) /\ MayCome(Told(panel, sends), calls, begin, raced)
    <3> HIDE DEF now, end, begin
    <3>1. begin.run > now.run
      BY <1>0, <1>1
    <3>2. QED BY <1>0, <1>1, <1>2, <3>1, TrailFact
  <2>2. CASE state = "RUNNING"
    <3>1. q = Append(calls, end)
      BY <1>0, <2>2 DEF HaltStatus
    <3> HIDE DEF now, end, begin, q
    <3>2. Follows(end, end, raced) /\ Follows(end, begin, raced)
      BY <1>0, <1>1 DEF Follows
    <3>3. QED BY <1>0, <1>1, <1>2, <2>1, <3>1, <3>2, TellFact
  <2>3. CASE state # "RUNNING"
    <3>1. q = calls
      BY <1>0, <2>3 DEF HaltStatus
    <3>2. QED BY <1>0, <1>2, <2>1, <3>1
  <2>4. QED BY <2>2, <2>3
<1>4. ASSUME NEW p \in Pages, Halt(p) PROVE StatusOrder'
  <2>1. loop'.at # "tell" /\ UNCHANGED <<thread, calls, state, runSeq, panel, sends, up, raced>>
    BY <1>4 DEF Halt, Free, runVars, pageVars, sendVars
  <2>2. QED BY <2>1, OrderKept DEF StatusOrder
<1>5. ASSUME NEW p \in Pages, SetSpeed(p) PROVE StatusOrder'
  <2>1. /\ loop'.at = "tell" /\ loop'.status = now
        /\ UNCHANGED <<thread, calls, state, runSeq, panel, sends, up, raced>>
    BY <1>5 DEF SetSpeed, threadVars, runVars, pageVars, sendVars
  <2>2. StatusOf(state)' = now
    BY <2>1 DEF StatusOf
  <2> HIDE DEF now
  <2>3. Follows(now, now, raced)
    BY <1>1, FollowsFact
  <2>4. QED BY <1>1, <1>2, <2>1, <2>2, <2>3 DEF StatusOrder
<1>6. CASE Halted
  <2>1. /\ thread' = "ended" /\ state' = "STOPPED" /\ runSeq' = runSeq /\ calls' = q /\ loop'.at # "tell"
        /\ panel' = panel /\ sends' = sends /\ up' = up /\ raced' = raced
    BY <1>6 DEF Halted, Answered, Free, threadVars, sendVars
  <2>2. StatusOf(state)' = end
    BY <2>1 DEF StatusOf
  <2> HIDE DEF q, end
  <2>3. QED BY <1>3, <2>1, <2>2 DEF StatusOrder
<1>7. CASE Began
  <2>1. /\ state' = "RUNNING" /\ runSeq' = runSeq + 1 /\ calls' = q \o <<begin>> /\ loop'.at # "tell"
        /\ panel' = panel /\ sends' = sends /\ up' = up /\ raced' = raced
    BY <1>7 DEF Began, Answered, Free, sendVars
  <2>2. StatusOf(state)' = begin
    BY <2>1 DEF StatusOf, BeginStatus
  <2>3. q \o <<begin>> = Append(q, begin)
    BY <1>3
  <2> HIDE DEF q, begin
  <2>4. Follows(begin, begin, raced)
    BY <1>1, FollowsFact
  <2>5. /\ Trail(Told(panel, sends), Append(q, begin), raced)
        /\ MayCome(Told(panel, sends), Append(q, begin), begin, raced)
    BY <1>0, <1>1, <1>3, <2>4, TellFact
  <2>6. QED BY <2>1, <2>2, <2>3, <2>5 DEF StatusOrder
<1>8. CASE SpeedTold
  <2>1. /\ loop.at = "tell" /\ calls' = Append(calls, loop.status) /\ loop'.at # "tell"
        /\ UNCHANGED <<thread, state, runSeq, panel, sends, up, raced>>
    BY <1>8 DEF SpeedTold, Answered, Free, threadVars, runVars, sendVars
  <2>2. StatusOf(state)' = now
    BY <2>1 DEF StatusOf
  <2> HIDE DEF now
  <2>3. /\ Trail(Told(panel, sends), Append(calls, loop.status), raced)
        /\ MayCome(Told(panel, sends), Append(calls, loop.status), now, raced)
    BY <1>0, <1>1, <1>2, <2>1, TellFact
  <2>4. QED BY <2>1, <2>2, <2>3 DEF StatusOrder
<1>9. CASE BroadcastStatus \/ SendStep
  BY <1>9, OrderSends
<1>10. QED BY <1>4, <1>5, <1>6, <1>7, <1>8, <1>9 DEF LoopStep

LEMMA OrderPage ==
  ASSUME FixtureTypeOK, StatusOrder, NEW p \in Pages,
         ClickRun(p) \/ (\E action \in {"stop", "setSpeed"} : Click(p, action))
           \/ ClosePage(p) \/ OpenPage(p)
  PROVE  StatusOrder'
<1>1. UNCHANGED <<thread, calls, state, runSeq, raced, loop>>
  BY DEF ClickRun, Click, ClosePage, OpenPage, threadVars, runVars
<1>2. CASE ClickRun(p) \/ \E action \in {"stop", "setSpeed"} : Click(p, action)
  <2>1. panel' = panel /\ sends' = sends /\ up' = up
    BY <1>2 DEF ClickRun, Click, sendVars
  <2>2. QED BY <1>1, <2>1, OrderKept DEF StatusOrder
<1>3. CASE ClosePage(p) \/ OpenPage(p)
  <2>1. /\ Retargeted(sends, sends') /\ StatusOf(state)' = StatusOf(state)
        /\ \A k \in DOMAIN sends : \A x \in sends'[k].todo : x \in sends[k].todo \/ (OpenPage(p) /\ x = p)
    BY <1>1, <1>3, ClosingFact, OpeningFact DEF StatusOf
  <2>2. /\ \A x \in Pages : panel'[x] = None \/ panel'[x] = panel[x]
        /\ \A x \in Pages : x \notin up' => panel'[x] = None
        /\ OpenPage(p) => panel'[p] = None
        /\ \A k \in DOMAIN sends : sends'[k].todo \subseteq up'
    <3>1. CASE ClosePage(p)
      <4>1. panel' = [panel EXCEPT ![p] = None] /\ up' = up \ {p}
        BY <3>1 DEF ClosePage
      <4>2. \A k \in DOMAIN sends : sends'[k].todo = sends[k].todo \ {p}
        BY <3>1, ClosingFact
      <4>3. ~OpenPage(p)
        BY <3>1 DEF ClosePage, OpenPage
      <4>4. QED BY <4>1, <4>2, <4>3 DEF StatusOrder, Connected, FixtureTypeOK
    <3>2. CASE OpenPage(p)
      <4>1. panel' = panel /\ up' = up \cup {p} /\ p \notin up
        BY <3>2 DEF OpenPage
      <4>2. QED BY <2>1, <4>1 DEF StatusOrder, Connected
    <3>3. QED BY <1>3, <3>1, <3>2
  <2>3. Told(panel', sends') \subseteq Told(panel, sends)
    BY <2>1, <2>2 DEF Told, Retargeted
  <2>4. Connected(panel', sends', up')
    BY <2>1, <2>2 DEF Connected, Retargeted
  <2>5. InLine(panel', sends', raced)
    <3>1. ASSUME NEW k \in DOMAIN sends, NEW x \in sends'[k].todo, panel'[x] # None
          PROVE  Follows(panel'[x], sends[k].status, raced)
      <4>1. x \in Pages
        BY <1>3, <2>2 DEF FixtureTypeOK, ClosePage, OpenPage
      <4>2. x \in sends[k].todo /\ panel'[x] = panel[x]
        BY <2>1, <2>2, <3>1, <4>1
      <4>3. QED BY <3>1, <4>2 DEF StatusOrder, InLine
    <3>2. QED BY <2>1, <3>1 DEF StatusOrder, InLine, Retargeted
  <2>6. QED BY <1>1, <2>1, <2>3, <2>4, <2>5, FewerTold DEF StatusOrder
<1>4. QED BY <1>2, <1>3

LEMMA OrderNext == FixtureTypeOK /\ StatusOrder /\ [FixtureNext]_fixtureVars => StatusOrder'
<1> SUFFICES ASSUME FixtureTypeOK, StatusOrder, [FixtureNext]_fixtureVars PROVE StatusOrder'
  OBVIOUS
<1>1. CASE UNCHANGED fixtureVars \/ BroadcastFrame
  <2>1. UNCHANGED <<thread, calls, state, runSeq, panel, sends, up, raced, loop>>
    BY <1>1 DEF fixtureVars, BroadcastFrame, threadVars, runVars, pageVars, sendVars
  <2>2. QED BY <2>1, OrderKept DEF StatusOrder
<1>2. QED BY <1>1, OrderThread, OrderLoop, OrderPage DEF FixtureNext

\* However the thread, the loop and the clicks of any pages interleave, no panel goes back
\* to an earlier pass, nor from STOPPED to RUNNING within one, unless a change of speed was
\* told while the pass completed (_emit_status of sources.py, on two threads).
THEOREM PanelsNeverTurnBack == FixtureSpec => StatusesInOrder
<1>1. CaptureInv /\ StatusOrder /\ [FixtureNext]_fixtureVars =>
        [\A p \in Pages :
           panel[p] # None /\ panel'[p] # None =>
             \/ panel'[p].run > panel[p].run
             \/ /\ panel'[p].run = panel[p].run
                /\ panel[p].state = "STOPPED" => panel'[p].state = "STOPPED" \/ panel[p].run \in raced]_panel
  <2> SUFFICES ASSUME CaptureInv, StatusOrder, [FixtureNext]_fixtureVars, panel' # panel,
                      NEW p \in Pages, panel[p] # None, panel'[p] # None
               PROVE  Follows(panel[p], panel'[p], raced)
    BY DEF Follows
  <2>0. FixtureTypeOK
    BY DEF CaptureInv
  <2>1. BroadcastStatus \/ SendStep \/ \E s \in Pages : ClosePage(s)
    BY DEF FixtureNext, LoopStep, ThreadStep, fixtureVars, runVars, pageVars, sendVars, threadVars,
           StepTargets, CaptureTarget, ExpireTrack, Tick, Complete, Leave, Halt, SetSpeed, Halted,
           Began, SpeedTold, BroadcastFrame, ClickRun, Click, OpenPage
  <2>2. panel[p] \in Status
    BY <2>0 DEF FixtureTypeOK
  <2>3. CASE BroadcastStatus
    <3>1. panel'[p] = panel[p] \/ panel'[p] = Head(calls)
      BY <2>3 DEF BroadcastStatus, Reach
    <3>2. calls \in Seq(Status) /\ calls # <<>>
      BY <2>0, <2>3 DEF FixtureTypeOK, BroadcastStatus
    <3>3. panel[p] \in Told(panel, sends) /\ Told(panel, sends) \in SUBSET Status
      BY <2>0, ToldFact DEF Told
    <3>4. Follows(panel[p], Head(calls), raced)
      BY <3>2, <3>3, TakeFact DEF StatusOrder
    <3>5. QED BY <2>2, <3>1, <3>4, FollowsFact
  <2>4. CASE SendStep
    <3>1. panel' = panel \/ \E k \in DOMAIN sends : \E to \in SUBSET sends[k].todo :
            panel'[p] = IF p \in to THEN sends[k].status ELSE panel[p]
      BY <2>4 DEF SendStep, SendEnds, SendOn, Reach
    <3>2. \A k \in DOMAIN sends : p \in sends[k].todo => Follows(panel[p], sends[k].status, raced)
      BY DEF StatusOrder, InLine
    <3>3. Follows(panel[p], panel[p], raced)
      BY <2>2, FollowsFact
    <3>4. QED BY <3>1, <3>2, <3>3
  <2>5. CASE \E s \in Pages : ClosePage(s)
    <3>1. panel'[p] = panel[p]
      BY <2>0, <2>5 DEF ClosePage, FixtureTypeOK
    <3>2. QED BY <2>2, <3>1, FollowsFact
  <2>6. QED BY <2>1, <2>3, <2>4, <2>5
<1>2. CaptureInv => FixtureTypeOK
  BY DEF CaptureInv
<1>3. QED BY <1>1, <1>2, CaptureInit, CaptureNext, OrderInit, OrderNext, PTL DEF FixtureSpec, StatusesInOrder

=============================================================================
