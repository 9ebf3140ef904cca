------------------------------- MODULE Fixture -------------------------------
(***************************************************************************)
(* FixtureSource of sources.py behind the server and its pages: a thread   *)
(* that flies one pass of a synthetic scene, and the server's loop, which  *)
(* begins and halts passes for scenario_proxy and may block in a join.     *)
(* Both read and write the same fields, fill the same Aggregator and hand  *)
(* run statuses to the loop, which sends them, like the frames, to every   *)
(* page that is connected.  A status is sent to one page after the other,  *)
(* by a task that waits for a page that is slow and fails when a page has  *)
(* come or gone meanwhile.                                                 *)
(*                                                                         *)
(* How fast a step is, and where drones and targets are, is left out: the  *)
(* drones of a pass reach targets every Period ticks.                      *)
(***************************************************************************)
EXTENDS Integers, FiniteSets, Sequences, SequencesExt

CONSTANTS
  Pages,
  Steadfast, \* pages that are never closed
  Targets,
  Period,    \* ticks until drones reach targets
  None,
  MaxRuns,   \* bound: passes that are begun
  MaxCalls,  \* bound: statuses that wait for the loop when one more is made
  MaxSends   \* bound: statuses that are being sent at a time

ASSUME FixtureAssumption ==
  /\ IsFiniteSet(Pages) /\ Steadfast \subseteq Pages
  /\ IsFiniteSet(Targets) /\ Targets # {}
  /\ Period \in Nat \ {0} /\ MaxRuns \in Nat \ {0}
  /\ MaxCalls \in Nat \ {0} /\ MaxSends \in Nat \ {0}

VARIABLES
  stop,     \* _stop
  thread,   \* where the thread is in _run
  phase,    \* _t, in ticks within a period
  captured, \* _captured
  state,    \* _state
  runSeq,   \* _run_seq
  tracks,   \* _tracks of the aggregator
  events,   \* _events of the aggregator
  loop,     \* what the server's loop is at
  calls,    \* statuses handed to the loop
  asked,    \* of each page, its request that is under way
  up,       \* pages that are connected
  sends,    \* the broadcasts of statuses that have begun, each with the pages it has yet
            \* to visit and what its iterator remembers of the set's size
  panel,    \* sim in the store of each page
  scene,    \* what a steadfast page shows of the frames
  raced,    \* history: the passes that ended while the loop told another status of them
  missed    \* history: the steadfast pages that the end of this pass was never sent to, as
            \* the broadcast of it failed

threadVars == <<stop, thread, phase>>
runVars == <<captured, state, runSeq>>
aggVars == <<tracks, events>>
sendVars == <<sends, panel, missed>>
pageVars == <<asked, up, scene, sendVars>>
fixtureVars == <<threadVars, runVars, aggVars, loop, calls, pageVars, raced>>

Status == [run : Nat, state : {"RUNNING", "STOPPED"}]
StatusOf(s) == [run |-> runSeq, state |-> s]
Broadcast == [status : Status, todo : SUBSET Pages, size : Nat]

Free == [at |-> "free", page |-> None, status |-> None]

\* Owed are the targets that were shown alive, of this run, and whose capture was not.
EmptyScene == [run |-> 0, tracks |-> {}, owed |-> {}]

FixtureTypeOK ==
  /\ stop \in BOOLEAN
  /\ thread \in {"top", "engage", "expire", "tick", "ended"}
  /\ phase \in 0 .. Period - 1
  /\ captured \in SUBSET Targets /\ state \in {"RUNNING", "STOPPED"} /\ runSeq \in Nat
  /\ tracks \in SUBSET Targets /\ events \in SUBSET Targets
  /\ loop \in [at : {"free", "begin", "halt", "tell"}, page : Pages \cup {None},
               status : Status \cup {None}]
  /\ loop.at = "tell" => loop.status \in Status
  /\ calls \in Seq(Status)
  /\ asked \in [Pages -> {"nothing", "run", "stop", "setSpeed"}]
  /\ up \in SUBSET Pages /\ Steadfast \subseteq up /\ sends \in Seq(Broadcast)
  /\ panel \in [Pages -> Status \cup {None}]
  /\ scene \in [Steadfast -> [run : Nat, tracks : SUBSET Targets, owed : SUBSET Targets]]
  /\ raced \in SUBSET Nat /\ missed \in SUBSET Steadfast

\* serve() has started the first pass, whose first status is dropped, and then attached
\* the source to the loop: before the thread tells anything.
FixtureInit ==
  /\ stop = FALSE /\ thread = "top" /\ phase = 0
  /\ captured = {} /\ state = "RUNNING" /\ runSeq = 1
  /\ tracks = {} /\ events = {}
  /\ loop = Free /\ calls = <<>>
  /\ asked = [p \in Pages |-> "nothing"]
  /\ up = Pages /\ sends = <<>>
  /\ panel = [p \in Pages |-> None]
  /\ scene = [p \in Steadfast |-> EmptyScene]
  /\ raced = {} /\ missed = {}

-----------------------------------------------------------------------------
(* _run and _step, in the thread                                           *)

Alive == Targets \ captured

StepTargets ==
  /\ thread = "top" /\ ~stop
  /\ tracks' = tracks \cup Alive
  /\ thread' = IF phase = Period - 1 THEN "engage" ELSE "tick"
  /\ UNCHANGED <<stop, phase, runVars, events, loop, calls, pageVars, raced>>

\* Mutant: the capture is not reported.
CaptureSilently(t) ==
  /\ thread = "engage" /\ t \in Alive
  /\ captured' = captured \cup {t}
  /\ thread' = "expire"
  /\ UNCHANGED <<stop, phase, state, runSeq, aggVars, loop, calls, pageVars, raced>>

CaptureTarget(t) ==
  /\ thread = "engage" /\ t \in Alive
  /\ captured' = captured \cup {t}
  /\ events' = events \cup {t}
  /\ thread' = "expire"
  /\ UNCHANGED <<stop, phase, state, runSeq, tracks, loop, calls, pageVars, raced>>

\* The next drone may capture a target that is still alive, too.
ExpireTrack ==
  /\ thread = "expire"
  /\ tracks' = tracks \ captured
  /\ thread' \in {"tick"} \cup (IF Alive = {} THEN {} ELSE {"engage"})
  /\ UNCHANGED <<stop, phase, runVars, events, loop, calls, pageVars, raced>>

\* A status every so many ticks.
Tick ==
  /\ thread = "tick" /\ Alive # {}
  /\ phase' = IF phase = Period - 1 THEN 0 ELSE phase + 1
  /\ thread' = "top"
  /\ \/ UNCHANGED calls
     \/ Len(calls) < MaxCalls /\ calls' = Append(calls, StatusOf(state))
  /\ UNCHANGED <<stop, runVars, aggVars, loop, pageVars, raced>>

\* Mutant: the end of the pass is not told.
CompleteSilently ==
  /\ thread = "tick" /\ Alive = {}
  /\ state' = "STOPPED" /\ thread' = "ended"
  /\ raced' = raced \cup {run \in {runSeq} : loop.at = "tell"}
  /\ UNCHANGED <<stop, phase, captured, runSeq, aggVars, loop, calls, pageVars>>

Complete ==
  /\ thread = "tick" /\ Alive = {}
  /\ state' = "STOPPED" /\ thread' = "ended"
  /\ calls' = Append(calls, StatusOf("STOPPED"))
  /\ raced' = raced \cup {run \in {runSeq} : loop.at = "tell"}
  /\ UNCHANGED <<stop, phase, captured, runSeq, aggVars, loop, pageVars>>

Leave ==
  /\ thread = "top" /\ stop
  /\ thread' = "ended"
  /\ UNCHANGED <<stop, phase, runVars, aggVars, loop, calls, pageVars, raced>>

ThreadStep ==
  \/ StepTargets \/ (\E t \in Targets : CaptureTarget(t)) \/ ExpireTrack
  \/ Tick \/ Complete \/ Leave

-----------------------------------------------------------------------------
(* scenario_proxy, on the loop                                             *)

\* _halt: the loop waits for the thread, with everything else it has to do.
Halt(p) ==
  /\ loop = Free /\ p \in up /\ asked[p] \in {"run", "stop"}
  /\ stop' = TRUE
  /\ loop' = [Free EXCEPT !.at = IF asked[p] = "run" THEN "begin" ELSE "halt", !.page = p]
  /\ UNCHANGED <<thread, phase, runVars, aggVars, calls, pageVars, raced>>

\* A pass that has not completed is stopped, and that is told.
HaltStatus == IF state = "RUNNING" THEN <<StatusOf("STOPPED")>> ELSE <<>>

Answered(p) == asked' = [asked EXCEPT ![p] = "nothing"] /\ loop' = Free

Halted ==
  /\ loop.at = "halt" /\ thread = "ended"
  /\ state' = "STOPPED"
  /\ calls' = calls \o HaltStatus
  /\ Answered(loop.page)
  /\ UNCHANGED <<threadVars, captured, runSeq, aggVars, up, scene, sendVars, raced>>

BeginStatus == [run |-> runSeq + 1, state |-> "RUNNING"]

\* Mutant: the new pass is told before the end of the old one.
BeganFirst ==
  /\ loop.at = "begin" /\ thread = "ended"
  /\ stop' = FALSE /\ thread' = "top" /\ phase' = 0
  /\ captured' = {} /\ state' = "RUNNING" /\ runSeq' = runSeq + 1
  /\ tracks' = {} /\ events' = {}
  /\ calls' = calls \o <<BeginStatus>> \o HaltStatus
  /\ missed' = {}
  /\ Answered(loop.page)
  /\ UNCHANGED <<up, scene, sends, panel, raced>>

\* _begin: the fields and the aggregator are reset, and the next thread starts.
Began ==
  /\ loop.at = "begin" /\ thread = "ended"
  /\ stop' = FALSE /\ thread' = "top" /\ phase' = 0
  /\ captured' = {} /\ state' = "RUNNING" /\ runSeq' = runSeq + 1
  /\ tracks' = {} /\ events' = {}
  /\ calls' = calls \o HaltStatus \o <<BeginStatus>>
  /\ missed' = {}
  /\ Answered(loop.page)
  /\ UNCHANGED <<up, scene, sends, panel, raced>>

\* sim.setSpeed: _emit_status has read the fields, and hands them over a moment later.
SetSpeed(p) ==
  /\ loop = Free /\ p \in up /\ asked[p] = "setSpeed" /\ Len(calls) < MaxCalls
  /\ loop' = [at |-> "tell", page |-> p, status |-> StatusOf(state)]
  /\ UNCHANGED <<threadVars, runVars, aggVars, calls, pageVars, raced>>

SpeedTold ==
  /\ loop.at = "tell"
  /\ calls' = Append(calls, loop.status)
  /\ Answered(loop.page)
  /\ UNCHANGED <<threadVars, runVars, aggVars, up, scene, sendVars, raced>>

-----------------------------------------------------------------------------
(* The rest of the server's loop, and the pages                            *)

\* The status is sent to the pages to, which does not overtake the broadcasts before the
\* k-th: a connection takes first what it was sent first.
Reach(status, to, k) ==
  /\ \A j \in DOMAIN sends : j < k => to \cap sends[j].todo = {}
  /\ panel' = [p \in Pages |-> IF p \in to THEN status ELSE panel[p]]
  /\ missed' = IF status = StatusOf("STOPPED") THEN missed \ to ELSE missed

\* _broadcast of a status begins, and goes on until it has to wait for a page it has sent
\* to: its iterator is one of the set of clients itself.
BroadcastStatus ==
  /\ loop = Free /\ calls # <<>> /\ Len(sends) < MaxSends
  /\ \E to \in SUBSET up :
       /\ to # {} \/ up = {}
       /\ Reach(Head(calls), to, Len(sends) + 1)
       /\ sends' = IF to = up THEN sends
                   ELSE Append(sends, [status |-> Head(calls), todo |-> up \ to,
                                       size |-> Cardinality(up)])
  /\ calls' = Tail(calls)
  /\ UNCHANGED <<threadVars, runVars, aggVars, loop, asked, up, scene, raced>>

\* Python refuses to go on with a set whose size has changed.
IteratorValid(k) == sends[k].size = Cardinality(up)

\* The k-th goes on to more pages, or to all that are left.
SendOn(k, to) ==
  /\ loop = Free /\ k \in DOMAIN sends /\ IteratorValid(k)
  /\ to # {} /\ to \subseteq sends[k].todo
  /\ Reach(sends[k].status, to, k)
  /\ sends' = IF to = sends[k].todo THEN RemoveAt(sends, k) ELSE [sends EXCEPT ![k].todo = @ \ to]
  /\ UNCHANGED <<threadVars, runVars, aggVars, loop, calls, asked, up, scene, raced>>

\* It finds no page any more, or raises: then the pages it has not come to miss the status
\* for good, as nobody looks at the future of run_coroutine_threadsafe.
SendEnds(k) ==
  /\ loop = Free /\ k \in DOMAIN sends /\ (sends[k].todo = {} \/ ~IteratorValid(k))
  /\ sends' = RemoveAt(sends, k)
  /\ missed' = IF sends[k].status = StatusOf("STOPPED")
               THEN missed \cup (sends[k].todo \cap Steadfast) ELSE missed
  /\ UNCHANGED <<threadVars, runVars, aggVars, loop, calls, asked, up, panel, scene, raced>>

SendStep == \E k \in DOMAIN sends : SendEnds(k) \/ \E to \in SUBSET sends[k].todo : SendOn(k, to)
FirstIsOver == sends # <<>> /\ (SendEnds(1) \/ SendOn(1, sends[1].todo))

\* The targets of a frame whose allocation is not CAPTURED.
Uncaptured == tracks \ captured

Show(s) ==
  [run |-> runSeq, tracks |-> tracks,
   owed |-> (Uncaptured \cup (IF s.run = runSeq THEN s.owed ELSE {})) \ events]

BroadcastFrame ==
  /\ loop = Free
  /\ scene' = [p \in Steadfast |-> Show(scene[p])]
  /\ events' = {}
  /\ UNCHANGED <<threadVars, runVars, tracks, loop, calls, asked, up, sendVars, raced>>

\* ScenarioPanel: Run while the panel shows no run, Stop while it shows one, the speed
\* buttons once there was a status; Run clears the page's own scene at once.
Running(p) == panel[p] # None /\ panel[p].state = "RUNNING"
Begun == runSeq + Cardinality({p \in Pages : asked[p] = "run"})

ClickRun(p) ==
  /\ p \in up /\ asked[p] = "nothing" /\ ~Running(p) /\ Begun < MaxRuns
  /\ asked' = [asked EXCEPT ![p] = "run"]
  /\ scene' = [q \in Steadfast |-> IF q = p THEN EmptyScene ELSE scene[q]]
  /\ UNCHANGED <<threadVars, runVars, aggVars, loop, calls, up, sendVars, raced>>

Click(p, action) ==
  /\ p \in up /\ asked[p] = "nothing"
  /\ \/ action = "stop" /\ Running(p)
     \/ action = "setSpeed" /\ panel[p] # None
  /\ asked' = [asked EXCEPT ![p] = action]
  /\ UNCHANGED <<threadVars, runVars, aggVars, loop, calls, up, scene, sendVars, raced>>

\* A page is closed, with what it asked for, and opened anew.
ClosePage(p) ==
  /\ p \in up \ Steadfast /\ loop.page # p
  /\ up' = up \ {p}
  /\ asked' = [asked EXCEPT ![p] = "nothing"]
  /\ panel' = [panel EXCEPT ![p] = None]
  /\ sends' = [k \in DOMAIN sends |-> [sends[k] EXCEPT !.todo = @ \ {p}]]
  /\ UNCHANGED <<threadVars, runVars, aggVars, loop, calls, scene, raced, missed>>

\* The greeting says nothing of the run.  A broadcast that is under way may come to the
\* page or not.
OpenPage(p) ==
  /\ p \in Pages \ up
  /\ up' = up \cup {p}
  /\ \E visits \in SUBSET DOMAIN sends :
       sends' = [k \in DOMAIN sends |->
                   [sends[k] EXCEPT !.todo = IF k \in visits THEN @ \cup {p} ELSE @]]
  /\ UNCHANGED <<threadVars, runVars, aggVars, loop, calls, asked, panel, scene, raced, missed>>

LoopStep ==
  \/ \E p \in Pages : Halt(p) \/ SetSpeed(p)
  \/ Halted \/ Began \/ SpeedTold \/ BroadcastStatus \/ SendStep

FixtureNext ==
  \/ ThreadStep \/ LoopStep \/ BroadcastFrame
  \/ \E p \in Pages :
       \/ ClickRun(p) \/ (\E action \in {"stop", "setSpeed"} : Click(p, action))
       \/ ClosePage(p) \/ OpenPage(p)

FixtureSpec == FixtureInit /\ [][FixtureNext]_fixtureVars

\* The thread runs, and the loop serves whatever waits for it in turn.  A page is sent
\* what it is to be sent while it is connected: one that no longer reads is disconnected
\* by the keepalive of its connection.
FixtureFairSpec ==
  /\ FixtureSpec
  /\ WF_fixtureVars(ThreadStep)
  /\ WF_fixtureVars(Halted \/ Began \/ SpeedTold)
  /\ SF_fixtureVars(BroadcastStatus \/ FirstIsOver)

-----------------------------------------------------------------------------

\* A target leaves the map only with its capture, or with its run: no frame shows it
\* gone before the event is on the screen (_step reports the capture before it expires
\* the track, with snapshots taken in between).
CapturesAnnounced == \A p \in Steadfast : scene[p].owed \subseteq scene[p].tracks

FixtureInv == FixtureTypeOK /\ CapturesAnnounced

\* The statuses a page shows never go back to an earlier run, nor within a run from
\* STOPPED to RUNNING: unless a change of speed was told while the pass completed.
StatusesInOrder ==
  [][\A p \in Pages :
       panel[p] # None /\ panel'[p] # None =>
         \/ panel'[p].run > panel[p].run
         \/ /\ panel'[p].run = panel[p].run
            /\ panel[p].state = "STOPPED" => panel'[p].state = "STOPPED" \/ panel[p].run \in raced]_panel

\* Every pass ends ("a completed pass settles into STOPPED rather than looping forever"),
\* and a page that stays connected comes to show how it is: except after such a race, and
\* when the broadcast of the end failed before it came to the page.
Settles ==
  /\ []<>(state = "STOPPED")
  /\ \A p \in Steadfast :
       []<>(runSeq \in raced \/ p \in missed
             \/ (panel[p] # None /\ panel[p].run = runSeq /\ panel[p].state = state))

=============================================================================
