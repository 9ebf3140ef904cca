-------------------------------- MODULE Replay --------------------------------
(***************************************************************************)
(* A second gateway replays what the first one records: ReplaySource of    *)
(* sources.py, the replay pump of server.py and the transport commands of  *)
(* its viewers.  Handlers run only where the pump awaits: while it is held *)
(* by a pause, while it waits for a message to be due, while it sends one, *)
(* and between two passes.  Speed only changes how long it waits and is    *)
(* left out; of the viewers' connections there is only what they do to the *)
(* pump.                                                                   *)
(***************************************************************************)
EXTENDS Recording

CONSTANTS
  MaxControls, \* bound: pauses and seeks
  None

ASSUME ReplayAssumption == MaxControls \in Nat /\ None \notin Nat

VARIABLES
  playing,   \* the session the second gateway was started on, 0 while there is none
  t0, t1,    \* its span, as the manifest gave it then
  events,    \* the messages of the pass, read when it began
  playhead, paused,
  at,        \* where the pump awaits
  i,         \* the message it is at
  pass,      \* the messages sent in this pass
  goal,      \* where the last seek of this pass went, None if there was none
  since,     \* the messages sent since
  heldAt,    \* the message it was held at by a pause then, 0 if it was not
  sought,    \* somebody has sought in this pass
  leaked,    \* messages sent since the last pause
  controls   \* commands so far

source == <<playing, t0, t1>>
replayVars == <<recVars, source, events, playhead, paused, at, i, pass, goal, since, heldAt,
                sought, leaked, controls>>

\* Times of the scale that the viewers can seek to.
Times == 0 .. Epoch + MaxWrites

\* The span: the first and last stamps of all segments.
Listed(s) == ToSet(manifest[s]["frame"]) \cup ToSet(manifest[s]["logs"])
SpanStart(s) == IF Listed(s) = {} THEN 0 ELSE Min({Head(g).stamp : g \in Listed(s)})
SpanEnd(s) == IF Listed(s) = {} THEN 0 ELSE Max({Last(g).stamp : g \in Listed(s)})

ReplayTypeOK ==
  /\ RecordingTypeOK
  /\ playing \in 0 .. session /\ t0 \in Times /\ t1 \in Times
  /\ playhead \in Times /\ paused \in BOOLEAN /\ events \in Seq(Message)
  /\ at \in {"held", "waiting", "sending", "resting", "crashed"}
  /\ i \in 0 .. Len(events) /\ (at # "resting" => i # 0)
  /\ pass \in Seq(DOMAIN events) /\ since \in Seq(DOMAIN events)
  /\ heldAt \in 0 .. Len(events)
  /\ goal \in Times \cup {None} /\ sought \in BOOLEAN
  /\ leaked \in Nat /\ controls \in 0 .. MaxControls

ReplayInit ==
  /\ RecordingInit
  /\ playing = 0 /\ t0 = 0 /\ t1 = 0 /\ events = <<>>
  /\ playhead = 0 /\ paused = FALSE
  /\ at = "resting" /\ i = 0
  /\ pass = <<>> /\ goal = None /\ since = <<>> /\ heldAt = 0
  /\ sought = FALSE /\ leaked = 0 /\ controls = 0

\* --source replay --session, on any session there is, also one being recorded.  The
\* playhead is at t0 and the first pass is about to begin.
Launch ==
  /\ playing = 0 /\ playing' \in 1 .. session
  /\ t0' = SpanStart(playing') /\ t1' = SpanEnd(playing')
  /\ playhead' = t0'
  /\ UNCHANGED <<recVars, events, paused, at, i, pass, goal, since, heldAt, sought, leaked,
                 controls>>

-----------------------------------------------------------------------------
(* The pump                                                                *)

\* Mutant: a message at the playhead is skipped as well.
BehindOrAt(m, head) == m.stamp <= head
Behind(m, head) == m.stamp < head

\* The n-th of the messages ev is sent; done are those sent before it in this pass.
Send(ev, n, done) ==
  /\ at' = "sending" /\ i' = n
  /\ playhead' = ev[n].stamp
  /\ pass' = Append(done, n) /\ since' = Append(since, n)
  /\ leaked' = IF paused THEN leaked + 1 ELSE leaked
  /\ UNCHANGED <<goal, heldAt>>

\* It is not due yet.
Await(n, head, done) ==
  /\ at' = "waiting" /\ i' = n
  /\ playhead' = head /\ pass' = done
  /\ UNCHANGED <<goal, since, heldAt, leaked>>

Hold(n, head, done) ==
  /\ at' = "held" /\ i' = n
  /\ playhead' = head /\ pass' = done
  /\ UNCHANGED <<goal, since, heldAt, leaked>>

Finish(done) ==
  /\ at' = "resting" /\ i' = 0 /\ goal' = None /\ since' = <<>> /\ heldAt' = 0
  /\ pass' = done
  /\ UNCHANGED <<playhead, leaked>>

\* The first message from n on that is not behind the playhead.
Take(ev, n, head, done) ==
  LET ahead == {k \in n .. Len(ev) : ~Behind(ev[k], head)}
      first == Min(ahead)
      prev == IF first = 1 THEN t0 ELSE ev[first - 1].stamp
  IN IF ahead = {} THEN Finish(done)
     ELSE IF ev[first].stamp > prev THEN Await(first, head, done) ELSE Send(ev, first, done)

Advance(ev, n, head, done) ==
  IF n > Len(ev) THEN Finish(done)
  ELSE IF paused THEN Hold(n, head, done)
  ELSE Take(ev, n, head, done)

\* Mutant: the playhead stays where the last pass left it.
BeginPassAnywhere ==
  /\ at = "resting" /\ playing # 0 /\ Merged(playing) # <<>>
  /\ events' = Merged(playing)
  /\ Advance(events', 1, playhead, <<>>)
  /\ sought' = FALSE
  /\ UNCHANGED <<recVars, source, paused, controls>>

\* A pass reads the session anew and begins at t0, whatever the playhead was.
BeginPass ==
  /\ at = "resting" /\ playing # 0 /\ Merged(playing) # <<>>
  /\ events' = Merged(playing)
  /\ Advance(events', 1, t0, <<>>)
  /\ sought' = FALSE
  /\ UNCHANGED <<recVars, source, paused, controls>>

\* Mutant: what lies behind the playhead is skipped before the hold, not after it.
ResumeUnchecked ==
  /\ at = "held" /\ ~paused
  /\ Send(events, i, pass)
  /\ UNCHANGED <<recVars, source, events, paused, sought, controls>>

Resume ==
  /\ at = "held" /\ ~paused
  /\ Take(events, i, playhead, pass)
  /\ UNCHANGED <<recVars, source, events, paused, sought, controls>>

\* Pauses and seeks made while it waited come too late for this message, and the
\* playhead is set to its stamp.
Due ==
  /\ at = "waiting"
  /\ Send(events, i, pass)
  /\ UNCHANGED <<recVars, source, events, paused, sought, controls>>

Sent ==
  /\ at = "sending"
  /\ Advance(events, i + 1, playhead, pass)
  /\ UNCHANGED <<recVars, source, events, paused, sought, controls>>

\* A viewer has come or gone while the message was being sent: the set of clients has
\* changed under _broadcast, which raises RuntimeError.  Nobody catches it, and nobody
\* awaits the pump's task.
SentRaises ==
  /\ at = "sending"
  /\ at' = "crashed"
  /\ UNCHANGED <<recVars, source, events, playhead, paused, i, pass, goal, since, heldAt, sought,
                 leaked, controls>>

-----------------------------------------------------------------------------
(* The commands                                                            *)

Control == playing # 0 /\ controls < MaxControls /\ controls' = controls + 1

Play ==
  /\ paused
  /\ paused' = FALSE
  /\ UNCHANGED <<recVars, source, events, playhead, at, i, pass, goal, since, heldAt, sought,
                 leaked, controls>>

Pause ==
  /\ Control /\ ~paused
  /\ paused' = TRUE /\ leaked' = 0
  /\ UNCHANGED <<recVars, source, events, playhead, at, i, pass, goal, since, heldAt, sought>>

Seek ==
  /\ Control
  /\ \E t \in Times : playhead' = Max({t0, Min({t1, t})})
  /\ goal' = playhead' /\ since' = <<>> /\ sought' = TRUE
  /\ heldAt' = IF at = "held" THEN i ELSE 0
  /\ UNCHANGED <<recVars, source, events, paused, at, i, pass, leaked>>

PumpStep == BeginPass \/ Resume \/ Due \/ Sent

\* Bound: while a session is replayed nothing more is recorded, but a recording that
\* was under way may still be stopped.
RecorderStep == (playing = 0 /\ RecordingNext) \/ (playing # 0 /\ Stop)

ReplayNext ==
  \/ RecorderStep /\ UNCHANGED <<source, events, playhead, paused, at, i, pass, goal, since,
                                heldAt, sought, leaked, controls>>
  \/ Launch
  \/ PumpStep \/ SentRaises
  \/ Play \/ Pause \/ Seek

\* The loop wakes the pump whenever what it awaits is over.
ReplaySpec == ReplayInit /\ [][ReplayNext]_replayVars /\ WF_replayVars(PumpStep)

-----------------------------------------------------------------------------

\* The sim time starts again with every run of the simulation.
OneRun(s) ==
  \A m, n \in Recorded(s, "frame") : m.n < n.n => m.stamp <= n.stamp

\* A pass in which nobody seeks shows every frame and every log of a session that
\* covers one run as they were recorded, once and in order, with the rotation, the
\* manifest and the merge in between: replay is "the gateway re-emitting its own
\* recorded JSONL stream" (replayer.py).
WholeSession ==
  at = "resting" /\ pass # <<>> /\ ~sought /\ OneRun(playing) =>
    /\ {events[n] : n \in ToSet(pass)} = written[playing]
    /\ \A a, b \in DOMAIN pass : a < b /\ events[pass[a]].kind = events[pass[b]].kind =>
         events[pass[a]].n < events[pass[b]].n

\* The replayer's state is well typed, a stopped session is complete, and is shown as it is.
ReplayInv == ReplayTypeOK /\ StoppedIsComplete /\ WholeSession

\* A pause lets at most one message through, the one the pump was waiting for.
PauseHolds == paused => leaked <= 1

\* The first message at or after the goal of the last seek.
Goal == Min({n \in DOMAIN events : events[n].stamp >= goal})

\* "Honor seeks: skip events behind the playhead" (server.py): where the pump was held
\* by a pause, the next message is the first one from the goal on, or the one it was
\* held at if it has come further already.
HeldSeekHonoured == goal # None /\ heldAt # 0 /\ since # <<>> => since[1] = Max({heldAt, Goal})

\* The pump obeys pauses and seeks where it is held.
TransportObeyed == PauseHolds /\ HeldSeekHonoured

\* Once the viewers leave it playing, a session that covers one run is played from
\* its first message to its last again and again ("then loop", server.py), unless a
\* viewer that comes or goes ends the pump.
PlaysAgain ==
  <>[](~paused /\ at # "crashed" /\ playing # 0 /\ Listed(playing) # {} /\ OneRun(playing)) =>
    []<>(at = "sending" /\ i = 1) /\ []<>(at = "sending" /\ i = Len(events))

=============================================================================
