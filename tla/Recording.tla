------------------------------ MODULE Recording ------------------------------
(***************************************************************************)
(* recorder.py and replayer.py: a session is a directory with segment      *)
(* files and a manifest that says which of them a replay will read.  The   *)
(* recorder is only used from the server's loop, so an operation is one    *)
(* step; the gateway may die between any two of them.                      *)
(*                                                                         *)
(* A message is a frame or a batch of logs, with the stamp it is filed     *)
(* under: the sim time for frames, which starts again with every run, and  *)
(* for logs the wall clock of the process that logged.                     *)
(***************************************************************************)
EXTENDS Integers, FiniteSets, SequencesExt

CONSTANTS
  Sessions,  \* bound: how many sessions are started, 1 .. n
  MaxWrites, \* bound: how many messages are recorded
  Epoch,     \* what the wall clock shows when the sim time is 0
  IncludeLogs

ASSUME RecordingAssumption ==
  MaxWrites \in Nat /\ Sessions \in Nat /\ Epoch \in Nat /\ IncludeLogs \in BOOLEAN

VARIABLES
  session,   \* the number of the last session started, 0 for none
  active,    \* Recorder.active
  closed,    \* of each session and stream, its finished segments
  open,      \* and the rows of the segment being written
  manifest,  \* manifest.json of each session
  time,      \* sim time of the next frame
  wall,      \* wall clock
  written    \* the messages of each session; n is the order in which they were recorded

recVars == <<session, active, closed, open, manifest, time, wall, written>>

Session == 1 .. Sessions
Stream == {"frame", "logs"}
Message == [kind : Stream, stamp : Nat, n : 1 .. MaxWrites]
Segment == Seq(Message)
NoManifest == [stopped |-> FALSE, frame |-> <<>>, logs |-> <<>>]

RecordingTypeOK ==
  /\ session \in 0 .. Sessions
  /\ active \in BOOLEAN /\ (active => session # 0)
  /\ closed \in [Session -> [Stream -> Seq(Segment)]]
  /\ open \in [Stream -> Segment]
  /\ manifest \in [Session -> [stopped : BOOLEAN, frame : Seq(Segment), logs : Seq(Segment)]]
  /\ time \in Nat /\ wall \in Nat
  /\ written \in [Session -> SUBSET Message]
  /\ \A s \in Session, k \in Stream : <<>> \notin ToSet(closed[s][k])

RecordingInit ==
  /\ session = 0 /\ active = FALSE
  /\ closed = [s \in Session |-> [k \in Stream |-> <<>>]]
  /\ open = [k \in Stream |-> <<>>]
  /\ manifest = [s \in Session |-> NoManifest]
  /\ time = 0 /\ wall = Epoch
  /\ written = [s \in Session |-> {}]

Writes == Cardinality(UNION {written[s] : s \in Session})

\* A segment is listed when it is closed with a row in it.
WithOpen(segments, rows) == IF rows = <<>> THEN segments ELSE Append(segments, rows)

-----------------------------------------------------------------------------

\* Mutant: after a crash, the name of the session is not a new one.
StartAgain ==
  /\ ~active /\ session < Sessions
  /\ session' \in {session + 1} \cup (IF session = 0 THEN {} ELSE {session})
  /\ active' = TRUE
  /\ open' = [k \in Stream |-> <<>>]
  /\ manifest' = [manifest EXCEPT ![session'] = NoManifest]
  /\ UNCHANGED <<closed, time, wall, written>>

\* A second start returns the session that is active.
Start ==
  /\ ~active /\ session < Sessions
  /\ session' = session + 1
  /\ active' = TRUE
  /\ open' = [k \in Stream |-> <<>>]
  /\ manifest' = [manifest EXCEPT ![session'] = NoManifest]
  /\ UNCHANGED <<closed, time, wall, written>>

\* _Stream.write: size or age may rotate the segment before the row is written.
File(m, rotate) ==
  IF rotate
  THEN /\ closed' = [closed EXCEPT ![session][m.kind] = WithOpen(@, open[m.kind])]
       /\ open' = [open EXCEPT ![m.kind] = <<m>>]
  ELSE /\ open' = [open EXCEPT ![m.kind] = Append(@, m)]
       /\ UNCHANGED closed

Write(m) ==
  /\ active /\ Writes < MaxWrites
  /\ \E rotate \in BOOLEAN : File(m, rotate)
  /\ written' = [written EXCEPT ![session] = @ \cup {m}]
  /\ UNCHANGED <<session, active, manifest>>

WriteState ==
  /\ Write([kind |-> "frame", stamp |-> time, n |-> Writes + 1])
  /\ time' \in {time, time + 1} /\ wall' = wall + 1

WriteLogs ==
  /\ IncludeLogs
  /\ Write([kind |-> "logs", stamp |-> wall, n |-> Writes + 1])
  /\ UNCHANGED <<time, wall>>

Stop ==
  /\ active /\ active' = FALSE
  /\ closed' = [closed EXCEPT ![session] = [k \in Stream |-> WithOpen(@[k], open[k])]]
  /\ open' = [k \in Stream |-> <<>>]
  /\ manifest' = [manifest EXCEPT ![session] =
       [stopped |-> TRUE, frame |-> closed'[session]["frame"], logs |-> closed'[session]["logs"]]]
  /\ UNCHANGED <<session, time, wall, written>>

\* The aggregator is cleared for the next run: its clock starts at 0 again.
NextRun ==
  /\ time # 0 /\ time' = 0
  /\ UNCHANGED <<session, active, closed, open, manifest, wall, written>>

\* The gateway dies.  Rows not yet flushed are lost with the open segment.
Crash ==
  /\ active /\ active' = FALSE
  /\ open' = [k \in Stream |-> <<>>]
  /\ UNCHANGED <<session, closed, manifest, time, wall, written>>

RecordingNext == Start \/ WriteState \/ WriteLogs \/ Stop \/ NextRun \/ Crash

RecordingSpec == RecordingInit /\ [][RecordingNext]_recVars

-----------------------------------------------------------------------------
(* replayer.py                                                             *)

Rows(s, k) == FlattenSeq(manifest[s][k])

\* iter_merged: frames first, then logs, sorted by stamp, and the sort is stable.
Earlier(a, b) ==
  \/ a.stamp < b.stamp
  \/ a.stamp = b.stamp /\ a.kind = "frame" /\ b.kind = "logs"
  \/ a.stamp = b.stamp /\ a.kind = b.kind /\ a.n < b.n

\* The i-th of the merge is the one that i - 1 others come before.
Merged(s) ==
  LET all == ToSet(Rows(s, "frame")) \cup ToSet(Rows(s, "logs"))
  IN  [i \in 1 .. Cardinality(all) |->
         CHOOSE m \in all : Cardinality({x \in all : Earlier(x, m)}) = i - 1]

-----------------------------------------------------------------------------

Recorded(s, k) == {m \in written[s] : m.kind = k}

\* The messages are in the order they were recorded in, and each is there once.
InOrder(q) == \A i, j \in DOMAIN q : i < j => q[i].n < q[j].n

\* A stopped session replays every frame and every log that was recorded, however
\* often the streams rotated ("byte-identical reconstruction", test_gateway.py).
StoppedIsComplete ==
  \A s \in Session : manifest[s].stopped => \A k \in Stream :
    ToSet(Rows(s, k)) = Recorded(s, k) /\ InOrder(Rows(s, k))

\* What the replayer would read of a session never changes once it is stopped, nor
\* by anything but its stop (FR-V-38).
SessionsImmutable ==
  [][\A s \in Session : manifest[s].stopped \/ s # session => manifest'[s] = manifest[s]]_recVars

=============================================================================
