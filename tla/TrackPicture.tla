---------------------------- MODULE TrackPicture ----------------------------
(***************************************************************************)
(* From the truth to the picture the allocator works on: attacker_sim_node *)
(* publishes the clock and the truth, target_ingest_node degrades it to    *)
(* late and incomplete cues (cue_degrader.py), and track_manager_node      *)
(* associates and ages them (track_manager.py).                            *)
(*                                                                         *)
(* Every process counts its own ticks, and ages are counted in them.  Of a *)
(* position only this is kept: whose it is, and which targets fly within   *)
(* the association gate of each other.  A queue is cut by target where its *)
(* order makes no difference.                                              *)
(***************************************************************************)
EXTENDS Msgs, Integers, SequencesExt

CONSTANTS
  Company,   \* the pairs {t, u} of targets that fly within assoc_gate_m
  TruthTTL,  \* truth_ttl, in ticks
  Latency,   \* latency_ms, in ticks
  TTL,       \* ttl_s, in ticks
  MaxLag,    \* bound: ticks a message may wait in a queue
  MaxDrop    \* bound: cues of a target dropped in a row

ASSUME PictureAssumption ==
  /\ Company \subseteq SUBSET Targets
  /\ MaxLag \in Nat \ {0} /\ MaxDrop \in Nat /\ Latency \in Nat
  /\ TruthTTL \in Nat /\ 2 * MaxLag <= TruthTTL
  /\ TTL \in Nat /\ MaxDrop + 3 * MaxLag <= TTL
  /\ IsFiniteSet(Targets)

VARIABLES
  alive,    \* the attackers that live
  ticksI,   \* clock messages on their way to target_ingest
  ticksT,   \* and to track_manager
  truth,    \* truth messages on their way to target_ingest, for each target
  seen,     \* ticks since target_ingest saw its truth, Gone if it has forgotten it
  dropped,  \* cues dropped in a row
  pending,  \* CueDegrader._pending: the cues of the last ticks, oldest first
  raw,      \* /tracks_raw, with the ticks each cue has waited
  age,      \* the tracks: ticks since the last update, Gone if there is none
  origin,   \* the target that update was a cue of
  known     \* the targets of which track_manager has had a cue

Gone == -1

ingest == <<seen, dropped, pending>>
manager == <<age, origin, known>>
pictureVars == <<alive, ticksI, ticksT, truth, ingest, raw, manager>>

PictureTypeOK ==
  /\ alive \subseteq Targets /\ known \subseteq Targets
  /\ ticksI \in 0 .. MaxLag /\ ticksT \in 0 .. MaxLag
  /\ truth \in [Targets -> 0 .. MaxLag]
  /\ seen \in [Targets -> 0 .. TruthTTL \cup {Gone}]
  /\ dropped \in [Targets -> 0 .. MaxDrop]
  /\ pending \in Seq(SUBSET Targets) /\ Len(pending) <= Latency
  /\ raw \in Seq([cue : Targets, waited : 0 .. MaxLag])
  /\ age \in [Targets -> 0 .. TTL \cup {Gone}]
  /\ origin \in [Targets -> Targets \cup {None}]

PictureInit ==
  /\ alive = Targets /\ known = {}
  /\ ticksI = 0 /\ ticksT = 0 /\ truth = [t \in Targets |-> 0]
  /\ seen = [t \in Targets |-> Gone] /\ dropped = [t \in Targets |-> 0] /\ pending = <<>>
  /\ raw = <<>>
  /\ age = [t \in Targets |-> Gone] /\ origin = [t \in Targets |-> None]

\* Mutant: what has reached the limit is over.
AgedEarly(ages, limit) ==
  [t \in Targets |-> IF ages[t] \in {Gone, limit - 1} THEN Gone ELSE ages[t] + 1]

\* A tick more for what is counted, until it is more than the limit.
Aged(ages, limit) ==
  [t \in Targets |-> IF ages[t] \in {Gone, limit} THEN Gone ELSE ages[t] + 1]

-----------------------------------------------------------------------------
(* attacker_sim_node.py                                                    *)

Tick ==
  /\ ticksI < MaxLag /\ ticksT < MaxLag
  /\ \A t \in Targets : truth[t] < MaxLag
  /\ \A m \in ToSet(raw) : m.waited < MaxLag
  /\ ticksI' = ticksI + 1 /\ ticksT' = ticksT + 1
  /\ truth' = [t \in Targets |-> truth[t] + (IF t \in alive THEN 1 ELSE 0)]
  /\ raw' = [i \in DOMAIN raw |-> [raw[i] EXCEPT !.waited = @ + 1]]
  /\ UNCHANGED <<alive, ingest, manager>>

\* A capture is found to be real (Scoring).
Kill(t) ==
  /\ t \in alive
  /\ alive' = alive \ {t}
  /\ UNCHANGED <<ticksI, ticksT, truth, ingest, raw, manager>>

-----------------------------------------------------------------------------
(* target_ingest_node.py and cue_degrader.py                               *)

OnTruth(t) ==
  /\ truth[t] > 0
  /\ truth' = [truth EXCEPT ![t] = @ - 1]
  /\ seen' = [seen EXCEPT ![t] = 0]
  /\ UNCHANGED <<alive, ticksI, ticksT, dropped, pending, raw, manager>>

\* Mutant: a target is never forgotten.
ForgetNone == [t \in Targets |-> IF seen[t] = Gone THEN Gone ELSE 0]

Forget == Aged(seen, TruthTTL)

\* A cue of every target there is truth of, unless it is dropped, enters the buffer;
\* those that are Latency ticks old are published.
IngestClock ==
  /\ ticksI > 0
  /\ ticksI' = ticksI - 1
  /\ seen' = Forget
  /\ \E kept \in SUBSET {t \in Targets : seen'[t] # Gone} :
       LET buffer == Append(pending, kept)
           due == IF Len(buffer) > Latency THEN Head(buffer) ELSE {}
       IN  /\ \A t \in Targets : seen'[t] # Gone /\ t \notin kept => dropped[t] < MaxDrop
           /\ dropped' = [t \in Targets |->
                IF t \in kept \/ seen'[t] = Gone THEN 0 ELSE dropped[t] + 1]
           /\ pending' = IF Len(buffer) > Latency THEN Tail(buffer) ELSE buffer
           /\ \E cues \in SetToSeqs(due) :
                raw' = raw \o [i \in DOMAIN cues |-> [cue |-> cues[i], waited |-> 0]]
  /\ UNCHANGED <<alive, ticksT, truth, manager>>

-----------------------------------------------------------------------------
(* track_manager_node.py and track_manager.py                              *)

\* The tracks within the gate of a cue of t.
Within(t) == {id \in Targets : age[id] # Gone /\ (origin[id] = t \/ {origin[id], t} \in Company)}

\* A track of its own id takes the cue, else the nearest one within the gate, else a
\* new one.
OnRaw ==
  /\ raw # <<>>
  /\ LET t == Head(raw).cue
     IN  /\ \E id \in IF age[t] # Gone \/ Within(t) = {} THEN {t} ELSE Within(t) :
              /\ age' = [age EXCEPT ![id] = 0]
              /\ origin' = [origin EXCEPT ![id] = t]
         /\ known' = known \cup {t}
  /\ raw' = Tail(raw)
  /\ UNCHANGED <<alive, ticksI, ticksT, truth, ingest>>

ManagerClock ==
  /\ ticksT > 0
  /\ ticksT' = ticksT - 1
  /\ age' = Aged(age, TTL)
  /\ origin' = [id \in Targets |-> IF age'[id] = Gone THEN None ELSE origin[id]]
  /\ UNCHANGED <<alive, ticksI, truth, ingest, raw, known>>

-----------------------------------------------------------------------------

PictureNext ==
  \/ Tick
  \/ \E t \in Targets : Kill(t) \/ OnTruth(t)
  \/ IngestClock \/ OnRaw \/ ManagerClock

PictureSpec == PictureInit /\ [][PictureNext]_pictureVars

\* The timer fires, and every process works its queues off.
PictureFairSpec ==
  /\ PictureSpec
  /\ WF_pictureVars(Tick) /\ WF_pictureVars(IngestClock)
  /\ WF_pictureVars(OnRaw) /\ WF_pictureVars(ManagerClock)
  /\ \A t \in Targets : WF_pictureVars(OnTruth(t))

-----------------------------------------------------------------------------

\* Targets that nobody else flies within the gate of.  The gate need not chain up: in a
\* row of three, the ends may be in different places and yet share a track.
Groups == {S \in SUBSET Targets : \A p \in Company : p \subseteq S \/ p \cap S = {}}

\* As long as a target of such a group lives that was in the picture once, the group
\* stays in it: a track of the group is there, updated last by a cue of the group, and a
\* target that flies alone keeps its own.  Cues are late and a number of them is dropped
\* in a row, but a track outlives the gap ("maintain track continuity", FR-TGT-3).
Continuity ==
  \A S \in Groups : known \cap alive \cap S # {} =>
    \E id \in S : age[id] # Gone /\ origin[id] \in S

PictureInv == PictureTypeOK /\ Continuity

\* No track lives on the cues of a dead target for ever, however late they come
\* ("so we stop degrading a ghost into a phantom cue", target_ingest_node.py).
GhostsFade ==
  \A t \in Targets : t \notin alive ~> [](\A id \in Targets : origin[id] # t)

=============================================================================
