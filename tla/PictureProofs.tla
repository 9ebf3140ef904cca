---------------------------- MODULE PictureProofs ----------------------------
(***************************************************************************)
(* Proofs about TrackPicture, for any targets, any of them in company, any *)
(* latency and any two limits that leave room for the lag of the queues.   *)
(*                                                                         *)
(* That a group stays in the picture is a sum of delays.  A cue is dropped *)
(* at most MaxDrop times in a row, and what is not dropped goes through    *)
(* the latency buffer in step, so that cues leave it at most MaxDrop + 1   *)
(* ticks of the ingest process apart.  That process may be MaxLag ticks    *)
(* late, the cue may then wait MaxLag ticks more, and the clock that ages  *)
(* the track be MaxLag ahead: MaxDrop + 3 * MaxLag, and no earlier.        *)
(***************************************************************************)
EXTENDS TrackPicture, FiniteSetTheorems, SequenceTheorems, TLAPS

\* The targets a cue of which has left the latency buffer.
Cued == known \cup {m.cue : m \in ToSet(raw)}

Buffered(t) == \E j \in DOMAIN pending : t \in pending[j]

\* The truth of a live target comes before target_ingest forgets it.
Watched ==
  \A t \in alive :
    /\ t \in Cued \/ Buffered(t) => seen[t] # Gone
    /\ seen[t] # Gone => seen[t] + ticksI <= truth[t] + MaxLag

\* After a cue at place i of the buffer the next one is not far behind, or the drops
\* that are counted reach back to it; 0 is where the last cue left the buffer.
Followed(t, i) ==
  \/ \E j \in DOMAIN pending : i < j /\ j <= i + MaxDrop + 1 /\ t \in pending[j]
  \/ Len(pending) <= i + dropped[t]

Regular ==
  \A t \in alive :
    /\ \A i \in DOMAIN pending : t \in pending[i] => Followed(t, i)
    /\ t \in Cued => Followed(t, 0)

\* Nothing leaves the buffer before it is full.
Filled == Cued # {} => Len(pending) = Latency

\* A cue updates a track of its own group only.
Herded ==
  \A id \in Targets : age[id] # Gone =>
    origin[id] \in Targets /\ \A S \in Groups : id \in S <=> origin[id] \in S

\* The next cue of t comes before a track gets too old, of which old is the age it has
\* once the clock messages on their way are counted.  It waits to be associated, or it
\* is in the latency buffer, or it is still to be made.
OnTime(t, old) ==
  \/ \E i \in DOMAIN raw : raw[i].cue = t /\ old <= MaxDrop + 2 * MaxLag + raw[i].waited
  \/ \E j \in DOMAIN pending : t \in pending[j] /\ old + j <= MaxDrop + 1 + ticksI + MaxLag
  \/ old + Latency <= dropped[t] + ticksI + MaxLag

\* The track id shows a target of every group that t is in.
Shows(id, t) == age[id] # Gone /\ \A S \in Groups : t \in S => id \in S

Tracked ==
  \A t \in known \cap alive :
    \E id \in Targets : Shows(id, t) /\ OnTime(t, age[id] + ticksT)

PictureIInv ==
  PictureTypeOK /\ Watched /\ Regular /\ Filled /\ Herded /\ Tracked

-----------------------------------------------------------------------------

\* Some order of a finite set has all of its elements.
LEMMA AllAreCued ==
  ASSUME NEW due \in SUBSET Targets, NEW cues \in SetToSeqs(due)
  PROVE  /\ cues \in Seq(due)
         /\ \A t \in due : \E i \in DOMAIN cues : cues[i] = t
<1>1. IsFiniteSet(due) /\ Cardinality(due) \in Nat
  BY PictureAssumption, FS_Subset, FS_CardinalityType
<1> DEFINE n == Cardinality(due)
<1>2. /\ cues \in [1 .. n -> due]
      /\ \A i, j \in 1 .. n : i # j => cues[i] # cues[j]
  BY DEF SetToSeqs
<1>3. cues \in Injection(1 .. n, due)
  BY <1>2 DEF Injection, IsInjective
<1>4. Cardinality(1 .. n) = n
  BY <1>1, FS_Interval
<1>5. cues \in Surjection(1 .. n, due)
  BY <1>1, <1>3, <1>4, FS_Injection
<1>6. \A t \in due : \E i \in 1 .. n : cues[i] = t
  BY <1>5 DEF Surjection
<1>7. cues \in Seq(due)
  BY <1>1, <1>2
<1>8. DOMAIN cues = 1 .. n
  BY <1>2
<1>9. QED BY <1>6, <1>7, <1>8

LEMMA AgedFact ==
  ASSUME NEW limit \in Nat, NEW ages \in [Targets -> 0 .. limit \cup {Gone}]
  PROVE  /\ Aged(ages, limit) \in [Targets -> 0 .. limit \cup {Gone}]
         /\ \A t \in Targets :
              /\ ages[t] = Gone => Aged(ages, limit)[t] = Gone
              /\ ages[t] # Gone /\ ages[t] < limit => Aged(ages, limit)[t] = ages[t] + 1
              /\ Aged(ages, limit)[t] # Gone =>
                   ages[t] # Gone /\ Aged(ages, limit)[t] = ages[t] + 1
BY DEF Aged, Gone

\* What target_ingest puts on /tracks_raw and what it keeps: shift is 1 once the buffer
\* is full, and then the oldest place of it is published.
Ingested(kept, shift, more) ==
  /\ ticksI > 0 /\ ticksI' = ticksI - 1
  /\ seen' = Forget
  /\ kept \in SUBSET Targets /\ \A t \in kept : seen'[t] # Gone
  /\ \A t \in Targets : seen'[t] # Gone /\ t \notin kept => dropped[t] < MaxDrop
  /\ dropped' = [t \in Targets |-> IF t \in kept \/ seen'[t] = Gone THEN 0 ELSE dropped[t] + 1]
  /\ shift \in {0, 1} /\ (shift = 1 <=> Len(pending) = Latency)
  /\ more \in Seq(Targets)
  /\ raw' = raw \o [i \in DOMAIN more |-> [cue |-> more[i], waited |-> 0]]
  /\ pending' \in Seq(SUBSET Targets) /\ Len(pending') = Len(pending) + 1 - shift
  /\ \A j \in 1 .. Len(pending) : j > shift => pending'[j - shift] = pending[j]
  /\ Len(pending') >= 1 => pending'[Len(pending')] = kept
  /\ shift = 0 => more = <<>>
  /\ shift = 1 => \A t \in IF Latency = 0 THEN kept ELSE pending[1] :
                    \E i \in DOMAIN more : more[i] = t
  /\ shift = 1 => \A i \in DOMAIN more : more[i] \in IF Latency = 0 THEN kept ELSE pending[1]
  /\ UNCHANGED <<alive, ticksT, truth, age, origin, known>>

LEMMA IngestFact ==
  ASSUME PictureTypeOK, IngestClock
  PROVE  \E kept, shift, more : Ingested(kept, shift, more)
<1> USE DEF PictureTypeOK
<1>1. PICK kept \in SUBSET {t \in Targets : seen'[t] # Gone} :
        LET buffer == Append(pending, kept)
            due == IF Len(buffer) > Latency THEN Head(buffer) ELSE {}
        IN  /\ \A t \in Targets : seen'[t] # Gone /\ t \notin kept => dropped[t] < MaxDrop
            /\ dropped' = [t \in Targets |->
                 IF t \in kept \/ seen'[t] = Gone THEN 0 ELSE dropped[t] + 1]
            /\ pending' = IF Len(buffer) > Latency THEN Tail(buffer) ELSE buffer
            /\ \E cues \in SetToSeqs(due) :
                 raw' = raw \o [i \in DOMAIN cues |-> [cue |-> cues[i], waited |-> 0]]
  BY DEF IngestClock
<1> DEFINE buffer == Append(pending, kept)
           full == Len(buffer) > Latency
           due == IF full THEN Head(buffer) ELSE {}
           shift == IF full THEN 1 ELSE 0
<1>2. /\ buffer \in Seq(SUBSET Targets) /\ Len(buffer) = Len(pending) + 1
      /\ \A j \in 1 .. Len(pending) : buffer[j] = pending[j]
      /\ buffer[Len(pending) + 1] = kept
      /\ Head(buffer) = IF Len(pending) = 0 THEN kept ELSE pending[1]
  BY AppendProperties
<1>3. due \in SUBSET Targets
  BY <1>2
<1>4. PICK more \in SetToSeqs(due) :
        raw' = raw \o [i \in DOMAIN more |-> [cue |-> more[i], waited |-> 0]]
  BY <1>1
<1>5. more \in Seq(due) /\ \A t \in due : \E i \in DOMAIN more : more[i] = t
  <2> HIDE DEF due
  <2>1. QED BY <1>3, <1>4, AllAreCued
<1>6. Len(pending) \in Nat /\ Len(pending) <= Latency /\ Latency \in Nat
  BY PictureAssumption
<1>7. full <=> Len(pending) = Latency
  BY <1>2, <1>6
<1>8. /\ pending' \in Seq(SUBSET Targets) /\ Len(pending') = Len(pending) + 1 - shift
      /\ \A j \in 1 .. Len(pending) : j > shift => pending'[j - shift] = pending[j]
      /\ Len(pending') >= 1 => pending'[Len(pending')] = kept
  <2>1. CASE full
    <3>1. pending' = Tail(buffer) /\ buffer # <<>>
      <4>1. pending' = Tail(buffer)
        BY <1>1, <2>1
      <4>2. buffer # <<>>
        <5>1. Len(buffer) # 0
          BY <1>2, <1>6
        <5> HIDE DEF buffer
        <5>2. QED BY <5>1
      <4>3. QED BY <4>1, <4>2
    <3>2. /\ Tail(buffer) \in Seq(SUBSET Targets) /\ Len(Tail(buffer)) = Len(pending)
          /\ \A j \in 1 .. Len(pending) : Tail(buffer)[j] = buffer[j + 1]
      <4>1. /\ buffer \in Seq(SUBSET Targets) /\ buffer # <<>>
            /\ Len(buffer) = Len(pending) + 1 /\ Len(pending) \in Nat
        BY <1>2, <1>6, <3>1
      <4> HIDE DEF buffer
      <4>2. /\ Tail(buffer) \in Seq(SUBSET Targets) /\ Len(Tail(buffer)) = Len(buffer) - 1
            /\ \A j \in 1 .. Len(Tail(buffer)) : Tail(buffer)[j] = buffer[j + 1]
        BY <4>1, HeadTailProperties
      <4>3. QED BY <4>1, <4>2
    <3>3. QED BY <1>2, <1>6, <2>1, <3>1, <3>2
  <2>2. CASE ~full
    BY <1>1, <1>2, <1>6, <2>2
  <2>3. QED BY <2>1, <2>2
<1>9. shift = 0 => more = <<>>
  <2>1. ~full => more \in Seq({})
    BY <1>5
  <2>2. QED BY <2>1, EmptySeq
<1>10. shift = 1 => due = IF Latency = 0 THEN kept ELSE pending[1]
  BY <1>2, <1>6, <1>7
<1>11. more \in Seq(Targets)
  BY <1>3, <1>5
<1>12. \A i \in DOMAIN more : more[i] \in due
  BY <1>5
<1>13. Ingested(kept, shift, more)
  <2>1. /\ ticksI > 0 /\ ticksI' = ticksI - 1 /\ seen' = Forget
        /\ UNCHANGED <<alive, ticksT, truth, age, origin, known>>
    BY DEF IngestClock, manager
  <2>2. /\ kept \in SUBSET Targets /\ \A t \in kept : seen'[t] # Gone
        /\ \A t \in Targets : seen'[t] # Gone /\ t \notin kept => dropped[t] < MaxDrop
        /\ dropped' = [t \in Targets |->
             IF t \in kept \/ seen'[t] = Gone THEN 0 ELSE dropped[t] + 1]
    BY <1>1
  <2>3. shift \in {0, 1} /\ (shift = 1 <=> Len(pending) = Latency)
    BY <1>7
  <2>4. /\ shift = 1 => \A t \in IF Latency = 0 THEN kept ELSE pending[1] :
                          \E i \in DOMAIN more : more[i] = t
        /\ shift = 1 => \A i \in DOMAIN more : more[i] \in IF Latency = 0 THEN kept ELSE pending[1]
    BY <1>5, <1>10, <1>12
  <2> HIDE DEF shift
  <2>5. QED BY <1>4, <1>8, <1>9, <1>11, <2>1, <2>2, <2>3, <2>4 DEF Ingested
<1>14. QED BY <1>13

-----------------------------------------------------------------------------
(* The invariant initially                                                 *)

LEMMA PictureInitInv == PictureInit => PictureIInv
<1> SUFFICES ASSUME PictureInit PROVE PictureIInv
  OBVIOUS
<1> USE PictureAssumption, EmptySeq DEF PictureInit
<1>1. PictureTypeOK
  BY DEF PictureTypeOK, Gone
<1>2. Cued = {}
  BY DEF Cued, ToSet
<1>3. Watched
  BY <1>2 DEF Watched, Buffered
<1>4. Regular
  BY <1>2 DEF Regular
<1>5. Filled
  BY <1>2 DEF Filled
<1>6. Herded
  BY DEF Herded
<1>7. Tracked
  BY DEF Tracked
<1>8. QED BY <1>1, <1>3, <1>4, <1>5, <1>6, <1>7 DEF PictureIInv

-----------------------------------------------------------------------------
(* The clock and the truth                                                 *)

\* The ranges of what the sums below are made of.
LEMMA Numbers ==
  ASSUME PictureTypeOK
  PROVE  /\ ticksI \in Nat /\ ticksI <= MaxLag /\ ticksT \in Nat /\ ticksT <= MaxLag
         /\ MaxLag \in Nat /\ MaxLag > 0 /\ MaxDrop \in Nat /\ Latency \in Nat
         /\ TruthTTL \in Nat /\ 2 * MaxLag <= TruthTTL
         /\ TTL \in Nat /\ MaxDrop + 3 * MaxLag <= TTL
         /\ Gone = -1
BY PictureAssumption DEF PictureTypeOK, Gone

LEMMA OfTarget ==
  ASSUME PictureTypeOK, NEW t \in Targets
  PROVE  /\ age[t] \in Int /\ age[t] >= -1 /\ age[t] <= TTL
         /\ seen[t] \in Int /\ seen[t] >= -1 /\ seen[t] <= TruthTTL
         /\ truth[t] \in Nat /\ truth[t] <= MaxLag
         /\ dropped[t] \in Nat /\ dropped[t] <= MaxDrop
BY PictureAssumption DEF PictureTypeOK, Gone

LEMMA Places ==
  ASSUME PictureTypeOK
  PROVE  /\ Len(pending) \in Nat /\ Len(pending) <= Latency /\ DOMAIN pending = 1 .. Len(pending)
         /\ Len(raw) \in Nat /\ DOMAIN raw = 1 .. Len(raw)
BY DEF PictureTypeOK

LEMMA OfCue ==
  ASSUME PictureTypeOK, NEW i \in DOMAIN raw
  PROVE  /\ raw[i] = [cue |-> raw[i].cue, waited |-> raw[i].waited]
         /\ raw[i].cue \in Targets
         /\ raw[i].waited \in Nat /\ raw[i].waited <= MaxLag
<1> DEFINE Cue == [cue : Targets, waited : 0 .. MaxLag]
<1>1. raw \in Seq(Cue)
  BY DEF PictureTypeOK
<1>2. raw[i] \in Cue
  <2> HIDE DEF Cue
  <2>1. QED BY <1>1
<1>3. QED BY <1>2, PictureAssumption

LEMMA TickFact ==
  ASSUME PictureTypeOK, Tick
  PROVE  /\ raw' \in Seq([cue : Targets, waited : 0 .. MaxLag])
         /\ Len(raw') = Len(raw)
         /\ \A i \in DOMAIN raw :
              raw'[i].cue = raw[i].cue /\ raw'[i].waited = raw[i].waited + 1
         /\ Cued' = Cued
         /\ ticksI' = ticksI + 1 /\ ticksT' = ticksT + 1 /\ ticksI' <= MaxLag /\ ticksT' <= MaxLag
         /\ truth' \in [Targets -> 0 .. MaxLag]
         /\ \A t \in alive : truth'[t] = truth[t] + 1
         /\ UNCHANGED <<alive, seen, dropped, pending, age, origin, known>>
<1>1. \A i \in DOMAIN raw : /\ raw[i].cue \in Targets /\ raw[i].waited \in 0 .. MaxLag
                            /\ raw[i] = [cue |-> raw[i].cue, waited |-> raw[i].waited]
                            /\ raw[i].waited < MaxLag
  BY OfCue DEF Tick, ToSet
<1>2. \A i \in DOMAIN raw :
        [raw[i] EXCEPT !.waited = @ + 1] = [cue |-> raw[i].cue, waited |-> raw[i].waited + 1]
  <2> SUFFICES ASSUME NEW i \in DOMAIN raw
               PROVE  [raw[i] EXCEPT !.waited = @ + 1]
                        = [cue |-> raw[i].cue, waited |-> raw[i].waited + 1]
    OBVIOUS
  <2> DEFINE c == raw[i].cue
             w == raw[i].waited
  <2>1. raw[i] = [cue |-> c, waited |-> w]
    BY <1>1
  <2> HIDE DEF c, w
  <2>2. [raw[i] EXCEPT !.waited = @ + 1] = [cue |-> c, waited |-> w + 1]
    BY <2>1
  <2>3. QED BY <2>2 DEF c, w
<1>3. DOMAIN raw = 1 .. Len(raw) /\ Len(raw) \in Nat
  BY Places
<1>4. raw' = [i \in DOMAIN raw |-> [raw[i] EXCEPT !.waited = @ + 1]]
  BY DEF Tick
<1>5. raw' = [i \in 1 .. Len(raw) |-> [cue |-> raw[i].cue, waited |-> raw[i].waited + 1]]
  BY <1>2, <1>3, <1>4
<1>6. \A i \in 1 .. Len(raw) : raw[i].cue \in Targets /\ raw[i].waited + 1 \in 0 .. MaxLag
  <2> SUFFICES ASSUME NEW i \in 1 .. Len(raw)
               PROVE  raw[i].cue \in Targets /\ raw[i].waited + 1 \in 0 .. MaxLag
    OBVIOUS
  <2> DEFINE w == raw[i].waited
  <2>1. w \in 0 .. MaxLag /\ w < MaxLag /\ raw[i].cue \in Targets
    BY <1>1, <1>3
  <2> HIDE DEF w
  <2>2. w + 1 \in 0 .. MaxLag
    BY <2>1, Numbers
  <2>3. QED BY <2>1, <2>2 DEF w
<1>7. raw' \in Seq([cue : Targets, waited : 0 .. MaxLag]) /\ DOMAIN raw' = 1 .. Len(raw)
      /\ Len(raw') = Len(raw)
  BY <1>3, <1>5, <1>6
<1>8. \A i \in DOMAIN raw :
        raw'[i].cue = raw[i].cue /\ raw'[i].waited = raw[i].waited + 1
  BY <1>3, <1>5
<1>9. Cued' = Cued
  <2>1. {m.cue : m \in ToSet(raw)}' = {m.cue : m \in ToSet(raw)}
    <3>1. {m.cue : m \in ToSet(raw)} = {raw[i].cue : i \in DOMAIN raw}
      BY DEF ToSet
    <3>2. {m.cue : m \in ToSet(raw)}' = {raw'[i].cue : i \in DOMAIN raw'}
      BY DEF ToSet
    <3>3. DOMAIN raw' = DOMAIN raw /\ \A i \in DOMAIN raw : raw'[i].cue = raw[i].cue
      BY <1>3, <1>7, <1>8
    <3>4. \A c : (\E i \in DOMAIN raw' : raw'[i].cue = c) <=> \E i \in DOMAIN raw : raw[i].cue = c
      BY <3>3, Zenon
    <3>5. {raw'[i].cue : i \in DOMAIN raw'} = {raw[i].cue : i \in DOMAIN raw}
      BY <3>4, Zenon
    <3>6. QED BY <3>1, <3>2, <3>5, Zenon
  <2>2. known' = known
    BY DEF Tick, manager
  <2>3. QED BY <2>1, <2>2 DEF Cued
<1>10. /\ ticksI' = ticksI + 1 /\ ticksT' = ticksT + 1 /\ ticksI' <= MaxLag /\ ticksT' <= MaxLag
       /\ truth' \in [Targets -> 0 .. MaxLag]
       /\ \A t \in alive : truth'[t] = truth[t] + 1
       /\ UNCHANGED <<alive, seen, dropped, pending, age, origin, known>>
  <2>1. /\ ticksI' = ticksI + 1 /\ ticksT' = ticksT + 1 /\ ticksI < MaxLag /\ ticksT < MaxLag
        /\ truth' = [t \in Targets |-> truth[t] + (IF t \in alive THEN 1 ELSE 0)]
        /\ \A t \in Targets : truth[t] < MaxLag
        /\ UNCHANGED <<alive, seen, dropped, pending, age, origin, known>>
    BY DEF Tick, ingest, manager
  <2>2. ticksI' <= MaxLag /\ ticksT' <= MaxLag
    BY <2>1, Numbers
  <2>3. \A t \in Targets : truth[t] \in Nat /\ truth[t] < MaxLag
    BY <2>1, OfTarget
  <2>4. \A t \in Targets : truth'[t] = IF t \in alive THEN truth[t] + 1 ELSE truth[t]
    BY <2>1, <2>3
  <2>5. \A t \in Targets : truth'[t] \in 0 .. MaxLag
    BY <2>3, <2>4, Numbers
  <2>6. truth' \in [Targets -> 0 .. MaxLag]
    BY <2>1, <2>4, <2>5
  <2>7. alive \subseteq Targets
    BY DEF PictureTypeOK
  <2>8. QED BY <2>1, <2>2, <2>4, <2>6, <2>7
<1>11. QED BY <1>7, <1>8, <1>9, <1>10

LEMMA TickInv ==
  ASSUME PictureIInv, Tick
  PROVE  PictureIInv'
<1> USE DEF PictureIInv
<1>1. PictureTypeOK'
  <2>1. ticksI' \in 0 .. MaxLag /\ ticksT' \in 0 .. MaxLag
    <3>1. /\ ticksI' = ticksI + 1 /\ ticksI' <= MaxLag
          /\ ticksT' = ticksT + 1 /\ ticksT' <= MaxLag
      BY TickFact
    <3>2. QED BY <3>1, Numbers
  <2>2. QED BY <2>1, TickFact DEF PictureTypeOK
<1>2. Watched'
  <2> SUFFICES ASSUME NEW t \in alive'
               PROVE  /\ t \in Cued' \/ Buffered(t)' => seen'[t] # Gone
                      /\ seen'[t] # Gone => seen'[t] + ticksI' <= truth'[t] + MaxLag
    BY DEF Watched
  <2>1. t \in alive /\ t \in Targets /\ (Buffered(t)' <=> Buffered(t))
    BY TickFact DEF Buffered, PictureTypeOK
  <2>2. /\ t \in Cued \/ Buffered(t) => seen[t] # Gone
        /\ seen[t] # Gone => seen[t] + ticksI <= truth[t] + MaxLag
    BY <2>1 DEF Watched
  <2>3. seen'[t] # Gone => seen'[t] + ticksI' <= truth'[t] + MaxLag
    <3>1. seen'[t] = seen[t] /\ ticksI' = ticksI + 1 /\ truth'[t] = truth[t] + 1
      BY <2>1, TickFact
    <3>2. seen[t] \in Int /\ truth[t] \in Int
      BY <2>1, OfTarget
    <3>3. QED BY <2>2, <3>1, <3>2, Numbers
  <2>4. QED BY <2>1, <2>2, <2>3, TickFact
<1>3. Regular' /\ Filled' /\ Herded'
  BY TickFact DEF Regular, Followed, Filled, Herded
<1>4. Tracked'
  <2> SUFFICES ASSUME NEW t \in known' \cap alive'
               PROVE  (\E id \in Targets : Shows(id, t) /\ OnTime(t, age[id] + ticksT))'
    BY DEF Tracked
  <2>1. PICK id \in Targets : Shows(id, t) /\ OnTime(t, age[id] + ticksT)
    BY TickFact DEF Tracked
  <2>2. Shows(id, t)'
    BY <2>1, TickFact DEF Shows
  <2>3. t \in Targets
    BY TickFact DEF PictureTypeOK
  <2> DEFINE old == age[id] + ticksT
  <2>4. old \in Int /\ (age[id] + ticksT)' = old + 1
    <3>1. (age[id] + ticksT)' = age[id] + (ticksT + 1) /\ age[id] \in Int
      BY TickFact, OfTarget
    <3>2. QED BY <3>1, Numbers
  <2> HIDE DEF old
  <2>5. OnTime(t, old)
    BY <2>1 DEF old
  <2>6. \/ \E i \in DOMAIN raw' :
             raw'[i].cue = t /\ old + 1 <= MaxDrop + 2 * MaxLag + raw'[i].waited
        \/ \E j \in DOMAIN pending' :
             t \in pending'[j] /\ old + 1 + j <= MaxDrop + 1 + ticksI' + MaxLag
        \/ old + 1 + Latency <= dropped'[t] + ticksI' + MaxLag
    <3>1. CASE \E i \in DOMAIN raw :
                 raw[i].cue = t /\ old <= MaxDrop + 2 * MaxLag + raw[i].waited
      <4>1. PICK i \in DOMAIN raw :
                 raw[i].cue = t /\ old <= MaxDrop + 2 * MaxLag + raw[i].waited
        BY <3>1
      <4>2. i \in DOMAIN raw'
        BY TickFact, Places
      <4>3. raw'[i].cue = t /\ raw'[i].waited = raw[i].waited + 1
        BY <4>1, TickFact
      <4> DEFINE w == raw[i].waited
      <4>4. w \in Int
        BY OfCue
      <4> HIDE DEF w
      <4>5. old <= MaxDrop + 2 * MaxLag + w
        BY <4>1 DEF w
      <4>6. old + 1 <= MaxDrop + 2 * MaxLag + (w + 1)
        BY <2>4, <4>4, <4>5, Numbers
      <4>7. old + 1 <= MaxDrop + 2 * MaxLag + raw'[i].waited
        BY <4>3, <4>6 DEF w
      <4>8. QED BY <4>2, <4>3, <4>7
    <3>2. CASE \E j \in DOMAIN pending :
                 t \in pending[j] /\ old + j <= MaxDrop + 1 + ticksI + MaxLag
      <4>1. PICK j \in DOMAIN pending :
                 t \in pending[j] /\ old + j <= MaxDrop + 1 + ticksI + MaxLag
        BY <3>2
      <4>2. j \in Int /\ ticksI' = ticksI + 1
        BY Places, TickFact
      <4>3. old + 1 + j <= MaxDrop + 1 + ticksI' + MaxLag
        BY <2>4, <4>1, <4>2, Numbers
      <4>4. QED BY <4>1, <4>3, TickFact
    <3>3. CASE old + Latency <= dropped[t] + ticksI + MaxLag
      <4>1. dropped'[t] = dropped[t] /\ dropped[t] \in Int /\ ticksI' = ticksI + 1
        BY <2>3, TickFact, OfTarget
      <4>2. old + 1 + Latency <= dropped'[t] + ticksI' + MaxLag
        BY <2>4, <3>3, <4>1, Numbers
      <4>3. QED BY <4>2
    <3>4. QED BY <2>5, <3>1, <3>2, <3>3 DEF OnTime
  <2>7. OnTime(t, age[id] + ticksT)'
    BY <2>4, <2>6 DEF OnTime
  <2>8. QED BY <2>2, <2>7
<1>5. QED BY <1>1, <1>2, <1>3, <1>4

LEMMA KillInv ==
  ASSUME PictureIInv, NEW t \in Targets, Kill(t)
  PROVE  PictureIInv'
<1> USE DEF PictureIInv, Kill, ingest, manager
<1>1. PictureTypeOK' /\ Cued' = Cued /\ alive' \subseteq alive
  BY DEF PictureTypeOK, Cued
<1>2. Watched' /\ Regular' /\ Filled' /\ Herded'
  BY <1>1 DEF Watched, Buffered, Regular, Followed, Filled, Herded
<1>3. Tracked'
  BY <1>1 DEF Tracked, Shows, OnTime
<1>4. QED BY <1>1, <1>2, <1>3

LEMMA OnTruthInv ==
  ASSUME PictureIInv, NEW t \in Targets, OnTruth(t)
  PROVE  PictureIInv'
<1> USE PictureAssumption DEF PictureIInv, OnTruth, manager
<1>1. PictureTypeOK' /\ Cued' = Cued
  BY DEF PictureTypeOK, Cued
<1>2. Watched'
  BY <1>1 DEF Watched, Buffered, PictureTypeOK, Gone
<1>3. Regular' /\ Filled' /\ Herded'
  BY <1>1 DEF Regular, Followed, Filled, Herded
<1>4. Tracked'
  BY <1>1 DEF Tracked, Shows, OnTime
<1>5. QED BY <1>1, <1>2, <1>3, <1>4

-----------------------------------------------------------------------------
(* The ingest process                                                      *)

\* What IngestFact says of each place: a place of the new buffer is one of the old, one
\* further on, or the last; and of the cues that wait.
LEMMA IngestPlaces ==
  ASSUME PictureTypeOK, NEW kept, NEW shift, NEW more, Ingested(kept, shift, more)
  PROVE  /\ pending' \in Seq(SUBSET Targets)
         /\ Len(pending') \in Nat /\ DOMAIN pending' = 1 .. Len(pending')
         /\ Len(pending') = Len(pending) + 1 - shift
         /\ \A j \in DOMAIN pending : j > shift =>
              j - shift \in DOMAIN pending' /\ pending'[j - shift] = pending[j]
         /\ \A j \in DOMAIN pending' : \/ j = Len(pending') /\ pending'[j] = kept
                                       \/ j + shift \in DOMAIN pending /\ pending'[j] = pending[j + shift]
<1>1. /\ shift = 0 \/ shift = 1
      /\ pending' \in Seq(SUBSET Targets) /\ Len(pending') = Len(pending) + 1 - shift
      /\ \A j \in 1 .. Len(pending) : j > shift => pending'[j - shift] = pending[j]
      /\ Len(pending') >= 1 => pending'[Len(pending')] = kept
  BY DEF Ingested
<1>2. Len(pending') \in Nat /\ DOMAIN pending' = 1 .. Len(pending')
  BY <1>1
<1>3. Len(pending) \in Nat /\ DOMAIN pending = 1 .. Len(pending)
  BY Places
<1>4. ASSUME NEW j \in DOMAIN pending, j > shift
      PROVE  j - shift \in DOMAIN pending' /\ pending'[j - shift] = pending[j]
  BY <1>1, <1>2, <1>3, <1>4
<1>5. ASSUME NEW j \in DOMAIN pending'
      PROVE  \/ j = Len(pending') /\ pending'[j] = kept
             \/ j + shift \in DOMAIN pending /\ pending'[j] = pending[j + shift]
  <2>1. CASE j = Len(pending')
    BY <1>1, <1>2, <2>1
  <2>2. CASE j # Len(pending')
    <3>1. j + shift \in 1 .. Len(pending) /\ j + shift > shift /\ (j + shift) - shift = j
      BY <1>1, <1>2, <1>3, <2>2
    <3>2. QED BY <1>1, <1>3, <3>1
  <2>3. QED BY <2>1, <2>2
<1>6. QED BY <1>1, <1>2, <1>4, <1>5

LEMMA IngestRaw ==
  ASSUME PictureTypeOK, NEW kept, NEW shift, NEW more, Ingested(kept, shift, more)
  PROVE  /\ raw' \in Seq([cue : Targets, waited : 0 .. MaxLag])
         /\ Len(raw') = Len(raw) + Len(more) /\ Len(more) \in Nat
         /\ DOMAIN raw' = 1 .. Len(raw) + Len(more)
         /\ \A i \in DOMAIN raw : i \in DOMAIN raw' /\ raw'[i] = raw[i]
         /\ \A i \in DOMAIN more : /\ Len(raw) + i \in DOMAIN raw'
                                   /\ raw'[Len(raw) + i] = [cue |-> more[i], waited |-> 0]
<1> DEFINE Cue == [cue : Targets, waited : 0 .. MaxLag]
           new == [i \in DOMAIN more |-> [cue |-> more[i], waited |-> 0]]
<1>1. raw \in Seq(Cue)
  BY DEF PictureTypeOK
<1>2. more \in Seq(Targets) /\ DOMAIN more = 1 .. Len(more) /\ Len(more) \in Nat
  BY DEF Ingested
<1>3. \A i \in DOMAIN more : [cue |-> more[i], waited |-> 0] \in Cue
  BY <1>2, PictureAssumption
<1>4. new \in Seq(Cue) /\ Len(new) = Len(more)
  <2> HIDE DEF Cue
  <2>1. QED BY <1>2, <1>3
<1>5. raw' = raw \o new
  BY DEF Ingested
<1>6. \A i \in DOMAIN more : new[i] = [cue |-> more[i], waited |-> 0]
  OBVIOUS
<1> HIDE DEF new, Cue
<1>7. /\ raw' \in Seq(Cue) /\ Len(raw') = Len(raw) + Len(more)
      /\ \A i \in 1 .. Len(raw) : raw'[i] = raw[i]
      /\ \A i \in 1 .. Len(more) : raw'[Len(raw) + i] = new[i]
  <2>1. Len(raw) \in Nat /\ Len(new) \in Nat /\ Len(new) = Len(more)
    BY <1>1, <1>4
  <2>2. /\ raw \o new \in Seq(Cue) /\ Len(raw \o new) = Len(raw) + Len(new)
        /\ \A i \in 1 .. Len(raw) + Len(new) :
             (raw \o new)[i] = IF i <= Len(raw) THEN raw[i] ELSE new[i - Len(raw)]
    BY <1>1, <1>4, ConcatProperties
  <2>3. \A i \in 1 .. Len(raw) : raw'[i] = raw[i]
    BY <1>5, <2>1, <2>2
  <2>4. ASSUME NEW i \in 1 .. Len(more)
        PROVE  raw'[Len(raw) + i] = new[i]
    <3>1. /\ Len(raw) + i \in 1 .. Len(raw) + Len(new) /\ ~(Len(raw) + i <= Len(raw))
          /\ (Len(raw) + i) - Len(raw) = i
      BY <2>1
    <3>2. QED BY <1>5, <2>2, <3>1
  <2>5. QED BY <1>5, <2>1, <2>2, <2>3, <2>4
<1>8. DOMAIN raw' = 1 .. Len(raw) + Len(more)
  BY <1>7
<1>9. DOMAIN raw = 1 .. Len(raw) /\ Len(raw) \in Nat
  BY Places
<1>10. raw' \in Seq([cue : Targets, waited : 0 .. MaxLag])
  BY <1>7 DEF Cue
<1>11. \A i \in DOMAIN raw : i \in DOMAIN raw' /\ raw'[i] = raw[i]
  BY <1>2, <1>7, <1>8, <1>9
<1>12. \A i \in DOMAIN more : /\ Len(raw) + i \in DOMAIN raw'
                              /\ raw'[Len(raw) + i] = [cue |-> more[i], waited |-> 0]
  <2> SUFFICES ASSUME NEW i \in DOMAIN more
               PROVE  /\ Len(raw) + i \in DOMAIN raw'
                      /\ raw'[Len(raw) + i] = [cue |-> more[i], waited |-> 0]
    OBVIOUS
  <2>1. i \in 1 .. Len(more) /\ Len(more) \in Nat /\ Len(raw) \in Nat
    BY <1>2, <1>9
  <2>2. Len(raw) + i \in 1 .. Len(raw) + Len(more)
    BY <2>1
  <2>3. raw'[Len(raw) + i] = new[i]
    BY <1>7, <2>1
  <2>4. QED BY <1>6, <1>8, <2>2, <2>3
<1>13. QED BY <1>2, <1>7, <1>8, <1>10, <1>11, <1>12

\* The cues that are published are those that were in the first place, or those of this
\* tick when there is no latency.
LEMMA IngestCued ==
  ASSUME PictureTypeOK, NEW kept, NEW shift, NEW more, Ingested(kept, shift, more),
         NEW t \in Targets
  PROVE  t \in Cued' <=>
           t \in Cued \/ (shift = 1 /\ t \in IF Latency = 0 THEN kept ELSE pending[1])
<1>1. t \in Cued <=> t \in known \/ \E i \in DOMAIN raw : raw[i].cue = t
  BY DEF Cued, ToSet
<1>2. t \in Cued' <=> t \in known' \/ \E i \in DOMAIN raw' : raw'[i].cue = t
  BY DEF Cued, ToSet
<1>3. known' = known
  BY DEF Ingested
<1>4. (\E i \in DOMAIN raw' : raw'[i].cue = t) <=>
        (\E i \in DOMAIN raw : raw[i].cue = t) \/ \E i \in DOMAIN more : more[i] = t
  <2>1. ASSUME NEW i \in DOMAIN more, more[i] = t
        PROVE  \E k \in DOMAIN raw' : raw'[k].cue = t
    <3>1. /\ Len(raw) + i \in DOMAIN raw'
          /\ raw'[Len(raw) + i] = [cue |-> more[i], waited |-> 0]
      BY <2>1, IngestRaw
    <3> DEFINE k == Len(raw) + i
    <3> HIDE DEF k
    <3>2. k \in DOMAIN raw' /\ raw'[k] = [cue |-> more[i], waited |-> 0]
      BY <3>1 DEF k
    <3>3. QED BY <2>1, <3>2
  <2>2. ASSUME NEW i \in DOMAIN raw, raw[i].cue = t
        PROVE  \E k \in DOMAIN raw' : raw'[k].cue = t
    BY <2>2, IngestRaw
  <2>3. ASSUME NEW k \in DOMAIN raw', raw'[k].cue = t
        PROVE  (\E i \in DOMAIN raw : raw[i].cue = t) \/ \E i \in DOMAIN more : more[i] = t
    <3>1. k \in 1 .. Len(raw) + Len(more) /\ Len(raw) \in Nat /\ Len(more) \in Nat
      BY IngestRaw, Places
    <3>2. CASE k \in 1 .. Len(raw)
      <4>1. k \in DOMAIN raw
        BY <3>2, Places
      <4>2. raw'[k] = raw[k]
        BY <4>1, IngestRaw
      <4>3. QED BY <2>3, <4>1, <4>2
    <3>3. CASE k \notin 1 .. Len(raw)
      <4>1. k - Len(raw) \in 1 .. Len(more) /\ Len(raw) + (k - Len(raw)) = k
        BY <3>1, <3>3
      <4>2. k - Len(raw) \in DOMAIN more
        BY <4>1 DEF Ingested
      <4>3. raw'[k] = [cue |-> more[k - Len(raw)], waited |-> 0]
        <5> DEFINE m == k - Len(raw)
        <5>1. m \in DOMAIN more /\ Len(raw) + m = k
          BY <4>1, <4>2
        <5> HIDE DEF m
        <5>2. raw'[Len(raw) + m] = [cue |-> more[m], waited |-> 0]
          BY <5>1, IngestRaw
        <5>3. QED BY <5>1, <5>2 DEF m
      <4>4. QED BY <2>3, <4>2, <4>3
    <3>4. QED BY <3>2, <3>3
  <2>4. QED BY <2>1, <2>2, <2>3
<1>5. (\E i \in DOMAIN more : more[i] = t) <=>
        shift = 1 /\ t \in IF Latency = 0 THEN kept ELSE pending[1]
  <2>1. shift = 0 => DOMAIN more = {}
    BY DEF Ingested
  <2>2. QED BY <2>1 DEF Ingested
<1>6. QED BY <1>1, <1>2, <1>3, <1>4, <1>5

LEMMA IngestType ==
  ASSUME PictureTypeOK, NEW kept, NEW shift, NEW more, Ingested(kept, shift, more)
  PROVE  PictureTypeOK'
<1>1. ticksI' \in 0 .. MaxLag
  <2>1. ticksI' = ticksI - 1 /\ ticksI > 0
    BY DEF Ingested
  <2>2. QED BY <2>1, Numbers
<1>2. seen' \in [Targets -> 0 .. TruthTTL \cup {Gone}]
  BY Numbers, AgedFact DEF PictureTypeOK, Ingested, Forget
<1>3. dropped' \in [Targets -> 0 .. MaxDrop]
  <2>1. ASSUME NEW t \in Targets
        PROVE  (IF t \in kept \/ seen'[t] = Gone THEN 0 ELSE dropped[t] + 1) \in 0 .. MaxDrop
    <3>1. dropped[t] \in Nat /\ dropped[t] <= MaxDrop
      BY OfTarget
    <3>2. t \in kept \/ seen'[t] = Gone \/ dropped[t] < MaxDrop
      BY DEF Ingested
    <3>3. QED BY <3>1, <3>2, Numbers
  <2>2. dropped' = [t \in Targets |-> IF t \in kept \/ seen'[t] = Gone THEN 0 ELSE dropped[t] + 1]
    BY DEF Ingested
  <2>3. QED BY <2>1, <2>2
<1>4. pending' \in Seq(SUBSET Targets) /\ Len(pending') <= Latency
  <2>1. /\ Len(pending') = Len(pending) + 1 - shift
        /\ shift \in {0, 1} /\ (shift = 1 <=> Len(pending) = Latency)
        /\ pending' \in Seq(SUBSET Targets)
    BY DEF Ingested
  <2>2. Len(pending) \in Nat /\ Len(pending) <= Latency /\ Latency \in Nat
    BY Places, Numbers
  <2> DEFINE n == Len(pending)
             m == Len(pending')
  <2>3. /\ n \in Nat /\ n <= Latency /\ Latency \in Nat
        /\ m = n + 1 - shift /\ shift \in {0, 1} /\ (shift = 1 <=> n = Latency)
    BY <2>1, <2>2
  <2> HIDE DEF n, m
  <2>4. m <= Latency
    BY <2>3
  <2>5. QED BY <2>1, <2>4 DEF m
<1>5. raw' \in Seq([cue : Targets, waited : 0 .. MaxLag])
  BY IngestRaw
<1>6. UNCHANGED <<alive, ticksT, truth, age, origin, known>>
  BY DEF Ingested
<1>7. QED BY <1>1, <1>2, <1>3, <1>4, <1>5, <1>6 DEF PictureTypeOK

\* A live target is not forgotten, and its drops are counted on.
LEMMA IngestSeen ==
  ASSUME PictureIInv, NEW kept, NEW shift, NEW more, Ingested(kept, shift, more),
         NEW t \in alive, seen[t] # Gone
  PROVE  /\ seen'[t] = seen[t] + 1 /\ seen'[t] # Gone
         /\ t \in kept => dropped'[t] = 0
         /\ t \notin kept => dropped'[t] = dropped[t] + 1
<1>1. t \in Targets /\ PictureTypeOK
  BY DEF PictureIInv, PictureTypeOK
<1>2. seen[t] + ticksI <= truth[t] + MaxLag
  BY DEF PictureIInv, Watched
<1>3. seen[t] \in Nat /\ truth[t] \in Nat /\ truth[t] <= MaxLag
  BY <1>1, OfTarget, Numbers
<1>4. ticksI > 0
  BY DEF Ingested
<1>5. seen[t] < TruthTTL
  BY <1>1, <1>2, <1>3, <1>4, Numbers
<1>6. seen'[t] = seen[t] + 1
  BY <1>1, <1>5, Numbers, AgedFact DEF PictureTypeOK, Ingested, Forget
<1>7. seen'[t] # Gone
  BY <1>1, <1>3, <1>6, Numbers
<1>8. QED BY <1>1, <1>6, <1>7 DEF Ingested

LEMMA IngestWatched ==
  ASSUME PictureIInv, NEW kept, NEW shift, NEW more, Ingested(kept, shift, more)
  PROVE  Watched'
<1> SUFFICES ASSUME NEW t \in alive'
             PROVE  /\ t \in Cued' \/ Buffered(t)' => seen'[t] # Gone
                    /\ seen'[t] # Gone => seen'[t] + ticksI' <= truth'[t] + MaxLag
  BY DEF Watched
<1>1. t \in alive /\ t \in Targets /\ PictureTypeOK
  BY DEF Ingested, PictureIInv, PictureTypeOK
<1>2. /\ t \in Cued \/ Buffered(t) => seen[t] # Gone
      /\ seen[t] # Gone => seen[t] + ticksI <= truth[t] + MaxLag
  BY <1>1 DEF PictureIInv, Watched
<1>3. t \in Cued' \/ Buffered(t)' => seen'[t] # Gone
  <2>1. t \in kept => seen'[t] # Gone
    BY DEF Ingested
  <2>2. ASSUME Buffered(t)' PROVE t \in kept \/ Buffered(t)
    BY <1>1, <2>2, IngestPlaces DEF Buffered
  <2>3. ASSUME t \in Cued' PROVE t \in kept \/ t \in Cued \/ Buffered(t)
    <3>1. t \in Cued \/ (shift = 1 /\ t \in IF Latency = 0 THEN kept ELSE pending[1])
      BY <1>1, <2>3, IngestCued
    <3>2. ASSUME shift = 1, Latency # 0, t \in pending[1] PROVE Buffered(t)
      <4>1. Len(pending) = Latency
        BY <3>2 DEF Ingested
      <4>2. 1 \in DOMAIN pending
        BY <1>1, <3>2, <4>1, Places, Numbers
      <4>3. QED BY <3>2, <4>2 DEF Buffered
    <3>3. QED BY <3>1, <3>2
  <2>4. QED BY <1>1, <1>2, <2>1, <2>2, <2>3, IngestSeen
<1>4. seen'[t] # Gone => seen'[t] + ticksI' <= truth'[t] + MaxLag
  <2>1. seen'[t] # Gone => seen[t] # Gone /\ seen'[t] = seen[t] + 1
    BY <1>1, Numbers, AgedFact DEF PictureTypeOK, Ingested, Forget
  <2>2. ticksI' = ticksI - 1 /\ truth'[t] = truth[t]
    BY DEF Ingested
  <2>3. seen[t] \in Int /\ truth[t] \in Int
    BY <1>1, OfTarget
  <2>4. QED BY <1>1, <1>2, <2>1, <2>2, <2>3, Numbers
<1>5. QED BY <1>3, <1>4

\* What follows a place of the buffer still follows it, one place further on.
LEMMA FollowedOn ==
  ASSUME PictureIInv, NEW kept, NEW shift, NEW more, Ingested(kept, shift, more),
         NEW t \in alive, seen[t] # Gone,
         NEW i \in Nat, shift <= i, i <= Len(pending), Followed(t, i),
         NEW k \in Nat, k = i - shift
  PROVE  Followed(t, k)'
<1>1. PictureTypeOK /\ t \in Targets
  BY DEF PictureIInv, PictureTypeOK
<1>2. /\ shift = 0 \/ shift = 1
      /\ Len(pending') >= 1 => pending'[Len(pending')] = kept
  BY DEF Ingested
<1>3. /\ Len(pending) \in Nat /\ DOMAIN pending = 1 .. Len(pending)
      /\ Len(pending') \in Nat /\ DOMAIN pending' = 1 .. Len(pending')
      /\ Len(pending') = Len(pending) + 1 - shift
  BY <1>1, Places, IngestPlaces
<1>4. CASE \E j \in DOMAIN pending : i < j /\ j <= i + MaxDrop + 1 /\ t \in pending[j]
  <2>1. PICK j \in DOMAIN pending : i < j /\ j <= i + MaxDrop + 1 /\ t \in pending[j]
    BY <1>4
  <2>2. j \in Nat /\ j > shift
    BY <1>2, <1>3, <2>1
  <2>3. j - shift \in DOMAIN pending' /\ pending'[j - shift] = pending[j]
    BY <1>1, <2>2, IngestPlaces
  <2>4. k < j - shift /\ j - shift <= k + MaxDrop + 1
    <3>1. MaxDrop \in Nat
      BY <1>1, Numbers
    <3>2. shift \in Nat /\ i < j /\ j <= i + MaxDrop + 1 /\ j \in Nat /\ k = i - shift
      BY <1>2, <2>1, <2>2
    <3>3. QED BY <3>1, <3>2
  <2>5. QED BY <2>1, <2>3, <2>4 DEF Followed
<1>5. CASE Len(pending) <= i + dropped[t]
  <2>1. dropped[t] \in Nat /\ dropped[t] <= MaxDrop
    BY <1>1, OfTarget
  <2>2. CASE t \notin kept
    <3>1. dropped'[t] = dropped[t] + 1
      BY <2>2, IngestSeen
    <3>2. Len(pending') <= k + dropped'[t]
      BY <1>2, <1>3, <1>5, <2>1, <3>1
    <3>3. QED BY <3>2 DEF Followed
  <2>3. CASE t \in kept /\ Len(pending') = 0
    <3>1. dropped'[t] = 0
      BY <2>3, IngestSeen
    <3>2. Len(pending') <= k + dropped'[t]
      BY <2>3, <3>1
    <3>3. QED BY <3>2 DEF Followed
  <2>4. CASE t \in kept /\ Len(pending') # 0
    <3> DEFINE j == Len(pending')
               n == Len(pending)
    <3>1. j \in DOMAIN pending' /\ t \in pending'[j]
      BY <1>2, <1>3, <2>4
    <3>2. MaxDrop \in Nat
      BY <1>1, Numbers
    <3>3. /\ n \in Nat /\ j = n + 1 - shift /\ i <= n /\ n <= i + dropped[t]
          /\ shift = 0 \/ shift = 1
      BY <1>2, <1>3, <1>5
    <3> HIDE DEF j, n
    <3>4. k \in Nat /\ i \in Nat /\ k = i - shift
      OBVIOUS
    <3>5. k < j /\ j <= k + MaxDrop + 1
      <4>1. CASE shift = 0
        BY <2>1, <3>2, <3>3, <3>4, <4>1
      <4>2. CASE shift = 1
        BY <2>1, <3>2, <3>3, <3>4, <4>2
      <4>3. QED BY <3>3, <4>1, <4>2
    <3>6. QED BY <3>1, <3>5 DEF Followed
  <2>5. QED BY <2>2, <2>3, <2>4
<1>6. QED BY <1>4, <1>5 DEF Followed

LEMMA IngestRegular ==
  ASSUME PictureIInv, NEW kept, NEW shift, NEW more, Ingested(kept, shift, more)
  PROVE  Regular'
<1>1. PictureTypeOK /\ PictureTypeOK'
  BY IngestType DEF PictureIInv
<1>2. shift = 0 \/ shift = 1
  BY DEF Ingested
<1>3. /\ Len(pending) \in Nat /\ DOMAIN pending = 1 .. Len(pending)
      /\ Len(pending') \in Nat /\ DOMAIN pending' = 1 .. Len(pending')
      /\ Len(pending') = Len(pending) + 1 - shift
  BY <1>1, Places, IngestPlaces
<1> SUFFICES ASSUME NEW t \in alive'
             PROVE  /\ \A i \in DOMAIN pending' : t \in pending'[i] => Followed(t, i)'
                    /\ t \in Cued' => Followed(t, 0)'
  BY DEF Regular
<1>4. t \in alive /\ t \in Targets
  BY <1>1 DEF Ingested, PictureTypeOK
<1>5. /\ \A i \in DOMAIN pending : t \in pending[i] => Followed(t, i)
      /\ t \in Cued => Followed(t, 0)
  BY <1>4 DEF PictureIInv, Regular
<1>6. /\ t \in Cued => seen[t] # Gone
      /\ Buffered(t) => seen[t] # Gone
  BY <1>4 DEF PictureIInv, Watched
<1>7. ASSUME NEW i \in DOMAIN pending, t \in pending[i], shift <= i,
             NEW k \in Nat, k = i - shift
      PROVE  Followed(t, k)'
  <2>1. Followed(t, i) /\ seen[t] # Gone
    BY <1>5, <1>6, <1>7 DEF Buffered
  <2>2. i \in Nat /\ i <= Len(pending)
    BY <1>3
  <2>3. QED BY <1>4, <1>7, <2>1, <2>2, FollowedOn
<1>8. ASSUME NEW i \in DOMAIN pending', t \in pending'[i]
      PROVE  Followed(t, i)'
  <2>1. CASE i = Len(pending')
    <3>1. dropped'[t] \in Nat
      <4>1. dropped' \in [Targets -> 0 .. MaxDrop]
        BY <1>1 DEF PictureTypeOK
      <4>2. MaxDrop \in Nat
        BY <1>1, Numbers
      <4>3. dropped'[t] \in 0 .. MaxDrop
        BY <1>4, <4>1
      <4>4. QED BY <4>2, <4>3
    <3>2. Len(pending') <= i + dropped'[t]
      BY <1>3, <2>1, <3>1
    <3>3. QED BY <3>2 DEF Followed
  <2>2. CASE i # Len(pending')
    <3>1. i + shift \in DOMAIN pending /\ pending'[i] = pending[i + shift]
      BY <1>1, <2>2, IngestPlaces
    <3> DEFINE j == i + shift
    <3>2. i \in Nat /\ shift <= j /\ i = j - shift
      BY <1>2, <1>3
    <3>3. j \in DOMAIN pending /\ t \in pending[j]
      BY <1>8, <3>1
    <3> HIDE DEF j
    <3>4. QED BY <1>7, <3>2, <3>3
  <2>3. QED BY <2>1, <2>2
<1>9. ASSUME t \in Cued' PROVE Followed(t, 0)'
  <2>1. t \in Cued \/ (shift = 1 /\ t \in IF Latency = 0 THEN kept ELSE pending[1])
    BY <1>1, <1>4, <1>9, IngestCued
  <2>2. CASE Len(pending') = 0
    <3>1. dropped'[t] \in 0 .. MaxDrop /\ MaxDrop \in Nat
      BY <1>1, <1>4, Numbers DEF PictureTypeOK
    <3>2. Len(pending') <= 0 + dropped'[t]
      BY <2>2, <3>1
    <3>3. QED BY <3>2 DEF Followed
  <2>3. CASE Len(pending') # 0 /\ shift = 1 /\ t \in pending[1]
    <3>1. 1 \in DOMAIN pending
      BY <1>3, <2>3
    <3>2. QED BY <1>7, <2>3, <3>1
  <2>4. CASE t \in Cued /\ shift = 0
    <3>1. 0 <= Len(pending)
      BY <1>3
    <3>2. QED BY <1>4, <1>5, <1>6, <2>4, <3>1, FollowedOn
  <2>5. CASE Len(pending') # 0 /\ t \in Cued /\ shift = 1 /\ t \notin pending[1]
    <3>1. Followed(t, 0) /\ seen[t] # Gone
      BY <1>5, <1>6, <2>5
    <3>2. CASE \E j \in DOMAIN pending : 0 < j /\ j <= 0 + MaxDrop + 1 /\ t \in pending[j]
      <4>1. PICK j \in DOMAIN pending : 0 < j /\ j <= 0 + MaxDrop + 1 /\ t \in pending[j]
        BY <3>2
      <4>2. j \in Nat /\ j > 1 /\ MaxDrop \in Nat
        <5>1. j \in Nat /\ j # 1
          BY <1>3, <2>5, <4>1
        <5>2. QED BY <1>1, <4>1, <5>1, Numbers
      <4>3. j - 1 \in DOMAIN pending' /\ pending'[j - 1] = pending[j]
        BY <1>1, <2>5, <4>2, IngestPlaces
      <4>4. 0 < j - 1 /\ j - 1 <= 0 + MaxDrop + 1
        BY <4>1, <4>2
      <4>5. QED BY <4>1, <4>3, <4>4 DEF Followed
    <3>3. CASE Len(pending) <= 0 + dropped[t]
      <4>1. dropped[t] \in Nat /\ dropped[t] <= MaxDrop /\ MaxDrop \in Nat
        BY <1>1, <1>4, OfTarget, Numbers
      <4>2. CASE t \notin kept
        <5>1. dropped'[t] = dropped[t] + 1
          BY <1>4, <3>1, <4>2, IngestSeen
        <5>2. Len(pending') <= 0 + dropped'[t]
          BY <1>3, <2>5, <3>3, <4>1, <5>1
        <5>3. QED BY <5>2 DEF Followed
      <4>3. CASE t \in kept
        <5> DEFINE j == Len(pending')
        <5>1. j \in DOMAIN pending' /\ t \in pending'[j] /\ j \in Nat
          BY <1>3, <2>5, <4>3 DEF Ingested
        <5>2. 0 < j /\ j <= 0 + MaxDrop + 1
          <6> DEFINE n == Len(pending)
          <6>1. n \in Nat /\ j = n + 1 - shift /\ shift = 1 /\ n <= 0 + dropped[t] /\ j # 0
            BY <1>3, <2>5, <3>3
          <6> HIDE DEF j, n
          <6>2. QED BY <4>1, <6>1
        <5>3. QED BY <5>1, <5>2 DEF Followed
      <4>4. QED BY <4>2, <4>3
    <3>4. QED BY <3>1, <3>2, <3>3 DEF Followed
  <2>6. Latency = 0 => Len(pending') = 0
    <3>1. ASSUME Latency = 0 PROVE Len(pending') = 0
      <4>1. Len(pending') <= Latency
        BY <1>1 DEF PictureTypeOK
      <4>2. QED BY <1>3, <3>1, <4>1
    <3>2. QED BY <3>1
  <2>7. QED BY <1>2, <2>1, <2>2, <2>3, <2>4, <2>5, <2>6
<1>10. QED BY <1>8, <1>9

LEMMA IngestFilled ==
  ASSUME PictureIInv, NEW kept, NEW shift, NEW more, Ingested(kept, shift, more)
  PROVE  Filled'
<1>1. PictureTypeOK /\ PictureTypeOK'
  BY IngestType DEF PictureIInv
<1>2. ASSUME NEW t, t \in Cued' PROVE Len(pending) = Latency
  <2>1. t \in Targets
    <3>1. known' \subseteq Targets /\ \A i \in DOMAIN raw' : raw'[i].cue \in Targets
      <4>1. known' \subseteq Targets /\ raw' \in Seq([cue : Targets, waited : 0 .. MaxLag])
        BY <1>1 DEF PictureTypeOK
      <4> DEFINE Cue == [cue : Targets, waited : 0 .. MaxLag]
      <4>2. \A m \in Cue : m.cue \in Targets
        OBVIOUS
      <4>3. raw' \in Seq(Cue)
        BY <4>1
      <4> HIDE DEF Cue
      <4>4. \A i \in DOMAIN raw' : raw'[i] \in Cue
        BY <4>3
      <4>5. QED BY <4>1, <4>2, <4>4
    <3>2. QED BY <1>2, <3>1 DEF Cued, ToSet
  <2>2. t \in Cued \/ shift = 1
    BY <1>1, <1>2, <2>1, IngestCued
  <2>3. QED BY <2>2 DEF Ingested, PictureIInv, Filled
<1>3. ASSUME Len(pending) = Latency PROVE Len(pending') = Latency
  <2>1. shift = 1 /\ Len(pending') = Len(pending) + 1 - shift
    BY <1>3 DEF Ingested
  <2>2. QED BY <1>1, <1>3, <2>1, Places
<1>4. QED BY <1>2, <1>3 DEF Filled

\* What comes in time before the step of the ingest process does so after it.
LEMMA IngestOnTime ==
  ASSUME PictureIInv, NEW kept, NEW shift, NEW more, Ingested(kept, shift, more),
         NEW t \in alive, seen[t] # Gone, shift = 1,
         NEW old \in Int, OnTime(t, old)
  PROVE  OnTime(t, old)'
<1>1. PictureTypeOK /\ t \in Targets
  BY DEF PictureIInv, PictureTypeOK
<1>2. /\ ticksI \in Nat /\ ticksI > 0 /\ ticksI <= MaxLag /\ ticksI' = ticksI - 1
      /\ MaxLag \in Nat /\ MaxDrop \in Nat /\ Latency \in Nat
      /\ dropped[t] \in Nat /\ dropped[t] <= MaxDrop
  BY <1>1, Numbers, OfTarget DEF Ingested
<1>3. Len(pending) = Latency /\ Len(pending') = Latency
  <2>1. Len(pending) = Latency /\ Len(pending') = Len(pending) + 1 - shift
    BY DEF Ingested
  <2>2. QED BY <1>2, <2>1
<1>4. ASSUME t \in IF Latency = 0 THEN kept ELSE pending[1], old <= MaxDrop + 2 * MaxLag
      PROVE  OnTime(t, old)'
  <2>1. PICK i \in DOMAIN more : more[i] = t
    BY <1>4 DEF Ingested
  <2>2. /\ Len(raw) + i \in DOMAIN raw'
        /\ raw'[Len(raw) + i] = [cue |-> t, waited |-> 0]
    BY <1>1, <2>1, IngestRaw
  <2> DEFINE k == Len(raw) + i
  <2> HIDE DEF k
  <2>3. k \in DOMAIN raw' /\ raw'[k].cue = t /\ raw'[k].waited = 0
    BY <2>2 DEF k
  <2>4. old <= MaxDrop + 2 * MaxLag + raw'[k].waited
    BY <1>2, <1>4, <2>3
  <2>5. QED BY <2>3, <2>4 DEF OnTime
<1>5. CASE \E i \in DOMAIN raw : raw[i].cue = t /\ old <= MaxDrop + 2 * MaxLag + raw[i].waited
  <2>1. PICK i \in DOMAIN raw : raw[i].cue = t /\ old <= MaxDrop + 2 * MaxLag + raw[i].waited
    BY <1>5
  <2>2. i \in DOMAIN raw' /\ raw'[i] = raw[i]
    BY <1>1, IngestRaw
  <2>3. QED BY <2>1, <2>2 DEF OnTime
<1>6. CASE \E j \in DOMAIN pending : t \in pending[j] /\ old + j <= MaxDrop + 1 + ticksI + MaxLag
  <2>1. PICK j \in DOMAIN pending : t \in pending[j] /\ old + j <= MaxDrop + 1 + ticksI + MaxLag
    BY <1>6
  <2>2. j \in Nat /\ j >= 1 /\ Latency >= 1
    <3>1. DOMAIN pending = 1 .. Latency
      BY <1>1, <1>3, Places
    <3>2. QED BY <1>2, <3>1
  <2>3. CASE j = 1
    <3>1. old <= MaxDrop + 2 * MaxLag
      BY <1>2, <2>1, <2>3
    <3>2. QED BY <1>4, <2>1, <2>2, <2>3, <3>1
  <2>4. CASE j # 1
    <3>1. j - 1 \in DOMAIN pending' /\ pending'[j - 1] = pending[j]
      BY <1>1, <2>2, <2>4, IngestPlaces
    <3>2. old + (j - 1) <= MaxDrop + 1 + ticksI' + MaxLag
      BY <1>2, <2>1, <2>2
    <3>3. QED BY <2>1, <3>1, <3>2 DEF OnTime
  <2>5. QED BY <2>3, <2>4
<1>7. CASE old + Latency <= dropped[t] + ticksI + MaxLag
  <2>1. CASE t \notin kept
    <3>1. dropped'[t] = dropped[t] + 1
      BY <2>1, IngestSeen
    <3>2. old + Latency <= dropped'[t] + ticksI' + MaxLag
      BY <1>2, <1>7, <3>1
    <3>3. QED BY <3>2 DEF OnTime
  <2>2. CASE t \in kept /\ Latency = 0
    <3>1. old <= MaxDrop + 2 * MaxLag
      BY <1>2, <1>7, <2>2
    <3>2. QED BY <1>4, <2>2, <3>1
  <2>3. CASE t \in kept /\ Latency # 0
    <3>1. Latency \in DOMAIN pending' /\ t \in pending'[Latency]
      <4>1. DOMAIN pending' = 1 .. Latency
        BY <1>1, <1>3, IngestPlaces
      <4>2. Latency \in 1 .. Latency /\ Latency >= 1
        BY <1>2, <2>3
      <4>3. Len(pending') >= 1 => pending'[Len(pending')] = kept
        BY DEF Ingested
      <4>4. QED BY <1>3, <2>3, <4>1, <4>2, <4>3
    <3>2. old + Latency <= MaxDrop + 1 + ticksI' + MaxLag
      BY <1>2, <1>7
    <3>3. QED BY <3>1, <3>2 DEF OnTime
  <2>4. QED BY <2>1, <2>2, <2>3
<1>8. QED BY <1>5, <1>6, <1>7 DEF OnTime

LEMMA IngestClockInv ==
  ASSUME PictureIInv, IngestClock
  PROVE  PictureIInv'
<1>1. PictureTypeOK
  BY DEF PictureIInv
<1>2. PICK kept, shift, more : Ingested(kept, shift, more)
  BY <1>1, IngestFact
<1>3. PictureTypeOK' /\ Watched' /\ Regular' /\ Filled'
  BY <1>1, <1>2, IngestType, IngestWatched, IngestRegular, IngestFilled
<1>4. UNCHANGED <<alive, ticksT, age, origin, known>>
  BY <1>2 DEF Ingested
<1>5. Herded'
  BY <1>4 DEF PictureIInv, Herded
<1>6. Tracked'
  <2> SUFFICES ASSUME NEW t \in known' \cap alive'
               PROVE  (\E id \in Targets : Shows(id, t) /\ OnTime(t, age[id] + ticksT))'
    BY DEF Tracked
  <2>1. PICK id \in Targets : Shows(id, t) /\ OnTime(t, age[id] + ticksT)
    BY <1>4 DEF PictureIInv, Tracked
  <2>2. t \in alive /\ t \in Cued
    BY <1>4 DEF Cued
  <2>3. seen[t] # Gone
    BY <2>2 DEF PictureIInv, Watched
  <2>4. shift = 1
    BY <1>2, <2>2 DEF PictureIInv, Filled, Ingested
  <2>5. PICK old \in Int : old = age[id] + ticksT
    BY <1>1, OfTarget, Numbers
  <2>6. OnTime(t, old) /\ (age[id] + ticksT)' = old
    BY <1>4, <2>1, <2>5
  <2>7. OnTime(t, old)'
    BY <1>2, <2>2, <2>3, <2>4, <2>5, <2>6, IngestOnTime
  <2>8. OnTime(t, age[id] + ticksT)'
    BY <2>6, <2>7 DEF OnTime
  <2>9. Shows(id, t)'
    BY <1>4, <2>1 DEF Shows
  <2>10. QED BY <2>8, <2>9
<1>7. QED BY <1>3, <1>5, <1>6 DEF PictureIInv

-----------------------------------------------------------------------------
(* The track manager                                                       *)

LEMMA RawFact ==
  ASSUME PictureTypeOK, OnRaw
  PROVE  /\ Head(raw).cue \in Targets
         /\ 1 \in DOMAIN raw /\ Head(raw) = raw[1]
         /\ raw' \in Seq([cue : Targets, waited : 0 .. MaxLag])
         /\ \A i \in DOMAIN raw : i # 1 => i - 1 \in DOMAIN raw' /\ raw'[i - 1] = raw[i]
         /\ \A i \in DOMAIN raw' : i + 1 \in DOMAIN raw /\ raw'[i] = raw[i + 1]
         /\ Cued' = Cued
<1> DEFINE Cue == [cue : Targets, waited : 0 .. MaxLag]
<1>1. raw \in Seq(Cue) /\ raw # <<>> /\ raw' = Tail(raw)
  BY DEF PictureTypeOK, OnRaw
<1>2. \A m \in Cue : m.cue \in Targets
  OBVIOUS
<1> HIDE DEF Cue
<1>3. /\ Head(raw) \in Cue /\ Head(raw) = raw[1]
      /\ raw' \in Seq(Cue) /\ Len(raw') = Len(raw) - 1
      /\ \A i \in 1 .. Len(raw') : raw'[i] = raw[i + 1]
  BY <1>1, HeadTailProperties
<1>4. /\ Len(raw) \in Nat /\ DOMAIN raw = 1 .. Len(raw) /\ Len(raw) >= 1
      /\ DOMAIN raw' = 1 .. Len(raw')
  BY <1>1, <1>3, EmptySeq, LenProperties
<1>5. 1 \in DOMAIN raw
  BY <1>4
<1>6. \A i \in DOMAIN raw : i # 1 => i - 1 \in DOMAIN raw' /\ raw'[i - 1] = raw[i]
  <2> SUFFICES ASSUME NEW i \in DOMAIN raw, i # 1
               PROVE  i - 1 \in DOMAIN raw' /\ raw'[i - 1] = raw[i]
    OBVIOUS
  <2>1. i - 1 \in 1 .. Len(raw') /\ (i - 1) + 1 = i
    BY <1>3, <1>4
  <2>2. QED BY <1>3, <1>4, <2>1
<1>7. \A i \in DOMAIN raw' : i + 1 \in DOMAIN raw /\ raw'[i] = raw[i + 1]
  BY <1>3, <1>4
<1>8. Cued' = Cued
  <2>1. known' = known \cup {raw[1].cue}
    BY <1>3 DEF OnRaw
  <2>2. ASSUME NEW t, t \in Cued PROVE t \in Cued'
    <3>1. CASE t \in known
      BY <2>1, <3>1 DEF Cued
    <3>2. CASE \E i \in DOMAIN raw : raw[i].cue = t
      <4>1. PICK i \in DOMAIN raw : raw[i].cue = t
        BY <3>2
      <4>2. CASE i = 1
        BY <2>1, <4>1, <4>2 DEF Cued
      <4>3. CASE i # 1
        <5>1. i - 1 \in DOMAIN raw' /\ raw'[i - 1].cue = t
          BY <1>6, <4>1, <4>3
        <5>2. QED BY <5>1 DEF Cued, ToSet
      <4>4. QED BY <4>2, <4>3
    <3>3. QED BY <2>2, <3>1, <3>2 DEF Cued, ToSet
  <2>3. ASSUME NEW t, t \in Cued' PROVE t \in Cued
    <3>1. CASE t \in known'
      BY <1>5, <2>1, <3>1 DEF Cued, ToSet
    <3>2. CASE \E i \in DOMAIN raw' : raw'[i].cue = t
      <4>1. PICK i \in DOMAIN raw' : raw'[i].cue = t
        BY <3>2
      <4>2. i + 1 \in DOMAIN raw /\ raw[i + 1].cue = t
        BY <1>7, <4>1
      <4>3. QED BY <4>2 DEF Cued, ToSet
    <3>3. QED BY <2>3, <3>1, <3>2 DEF Cued, ToSet
  <2>4. QED BY <2>2, <2>3
<1>9. Head(raw).cue \in Targets
  BY <1>2, <1>3
<1>10. raw' \in Seq([cue : Targets, waited : 0 .. MaxLag])
  BY <1>3 DEF Cue
<1>11. QED BY <1>3, <1>5, <1>6, <1>7, <1>8, <1>9, <1>10

\* A cue of t goes to a track of t's group.
LEMMA SameHerd ==
  ASSUME PictureTypeOK, Herded, NEW t \in Targets, NEW id,
         id \in (IF age[t] # Gone \/ Within(t) = {} THEN {t} ELSE Within(t))
  PROVE  id \in Targets /\ \A S \in Groups : id \in S <=> t \in S
<1>1. CASE id = t
  BY <1>1
<1>2. CASE id \in Within(t)
  <2>1. /\ id \in Targets /\ age[id] # Gone
        /\ origin[id] = t \/ {origin[id], t} \in Company
    BY <1>2 DEF Within
  <2>2. \A S \in Groups : id \in S <=> origin[id] \in S
    BY <2>1 DEF Herded
  <2>3. \A S \in Groups : origin[id] \in S <=> t \in S
    BY <2>1 DEF Groups
  <2>4. QED BY <2>1, <2>2, <2>3
<1>3. QED BY <1>1, <1>2

LEMMA OnTimeSooner ==
  ASSUME PictureTypeOK, NEW t \in Targets, NEW old \in Int, OnTime(t, old),
         NEW new \in Int, new <= old
  PROVE  OnTime(t, new)
<1>1. MaxDrop \in Nat /\ MaxLag \in Nat /\ ticksI \in Nat /\ Latency \in Nat /\ dropped[t] \in Nat
  BY Numbers, OfTarget
<1>2. CASE \E i \in DOMAIN raw : raw[i].cue = t /\ old <= MaxDrop + 2 * MaxLag + raw[i].waited
  <2>1. PICK i \in DOMAIN raw : raw[i].cue = t /\ old <= MaxDrop + 2 * MaxLag + raw[i].waited
    BY <1>2
  <2>2. raw[i].waited \in Nat
    BY OfCue
  <2>3. new <= MaxDrop + 2 * MaxLag + raw[i].waited
    BY <1>1, <2>1, <2>2
  <2>4. QED BY <2>1, <2>3 DEF OnTime
<1>3. CASE \E j \in DOMAIN pending : t \in pending[j] /\ old + j <= MaxDrop + 1 + ticksI + MaxLag
  <2>1. PICK j \in DOMAIN pending : t \in pending[j] /\ old + j <= MaxDrop + 1 + ticksI + MaxLag
    BY <1>3
  <2>2. j \in Int
    BY Places
  <2>3. new + j <= MaxDrop + 1 + ticksI + MaxLag
    BY <1>1, <2>1, <2>2
  <2>4. QED BY <2>1, <2>3 DEF OnTime
<1>4. CASE old + Latency <= dropped[t] + ticksI + MaxLag
  <2>1. new + Latency <= dropped[t] + ticksI + MaxLag
    BY <1>1, <1>4
  <2>2. QED BY <2>1 DEF OnTime
<1>5. QED BY <1>2, <1>3, <1>4 DEF OnTime

\* The cue after one that has left the buffer is in time for a track as old as the clock
\* messages on their way make it.
LEMMA NextInTime ==
  ASSUME PictureIInv, NEW t \in alive, t \in Cued
  PROVE  \/ \E j \in DOMAIN pending :
              t \in pending[j] /\ ticksT + j <= MaxDrop + 1 + ticksI + MaxLag
         \/ ticksT + Latency <= dropped[t] + ticksI + MaxLag
<1>1. PictureTypeOK /\ t \in Targets
  BY DEF PictureIInv, PictureTypeOK
<1>2. Followed(t, 0) /\ Len(pending) = Latency
  BY DEF PictureIInv, Regular, Filled
<1>3. /\ ticksI \in Nat /\ ticksT \in Nat /\ ticksT <= MaxLag /\ MaxLag \in Nat
      /\ MaxDrop \in Nat /\ Latency \in Nat /\ dropped[t] \in Nat
  BY <1>1, Numbers, OfTarget
<1>4. CASE \E j \in DOMAIN pending : 0 < j /\ j <= 0 + MaxDrop + 1 /\ t \in pending[j]
  <2>1. PICK j \in DOMAIN pending : 0 < j /\ j <= 0 + MaxDrop + 1 /\ t \in pending[j]
    BY <1>4
  <2>2. j \in Int
    BY <1>1, Places
  <2>3. ticksT + j <= MaxDrop + 1 + ticksI + MaxLag
    BY <1>3, <2>1, <2>2
  <2>4. QED BY <2>1, <2>3
<1>5. CASE Len(pending) <= 0 + dropped[t]
  <2>1. ticksT + Latency <= dropped[t] + ticksI + MaxLag
    BY <1>2, <1>3, <1>5
  <2>2. QED BY <2>1
<1>6. QED BY <1>2, <1>4, <1>5 DEF Followed

LEMMA OnRawInv ==
  ASSUME PictureIInv, OnRaw
  PROVE  PictureIInv'
<1>1. PictureTypeOK /\ Watched /\ Regular /\ Filled /\ Herded /\ Tracked
  BY DEF PictureIInv
<1>2. PICK t \in Targets : t = Head(raw).cue
  BY <1>1, RawFact
<1>3. Cued' = Cued /\ t \in Cued
  <2>1. Cued' = Cued /\ 1 \in DOMAIN raw /\ t = raw[1].cue
    BY <1>1, <1>2, RawFact
  <2>2. QED BY <2>1 DEF Cued, ToSet
<1>4. PICK id \in IF age[t] # Gone \/ Within(t) = {} THEN {t} ELSE Within(t) :
        /\ age' = [age EXCEPT ![id] = 0]
        /\ origin' = [origin EXCEPT ![id] = t]
  BY <1>2 DEF OnRaw
<1>5. known' = known \cup {t} /\ UNCHANGED <<alive, ticksI, ticksT, truth, seen, dropped, pending>>
  BY <1>2 DEF OnRaw, ingest
<1>6. t = raw[1].cue
  BY <1>1, <1>2, RawFact
<1>7. id \in Targets /\ \A S \in Groups : id \in S <=> t \in S
  BY <1>1, <1>3, <1>4, SameHerd
<1>8. /\ age'[id] = 0 /\ \A other \in Targets : other # id => age'[other] = age[other]
      /\ origin'[id] = t /\ \A other \in Targets : other # id => origin'[other] = origin[other]
  BY <1>1, <1>4, <1>7 DEF PictureTypeOK
<1>9. PictureTypeOK'
  <2>1. age' \in [Targets -> 0 .. TTL \cup {Gone}] /\ origin' \in [Targets -> Targets \cup {None}]
    BY <1>1, <1>3, <1>4, <1>7, PictureAssumption DEF PictureTypeOK
  <2>2. raw' \in Seq([cue : Targets, waited : 0 .. MaxLag])
    BY <1>1, RawFact
  <2>3. QED BY <1>1, <1>3, <1>5, <2>1, <2>2 DEF PictureTypeOK
<1>10. Watched' /\ Regular' /\ Filled'
  BY <1>1, <1>3, <1>5 DEF Watched, Buffered, Regular, Followed, Filled
<1>11. Herded'
  BY <1>1, <1>3, <1>7, <1>8 DEF Herded
<1>12. Tracked'
  <2> SUFFICES ASSUME NEW u \in known' \cap alive'
               PROVE  (\E w \in Targets : Shows(w, u) /\ OnTime(u, age[w] + ticksT))'
    BY DEF Tracked
  <2>1. u \in alive /\ u \in Targets /\ ticksT \in Nat
    BY <1>1, <1>5, Numbers DEF PictureTypeOK
  <2>2. CASE u = t
    <3>1. Shows(id, t)'
      BY <1>1, <1>7, <1>8, Numbers DEF Shows
    <3>2. (age[id] + ticksT)' = ticksT
      BY <1>5, <1>8, <2>1
    <3>3. \/ \E j \in DOMAIN pending :
               t \in pending[j] /\ ticksT + j <= MaxDrop + 1 + ticksI + MaxLag
          \/ ticksT + Latency <= dropped[t] + ticksI + MaxLag
      BY <1>3, <2>1, <2>2, NextInTime
    <3>4. OnTime(t, age[id] + ticksT)'
      BY <1>5, <3>2, <3>3 DEF OnTime
    <3>5. QED BY <1>7, <2>2, <3>1, <3>4
  <2>3. CASE u # t
    <3>1. u \in known
      BY <1>5, <2>3
    <3>2. PICK w \in Targets : Shows(w, u) /\ OnTime(u, age[w] + ticksT)
      BY <1>1, <2>1, <3>1 DEF Tracked
    <3>3. Shows(w, u)'
      BY <1>1, <1>8, <3>2, Numbers DEF Shows
    <3>4. PICK new \in Int : new = age'[w] + ticksT /\ new <= age[w] + ticksT
      <4>1. age[w] \in Int /\ age[w] >= 0
        <5>1. age[w] \in Int /\ age[w] >= -1 /\ age[w] # Gone
          BY <1>1, <3>2, OfTarget DEF Shows
        <5>2. QED BY <1>1, <5>1, Numbers
      <4>2. age'[w] = 0 \/ age'[w] = age[w]
        BY <1>8
      <4>3. QED BY <2>1, <4>1, <4>2
    <3>5. OnTime(u, new)
      <4>1. age[w] + ticksT \in Int
        BY <1>1, <2>1, OfTarget
      <4>2. QED BY <1>1, <2>1, <3>2, <3>4, <4>1, OnTimeSooner
    <3>6. OnTime(u, new)'
      <4>1. CASE \E i \in DOMAIN raw : raw[i].cue = u /\ new <= MaxDrop + 2 * MaxLag + raw[i].waited
        <5>1. PICK i \in DOMAIN raw : raw[i].cue = u /\ new <= MaxDrop + 2 * MaxLag + raw[i].waited
          BY <4>1
        <5>2. i # 1
          BY <1>6, <2>3, <5>1
        <5>3. i - 1 \in DOMAIN raw' /\ raw'[i - 1] = raw[i]
          BY <1>1, <5>2, RawFact
        <5>4. QED BY <5>1, <5>3 DEF OnTime
      <4>2. CASE ~ \E i \in DOMAIN raw : raw[i].cue = u /\ new <= MaxDrop + 2 * MaxLag + raw[i].waited
        BY <1>5, <3>5, <4>2 DEF OnTime
      <4>3. QED BY <4>1, <4>2
    <3>7. OnTime(u, age[w] + ticksT)'
      <4>1. (age[w] + ticksT)' = new
        BY <1>5, <3>4
      <4>2. QED BY <3>6, <4>1 DEF OnTime
    <3>8. QED BY <3>3, <3>7
  <2>4. QED BY <2>2, <2>3
<1>13. QED BY <1>9, <1>10, <1>11, <1>12 DEF PictureIInv

LEMMA ManagerClockInv ==
  ASSUME PictureIInv, ManagerClock
  PROVE  PictureIInv'
<1>1. PictureTypeOK /\ Watched /\ Regular /\ Filled /\ Herded /\ Tracked
  BY DEF PictureIInv
<1>2. /\ ticksT \in Nat /\ ticksT > 0 /\ ticksT <= MaxLag /\ ticksT' = ticksT - 1
      /\ age' = Aged(age, TTL)
      /\ origin' = [id \in Targets |-> IF age'[id] = Gone THEN None ELSE origin[id]]
      /\ UNCHANGED <<alive, ticksI, truth, seen, dropped, pending, raw, known>>
  BY <1>1, Numbers DEF ManagerClock, ingest
<1>3. /\ age' \in [Targets -> 0 .. TTL \cup {Gone}]
      /\ \A t \in Targets :
           /\ age[t] # Gone /\ age[t] < TTL => age'[t] = age[t] + 1
           /\ age'[t] # Gone => age[t] # Gone /\ age'[t] = age[t] + 1
  <2>1. age \in [Targets -> 0 .. TTL \cup {Gone}] /\ TTL \in Nat
    BY <1>1, Numbers DEF PictureTypeOK
  <2>2. QED BY <1>2, <2>1, AgedFact
<1>4. PictureTypeOK'
  <2>1. ticksT' \in 0 .. MaxLag
    BY <1>1, <1>2, Numbers
  <2>2. origin' \in [Targets -> Targets \cup {None}]
    BY <1>1, <1>2 DEF PictureTypeOK
  <2>3. QED BY <1>1, <1>2, <1>3, <2>1, <2>2 DEF PictureTypeOK
<1>5. Cued' = Cued
  BY <1>2 DEF Cued
<1>6. Watched' /\ Regular' /\ Filled'
  BY <1>1, <1>2, <1>5 DEF Watched, Buffered, Regular, Followed, Filled
<1>7. Herded'
  BY <1>1, <1>2, <1>3 DEF Herded
<1>8. Tracked'
  <2> SUFFICES ASSUME NEW t \in known' \cap alive'
               PROVE  (\E id \in Targets : Shows(id, t) /\ OnTime(t, age[id] + ticksT))'
    BY DEF Tracked
  <2>1. PICK id \in Targets : Shows(id, t) /\ OnTime(t, age[id] + ticksT)
    BY <1>1, <1>2 DEF Tracked
  <2>2. t \in Targets
    BY <1>1, <1>2 DEF PictureTypeOK
  <2>3. /\ age[id] \in Int /\ age[id] # Gone
        /\ MaxDrop \in Nat /\ MaxLag \in Nat /\ Latency \in Nat /\ TTL \in Nat
        /\ MaxDrop + 3 * MaxLag <= TTL /\ ticksI \in Nat /\ ticksI <= MaxLag
        /\ dropped[t] \in Nat /\ dropped[t] <= MaxDrop
    BY <1>1, <2>1, <2>2, OfTarget, Numbers DEF Shows
  <2>4. age[id] + ticksT <= MaxDrop + 3 * MaxLag
    <3>1. CASE \E i \in DOMAIN raw :
                 raw[i].cue = t /\ age[id] + ticksT <= MaxDrop + 2 * MaxLag + raw[i].waited
      <4>1. PICK i \in DOMAIN raw : age[id] + ticksT <= MaxDrop + 2 * MaxLag + raw[i].waited
        BY <3>1
      <4>2. raw[i].waited \in Nat /\ raw[i].waited <= MaxLag
        BY <1>1, OfCue
      <4>3. QED BY <1>2, <2>3, <4>1, <4>2
    <3>2. CASE \E j \in DOMAIN pending :
                 t \in pending[j] /\ age[id] + ticksT + j <= MaxDrop + 1 + ticksI + MaxLag
      <4>1. PICK j \in DOMAIN pending :
                 age[id] + ticksT + j <= MaxDrop + 1 + ticksI + MaxLag
        BY <3>2
      <4>2. j \in Nat /\ j >= 1
        BY <1>1, Places
      <4>3. QED BY <1>2, <2>3, <4>1, <4>2
    <3>3. CASE age[id] + ticksT + Latency <= dropped[t] + ticksI + MaxLag
      BY <1>2, <2>3, <3>3
    <3>4. QED BY <2>1, <3>1, <3>2, <3>3 DEF OnTime
  <2>5. age[id] < TTL
    BY <1>2, <2>3, <2>4
  <2>6. age'[id] = age[id] + 1 /\ age'[id] # Gone
    <3>1. age'[id] = age[id] + 1 /\ age[id] >= -1
      BY <1>1, <1>3, <2>3, <2>5, OfTarget
    <3>2. QED BY <1>1, <2>3, <3>1, Numbers
  <2>7. (age[id] + ticksT)' = age[id] + ticksT
    BY <1>2, <2>3, <2>6
  <2>8. Shows(id, t)' /\ OnTime(t, age[id] + ticksT)'
    BY <1>2, <2>1, <2>6, <2>7 DEF Shows, OnTime
  <2>9. QED BY <2>8
<1>9. QED BY <1>4, <1>6, <1>7, <1>8 DEF PictureIInv

-----------------------------------------------------------------------------

LEMMA PictureNextInv == PictureIInv /\ [PictureNext]_pictureVars => PictureIInv'
<1> SUFFICES ASSUME PictureIInv, [PictureNext]_pictureVars PROVE PictureIInv'
  OBVIOUS
<1>1. CASE UNCHANGED pictureVars
  BY <1>1 DEF pictureVars, ingest, manager, PictureIInv, PictureTypeOK, Watched, Buffered,
    Regular, Followed, Filled, Herded, Tracked, Shows, OnTime, Cued
<1>2. CASE Tick
  BY <1>2, TickInv
<1>3. CASE \E t \in Targets : Kill(t) \/ OnTruth(t)
  BY <1>3, KillInv, OnTruthInv
<1>4. CASE IngestClock
  BY <1>4, IngestClockInv
<1>5. CASE OnRaw
  BY <1>5, OnRawInv
<1>6. CASE ManagerClock
  BY <1>6, ManagerClockInv
<1>7. QED BY <1>1, <1>2, <1>3, <1>4, <1>5, <1>6 DEF PictureNext

THEOREM PictureInvariant == PictureSpec => []PictureIInv
<1>1. QED BY PictureInitInv, PictureNextInv, PTL DEF PictureSpec

\* Tracks, cues and clocks are well typed, and no group of live targets that was seen
\* leaves the picture: TrackManager.step never ages out the last track of a target that
\* lives, for any limits with room for the drops in a row and three times the lag.
THEOREM GroupsStayInPicture == PictureSpec => []PictureInv
<1>1. PictureIInv => PictureInv
  <2> SUFFICES ASSUME PictureIInv PROVE PictureInv
    OBVIOUS
  <2>1. PictureTypeOK /\ Herded /\ Tracked
    BY DEF PictureIInv
  <2>2. ASSUME NEW S \in Groups, NEW t \in known \cap alive \cap S
        PROVE  \E id \in S : age[id] # Gone /\ origin[id] \in S
    <3>1. PICK id \in Targets : Shows(id, t)
      BY <2>1 DEF Tracked
    <3>2. age[id] # Gone /\ id \in S
      BY <2>2, <3>1 DEF Shows
    <3>3. origin[id] \in S
      BY <2>1, <3>2 DEF Herded
    <3>4. QED BY <3>2, <3>3
  <2>3. QED BY <2>1, <2>2 DEF PictureInv, Continuity
<1>2. QED BY <1>1, PictureInvariant, PTL

=============================================================================
