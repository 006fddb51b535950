------------------------- MODULE PlaybackADMProofs -------------------------
(***************************************************************************)
(* The safety of PlaybackADM for every frame size, cap, queue capacity,   *)
(* set of chunk sizes and of fades.                                        *)
(***************************************************************************)
EXTENDS PlaybackADM, SequenceTheorems, FiniteSetTheorems, TLAPS

(* The units of a sequence of chunks. *)
UnitsIn(q) == UNION {Units(q[i]) : i \in DOMAIN q}

-----------------------------------------------------------------------------
(* Sequences of units. *)

LEMMA RangeIndex ==
  ASSUME NEW s \in Seq(Nat)
  PROVE  Range(s) = {s[i] : i \in 1..Len(s)} /\ DOMAIN s = 1..Len(s) /\ Len(s) \in Nat
BY RangeEquality, LenProperties

(* Two ascending sequences, the first before the second, make one. *)
LEMMA AscendingConcat ==
  ASSUME NEW s \in Seq(Nat), NEW t \in Seq(Nat),
         Ascending(s), Ascending(t), Before(Range(s), Range(t))
  PROVE  /\ s \o t \in Seq(Nat)
         /\ Ascending(s \o t)
         /\ Range(s \o t) = Range(s) \cup Range(t)
<1> DEFINE st == s \o t
<1>1. /\ st \in Seq(Nat)
      /\ Len(st) = Len(s) + Len(t)
      /\ \A i \in 1 .. Len(s) + Len(t) :
            st[i] = IF i <= Len(s) THEN s[i] ELSE t[i - Len(s)]
  BY ConcatProperties
<1>2. Range(st) = Range(s) \cup Range(t)
  BY RangeConcatenation
<1> HIDE DEF st
<1>3. ASSUME NEW i \in DOMAIN st, NEW j \in DOMAIN st, i < j
      PROVE  st[i] < st[j]
  <2>1. /\ i \in 1..(Len(s) + Len(t)) /\ j \in 1..(Len(s) + Len(t))
        /\ Len(s) \in Nat /\ Len(t) \in Nat
        /\ DOMAIN s = 1..Len(s) /\ DOMAIN t = 1..Len(t)
    BY <1>1, <1>3, RangeIndex
  <2>2. CASE j <= Len(s)
    BY <1>1, <1>3, <2>1, <2>2 DEF Ascending
  <2>3. CASE i > Len(s)
    <3>1. i - Len(s) \in DOMAIN t /\ j - Len(s) \in DOMAIN t /\ i - Len(s) < j - Len(s)
      BY <1>3, <2>1, <2>3
    <3>2. st[i] = t[i - Len(s)]
      BY <1>1, <2>1, <2>3
    <3>3. j > Len(s)
      BY <1>3, <2>1, <2>3
    <3>4. st[j] = t[j - Len(s)]
      BY <1>1, <2>1, <3>3
    <3> QED  BY <3>1, <3>2, <3>4 DEF Ascending
  <2>4. CASE i <= Len(s) /\ j > Len(s)
    <3>1. s[i] \in Range(s) /\ t[j - Len(s)] \in Range(t)
      BY <1>3, <2>1, <2>4, RangeIndex
    <3>2. st[i] = s[i]
      BY <1>1, <2>1, <2>4
    <3>3. st[j] = t[j - Len(s)]
      <4>1. ~(j <= Len(s))
        BY <2>1, <2>4
      <4> QED  BY <1>1, <2>1, <4>1
    <3> QED  BY <3>1, <3>2, <3>3 DEF Before
  <2> QED  BY <1>3, <2>1, <2>2, <2>3, <2>4
<1> QED  BY <1>1, <1>2, <1>3 DEF Ascending, st

(* A part of an ascending sequence is ascending, and its units are among
   those of the whole. *)
LEMMA AscendingPart ==
  ASSUME NEW s \in Seq(Nat), NEW m \in Nat \ {0}, NEW n \in Nat, n <= Len(s), Ascending(s)
  PROVE  /\ SubSeq(s, m, n) \in Seq(Nat)
         /\ Len(SubSeq(s, m, n)) = IF m <= n THEN n - m + 1 ELSE 0
         /\ Ascending(SubSeq(s, m, n))
         /\ Range(SubSeq(s, m, n)) = {s[i] : i \in m..n}
         /\ Range(SubSeq(s, m, n)) \subseteq Range(s)
<1> DEFINE p == SubSeq(s, m, n)
<1>0. DOMAIN s = 1..Len(s) /\ Len(s) \in Nat /\ \A i \in 1..Len(s) : s[i] \in Nat
  BY RangeIndex, ElementOfSeq
<1>1. /\ p \in Seq(Nat)
      /\ Len(p) = IF m <= n THEN n - m + 1 ELSE 0
      /\ \A i \in 1 .. n - m + 1 : p[i] = s[m + i - 1]
  BY <1>0, SubSeqProperties
<1> HIDE DEF p
<1>2. DOMAIN p = 1..Len(p) /\ Range(p) = {p[i] : i \in 1..Len(p)}
  BY <1>1, RangeIndex
<1>3. Ascending(p)
  <2> SUFFICES ASSUME NEW i \in DOMAIN p, NEW j \in DOMAIN p, i < j PROVE p[i] < p[j]
    BY DEF Ascending
  <2>1. i \in 1..(n - m + 1) /\ j \in 1..(n - m + 1)
    BY <1>1, <1>2
  <2>2. p[i] = s[m + i - 1] /\ p[j] = s[m + j - 1]
    BY <1>1, <2>1
  <2>3. m + i - 1 \in 1..Len(s) /\ m + j - 1 \in 1..Len(s)
    <3>1. m \in Nat /\ m >= 1 /\ n \in Nat /\ Len(s) \in Nat
      BY <1>0
    <3>2. i \in Nat /\ i >= 1 /\ i <= n - m + 1 /\ j \in Nat /\ j >= 1 /\ j <= n - m + 1
      BY <2>1, <3>1
    <3>3. m + i - 1 >= 1 /\ m + i - 1 <= Len(s)
      BY <3>1, <3>2
    <3>4. m + j - 1 >= 1 /\ m + j - 1 <= Len(s)
      BY <3>1, <3>2
    <3>5. m + i - 1 \in Int /\ m + j - 1 \in Int
      BY <3>1, <3>2
    <3> QED  BY <3>1, <3>3, <3>4, <3>5
  <2>4. m + i - 1 < m + j - 1
    BY <2>1
  <2>5. \A a, b \in 1..Len(s) : a < b => s[a] < s[b]
    BY <1>0 DEF Ascending
  <2> QED  BY <2>2, <2>3, <2>4, <2>5
<1>4. Range(p) = {s[i] : i \in m..n}
  <2>1. ASSUME NEW x \in Range(p) PROVE x \in {s[i] : i \in m..n}
    <3>1. PICK i \in 1..(n - m + 1) : x = p[i]
      BY <1>1, <1>2
    <3>2. m + i - 1 \in m..n
      OBVIOUS
    <3> QED  BY <1>1, <3>1, <3>2
  <2>2. ASSUME NEW x \in {s[i] : i \in m..n} PROVE x \in Range(p)
    <3>1. PICK k \in m..n : x = s[k]
      BY <2>2
    <3>2. k - m + 1 \in 1..(n - m + 1) /\ m + (k - m + 1) - 1 = k
      OBVIOUS
    <3>3. p[k - m + 1] = s[k]
      BY <1>1, <3>2
    <3>4. k - m + 1 \in 1..Len(p)
      BY <1>1, <3>2
    <3> QED  BY <1>2, <3>1, <3>3, <3>4
  <2> QED  BY <2>1, <2>2
<1>5. Range(p) \subseteq Range(s)
  <2>1. \A i \in m..n : i \in DOMAIN s
    BY <1>0
  <2> QED  BY <1>4, <2>1, RangeIndex, <1>0
<1> QED  BY <1>1, <1>3, <1>4, <1>5 DEF p

(* Cutting an ascending sequence leaves the first part before the second. *)
LEMMA AscendingCut ==
  ASSUME NEW s \in Seq(Nat), NEW n \in Nat, n <= Len(s), Ascending(s)
  PROVE  Before(Range(SubSeq(s, 1, n)), Range(SubSeq(s, n + 1, Len(s))))
<1>0. DOMAIN s = 1..Len(s) /\ Len(s) \in Nat
  BY RangeIndex
<1>1. Range(SubSeq(s, 1, n)) = {s[i] : i \in 1..n}
  BY AscendingPart
<1>2. Range(SubSeq(s, n + 1, Len(s))) = {s[i] : i \in (n + 1)..Len(s)}
  BY <1>0, AscendingPart
<1>3. \A i \in 1..n, j \in (n + 1)..Len(s) : s[i] < s[j]
  BY <1>0 DEF Ascending
<1> QED  BY <1>1, <1>2, <1>3 DEF Before

LEMMA EmptyUnits == <<>> \in Seq(Nat) /\ Ascending(<<>>) /\ Range(<<>>) = {} /\ Len(<<>>) = 0
<1>1. <<>> \in Seq(Nat) /\ Len(<<>>) = 0
  BY EmptySeq
<1>2. DOMAIN <<>> = 1..0 /\ Range(<<>>) = {<<>>[i] : i \in 1..0}
  BY <1>1, RangeIndex
<1> QED  BY <1>1, <1>2 DEF Ascending

(* A chunk's units are an interval in order. *)
LEMMA UnitsOfChunk ==
  ASSUME NEW c \in Chunk
  PROVE  UnitsOf(c) \in Seq(Nat) /\ Ascending(UnitsOf(c)) /\ Range(UnitsOf(c)) = Units(c)
<1> DEFINE u == [i \in 1..c.len |-> c.first + i - 1]
<1>1. c.first \in Nat /\ c.len \in Nat
  BY DEF Chunk
<1>2. \A i \in 1..c.len : c.first + i - 1 \in Nat
  BY <1>1
<1>3. u \in Seq(Nat)
  BY <1>1, <1>2, IsASeq
<1>4. Ascending(u)
  BY <1>1 DEF Ascending
<1>5. Range(u) = Units(c)
  <2>1. \A x \in Units(c) : x - c.first + 1 \in 1..c.len /\ x = c.first + (x - c.first + 1) - 1
    BY <1>1 DEF Units
  <2>2. \A i \in 1..c.len : u[i] \in Units(c)
    BY <1>1 DEF Units
  <2>3. Range(u) = {u[i] : i \in 1..c.len}
    BY DEF Range
  <2> QED  BY <2>1, <2>2, <2>3
<1> QED  BY <1>3, <1>4, <1>5 DEF UnitsOf
(* Appending a chunk that starts after the others. *)
LEMMA PushUnits ==
  ASSUME NEW q \in Seq(Chunk), NEW c \in Chunk, ChunksAscending(q),
         \A i \in 1..Len(q) : q[i].first + q[i].len <= c.first
  PROVE  /\ Append(q, c) \in Seq(Chunk)
         /\ Len(Append(q, c)) = Len(q) + 1
         /\ ChunksAscending(Append(q, c))
         /\ UnitsIn(Append(q, c)) = UnitsIn(q) \cup Units(c)
<1> DEFINE qc == Append(q, c)
<1>1. /\ qc \in Seq(Chunk)
      /\ Len(qc) = Len(q) + 1
      /\ \A i \in 1.. Len(q) : qc[i] = q[i]
      /\ qc[Len(q)+1] = c
  BY AppendProperties
<1> HIDE DEF qc
<1>2. DOMAIN q = 1..Len(q) /\ Len(q) \in Nat /\ DOMAIN qc = 1..(Len(q) + 1)
  BY <1>1, LenProperties
<1>3. ChunksAscending(qc)
  <2> SUFFICES ASSUME NEW i \in DOMAIN qc, NEW j \in DOMAIN qc, i < j
               PROVE  qc[i].first + qc[i].len <= qc[j].first
    BY DEF ChunksAscending
  <2>1. i \in 1..Len(q) /\ qc[i] = q[i]
    BY <1>1, <1>2
  <2>2. CASE j \in 1..Len(q)
    BY <1>1, <1>2, <2>1, <2>2 DEF ChunksAscending
  <2>3. CASE j = Len(q) + 1
    BY <1>1, <2>1, <2>3
  <2> QED  BY <1>2, <2>2, <2>3
<1>4. UnitsIn(qc) = UNION {Units(qc[i]) : i \in 1..(Len(q) + 1)}
  BY <1>2 DEF UnitsIn
<1>5. UnitsIn(q) = UNION {Units(q[i]) : i \in 1..Len(q)}
  BY <1>2 DEF UnitsIn
<1>6. \A i \in 1..(Len(q) + 1) : i \in 1..Len(q) \/ i = Len(q) + 1
  BY <1>2
<1>7. Len(q) + 1 \in 1..(Len(q) + 1) /\ 1..Len(q) \subseteq 1..(Len(q) + 1)
  BY <1>2
<1>8. UnitsIn(qc) = UnitsIn(q) \cup Units(c)
  BY <1>1, <1>4, <1>5, <1>6, <1>7
<1> QED  BY <1>1, <1>3, <1>8 DEF qc

(* Taking the first chunk leaves units that all come after its own. *)
LEMMA PopUnits ==
  ASSUME NEW q \in Seq(Chunk), q # <<>>, ChunksAscending(q)
  PROVE  /\ Head(q) \in Chunk
         /\ Tail(q) \in Seq(Chunk)
         /\ Len(Tail(q)) <= Len(q)
         /\ ChunksAscending(Tail(q))
         /\ UnitsIn(q) = Units(Head(q)) \cup UnitsIn(Tail(q))
         /\ Before(Units(Head(q)), UnitsIn(Tail(q)))
<1> DEFINE t == Tail(q)
<1>1. /\ Head(q) \in Chunk
      /\ t \in Seq(Chunk)
      /\ Len(t) = Len(q) - 1
      /\ \A i \in 1 .. Len(t) : t[i] = q[i+1]
  BY HeadTailProperties
<1> HIDE DEF t
<1>2. /\ DOMAIN q = 1..Len(q) /\ Len(q) \in Nat
      /\ DOMAIN t = 1..Len(t) /\ Len(t) \in Nat
      /\ 1 \in DOMAIN q
  BY <1>1, LenProperties
<1>3. Head(q) = q[1]
  OBVIOUS
<1>4. \A i \in DOMAIN t : i + 1 \in DOMAIN q /\ t[i] = q[i + 1] /\ 1 < i + 1
  BY <1>1, <1>2
<1>5. ChunksAscending(t)
  <2> SUFFICES ASSUME NEW i \in DOMAIN t, NEW j \in DOMAIN t, i < j
               PROVE  t[i].first + t[i].len <= t[j].first
    BY DEF ChunksAscending
  <2>1. i + 1 < j + 1
    BY <1>2
  <2> QED  BY <1>4, <2>1 DEF ChunksAscending
<1>6. \A i \in DOMAIN q : i = 1 \/ (i - 1 \in DOMAIN t /\ q[i] = t[i - 1])
  <2> SUFFICES ASSUME NEW i \in DOMAIN q, i # 1 PROVE i - 1 \in DOMAIN t /\ q[i] = t[i - 1]
    OBVIOUS
  <2>1. i - 1 \in DOMAIN t /\ (i - 1) + 1 = i
    BY <1>1, <1>2
  <2> QED  BY <1>4, <2>1
<1>7. UnitsIn(q) = Units(q[1]) \cup UnitsIn(t)
  <2>1. \A x \in UnitsIn(q) : x \in Units(q[1]) \cup UnitsIn(t)
    BY <1>6 DEF UnitsIn
  <2>2. UnitsIn(t) \subseteq UnitsIn(q)
    BY <1>4 DEF UnitsIn
  <2>3. Units(q[1]) \subseteq UnitsIn(q)
    BY <1>2 DEF UnitsIn
  <2> QED  BY <2>1, <2>2, <2>3
<1>8. Before(Units(q[1]), UnitsIn(t))
  <2> SUFFICES ASSUME NEW x \in Units(q[1]), NEW y \in UnitsIn(t) PROVE x < y
    BY DEF Before
  <2>1. PICK i \in DOMAIN t : y \in Units(t[i])
    BY DEF UnitsIn
  <2>2. q[1].first + q[1].len <= t[i].first
    BY <1>2, <1>4 DEF ChunksAscending
  <2>3. q[1] \in Chunk /\ t[i] \in Chunk
    BY <1>1, <1>2, ElementOfSeq
  <2>4. /\ q[1].first \in Nat /\ q[1].len \in Nat
        /\ t[i].first \in Nat /\ t[i].len \in Nat
    BY <2>3 DEF Chunk
  <2> QED  BY <2>1, <2>2, <2>4 DEF Units
<1> QED  BY <1>1, <1>2, <1>3, <1>5, <1>7, <1>8 DEF t
(* The latency cap keeps an ascending part of the ring. *)
LEMMA CappedRing ==
  ASSUME NEW r \in Seq(Nat), Ascending(r)
  PROVE  /\ Capped(r) \in Seq(Nat)
         /\ Ascending(Capped(r))
         /\ Range(Capped(r)) \subseteq Range(r)
         /\ Len(Capped(r)) <= CapUnits
<1>0. Len(r) \in Nat /\ CapUnits \in Nat
  BY LenProperties, PlaybackAssumption
<1>1. CASE Len(r) > CapUnits
  <2>1. Len(r) - CapUnits + 1 \in Nat \ {0}
    BY <1>0, <1>1
  <2>2. /\ SubSeq(r, Len(r) - CapUnits + 1, Len(r)) \in Seq(Nat)
        /\ Ascending(SubSeq(r, Len(r) - CapUnits + 1, Len(r)))
        /\ Range(SubSeq(r, Len(r) - CapUnits + 1, Len(r))) \subseteq Range(r)
    BY <1>0, <2>1, AscendingPart
  <2>3. Len(SubSeq(r, Len(r) - CapUnits + 1, Len(r))) =
          IF Len(r) - CapUnits + 1 <= Len(r) THEN Len(r) - (Len(r) - CapUnits + 1) + 1 ELSE 0
    BY <1>0, <2>1, AscendingPart
  <2>4. Len(SubSeq(r, Len(r) - CapUnits + 1, Len(r))) <= CapUnits
    BY <1>0, <1>1, <2>3
  <2> QED  BY <1>1, <2>2, <2>4 DEF Capped
<1>2. CASE ~(Len(r) > CapUnits)
  BY <1>0, <1>2 DEF Capped
<1> QED  BY <1>1, <1>2

-----------------------------------------------------------------------------
(* Every playback_complete event answers a speech_generation_complete of its
   own: there are never more events, the one under way and the one the flag
   still owes included, than there were requests. *)
EventsAreOwed ==
  LET One(p) == IF p THEN 1 ELSE 0
  IN  fired + One(capture = "fire") + One(speech_generation_complete) <= completes

(* The inductive invariant: the checked invariants, and what they rest on.  The
   flag is set while the capture thread is about to clear it; *)
FlagAtReset == capture = "reset" => speech_generation_complete

(* there is a frame only while it is delivered, and once playback is found
   complete nothing enters the ring before that is announced; *)
RingPlayed ==
  /\ capture # "deliver" => frame = <<>>
  /\ capture \in {"reset", "fire"} => ring_samples = <<>>

(* a flush keeps the capture thread out of its critical sections, and has cut the
   ring when it empties the queue. *)
FlushUnderWay ==
  /\ flush_mark <= accepted
  /\ flusher # "idle" => capture \notin {"drain", "reset"}
  /\ flusher = "draining" => Len(ring_samples) <= flush_keep

(* While Session::Cleanup is under way nothing records; once it has joined the
   capture thread that thread has ended, and what Terminate cleared stays empty. *)
CleanupUnderWay ==
  /\ recording <=> cleaner = "idle"
  /\ cleaner \in {"terminating", "resetting", "done"} => capture = "exited"
  /\ cleaner \in {"resetting", "done"} => ring_samples = <<>>

IInv ==
  /\ TypeOK /\ InOrder /\ LatencyBound /\ EventsAreOwed /\ FlagAtReset
  /\ RingPlayed /\ FlushUnderWay /\ FlushEffective /\ CleanupUnderWay

(* The part of the state InOrder and LatencyBound look at. *)
audio == <<audio_queue, ring_samples, frame, delivered, accepted>>

LEMMA InitIInv == Init => IInv
<1> SUFFICES ASSUME Init PROVE IInv
  OBVIOUS
<1>1. <<>> \in Seq(Chunk) /\ Len(<<>>) = 0 /\ DOMAIN <<>> = {}
  BY EmptySeq
<1>2. Queued = {} /\ Held = {}
  BY <1>1, EmptyUnits DEF Init, Queued, Held
<1>3. TypeOK
  <2>1. audio_queue \in Seq(Chunk) /\ Len(audio_queue) <= QueueCap
    BY <1>1, PlaybackAssumption DEF Init
  <2>2. /\ ring_samples \in Seq(Nat) /\ delivered \in Seq(Nat)
        /\ frame \in Seq(Nat) /\ Len(frame) \in {0, FrameUnits}
    BY EmptyUnits DEF Init
  <2>3. chunks \in 0..MaxChunks /\ flushes \in 0..MaxFlushes /\ completes \in 0..MaxCompletes
    BY PlaybackAssumption DEF Init
  <2> QED  BY <2>1, <2>2, <2>3 DEF Init, TypeOK, CapturePc, FlusherPc, CleanerPc
<1>4. InOrder
  BY <1>1, <1>2, EmptyUnits DEF Init, InOrder, Before, ChunksAscending
<1>5. LatencyBound
  BY <1>1, PlaybackAssumption DEF Init, LatencyBound
<1>6. EventsAreOwed /\ FlagAtReset
  BY DEF Init, EventsAreOwed, FlagAtReset
<1>7. RingPlayed /\ FlushUnderWay
  BY DEF Init, RingPlayed, FlushUnderWay
<1>8. FlushEffective
  <2>1. {u \in Queued \cup Range(ring_samples) : u <= flush_mark} = {}
    BY <1>2, EmptyUnits DEF Init
  <2> QED  BY <2>1, FS_EmptySet DEF Init, FlushEffective
<1>9. CleanupUnderWay
  BY DEF Init, CleanupUnderWay
<1> QED  BY <1>3, <1>4, <1>5, <1>6, <1>7, <1>8, <1>9 DEF IInv

(* A step that leaves the audio alone leaves it in order. *)
LEMMA AudioUnchanged ==
  ASSUME InOrder, UNCHANGED audio
  PROVE  InOrder'
<1>1. /\ audio_queue' = audio_queue /\ ring_samples' = ring_samples
      /\ frame' = frame /\ delivered' = delivered /\ accepted' = accepted
  BY DEF audio
<1>2. Queued' = Queued
  BY <1>1 DEF Queued
<1>3. Held' = Held
  BY <1>1, <1>2 DEF Held
<1> QED  BY <1>1, <1>2, <1>3 DEF InOrder

LEMMA NextTypeOK == IInv /\ [Next]_vars => TypeOK'
<1> SUFFICES ASSUME IInv, [Next]_vars PROVE TypeOK'
  OBVIOUS
<1> USE PlaybackAssumption DEF CapturePc, FlusherPc, CleanerPc, shared, threads, history
<1>0. /\ TypeOK
      /\ ring_samples \in Seq(Nat) /\ Ascending(ring_samples)
      /\ frame \in Seq(Nat) /\ delivered \in Seq(Nat)
      /\ audio_queue \in Seq(Chunk)
      /\ Len(ring_samples) \in Nat /\ Len(audio_queue) \in Nat
  BY LenProperties DEF IInv, TypeOK, InOrder
<1>1. CASE CheckMediaFrame
  BY <1>0, <1>1 DEF CheckMediaFrame, TypeOK
<1>2. CASE PushChunk
  <2>1. PICK n \in ChunkUnits :
          IF Len(audio_queue) < QueueCap
          THEN /\ audio_queue' = Append(audio_queue, [first |-> accepted + 1, len |-> n])
               /\ accepted' = accepted + n
          ELSE UNCHANGED <<audio_queue, accepted>>
    BY <1>2 DEF PushChunk
  <2>2. accepted \in Nat /\ n \in Nat /\ [first |-> accepted + 1, len |-> n] \in Chunk
    BY <1>0 DEF TypeOK, Chunk
  <2>3. /\ Append(audio_queue, [first |-> accepted + 1, len |-> n]) \in Seq(Chunk)
        /\ Len(Append(audio_queue, [first |-> accepted + 1, len |-> n])) = Len(audio_queue) + 1
    BY <1>0, <2>2, AppendProperties
  <2>4. audio_queue' \in Seq(Chunk) /\ Len(audio_queue') <= QueueCap /\ accepted' \in Nat
    <3>1. CASE Len(audio_queue) < QueueCap
      <4>1. Len(audio_queue') = Len(audio_queue) + 1 /\ audio_queue' \in Seq(Chunk)
        BY <2>1, <2>3, <3>1
      <4>2. accepted' \in Nat
        BY <2>1, <2>2, <3>1
      <4> QED  BY <1>0, <3>1, <4>1, <4>2
    <3>2. CASE ~(Len(audio_queue) < QueueCap)
      BY <1>0, <2>1, <2>2, <3>2 DEF TypeOK
    <3> QED  BY <3>1, <3>2
  <2> QED  BY <1>0, <1>2, <2>4 DEF PushChunk, TypeOK
<1>3. CASE Tick \/ ExitLoop \/ CheckCompletion \/ ResetFlag
  BY <1>0, <1>3 DEF Tick, ExitLoop, CheckCompletion, ResetFlag, TypeOK
<1>4. CASE DrainChunk
  <2>1. Head(audio_queue) \in Chunk /\ Tail(audio_queue) \in Seq(Chunk)
        /\ Len(Tail(audio_queue)) <= Len(audio_queue)
    BY <1>0, <1>4, HeadTailProperties DEF DrainChunk
  <2>2. ring_samples \o UnitsOf(Head(audio_queue)) \in Seq(Nat)
    BY <1>0, <2>1, UnitsOfChunk, ConcatProperties
  <2>3. Len(Tail(audio_queue)) <= QueueCap
    BY <1>0, <1>4, HeadTailProperties DEF DrainChunk, TypeOK
  <2> QED  BY <1>0, <1>4, <2>1, <2>2, <2>3 DEF DrainChunk, TypeOK
<1>5. CASE AssembleOne10msFrame
  <2> DEFINE r == Capped(ring_samples)
  <2>1. r \in Seq(Nat) /\ Ascending(r) /\ Len(r) \in Nat
    BY <1>0, CappedRing, LenProperties
  <2>2. IF Len(r) >= FrameUnits
        THEN /\ frame' = SubSeq(r, 1, FrameUnits)
             /\ ring_samples' = SubSeq(r, FrameUnits + 1, Len(r))
        ELSE frame' = <<>> /\ ring_samples' = r
    BY <1>5 DEF AssembleOne10msFrame
  <2> HIDE DEF r
  <2>3. ring_samples' \in Seq(Nat) /\ frame' \in Seq(Nat) /\ Len(frame') \in {0, FrameUnits}
    <3>1. CASE Len(r) >= FrameUnits
      <4>1. /\ SubSeq(r, 1, FrameUnits) \in Seq(Nat)
            /\ Len(SubSeq(r, 1, FrameUnits)) = IF 1 <= FrameUnits THEN FrameUnits - 1 + 1 ELSE 0
        BY <2>1, <3>1, AscendingPart
      <4>2. SubSeq(r, FrameUnits + 1, Len(r)) \in Seq(Nat)
        BY <2>1, <3>1, AscendingPart
      <4>3. Len(SubSeq(r, 1, FrameUnits)) = FrameUnits
        BY <4>1
      <4> QED  BY <2>2, <3>1, <4>1, <4>2, <4>3
    <3>2. CASE ~(Len(r) >= FrameUnits)
      BY <2>1, <2>2, <3>2, EmptyUnits
    <3> QED  BY <3>1, <3>2
  <2> QED  BY <1>0, <1>5, <2>3 DEF AssembleOne10msFrame, TypeOK
<1>6. CASE DeliverFrame
  <2>1. delivered \o frame \in Seq(Nat)
    BY <1>0, ConcatProperties
  <2> QED  BY <1>0, <1>6, <2>1, EmptyUnits DEF DeliverFrame, TypeOK
<1>7. CASE FireCallback
  BY <1>0, <1>7 DEF FireCallback, TypeOK
<1>8. CASE SpeechGenerationComplete
  BY <1>0, <1>8 DEF SpeechGenerationComplete, TypeOK
<1>9. ASSUME NEW fade \in FadeUnits, LockForFlush(fade) PROVE TypeOK'
  <2>1. fade \in Nat
    OBVIOUS
  <2> QED  BY <1>0, <1>9, <2>1 DEF LockForFlush, TypeOK
<1>10. CASE FadeRing
  <2>1. ring_samples' \in Seq(Nat)
    <3>1. CASE flush_keep > 0 /\ Len(ring_samples) > flush_keep
      <4>1. flush_keep \in Nat /\ flush_keep <= Len(ring_samples)
        BY <1>0, <3>1 DEF TypeOK
      <4>2. SubSeq(ring_samples, 1, flush_keep) \in Seq(Nat)
        BY <1>0, <4>1, AscendingPart
      <4> QED  BY <1>10, <3>1, <4>2 DEF FadeRing
    <3>2. CASE ~(flush_keep > 0 /\ Len(ring_samples) > flush_keep)
      BY <1>0, <1>10, <3>2, EmptyUnits DEF FadeRing
    <3> QED  BY <3>1, <3>2
  <2> QED  BY <1>0, <1>10, <2>1 DEF FadeRing, TypeOK
<1>11. CASE DiscardChunk
  <2>1. Tail(audio_queue) \in Seq(Chunk) /\ Len(Tail(audio_queue)) <= QueueCap
    BY <1>0, <1>11, HeadTailProperties DEF DiscardChunk, TypeOK
  <2> QED  BY <1>0, <1>11, <2>1 DEF DiscardChunk, TypeOK
<1>12. CASE UnlockFlush \/ StopRecording \/ JoinCapture
  BY <1>0, <1>12 DEF UnlockFlush, StopRecording, JoinCapture, TypeOK
<1>13. CASE Terminate
  BY <1>0, <1>13, EmptyUnits DEF Terminate, TypeOK
<1>14. CASE ResetQueue
  <2>1. <<>> \in Seq(Chunk) /\ Len(<<>>) = 0
    BY EmptySeq
  <2> QED  BY <1>0, <1>14, <2>1 DEF ResetQueue, TypeOK
<1>15. CASE UNCHANGED vars
  BY <1>0, <1>15 DEF vars, TypeOK
<1> QED
  BY <1>1, <1>2, <1>3, <1>4, <1>5, <1>6, <1>7, <1>8, <1>9, <1>10, <1>11, <1>12, <1>13,
     <1>14, <1>15
  DEF Next, RunCaptureLoop, FlushAudioBuffer, Cleanup

LEMMA NextInOrder == IInv /\ [Next]_vars => InOrder'
<1> SUFFICES ASSUME IInv, [Next]_vars PROVE InOrder'
  OBVIOUS
<1> USE PlaybackAssumption DEF shared, threads, history
<1> DEFINE D == Range(delivered)
           F == Range(frame)
           R == Range(ring_samples)
           A == 1..accepted
<1>0. /\ InOrder
      /\ accepted \in Nat /\ flush_keep \in Nat
      /\ ring_samples \in Seq(Nat) /\ Len(ring_samples) \in Nat
      /\ frame \in Seq(Nat) /\ delivered \in Seq(Nat)
      /\ audio_queue \in Seq(Chunk)
      /\ DOMAIN audio_queue = 1..Len(audio_queue)
      /\ Queued = UnitsIn(audio_queue)
  BY LenProperties DEF IInv, TypeOK, Queued, UnitsIn
<1>00. /\ Ascending(delivered) /\ Ascending(frame) /\ Ascending(ring_samples)
       /\ ChunksAscending(audio_queue)
       /\ Before(D, F) /\ Before(D, R) /\ Before(D, Queued)
       /\ Before(F, R) /\ Before(F, Queued) /\ Before(R, Queued)
       /\ D \subseteq A /\ F \subseteq A /\ R \subseteq A /\ Queued \subseteq A
  BY <1>0 DEF InOrder, Held, Before
<1>a. CASE UNCHANGED audio
  BY <1>0, <1>a, AudioUnchanged
<1>1. CASE PushChunk
  <2>1. PICK n \in ChunkUnits :
          IF Len(audio_queue) < QueueCap
          THEN /\ audio_queue' = Append(audio_queue, [first |-> accepted + 1, len |-> n])
               /\ accepted' = accepted + n
          ELSE UNCHANGED <<audio_queue, accepted>>
    BY <1>1 DEF PushChunk
  <2>2. CASE ~(Len(audio_queue) < QueueCap)
    BY <1>a, <1>1, <2>1, <2>2 DEF PushChunk, audio
  <2>3. CASE Len(audio_queue) < QueueCap
    <3> DEFINE c == [first |-> accepted + 1, len |-> n]
    <3>1. c \in Chunk /\ c.first = accepted + 1 /\ n \in Nat
      BY <1>0 DEF Chunk
    <3>2. \A i \in 1..Len(audio_queue) : audio_queue[i].first + audio_queue[i].len <= c.first
      <4> SUFFICES ASSUME NEW i \in 1..Len(audio_queue)
                   PROVE  audio_queue[i].first + audio_queue[i].len <= c.first
        OBVIOUS
      <4>1. audio_queue[i].first \in Nat /\ audio_queue[i].len \in Nat \ {0}
        <5>1. audio_queue[i] \in Chunk
          BY <1>0, ElementOfSeq
        <5> QED  BY <5>1 DEF Chunk
      <4>2. audio_queue[i].first + audio_queue[i].len - 1 \in Units(audio_queue[i])
        BY <4>1 DEF Units
      <4>3. audio_queue[i].first + audio_queue[i].len - 1 \in A
        BY <1>0, <1>00, <4>2 DEF UnitsIn
      <4> QED  BY <1>0, <3>1, <4>1, <4>3
    <3>3. Units(c) = (accepted + 1)..(accepted + n)
      BY <1>0, <3>1 DEF Units
    <3> HIDE DEF c
    <3>4. /\ ChunksAscending(Append(audio_queue, c))
          /\ UnitsIn(Append(audio_queue, c)) = UnitsIn(audio_queue) \cup Units(c)
      BY <1>0, <1>00, <3>1, <3>2, PushUnits
    <3>5. /\ audio_queue' = Append(audio_queue, c) /\ accepted' = accepted + n
          /\ ring_samples' = ring_samples /\ frame' = frame /\ delivered' = delivered
      BY <1>1, <2>1, <2>3 DEF PushChunk, c
    <3>6. Queued' = Queued \cup Units(c) /\ ChunksAscending(audio_queue')
      BY <1>0, <3>4, <3>5 DEF Queued, UnitsIn
    <3>7. /\ Before(D, Units(c)) /\ Before(F, Units(c)) /\ Before(R, Units(c))
      BY <1>0, <1>00, <3>1, <3>3 DEF Before
    <3>8. A \subseteq 1..(accepted + n) /\ Units(c) \subseteq 1..(accepted + n)
      BY <1>0, <3>1, <3>3
    <3> QED  BY <1>00, <3>5, <3>6, <3>7, <3>8 DEF InOrder, Held, Before
  <2> QED  BY <2>2, <2>3
<1>2. CASE DrainChunk
  <2> DEFINE h == Head(audio_queue)
             t == Tail(audio_queue)
  <2>1. /\ h \in Chunk /\ t \in Seq(Chunk) /\ ChunksAscending(t)
        /\ Queued = Units(h) \cup UnitsIn(t)
        /\ Before(Units(h), UnitsIn(t))
    BY <1>0, <1>00, <1>2, PopUnits DEF DrainChunk
  <2>2. UnitsOf(h) \in Seq(Nat) /\ Ascending(UnitsOf(h)) /\ Range(UnitsOf(h)) = Units(h)
    BY <2>1, UnitsOfChunk
  <2>3. Before(R, Units(h))
    BY <1>00, <2>1 DEF Before
  <2>4. /\ Ascending(ring_samples \o UnitsOf(h))
        /\ Range(ring_samples \o UnitsOf(h)) = R \cup Units(h)
    BY <1>0, <1>00, <2>2, <2>3, AscendingConcat
  <2>5. /\ ring_samples' = ring_samples \o UnitsOf(h) /\ audio_queue' = t
        /\ frame' = frame /\ delivered' = delivered /\ accepted' = accepted
    BY <1>2 DEF DrainChunk
  <2>6. Queued' = UnitsIn(t)
    BY <2>5 DEF Queued, UnitsIn
  <2> HIDE DEF h, t
  <2> QED  BY <1>00, <2>1, <2>4, <2>5, <2>6 DEF InOrder, Held, Before
<1>3. CASE AssembleOne10msFrame
  <2> DEFINE r == Capped(ring_samples)
  <2>1. r \in Seq(Nat) /\ Ascending(r) /\ Range(r) \subseteq R /\ Len(r) \in Nat
    BY <1>0, <1>00, CappedRing, LenProperties
  <2>2. /\ IF Len(r) >= FrameUnits
           THEN /\ frame' = SubSeq(r, 1, FrameUnits)
                /\ ring_samples' = SubSeq(r, FrameUnits + 1, Len(r))
           ELSE frame' = <<>> /\ ring_samples' = r
        /\ audio_queue' = audio_queue /\ delivered' = delivered /\ accepted' = accepted
    BY <1>3 DEF AssembleOne10msFrame
  <2> HIDE DEF r
  <2>3. /\ Ascending(frame') /\ Ascending(ring_samples')
        /\ Range(frame') \subseteq R /\ Range(ring_samples') \subseteq R
        /\ Before(Range(frame'), Range(ring_samples'))
    <3>1. CASE Len(r) >= FrameUnits
      <4>1. /\ Ascending(SubSeq(r, 1, FrameUnits))
            /\ Range(SubSeq(r, 1, FrameUnits)) \subseteq Range(r)
        BY <2>1, <3>1, AscendingPart
      <4>2. /\ Ascending(SubSeq(r, FrameUnits + 1, Len(r)))
            /\ Range(SubSeq(r, FrameUnits + 1, Len(r))) \subseteq Range(r)
        BY <2>1, <3>1, AscendingPart
      <4>3. Before(Range(SubSeq(r, 1, FrameUnits)), Range(SubSeq(r, FrameUnits + 1, Len(r))))
        BY <2>1, <3>1, AscendingCut
      <4>4. frame' = SubSeq(r, 1, FrameUnits) /\ ring_samples' = SubSeq(r, FrameUnits + 1, Len(r))
        BY <2>2, <3>1
      <4> QED  BY <2>1, <4>1, <4>2, <4>3, <4>4
    <3>2. CASE ~(Len(r) >= FrameUnits)
      BY <2>1, <2>2, <3>2, EmptyUnits DEF Before
    <3> QED  BY <3>1, <3>2
  <2>4. Queued' = Queued
    BY <2>2 DEF Queued
  <2> QED  BY <1>00, <2>2, <2>3, <2>4 DEF InOrder, Held, Before
<1>4. CASE DeliverFrame
  <2>1. /\ Ascending(delivered \o frame) /\ Range(delivered \o frame) = D \cup F
    BY <1>0, <1>00, AscendingConcat
  <2>2. /\ delivered' = delivered \o frame /\ frame' = <<>>
        /\ ring_samples' = ring_samples /\ audio_queue' = audio_queue /\ accepted' = accepted
    BY <1>4 DEF DeliverFrame
  <2>3. Queued' = Queued
    BY <2>2 DEF Queued
  <2> QED  BY <1>00, <2>1, <2>2, <2>3, EmptyUnits DEF InOrder, Held, Before
<1>5. ASSUME Ascending(ring_samples'), Range(ring_samples') \subseteq R,
             UNCHANGED <<audio_queue, frame, delivered, accepted>>
      PROVE  InOrder'
  <2>1. Queued' = Queued
    BY <1>5 DEF Queued
  <2> QED  BY <1>00, <1>5, <2>1 DEF InOrder, Held, Before
<1>6. CASE FadeRing
  <2>1. UNCHANGED <<audio_queue, frame, delivered, accepted>>
    BY <1>6 DEF FadeRing
  <2>2. CASE flush_keep > 0 /\ Len(ring_samples) > flush_keep
    <3>1. /\ Ascending(SubSeq(ring_samples, 1, flush_keep))
          /\ Range(SubSeq(ring_samples, 1, flush_keep)) \subseteq R
      BY <1>0, <1>00, <2>2, AscendingPart
    <3> QED  BY <1>5, <1>6, <2>1, <2>2, <3>1 DEF FadeRing
  <2>3. CASE ~(flush_keep > 0 /\ Len(ring_samples) > flush_keep)
    <3>1. ring_samples' = ring_samples \/ ring_samples' = <<>>
      BY <1>6, <2>3 DEF FadeRing
    <3> QED  BY <1>00, <1>5, <2>1, <3>1, EmptyUnits
  <2> QED  BY <2>2, <2>3
<1>7. CASE DiscardChunk
  <2>1. /\ ChunksAscending(Tail(audio_queue))
        /\ UnitsIn(Tail(audio_queue)) \subseteq Queued
    BY <1>0, <1>00, <1>7, PopUnits DEF DiscardChunk
  <2>2. /\ audio_queue' = Tail(audio_queue)
        /\ ring_samples' = ring_samples /\ frame' = frame
        /\ delivered' = delivered /\ accepted' = accepted
    BY <1>7 DEF DiscardChunk
  <2>3. Queued' = UnitsIn(Tail(audio_queue))
    BY <2>2 DEF Queued, UnitsIn
  <2> QED  BY <1>00, <2>1, <2>2, <2>3 DEF InOrder, Held, Before
<1>8. CASE Terminate
  BY <1>5, <1>8, EmptyUnits DEF Terminate
<1>9. CASE ResetQueue
  <2>1. /\ audio_queue' = <<>>
        /\ ring_samples' = ring_samples /\ frame' = frame
        /\ delivered' = delivered /\ accepted' = accepted
    BY <1>9 DEF ResetQueue
  <2>2. DOMAIN <<>> = {}
    BY EmptyUnits, LenProperties
  <2>3. Queued' = {} /\ ChunksAscending(audio_queue')
    BY <2>1, <2>2 DEF Queued, ChunksAscending
  <2> QED  BY <1>00, <2>1, <2>3 DEF InOrder, Held, Before
<1>10. CASE CheckMediaFrame \/ Tick \/ ExitLoop \/ CheckCompletion \/ ResetFlag \/ FireCallback
            \/ SpeechGenerationComplete \/ UnlockFlush \/ StopRecording \/ JoinCapture
  BY <1>a, <1>10
  DEF CheckMediaFrame, Tick, ExitLoop, CheckCompletion, ResetFlag, FireCallback,
      SpeechGenerationComplete, UnlockFlush, StopRecording, JoinCapture, audio
<1>11. ASSUME NEW fade \in FadeUnits, LockForFlush(fade) PROVE InOrder'
  BY <1>a, <1>11 DEF LockForFlush, audio
<1>12. CASE UNCHANGED vars
  BY <1>a, <1>12 DEF vars, audio
<1> QED
  BY <1>1, <1>2, <1>3, <1>4, <1>6, <1>7, <1>8, <1>9, <1>10, <1>11, <1>12
  DEF Next, RunCaptureLoop, FlushAudioBuffer, Cleanup

LEMMA NextLatencyBound == IInv /\ [Next]_vars => LatencyBound'
<1> SUFFICES ASSUME IInv, [Next]_vars PROVE LatencyBound'
  OBVIOUS
<1> USE PlaybackAssumption DEF shared, threads, history
<1>0. /\ LatencyBound
      /\ ring_samples \in Seq(Nat) /\ Len(ring_samples) \in Nat /\ flush_keep \in Nat
      /\ Ascending(ring_samples)
      /\ CapUnits \in Nat /\ FrameUnits \in Nat \ {0}
  BY LenProperties DEF IInv, TypeOK, InOrder
<1>1. ASSUME UNCHANGED ring_samples, capture' = capture \/ capture # "drain"
      PROVE  LatencyBound'
  BY <1>0, <1>1 DEF LatencyBound
<1>2. CASE DrainChunk
  BY <1>2 DEF DrainChunk, LatencyBound
<1>3. CASE AssembleOne10msFrame
  <2> DEFINE r == Capped(ring_samples)
  <2>1. r \in Seq(Nat) /\ Ascending(r) /\ Len(r) \in Nat /\ Len(r) <= CapUnits
    BY <1>0, CappedRing, LenProperties
  <2>2. IF Len(r) >= FrameUnits
        THEN ring_samples' = SubSeq(r, FrameUnits + 1, Len(r))
        ELSE ring_samples' = r
    BY <1>3 DEF AssembleOne10msFrame
  <2> HIDE DEF r
  <2>3. Len(SubSeq(r, FrameUnits + 1, Len(r))) =
          IF FrameUnits + 1 <= Len(r) THEN Len(r) - (FrameUnits + 1) + 1 ELSE 0
    BY <1>0, <2>1, AscendingPart
  <2>4. Len(ring_samples') <= CapUnits
    BY <1>0, <2>1, <2>2, <2>3
  <2> QED  BY <2>4 DEF LatencyBound
<1>4. CASE FadeRing
  <2>1. capture' = capture
    BY <1>4 DEF FadeRing
  <2>2. CASE flush_keep > 0 /\ Len(ring_samples) > flush_keep
    <3>1. Len(SubSeq(ring_samples, 1, flush_keep)) = IF 1 <= flush_keep THEN flush_keep - 1 + 1 ELSE 0
      BY <1>0, <2>2, AscendingPart
    <3>2. Len(ring_samples') <= Len(ring_samples) /\ Len(ring_samples') \in Nat
      BY <1>0, <1>4, <2>2, <3>1 DEF FadeRing
    <3> QED  BY <1>0, <2>1, <3>2 DEF LatencyBound
  <2>3. CASE ~(flush_keep > 0 /\ Len(ring_samples) > flush_keep)
    <3>1. ring_samples' = ring_samples \/ ring_samples' = <<>>
      BY <1>4, <2>3 DEF FadeRing
    <3> QED  BY <1>0, <2>1, <3>1, EmptyUnits DEF LatencyBound
  <2> QED  BY <2>2, <2>3
<1>5. CASE Terminate
  BY <1>0, <1>5, EmptyUnits DEF Terminate, LatencyBound
<1>6. CASE CheckMediaFrame \/ PushChunk \/ Tick \/ ExitLoop \/ DeliverFrame \/ CheckCompletion
           \/ ResetFlag \/ FireCallback \/ SpeechGenerationComplete \/ DiscardChunk
           \/ UnlockFlush \/ StopRecording \/ JoinCapture \/ ResetQueue
  BY <1>1, <1>6
  DEF CheckMediaFrame, PushChunk, Tick, ExitLoop, DeliverFrame, CheckCompletion, ResetFlag,
      FireCallback, SpeechGenerationComplete, DiscardChunk, UnlockFlush, StopRecording,
      JoinCapture, ResetQueue
<1>7. ASSUME NEW fade \in FadeUnits, LockForFlush(fade) PROVE LatencyBound'
  BY <1>1, <1>7 DEF LockForFlush
<1>8. CASE UNCHANGED vars
  BY <1>1, <1>8 DEF vars
<1> QED
  BY <1>2, <1>3, <1>4, <1>5, <1>6, <1>7, <1>8
  DEF Next, RunCaptureLoop, FlushAudioBuffer, Cleanup

(* The events: only four steps touch what is counted. *)
LEMMA NextEvents == IInv /\ [Next]_vars => EventsAreOwed' /\ FlagAtReset'
<1> SUFFICES ASSUME IInv, [Next]_vars PROVE EventsAreOwed' /\ FlagAtReset'
  OBVIOUS
<1> USE DEF shared, threads, history
<1>0. /\ EventsAreOwed /\ FlagAtReset
      /\ fired \in Nat /\ completes \in Nat
      /\ speech_generation_complete \in BOOLEAN
  BY DEF IInv, TypeOK
<1>1. CASE SpeechGenerationComplete
  BY <1>0, <1>1 DEF SpeechGenerationComplete, EventsAreOwed, FlagAtReset
<1>2. CASE CheckCompletion
  BY <1>0, <1>2 DEF CheckCompletion, EventsAreOwed, FlagAtReset
<1>3. CASE ResetFlag
  BY <1>0, <1>3 DEF ResetFlag, EventsAreOwed, FlagAtReset
<1>4. CASE FireCallback
  BY <1>0, <1>4 DEF FireCallback, EventsAreOwed, FlagAtReset
<1>5. ASSUME UNCHANGED <<fired, completes, speech_generation_complete>>,
             \/ capture' = capture
             \/ capture \notin {"reset", "fire"} /\ capture' \notin {"reset", "fire"}
      PROVE  EventsAreOwed' /\ FlagAtReset'
  BY <1>0, <1>5 DEF EventsAreOwed, FlagAtReset
<1>6. CASE CheckMediaFrame \/ PushChunk \/ Tick \/ ExitLoop \/ DrainChunk
           \/ AssembleOne10msFrame \/ DeliverFrame
  BY <1>5, <1>6
  DEF CheckMediaFrame, PushChunk, Tick, ExitLoop, DrainChunk, AssembleOne10msFrame, DeliverFrame
<1>7. CASE FadeRing \/ DiscardChunk \/ UnlockFlush \/ StopRecording \/ JoinCapture
           \/ Terminate \/ ResetQueue
  BY <1>5, <1>7
  DEF FadeRing, DiscardChunk, UnlockFlush, StopRecording, JoinCapture, Terminate, ResetQueue
<1>8. ASSUME NEW fade \in FadeUnits, LockForFlush(fade) PROVE EventsAreOwed' /\ FlagAtReset'
  BY <1>5, <1>8 DEF LockForFlush
<1>9. CASE UNCHANGED vars
  BY <1>5, <1>9 DEF vars
<1> QED
  BY <1>1, <1>2, <1>3, <1>4, <1>6, <1>7, <1>8, <1>9
  DEF Next, RunCaptureLoop, FlushAudioBuffer, Cleanup

(* The ring is only filled by a drain, and cut by a flush; a frame is only there
   between its assembly and its delivery. *)
LEMMA NextRing == IInv /\ [Next]_vars => RingPlayed' /\ FlushUnderWay'
<1> SUFFICES ASSUME IInv, [Next]_vars PROVE RingPlayed' /\ FlushUnderWay'
  OBVIOUS
<1> USE DEF shared, threads, history
<1>0. /\ RingPlayed /\ FlushUnderWay
      /\ accepted \in Nat /\ flush_mark \in Nat /\ flush_keep \in Nat
      /\ ring_samples \in Seq(Nat) /\ Len(ring_samples) \in Nat /\ Ascending(ring_samples)
  BY LenProperties DEF IInv, TypeOK, InOrder
<1>1. CASE PushChunk
  <2>1. accepted' >= accepted /\ accepted' \in Nat
    <3>1. PICK n \in ChunkUnits : accepted' = accepted + n \/ accepted' = accepted
      BY <1>1 DEF PushChunk
    <3>2. n \in Nat
      BY PlaybackAssumption DEF PlaybackAssumption
    <3> QED  BY <3>1, <3>2, <1>0
  <2>2. UNCHANGED <<ring_samples, capture, frame, flusher, flush_mark, flush_keep>>
    BY <1>1 DEF PushChunk
  <2> QED  BY <2>1, <2>2, <1>0 DEF RingPlayed, FlushUnderWay
<1>2. CASE Tick \/ ExitLoop \/ CheckCompletion \/ ResetFlag \/ FireCallback
  BY <1>2, <1>0 DEF Tick, ExitLoop, CheckCompletion, ResetFlag, FireCallback, MutexFree, RingPlayed,
                    FlushUnderWay
<1>3. CASE DrainChunk \/ AssembleOne10msFrame
  <2>1. /\ capture = "drain" /\ capture' \in {"drain", "deliver"}
        /\ capture' = "drain" => UNCHANGED frame
        /\ UNCHANGED <<accepted, flusher, flush_mark, flush_keep>>
    BY <1>3 DEF DrainChunk, AssembleOne10msFrame
  <2> QED  BY <2>1, <1>0 DEF RingPlayed, FlushUnderWay
<1>4. CASE DeliverFrame
  BY <1>4, <1>0 DEF DeliverFrame, RingPlayed, FlushUnderWay
<1>5. CASE FadeRing
  <2>1. /\ flusher = "locked" /\ flusher' = "draining"
        /\ UNCHANGED <<capture, frame, accepted, flush_mark, flush_keep>>
    BY <1>5 DEF FadeRing
  <2>2. CASE flush_keep > 0 /\ Len(ring_samples) > flush_keep
    <3>1. Len(SubSeq(ring_samples, 1, flush_keep)) = IF 1 <= flush_keep THEN flush_keep - 1 + 1 ELSE 0
      BY <1>0, <2>2, AscendingPart
    <3>2. Len(ring_samples') <= flush_keep
      BY <1>0, <1>5, <2>2, <3>1 DEF FadeRing
    <3>3. ring_samples # <<>>
      BY <1>0, <2>2, EmptyUnits
    <3> QED  BY <1>0, <2>1, <3>2, <3>3 DEF RingPlayed, FlushUnderWay
  <2>3. CASE ~(flush_keep > 0 /\ Len(ring_samples) > flush_keep)
    <3>1. \/ ring_samples' = ring_samples /\ Len(ring_samples) <= flush_keep
          \/ ring_samples' = <<>>
      BY <1>0, <1>5, <2>3 DEF FadeRing
    <3>2. Len(ring_samples') <= flush_keep
      BY <1>0, <3>1, EmptyUnits
    <3> QED  BY <1>0, <2>1, <3>1, <3>2 DEF RingPlayed, FlushUnderWay
  <2> QED  BY <2>2, <2>3
<1>6. CASE Terminate
  BY <1>6, <1>0, EmptyUnits DEF Terminate, RingPlayed, FlushUnderWay
<1>7. CASE CheckMediaFrame \/ SpeechGenerationComplete \/ DiscardChunk \/ UnlockFlush
           \/ StopRecording \/ JoinCapture \/ ResetQueue
  BY <1>7, <1>0
  DEF CheckMediaFrame, SpeechGenerationComplete, DiscardChunk, UnlockFlush, StopRecording,
      JoinCapture, ResetQueue, RingPlayed, FlushUnderWay
<1>8. ASSUME NEW fade \in FadeUnits, LockForFlush(fade) PROVE RingPlayed' /\ FlushUnderWay'
  BY <1>8, <1>0 DEF LockForFlush, MutexFree, RingPlayed, FlushUnderWay
<1>9. CASE UNCHANGED vars
  BY <1>9, <1>0 DEF vars, RingPlayed, FlushUnderWay
<1> QED
  BY <1>1, <1>2, <1>3, <1>4, <1>5, <1>6, <1>7, <1>8, <1>9
  DEF Next, RunCaptureLoop, FlushAudioBuffer, Cleanup

(* The removal stops recording, and nothing starts it again; the thread it joined
   has no next step, and only that thread fills the ring. *)
LEMMA NextCleanup == IInv /\ [Next]_vars => CleanupUnderWay'
<1> SUFFICES ASSUME IInv, [Next]_vars PROVE CleanupUnderWay'
  OBVIOUS
<1> USE DEF shared, threads, history
<1>0. CleanupUnderWay /\ ring_samples \in Seq(Nat) /\ flush_keep \in Nat
  BY DEF IInv, TypeOK
<1>1. CASE RunCaptureLoop
  BY <1>0, <1>1 DEF RunCaptureLoop, Tick, ExitLoop, DrainChunk, AssembleOne10msFrame, DeliverFrame,
     CheckCompletion, ResetFlag, FireCallback, CleanupUnderWay
<1>2. CASE FadeRing
  <2>1. ring_samples = <<>> => ring_samples' = <<>>
    BY <1>0, <1>2, EmptyUnits DEF FadeRing
  <2> QED  BY <1>0, <1>2, <2>1 DEF FadeRing, CleanupUnderWay
<1>3. CASE StopRecording \/ Cleanup
  BY <1>0, <1>3 DEF StopRecording, Cleanup, JoinCapture, Terminate, ResetQueue, CleanupUnderWay
<1>4. CASE \/ CheckMediaFrame \/ PushChunk \/ SpeechGenerationComplete \/ DiscardChunk \/ UnlockFlush
           \/ UNCHANGED vars
  BY <1>0, <1>4 DEF CheckMediaFrame, PushChunk, SpeechGenerationComplete, DiscardChunk, UnlockFlush,
     vars, CleanupUnderWay
<1>5. ASSUME NEW fade \in FadeUnits, LockForFlush(fade) PROVE CleanupUnderWay'
  BY <1>0, <1>5 DEF LockForFlush, CleanupUnderWay
<1> QED  BY <1>1, <1>2, <1>3, <1>4, <1>5 DEF Next, FlushAudioBuffer

(* What is to be played: it grows by units that are new, and by no others. *)
ToPlay == Queued \cup Range(ring_samples)

LEMMA OnlyNewUnits ==
  ASSUME IInv, [Next]_vars, NEW u \in ToPlay'
  PROVE  u \in ToPlay \/ u > accepted
<1> USE DEF shared, threads, history
<1>0. /\ InOrder /\ ring_samples \in Seq(Nat) /\ audio_queue \in Seq(Chunk) /\ flush_keep \in Nat
      /\ accepted \in Nat /\ Len(ring_samples) \in Nat
      /\ Ascending(ring_samples) /\ ChunksAscending(audio_queue)
      /\ Queued = UnitsIn(audio_queue) /\ Queued' = UnitsIn(audio_queue)'
  BY LenProperties DEF IInv, TypeOK, InOrder, Queued, UnitsIn
<1>a. ASSUME Range(ring_samples') \subseteq Range(ring_samples), Queued' \subseteq Queued
      PROVE  u \in ToPlay
  BY <1>a DEF ToPlay
<1>q. ASSUME audio_queue' = audio_queue PROVE Queued' = Queued
  BY <1>q DEF Queued
<1>1. CASE PushChunk
  <2>1. PICK n \in ChunkUnits :
          IF Len(audio_queue) < QueueCap
          THEN /\ audio_queue' = Append(audio_queue, [first |-> accepted + 1, len |-> n])
               /\ accepted' = accepted + n
          ELSE UNCHANGED <<audio_queue, accepted>>
    BY <1>1 DEF PushChunk
  <2>2. ring_samples' = ring_samples
    BY <1>1 DEF PushChunk
  <2>3. CASE ~(Len(audio_queue) < QueueCap)
    BY <1>a, <1>q, <2>1, <2>2, <2>3
  <2>4. CASE Len(audio_queue) < QueueCap
    <3> DEFINE c == [first |-> accepted + 1, len |-> n]
    <3>0. n \in Nat \ {0}
      BY PlaybackAssumption DEF PlaybackAssumption
    <3>1. c \in Chunk /\ c.first = accepted + 1 /\ c.len = n
      BY <1>0, <3>0 DEF Chunk
    <3>2. audio_queue' = Append(audio_queue, c)
      BY <2>1, <2>4
    <3> HIDE DEF c
    <3>3. /\ Len(audio_queue') = Len(audio_queue) + 1 /\ Len(audio_queue) \in Nat
          /\ \A i \in 1..Len(audio_queue) : audio_queue'[i] = audio_queue[i]
          /\ audio_queue'[Len(audio_queue) + 1] = c
          /\ DOMAIN audio_queue' = 1..(Len(audio_queue) + 1) /\ DOMAIN audio_queue = 1..Len(audio_queue)
      BY <1>0, <3>1, <3>2, AppendProperties, LenProperties
    <3>4. ASSUME u \in Queued' PROVE u \in Queued \/ u > accepted
      <4>1. PICK i \in DOMAIN audio_queue' : u \in Units(audio_queue'[i])
        BY <3>4 DEF Queued
      <4>2. CASE i \in 1..Len(audio_queue)
        BY <4>1, <4>2, <3>3 DEF Queued
      <4>3. CASE i = Len(audio_queue) + 1
        <5>1. u \in (accepted + 1)..(accepted + 1 + n - 1)
          BY <4>1, <4>3, <3>1, <3>3 DEF Units
        <5> QED  BY <5>1, <1>0, <3>0
      <4> QED  BY <4>1, <4>2, <4>3, <3>3
    <3> QED  BY <3>4, <2>2 DEF ToPlay
  <2> QED  BY <2>3, <2>4
<1>2. CASE DrainChunk
  <2> DEFINE h == Head(audio_queue)
             t == Tail(audio_queue)
  <2>1. h \in Chunk /\ Queued = Units(h) \cup UnitsIn(t)
    BY <1>0, <1>2, PopUnits DEF DrainChunk
  <2>2. UnitsOf(h) \in Seq(Nat) /\ Range(UnitsOf(h)) = Units(h)
    BY <2>1, UnitsOfChunk
  <2>3. Range(ring_samples \o UnitsOf(h)) = Range(ring_samples) \cup Units(h)
    BY <1>0, <2>2, RangeConcatenation
  <2>4. ring_samples' = ring_samples \o UnitsOf(h) /\ audio_queue' = t
    BY <1>2 DEF DrainChunk
  <2>5. Queued' = UnitsIn(t)
    BY <2>4 DEF Queued, UnitsIn
  <2> HIDE DEF h, t
  <2> QED  BY <2>1, <2>3, <2>4, <2>5 DEF ToPlay
<1>3. CASE AssembleOne10msFrame
  <2> DEFINE r == Capped(ring_samples)
  <2>1. r \in Seq(Nat) /\ Ascending(r) /\ Range(r) \subseteq Range(ring_samples) /\ Len(r) \in Nat
    BY <1>0, CappedRing, LenProperties
  <2>2. /\ IF Len(r) >= FrameUnits THEN ring_samples' = SubSeq(r, FrameUnits + 1, Len(r))
                                   ELSE ring_samples' = r
        /\ audio_queue' = audio_queue
    BY <1>3 DEF AssembleOne10msFrame
  <2> HIDE DEF r
  <2>3. Len(r) >= FrameUnits => Range(SubSeq(r, FrameUnits + 1, Len(r))) \subseteq Range(r)
    BY <2>1, AscendingPart, PlaybackAssumption DEF PlaybackAssumption
  <2> QED  BY <1>a, <1>q, <2>1, <2>2, <2>3
<1>4. CASE FadeRing
  <2>1. CASE flush_keep > 0 /\ Len(ring_samples) > flush_keep
    <3>1. Range(SubSeq(ring_samples, 1, flush_keep)) \subseteq Range(ring_samples)
      BY <1>0, <2>1, AscendingPart
    <3> QED  BY <1>a, <1>q, <1>4, <2>1, <3>1 DEF FadeRing
  <2>2. CASE ~(flush_keep > 0 /\ Len(ring_samples) > flush_keep)
    BY <1>a, <1>q, <1>4, <2>2, EmptyUnits DEF FadeRing
  <2> QED  BY <2>1, <2>2
<1>5. CASE DiscardChunk
  <2>1. UnitsIn(Tail(audio_queue)) \subseteq Queued
    BY <1>0, <1>5, PopUnits DEF DiscardChunk
  <2>2. audio_queue' = Tail(audio_queue) /\ ring_samples' = ring_samples
    BY <1>5 DEF DiscardChunk
  <2>3. Queued' = UnitsIn(Tail(audio_queue))
    BY <2>2 DEF Queued, UnitsIn
  <2> QED  BY <1>a, <2>1, <2>2, <2>3
<1>6. CASE Terminate
  BY <1>a, <1>q, <1>6, EmptyUnits DEF Terminate
<1>7. CASE ResetQueue
  <2>1. audio_queue' = <<>> /\ ring_samples' = ring_samples
    BY <1>7 DEF ResetQueue
  <2>2. DOMAIN <<>> = {}
    BY EmptyUnits, LenProperties
  <2>3. Queued' = {}
    BY <2>1, <2>2 DEF Queued
  <2> QED  BY <1>a, <2>1, <2>3
<1>8. CASE CheckMediaFrame \/ Tick \/ ExitLoop \/ DeliverFrame \/ CheckCompletion \/ ResetFlag
           \/ FireCallback \/ SpeechGenerationComplete \/ UnlockFlush \/ StopRecording \/ JoinCapture
           \/ UNCHANGED vars
  <2>1. audio_queue' = audio_queue /\ ring_samples' = ring_samples
    BY <1>8 DEF CheckMediaFrame, Tick, ExitLoop, DeliverFrame, CheckCompletion, ResetFlag,
       FireCallback, SpeechGenerationComplete, UnlockFlush, StopRecording, JoinCapture, vars
  <2> QED  BY <1>a, <1>q, <2>1
<1>9. ASSUME NEW fade \in FadeUnits, LockForFlush(fade) PROVE u \in ToPlay
  <2>1. audio_queue' = audio_queue /\ ring_samples' = ring_samples
    BY <1>9 DEF LockForFlush
  <2> QED  BY <1>a, <1>q, <2>1
<1> QED
  BY <1>1, <1>2, <1>3, <1>4, <1>5, <1>6, <1>7, <1>8, <1>9
  DEF Next, RunCaptureLoop, FlushAudioBuffer, Cleanup

(* A ring holds no more units than its length. *)
LEMMA RingCardinality ==
  ASSUME NEW s \in Seq(Nat)
  PROVE  IsFiniteSet(Range(s)) /\ Cardinality(Range(s)) <= Len(s)
<1>1. /\ Range(s) = {s[i] : i \in 1..Len(s)} /\ DOMAIN s = 1..Len(s) /\ Len(s) \in Nat
      /\ s \in [1..Len(s) -> Nat]
  BY RangeIndex, LenProperties
<1>2. s \in Surjection(1..Len(s), Range(s))
  BY <1>1 DEF Surjection
<1>3. IsFiniteSet(1..Len(s)) /\ Cardinality(1..Len(s)) = Len(s)
  <2> DEFINE n == Len(s)
  <2>1. n \in Nat /\ n \in Int /\ 1 \in Int
    BY <1>1
  <2> HIDE DEF n
  <2>2. /\ IsFiniteSet(1..n)
        /\ Cardinality(1..n) = IF 1 > n THEN 0 ELSE n - 1 + 1
    BY <2>1, FS_Interval, Zenon
  <2>3. (IF 1 > n THEN 0 ELSE n - 1 + 1) = n
    BY <2>1
  <2>4. IsFiniteSet(1..n) /\ Cardinality(1..n) = n
    BY <2>2, <2>3
  <2> QED  BY <2>4 DEF n
<1> QED  BY <1>2, <1>3, FS_Surjection

LEMMA NextFlushEffective == IInv /\ [Next]_vars => FlushEffective'
<1> SUFFICES ASSUME IInv, [Next]_vars, flusher' = "idle", QueueAlive'
             PROVE  Cardinality({u \in ToPlay' : u <= flush_mark'}) <= flush_keep'
  BY DEF FlushEffective, ToPlay
<1> USE DEF shared, threads, history
<1>0. /\ accepted \in Nat /\ flush_mark \in Nat /\ flush_keep \in Nat /\ flush_mark <= accepted
      /\ ring_samples \in Seq(Nat) /\ Len(ring_samples) \in Nat
      /\ FlushUnderWay /\ FlushEffective /\ ToPlay \subseteq 1..accepted
  BY LenProperties DEF IInv, TypeOK, FlushUnderWay, InOrder, Held, ToPlay
<1>1. CASE flusher = "idle"
  <2>1. flush_mark' = flush_mark /\ flush_keep' = flush_keep
    <3>1. ASSUME NEW fade \in FadeUnits, LockForFlush(fade)
          PROVE  flush_mark' = flush_mark /\ flush_keep' = flush_keep
      BY <3>1, <1>1 DEF LockForFlush
    <3>2. CASE \/ CheckMediaFrame \/ PushChunk \/ RunCaptureLoop \/ SpeechGenerationComplete
               \/ FlushAudioBuffer \/ StopRecording \/ Cleanup \/ UNCHANGED vars
      BY <3>2 DEF CheckMediaFrame, PushChunk, RunCaptureLoop, Tick, ExitLoop, DrainChunk,
         AssembleOne10msFrame, DeliverFrame, CheckCompletion, ResetFlag, FireCallback,
         SpeechGenerationComplete, FlushAudioBuffer, FadeRing, DiscardChunk, UnlockFlush,
         StopRecording, Cleanup, JoinCapture, Terminate, ResetQueue, vars
    <3> QED  BY <3>1, <3>2 DEF Next
  <2>2. QueueAlive
    <3>1. cleaner = "done" => cleaner' = "done"
      BY DEF Next, CheckMediaFrame, PushChunk, RunCaptureLoop, Tick, ExitLoop, DrainChunk,
         AssembleOne10msFrame, DeliverFrame, CheckCompletion, ResetFlag, FireCallback,
         SpeechGenerationComplete, LockForFlush, FlushAudioBuffer, FadeRing, DiscardChunk,
         UnlockFlush, StopRecording, Cleanup, JoinCapture, Terminate, ResetQueue, vars
    <3> QED  BY <3>1 DEF QueueAlive
  <2> DEFINE Old  == {u \in ToPlay : u <= flush_mark}
             Left == {u \in ToPlay' : u <= flush_mark}
  <2>3. Left \subseteq Old
    <3>1. ASSUME NEW u \in ToPlay', u <= flush_mark PROVE u \in ToPlay
      <4>1. u \in ToPlay \/ u > accepted
        BY OnlyNewUnits
      <4>2. u \in Nat
        <5>1. InOrder' /\ accepted' \in Nat
          BY NextInOrder, NextTypeOK DEF TypeOK
        <5> QED  BY <5>1 DEF InOrder, Held, ToPlay
      <4> QED  BY <4>1, <4>2, <3>1, <1>0
    <3> QED  BY <3>1
  <2>4. IsFiniteSet(1..accepted) /\ Old \in SUBSET (1..accepted)
    <3>1. accepted \in Int /\ 1 \in Int
      BY <1>0
    <3>2. IsFiniteSet(1..accepted)
      BY <3>1, FS_Interval, Zenon
    <3>3. Old \subseteq 1..accepted
      BY <1>0
    <3> QED  BY <3>2, <3>3
  <2>5. IsFiniteSet(Old)
    BY <2>4, FS_Subset
  <2>6. Cardinality(Left) <= Cardinality(Old) /\ Cardinality(Left) \in Nat /\ Cardinality(Old) \in Nat
    BY <2>3, <2>5, FS_Subset, FS_CardinalityType
  <2>7. Cardinality(Old) <= flush_keep
    BY <1>0, <1>1, <2>2 DEF FlushEffective, ToPlay
  <2>8. {u \in ToPlay' : u <= flush_mark'} = Left
    BY <2>1
  <2> HIDE DEF Old, Left
  <2>9. Cardinality(Left) <= flush_keep
    BY <2>6, <2>7, <1>0
  <2> QED  BY <2>1, <2>8, <2>9
<1>2. CASE flusher # "idle"
  <2>1. UnlockFlush
    BY <1>2 DEF Next, CheckMediaFrame, PushChunk, RunCaptureLoop, Tick, ExitLoop, DrainChunk,
         AssembleOne10msFrame, DeliverFrame, CheckCompletion, ResetFlag, FireCallback,
         SpeechGenerationComplete, LockForFlush, MutexFree, FlushAudioBuffer, FadeRing, DiscardChunk,
         StopRecording, Cleanup, JoinCapture, Terminate, ResetQueue, vars
  <2>2. /\ flusher = "draining" /\ audio_queue = <<>> /\ audio_queue' = audio_queue
        /\ ring_samples' = ring_samples /\ flush_mark' = flush_mark /\ flush_keep' = flush_keep
    BY <2>1 DEF UnlockFlush
  <2>3. Len(ring_samples) <= flush_keep
    BY <2>2, <1>0 DEF FlushUnderWay
  <2>4. DOMAIN <<>> = {}
    BY EmptyUnits, LenProperties
  <2>5. Queued' = {}
    BY <2>2, <2>4 DEF Queued
  <2> DEFINE Left == {u \in ToPlay' : u <= flush_mark'}
  <2>6. Left \in SUBSET Range(ring_samples)
    BY <2>2, <2>5 DEF ToPlay
  <2> HIDE DEF Left
  <2>7. IsFiniteSet(Range(ring_samples)) /\ Cardinality(Range(ring_samples)) <= Len(ring_samples)
    BY <1>0, RingCardinality
  <2>8. /\ Cardinality(Left) <= Cardinality(Range(ring_samples))
        /\ Cardinality(Left) \in Nat /\ Cardinality(Range(ring_samples)) \in Nat
    BY <2>6, <2>7, FS_Subset, FS_CardinalityType
  <2>9. Cardinality(Left) <= flush_keep'
    BY <2>2, <2>3, <2>7, <2>8, <1>0
  <2> QED  BY <2>9 DEF Left
<1> QED  BY <1>1, <1>2

(* What a cut keeps and what it takes are together what there was. *)
LEMMA CutKeepsUnits ==
  ASSUME NEW s \in Seq(Nat), NEW n \in Nat, n <= Len(s), Ascending(s)
  PROVE  Range(s) = Range(SubSeq(s, 1, n)) \cup Range(SubSeq(s, n + 1, Len(s)))
<1>0. Range(s) = {s[i] : i \in 1..Len(s)} /\ Len(s) \in Nat
  BY RangeIndex
<1>1. Range(SubSeq(s, 1, n)) = {s[i] : i \in 1..n}
  BY AscendingPart
<1>2. Range(SubSeq(s, n + 1, Len(s))) = {s[i] : i \in (n + 1)..Len(s)}
  BY <1>0, AscendingPart
<1>3. \A i \in 1..Len(s) : i \in 1..n \/ i \in (n + 1)..Len(s)
  BY <1>0
<1>4. 1..n \subseteq 1..Len(s) /\ (n + 1)..Len(s) \subseteq 1..Len(s)
  BY <1>0
<1> QED  BY <1>0, <1>1, <1>2, <1>3, <1>4

(* The latency cap takes the units OverCap names and no others. *)
LEMMA CapTakesOverCap ==
  ASSUME ring_samples \in Seq(Nat), Ascending(ring_samples)
  PROVE  Range(ring_samples) \subseteq OverCap \cup Range(Capped(ring_samples))
<1>0. Len(ring_samples) \in Nat /\ CapUnits \in Nat
  BY LenProperties, PlaybackAssumption
<1>1. CASE Len(ring_samples) > CapUnits
  <2> DEFINE n == Len(ring_samples) - CapUnits
  <2>1. n \in Nat /\ n <= Len(ring_samples)
    BY <1>0, <1>1
  <2>2. OverCap = {ring_samples[i] : i \in 1..n}
    BY <1>1 DEF OverCap
  <2>3. Capped(ring_samples) = SubSeq(ring_samples, n + 1, Len(ring_samples))
    BY <1>1 DEF Capped
  <2> HIDE DEF n
  <2>4. Range(SubSeq(ring_samples, 1, n)) = {ring_samples[i] : i \in 1..n}
    BY <2>1, AscendingPart
  <2> QED  BY <2>1, <2>2, <2>3, <2>4, CutKeepsUnits
<1>2. CASE ~(Len(ring_samples) > CapUnits)
  BY <1>2 DEF Capped
<1> QED  BY <1>1, <1>2

(* No step but a flush or the end of the session loses a unit. *)
LEMMA NextKeepsAudio ==
  ASSUME IInv, [Next]_vars, flusher = "idle", cleaner = "idle"
  PROVE  Held \subseteq Held' \cup Range(delivered') \cup OverCap
<1> USE DEF shared, threads, history
<1>0. /\ audio_queue \in Seq(Chunk) /\ ChunksAscending(audio_queue)
      /\ ring_samples \in Seq(Nat) /\ Ascending(ring_samples)
      /\ frame \in Seq(Nat) /\ delivered \in Seq(Nat)
      /\ accepted \in Nat /\ RingPlayed
      /\ Queued = UnitsIn(audio_queue) /\ Queued' = UnitsIn(audio_queue)'
      /\ Held = Queued \cup Range(ring_samples) \cup Range(frame)
      /\ Held' = Queued' \cup Range(ring_samples') \cup Range(frame')
  BY DEF IInv, TypeOK, InOrder, Queued, UnitsIn, Held
<1>q. ASSUME audio_queue' = audio_queue PROVE Queued' = Queued
  BY <1>q DEF Queued
<1>1. CASE PushChunk
  <2>1. ring_samples' = ring_samples /\ frame' = frame
    BY <1>1 DEF PushChunk
  <2>2. PICK n \in ChunkUnits :
          IF Len(audio_queue) < QueueCap
          THEN /\ audio_queue' = Append(audio_queue, [first |-> accepted + 1, len |-> n])
               /\ accepted' = accepted + n
          ELSE UNCHANGED <<audio_queue, accepted>>
    BY <1>1 DEF PushChunk
  <2>3. CASE ~(Len(audio_queue) < QueueCap)
    BY <1>0, <1>q, <2>1, <2>2, <2>3
  <2>4. CASE Len(audio_queue) < QueueCap
    <3> DEFINE c == [first |-> accepted + 1, len |-> n]
    <3>1. c \in Chunk
      BY <1>0, PlaybackAssumption DEF Chunk, PlaybackAssumption
    <3>2. audio_queue' = Append(audio_queue, c)
      BY <2>2, <2>4
    <3> HIDE DEF c
    <3>3. /\ \A i \in 1..Len(audio_queue) : audio_queue'[i] = audio_queue[i]
          /\ DOMAIN audio_queue' = 1..(Len(audio_queue) + 1)
          /\ DOMAIN audio_queue = 1..Len(audio_queue) /\ Len(audio_queue) \in Nat
      BY <1>0, <3>1, <3>2, AppendProperties, LenProperties
    <3>4. \A i \in DOMAIN audio_queue : i \in DOMAIN audio_queue' /\ audio_queue'[i] = audio_queue[i]
      BY <3>3
    <3>5. Queued \subseteq Queued'
      BY <3>4 DEF Queued
    <3> QED  BY <1>0, <2>1, <3>5
  <2> QED  BY <2>3, <2>4
<1>2. CASE DrainChunk
  <2> DEFINE h == Head(audio_queue)
             t == Tail(audio_queue)
  <2>1. h \in Chunk /\ Queued = Units(h) \cup UnitsIn(t)
    BY <1>0, <1>2, PopUnits DEF DrainChunk
  <2>2. UnitsOf(h) \in Seq(Nat) /\ Range(UnitsOf(h)) = Units(h)
    BY <2>1, UnitsOfChunk
  <2>3. Range(ring_samples \o UnitsOf(h)) = Range(ring_samples) \cup Units(h)
    BY <1>0, <2>2, RangeConcatenation
  <2>4. ring_samples' = ring_samples \o UnitsOf(h) /\ audio_queue' = t /\ frame' = frame
    BY <1>2 DEF DrainChunk
  <2>5. Queued' = UnitsIn(t)
    BY <2>4 DEF Queued, UnitsIn
  <2> HIDE DEF h, t
  <2> QED  BY <1>0, <2>1, <2>3, <2>4, <2>5
<1>3. CASE AssembleOne10msFrame
  <2> DEFINE r == Capped(ring_samples)
  <2>1. r \in Seq(Nat) /\ Ascending(r) /\ Len(r) \in Nat
    BY <1>0, CappedRing, LenProperties
  <2>2. /\ IF Len(r) >= FrameUnits
           THEN /\ frame' = SubSeq(r, 1, FrameUnits)
                /\ ring_samples' = SubSeq(r, FrameUnits + 1, Len(r))
           ELSE frame' = <<>> /\ ring_samples' = r
        /\ audio_queue' = audio_queue /\ capture = "drain"
    BY <1>3 DEF AssembleOne10msFrame
  <2>3. Range(ring_samples) \subseteq OverCap \cup Range(r)
    BY <1>0, CapTakesOverCap
  <2> HIDE DEF r
  <2>4. Range(frame) = {}
    BY <1>0, <2>2, EmptyUnits DEF RingPlayed
  <2>5. Range(r) \subseteq Range(ring_samples') \cup Range(frame')
    <3>1. CASE Len(r) >= FrameUnits
      <4>1. FrameUnits \in Nat /\ FrameUnits <= Len(r)
        BY <2>1, <3>1, PlaybackAssumption DEF PlaybackAssumption
      <4>2. Range(r) = Range(SubSeq(r, 1, FrameUnits)) \cup Range(SubSeq(r, FrameUnits + 1, Len(r)))
        BY <2>1, <4>1, CutKeepsUnits
      <4> QED  BY <2>2, <3>1, <4>2
    <3>2. CASE ~(Len(r) >= FrameUnits)
      BY <2>2, <3>2
    <3> QED  BY <3>1, <3>2
  <2> QED  BY <1>0, <1>q, <2>2, <2>3, <2>4, <2>5
<1>4. CASE DeliverFrame
  <2>1. delivered' = delivered \o frame /\ audio_queue' = audio_queue /\ ring_samples' = ring_samples
    BY <1>4 DEF DeliverFrame
  <2>2. Range(delivered') = Range(delivered) \cup Range(frame)
    BY <1>0, <2>1, RangeConcatenation
  <2> QED  BY <1>0, <1>q, <2>1, <2>2
<1>5. CASE \/ CheckMediaFrame \/ Tick \/ ExitLoop \/ CheckCompletion \/ ResetFlag \/ FireCallback
           \/ SpeechGenerationComplete \/ StopRecording \/ UNCHANGED vars
  <2>1. audio_queue' = audio_queue /\ ring_samples' = ring_samples /\ frame' = frame
    BY <1>5 DEF CheckMediaFrame, Tick, ExitLoop, CheckCompletion, ResetFlag,
       FireCallback, SpeechGenerationComplete, StopRecording, vars
  <2> QED  BY <1>0, <1>q, <2>1
<1>6. ASSUME NEW fade \in FadeUnits, LockForFlush(fade)
      PROVE  Held \subseteq Held' \cup Range(delivered') \cup OverCap
  <2>1. audio_queue' = audio_queue /\ ring_samples' = ring_samples /\ frame' = frame
    BY <1>6 DEF LockForFlush
  <2> QED  BY <1>0, <1>q, <2>1
<1>7. ~FlushAudioBuffer /\ ~Cleanup
  BY DEF FlushAudioBuffer, FadeRing, DiscardChunk, UnlockFlush, Cleanup, JoinCapture, Terminate,
     ResetQueue
<1> QED
  BY <1>1, <1>2, <1>3, <1>4, <1>5, <1>6, <1>7 DEF Next, RunCaptureLoop

LEMMA Invariance == Spec => []IInv
<1>1. IInv /\ [Next]_vars => IInv'
  BY NextTypeOK, NextInOrder, NextLatencyBound, NextEvents, NextRing, NextFlushEffective,
     NextCleanup DEF IInv
<1> QED  BY <1>1, InitIInv, PTL DEF Spec

-----------------------------------------------------------------------------
(* The engine is a player.  First what its steps do to what it holds. *)
(* The units of an ascending sequence differ. *)
LEMMA AscendingCardinality ==
  ASSUME NEW s \in Seq(Nat), Ascending(s)
  PROVE  IsFiniteSet(Range(s)) /\ Cardinality(Range(s)) = Len(s)
<1>1. /\ DOMAIN s = 1..Len(s) /\ Len(s) \in Nat /\ Range(s) = {s[i] : i \in 1..Len(s)}
      /\ s \in [1..Len(s) -> Range(s)] /\ \A i \in 1..Len(s) : s[i] \in Nat
  BY RangeIndex, LenProperties, ElementOfSeq
<1>2. ASSUME NEW i \in 1..Len(s), NEW j \in 1..Len(s), s[i] = s[j] PROVE i = j
  <2>1. s[i] \in Nat /\ s[j] \in Nat
    BY <1>1
  <2>2. (i < j => s[i] < s[j]) /\ (j < i => s[j] < s[i])
    BY <1>1 DEF Ascending
  <2>3. ~(i < j) /\ ~(j < i)
    BY <1>2, <2>1, <2>2
  <2> QED  BY <1>1, <2>3
<1>3. s \in Bijection(1..Len(s), Range(s))
  BY <1>1, <1>2 DEF Bijection, Injection, Surjection, IsInjective
<1>4. IsFiniteSet(1..Len(s)) /\ Cardinality(1..Len(s)) = Len(s)
  <2> DEFINE n == Len(s)
  <2>1. n \in Nat /\ n \in Int /\ 1 \in Int
    BY <1>1
  <2> HIDE DEF n
  <2>2. /\ IsFiniteSet(1..n)
        /\ Cardinality(1..n) = IF 1 > n THEN 0 ELSE n - 1 + 1
    BY <2>1, FS_Interval, Zenon
  <2>3. (IF 1 > n THEN 0 ELSE n - 1 + 1) = n
    BY <2>1
  <2>4. IsFiniteSet(1..n) /\ Cardinality(1..n) = n
    BY <2>2, <2>3
  <2> QED  BY <2>4 DEF n
<1> QED  BY <1>3, <1>4, FS_Bijection DEF ExistsBijection

(* A push that is not dropped adds the units it numbers. *)
LEMMA PushHolds ==
  ASSUME IInv, PushChunk
  PROVE  \/ UNCHANGED <<Held, accepted>>
         \/ \E n \in ChunkUnits : /\ accepted' = accepted + n
                                  /\ Held' = Held \cup (accepted + 1)..(accepted + n)
<1>0. audio_queue \in Seq(Chunk) /\ accepted \in Nat /\ ring_samples' = ring_samples /\ frame' = frame
  BY DEF IInv, TypeOK, PushChunk
<1>1. PICK n \in ChunkUnits :
        IF Len(audio_queue) < QueueCap
        THEN /\ audio_queue' = Append(audio_queue, [first |-> accepted + 1, len |-> n])
             /\ accepted' = accepted + n
        ELSE UNCHANGED <<audio_queue, accepted>>
  BY DEF PushChunk
<1>2. CASE ~(Len(audio_queue) < QueueCap)
  <2>1. audio_queue' = audio_queue /\ accepted' = accepted
    BY <1>1, <1>2
  <2>2. Held' = Held
    BY <1>0, <2>1 DEF Held, Queued
  <2> QED  BY <2>1, <2>2
<1>3. CASE Len(audio_queue) < QueueCap
  <2> DEFINE c == [first |-> accepted + 1, len |-> n]
  <2>1. n \in Nat \ {0}
    BY PlaybackAssumption DEF PlaybackAssumption
  <2>2. c \in Chunk /\ c.first = accepted + 1 /\ c.len = n
    BY <1>0, <2>1 DEF Chunk
  <2>3. Units(c) = (accepted + 1)..(accepted + n)
    <3>1. accepted + 1 + n - 1 = accepted + n
      BY <1>0, <2>1
    <3> QED  BY <2>2, <3>1 DEF Units
  <2>4. audio_queue' = Append(audio_queue, c) /\ accepted' = accepted + n
    BY <1>1, <1>3
  <2> HIDE DEF c
  <2>5. /\ \A i \in 1..Len(audio_queue) : audio_queue'[i] = audio_queue[i]
        /\ audio_queue'[Len(audio_queue) + 1] = c
        /\ DOMAIN audio_queue' = 1..(Len(audio_queue) + 1)
        /\ DOMAIN audio_queue = 1..Len(audio_queue) /\ Len(audio_queue) \in Nat
    BY <1>0, <2>2, <2>4, AppendProperties, LenProperties
  <2>6. \A i \in DOMAIN audio_queue' : i \in DOMAIN audio_queue \/ i = Len(audio_queue) + 1
    BY <2>5
  <2>7. DOMAIN audio_queue \subseteq DOMAIN audio_queue' /\ Len(audio_queue) + 1 \in DOMAIN audio_queue'
    BY <2>5
  <2>8. Queued' = Queued \cup Units(c)
    BY <2>5, <2>6, <2>7 DEF Queued
  <2>9. Held' = Held \cup (accepted + 1)..(accepted + n)
    BY <1>0, <2>3, <2>8 DEF Held
  <2> QED  BY <2>4, <2>9
<1> QED  BY <1>2, <1>3

(* A drain moves units from the queue to the ring. *)
LEMMA DrainHolds ==
  ASSUME IInv, DrainChunk
  PROVE  Held' = Held
<1> DEFINE h == Head(audio_queue)
           t == Tail(audio_queue)
<1>0. /\ audio_queue \in Seq(Chunk) /\ ChunksAscending(audio_queue) /\ audio_queue # <<>>
      /\ ring_samples \in Seq(Nat)
  BY DEF IInv, TypeOK, InOrder, DrainChunk
<1>1. h \in Chunk /\ UnitsIn(audio_queue) = Units(h) \cup UnitsIn(t)
  BY <1>0, PopUnits
<1>2. UnitsOf(h) \in Seq(Nat) /\ Range(UnitsOf(h)) = Units(h)
  BY <1>1, UnitsOfChunk
<1>3. Range(ring_samples \o UnitsOf(h)) = Range(ring_samples) \cup Units(h)
  BY <1>0, <1>2, RangeConcatenation
<1>4. ring_samples' = ring_samples \o UnitsOf(h) /\ audio_queue' = t /\ frame' = frame
  BY DEF DrainChunk, threads
<1>5. Queued = UnitsIn(audio_queue) /\ Queued' = UnitsIn(t)
  BY <1>4 DEF Queued, UnitsIn
<1> HIDE DEF h, t
<1> QED  BY <1>1, <1>3, <1>4, <1>5 DEF Held

(* A flush, or the end of the session, only takes units. *)
LEMMA CutHolds ==
  ASSUME IInv, FadeRing \/ DiscardChunk \/ Terminate
  PROVE  Held' \subseteq Held
<1>0. /\ audio_queue \in Seq(Chunk) /\ ChunksAscending(audio_queue)
      /\ ring_samples \in Seq(Nat) /\ Ascending(ring_samples) /\ flush_keep \in Nat
      /\ Len(ring_samples) \in Nat /\ frame' = frame
  BY LenProperties DEF IInv, TypeOK, InOrder, FadeRing, DiscardChunk, Terminate, threads
<1>1. CASE DiscardChunk
  <2>1. audio_queue' = Tail(audio_queue) /\ audio_queue # <<>> /\ ring_samples' = ring_samples
    BY <1>1 DEF DiscardChunk
  <2>2. Queued = UnitsIn(audio_queue) /\ Queued' = UnitsIn(Tail(audio_queue))
    BY <2>1 DEF Queued, UnitsIn
  <2>3. Queued' \subseteq Queued
    BY <1>0, <2>1, <2>2, PopUnits
  <2> QED  BY <1>0, <2>1, <2>3 DEF Held
<1>2. CASE FadeRing \/ Terminate
  <2>1. audio_queue' = audio_queue
    BY <1>2 DEF FadeRing, Terminate
  <2>2. Queued' = Queued
    BY <2>1 DEF Queued
  <2>3. Range(ring_samples') \subseteq Range(ring_samples)
    <3>1. CASE FadeRing /\ flush_keep > 0 /\ Len(ring_samples) > flush_keep
      <4>1. Range(SubSeq(ring_samples, 1, flush_keep)) \subseteq Range(ring_samples)
        BY <1>0, <3>1, AscendingPart
      <4> QED  BY <3>1, <4>1 DEF FadeRing
    <3>2. CASE Terminate \/ (FadeRing /\ ~(flush_keep > 0 /\ Len(ring_samples) > flush_keep))
      <4>1. ring_samples' = ring_samples \/ ring_samples' = <<>>
        BY <3>2 DEF FadeRing, Terminate
      <4> QED  BY <4>1, EmptyUnits
    <3> QED  BY <1>2, <3>1, <3>2
  <2> QED  BY <1>0, <2>2, <2>3 DEF Held
<1> QED  BY <1>1, <1>2

(* To assemble a frame takes nothing from a ring within its cap, and else the
   oldest units, so that CapUnits are left. *)
LEMMA AssembleHolds ==
  ASSUME IInv, AssembleOne10msFrame
  PROVE  \/ Held' = Held
         \/ /\ Held' \in SUBSET Held
            /\ Before(Held \ Held', Held')
            /\ Cardinality(Held') >= CapUnits
<1> DEFINE r == Capped(ring_samples)
<1>0. /\ ring_samples \in Seq(Nat) /\ Ascending(ring_samples) /\ Len(ring_samples) \in Nat
      /\ audio_queue = <<>> /\ audio_queue' = <<>> /\ frame = <<>>
      /\ CapUnits \in Nat /\ FrameUnits \in Nat
  BY LenProperties, PlaybackAssumption
  DEF IInv, TypeOK, InOrder, RingPlayed, AssembleOne10msFrame
<1>1. r \in Seq(Nat) /\ Ascending(r) /\ Len(r) \in Nat
  BY <1>0, CappedRing, LenProperties
<1>2. Held = Range(ring_samples) /\ Held' = Range(ring_samples') \cup Range(frame')
  <2>1. DOMAIN <<>> = {}
    BY EmptyUnits, LenProperties
  <2>2. Queued = {} /\ Queued' = {}
    BY <1>0, <2>1 DEF Queued
  <2> QED  BY <1>0, <2>2, EmptyUnits DEF Held
<1>3. IF Len(r) >= FrameUnits
      THEN frame' = SubSeq(r, 1, FrameUnits) /\ ring_samples' = SubSeq(r, FrameUnits + 1, Len(r))
      ELSE frame' = <<>> /\ ring_samples' = r
  BY DEF AssembleOne10msFrame
<1>4. Range(r) = Range(ring_samples') \cup Range(frame')
  <2> HIDE DEF r
  <2>1. CASE Len(r) >= FrameUnits
    <3>1. Range(r) = Range(SubSeq(r, 1, FrameUnits)) \cup Range(SubSeq(r, FrameUnits + 1, Len(r)))
      BY <1>0, <1>1, <2>1, CutKeepsUnits
    <3> QED  BY <1>3, <2>1, <3>1
  <2>2. CASE ~(Len(r) >= FrameUnits)
    BY <1>3, <2>2, EmptyUnits
  <2> QED  BY <2>1, <2>2
<1>5. CASE Len(ring_samples) > CapUnits
  <2> DEFINE n == Len(ring_samples) - CapUnits
  <2>1. n \in Nat /\ n + 1 \in Nat \ {0} /\ n <= Len(ring_samples)
    BY <1>0, <1>5
  <2>2. r = SubSeq(ring_samples, n + 1, Len(ring_samples))
    BY <1>5 DEF Capped
  <2>3. Len(r) = IF n + 1 <= Len(ring_samples) THEN Len(ring_samples) - (n + 1) + 1 ELSE 0
    BY <1>0, <2>1, <2>2, AscendingPart
  <2>4. Len(r) = CapUnits
    BY <1>0, <1>5, <2>3
  <2>5. Before(Range(SubSeq(ring_samples, 1, n)), Range(r))
    BY <1>0, <2>1, <2>2, AscendingCut
  <2>6. Range(ring_samples) = Range(SubSeq(ring_samples, 1, n)) \cup Range(r)
    BY <1>0, <2>1, <2>2, CutKeepsUnits
  <2> HIDE DEF n, r
  <2>7. Held' = Range(r)
    BY <1>2, <1>4
  <2>8. Cardinality(Range(r)) = CapUnits
    BY <1>1, <2>4, AscendingCardinality
  <2>9. Held' \in SUBSET Held /\ Held \ Held' \subseteq Range(SubSeq(ring_samples, 1, n))
    BY <1>2, <2>6, <2>7
  <2>10. Before(Held \ Held', Held')
    BY <2>5, <2>7, <2>9 DEF Before
  <2>11. Cardinality(Held') >= CapUnits
    BY <1>0, <2>7, <2>8
  <2> QED  BY <2>9, <2>10, <2>11
<1>6. CASE ~(Len(ring_samples) > CapUnits)
  <2>1. r = ring_samples
    BY <1>6 DEF Capped
  <2> QED  BY <1>2, <1>4, <2>1
<1> QED  BY <1>5, <1>6

(* A frame that is delivered is whole, and the oldest of what is held. *)
LEMMA DeliverHolds ==
  ASSUME IInv, DeliverFrame, frame # <<>>
  PROVE  /\ frame \in [1..FrameUnits -> Held]
         /\ \A i, j \in 1..FrameUnits : i < j => frame[i] < frame[j]
         /\ Before(Range(frame), Held \ Range(frame))
         /\ Held' = Held \ Range(frame)
<1>0. /\ frame \in Seq(Nat) /\ Len(frame) \in {0, FrameUnits} /\ Ascending(frame)
      /\ Before(Range(frame), Range(ring_samples) \cup Queued)
      /\ Held = Queued \cup Range(ring_samples) \cup Range(frame)
      /\ \A u \in Held : u \in 1..accepted
  BY DEF IInv, TypeOK, InOrder, Held
<1>1. Len(frame) # 0
  BY <1>0, EmptySeq
<1>2. /\ DOMAIN frame = 1..FrameUnits /\ Range(frame) = {frame[i] : i \in 1..FrameUnits}
  BY <1>0, <1>1, RangeIndex
<1>3. frame \in [1..FrameUnits -> Held]
  <2>1. frame = [i \in 1..FrameUnits |-> frame[i]]
    BY <1>0, <1>1, LenProperties
  <2>2. \A i \in 1..FrameUnits : frame[i] \in Held
    BY <1>0, <1>2
  <2> QED  BY <2>1, <2>2
<1>4. \A u \in Range(frame) : u \notin Range(ring_samples) \cup Queued
  BY <1>0 DEF Before
<1>5. frame' = <<>> /\ ring_samples' = ring_samples /\ audio_queue' = audio_queue
  BY DEF DeliverFrame, shared
<1>6. Queued' = Queued
  BY <1>5 DEF Queued
<1>7. Held' = Queued \cup Range(ring_samples)
  BY <1>5, <1>6, EmptyUnits DEF Held
<1>8. Held \ Range(frame) = Queued \cup Range(ring_samples)
  BY <1>0, <1>4
<1> QED  BY <1>0, <1>2, <1>3, <1>7, <1>8 DEF Ascending

(* When a flush returns, of what was accepted before it at most the fade and the
   frame under delivery are held. *)
LEMMA FlushLeaves ==
  ASSUME IInv, UnlockFlush
  PROVE  Cardinality({u \in Held : u <= flush_mark}) <= flush_keep + FrameUnits
<1> DEFINE left == {u \in Held : u <= flush_mark}
<1>0. /\ audio_queue = <<>> /\ flusher = "draining"
      /\ ring_samples \in Seq(Nat) /\ frame \in Seq(Nat)
      /\ Ascending(ring_samples) /\ Ascending(frame)
      /\ Len(ring_samples) \in Nat /\ Len(frame) \in Nat
      /\ Len(frame) \in {0, FrameUnits} /\ Len(ring_samples) <= flush_keep
      /\ flush_keep \in Nat /\ FrameUnits \in Nat
  BY LenProperties, PlaybackAssumption DEF IInv, TypeOK, InOrder, FlushUnderWay, UnlockFlush
<1>1. Held = Range(ring_samples) \cup Range(frame)
  <2>1. DOMAIN <<>> = {}
    BY EmptyUnits, LenProperties
  <2>2. Queued = {}
    BY <1>0, <2>1 DEF Queued
  <2> QED  BY <2>2 DEF Held
<1>2. /\ IsFiniteSet(Range(ring_samples)) /\ Cardinality(Range(ring_samples)) = Len(ring_samples)
      /\ IsFiniteSet(Range(frame)) /\ Cardinality(Range(frame)) = Len(frame)
  BY <1>0, AscendingCardinality
<1>3. /\ IsFiniteSet(Held)
      /\ Cardinality(Held) = Cardinality(Range(ring_samples)) + Cardinality(Range(frame))
                               - Cardinality(Range(ring_samples) \cap Range(frame))
  BY <1>1, <1>2, FS_Union
<1>4. Cardinality(Range(ring_samples) \cap Range(frame)) \in Nat
  <2>1. Range(ring_samples) \cap Range(frame) \in SUBSET Range(frame)
    OBVIOUS
  <2>2. IsFiniteSet(Range(ring_samples) \cap Range(frame))
    BY <1>2, <2>1, FS_Subset
  <2> QED  BY <2>2, FS_CardinalityType
<1>5. left \in SUBSET Held
  OBVIOUS
<1> HIDE DEF left
<1>6. Cardinality(left) <= Cardinality(Held) /\ Cardinality(left) \in Nat
  BY <1>3, <1>5, FS_Subset, FS_CardinalityType
<1>7. Cardinality(Held) <= Len(ring_samples) + Len(frame)
  BY <1>0, <1>2, <1>3, <1>4
<1>8. Cardinality(left) <= flush_keep + FrameUnits
  <2>1. Len(frame) <= FrameUnits
    BY <1>0
  <2>2. Cardinality(Held) \in Nat
    BY <1>3, FS_CardinalityType
  <2> QED  BY <1>0, <1>6, <1>7, <2>1, <2>2
<1> QED  BY <1>8 DEF left

-----------------------------------------------------------------------------
(* Every variable keeps its type; the queue never exceeds its capacity and a
   frame is whole or silent. *)
THEOREM TypeCorrect == Spec => []TypeOK
<1>1. IInv => TypeOK
  BY DEF IInv
<1> QED  BY <1>1, Invariance, PTL

(* Audio is played in the order it was accepted, none of it twice, for every
   interleaving of pushes, drains, caps, flushes and the end of the session. *)
THEOREM PlayedInOrder == Spec => []InOrder
<1>1. IInv => InOrder
  BY DEF IInv
<1> QED  BY <1>1, Invariance, PTL

(* The ring is within its latency cap whenever no drain is under way. *)
THEOREM WithinCap == Spec => []LatencyBound
<1>1. IInv => LatencyBound
  BY DEF IInv
<1> QED  BY <1>1, Invariance, PTL

(* No playback_complete event without a speech_generation_complete of its own. *)
THEOREM NoEventUnasked == Spec => []EventsAreOwed
<1>1. IInv => EventsAreOwed
  BY DEF IInv
<1> QED  BY <1>1, Invariance, PTL

(* Barge-in silences the speaker: once FlushAudioBuffer has returned, of all the
   audio accepted before it took the lock no more than the fade it was asked for
   is still to be played, whatever was pushed, drained or capped meanwhile. *)
THEOREM FlushSilences == Spec => []FlushEffective
<1>1. IInv => FlushEffective
  BY DEF IInv
<1> QED  BY <1>1, Invariance, PTL

(* When playback_complete is sent, neither the ring nor the frame under delivery
   holds a unit: what the event overlooks waits in the queue. *)
THEOREM CompletionIsHonest == Spec => []CompletionOverlooksQueueOnly
<1>1. IInv => CompletionOverlooksQueueOnly
  <2> SUFFICES ASSUME IInv, capture = "fire", NEW u \in Held PROVE u \in Queued
    BY DEF CompletionOverlooksQueueOnly
  <2>1. ring_samples = <<>> /\ frame = <<>>
    BY DEF IInv, RingPlayed
  <2>2. Range(ring_samples) = {} /\ Range(frame) = {}
    BY <2>1, EmptyUnits
  <2> QED  BY <2>2 DEF Held
<1> QED  BY <1>1, Invariance, PTL

(* Audio that was accepted leaves the engine by being delivered, by the latency
   cap, by a flush or with the session: no other step loses a unit. *)
THEOREM NoAudioVanishes == Spec => NothingVanishes
<1>1. IInv /\ [Next]_vars =>
        [(flusher = "idle" /\ cleaner = "idle")
           => Held \subseteq Held' \cup Range(delivered') \cup OverCap]_vars
  BY NextKeepsAudio
<1> QED  BY <1>1, Invariance, PTL DEF Spec, NothingVanishes

(* The player has the library's operators under names of its own. *)
LEMMA PlayerCounts == \A S : Player!Cardinality(S) = Cardinality(S)
BY Zenon DEF Player!Cardinality, Cardinality

(* To the orchestrator queue, ring, capture thread, flush and removal are one
   player: each of their steps is a step of it or invisible in it, for every
   interleaving, every frame size, cap, capacity and fade. *)
THEOREM Implementation == Spec => ImplementsPlayer
<1>1. Init => Player!Init
  <2> SUFFICES ASSUME Init PROVE Player!Init
    OBVIOUS
  <2>1. DOMAIN <<>> = {}
    BY EmptyUnits, LenProperties
  <2>2. Held = {}
    BY <2>1, EmptyUnits DEF Init, Held, Queued
  <2> QED  BY <2>2 DEF Init, Player!Init, SessionState
<1>2. IInv /\ [Next]_vars => [Player!Next]_(Player!vars)
  <2> SUFFICES ASSUME IInv, [Next]_vars
               PROVE  Player!Next \/ UNCHANGED Player!vars
    OBVIOUS
  <2> USE DEF shared, threads, history
  <2>0. CleanupUnderWay /\ EventsAreOwed /\ TypeOK
    BY DEF IInv
  <2>1. CASE PushChunk
    <3>1. UNCHANGED <<delivered, completes, fired, flusher, flush_mark, flush_keep, cleaner>>
      BY <2>1 DEF PushChunk
    <3>2. SessionState # "closed" /\ SessionState' = SessionState
      BY <2>1, <3>1 DEF PushChunk, QueueAlive, SessionState
    <3>3. CASE UNCHANGED <<Held, accepted>>
      BY <3>1, <3>2, <3>3 DEF Player!vars
    <3>4. CASE ~UNCHANGED <<Held, accepted>>
      BY <2>1, <3>1, <3>2, <3>4, PushHolds DEF Player!Next, Player!Accept
    <3> QED  BY <3>3, <3>4
  <2>2. ASSUME Held' = Held,
               UNCHANGED <<accepted, delivered, completes, fired, flusher, flush_mark, flush_keep,
                           cleaner>>
        PROVE  UNCHANGED Player!vars
    BY <2>2 DEF Player!vars, SessionState
  <2>h. ASSUME UNCHANGED <<audio_queue, ring_samples, frame>> PROVE Held' = Held
    BY <2>h DEF Held, Queued
  <2>3. CASE \/ CheckMediaFrame \/ Tick \/ ExitLoop \/ CheckCompletion \/ ResetFlag \/ UNCHANGED vars
    <3>1. UNCHANGED <<audio_queue, ring_samples, frame, accepted, delivered, completes, fired, flusher,
                      flush_mark, flush_keep, cleaner>>
      BY <2>3 DEF CheckMediaFrame, Tick, ExitLoop, CheckCompletion, ResetFlag, vars
    <3> QED  BY <2>2, <2>h, <3>1
  <2>4. CASE DrainChunk
    <3>1. UNCHANGED <<accepted, delivered, completes, fired, flusher, flush_mark, flush_keep, cleaner>>
      BY <2>4 DEF DrainChunk
    <3> QED  BY <2>2, <2>4, <3>1, DrainHolds
  <2>5. CASE AssembleOne10msFrame
    <3>1. UNCHANGED <<accepted, delivered, completes, fired, flusher, flush_mark, flush_keep, cleaner>>
      BY <2>5 DEF AssembleOne10msFrame
    <3>2. SessionState # "closed" /\ SessionState' = SessionState
      BY <2>0, <2>5, <3>1 DEF AssembleOne10msFrame, CleanupUnderWay, SessionState
    <3>3. CASE Held' = Held
      BY <2>2, <3>1, <3>3
    <3>4. CASE Held' # Held
      <4>1. /\ Held' \in SUBSET Held /\ Player!Before(Held \ Held', Held')
            /\ Cardinality(Held') >= CapUnits
        BY <2>5, <3>4, AssembleHolds DEF Before, Player!Before
      <4> QED  BY <3>1, <3>2, <4>1, PlayerCounts DEF Player!Next, Player!Skip
    <3> QED  BY <3>3, <3>4
  <2>6. CASE DeliverFrame
    <3>1. /\ UNCHANGED <<accepted, completes, fired, flusher, flush_mark, flush_keep, cleaner>>
          /\ delivered' = delivered \o frame
          /\ frame' = <<>> /\ ring_samples' = ring_samples /\ audio_queue' = audio_queue
      BY <2>6 DEF DeliverFrame
    <3>2. SessionState # "closed" /\ SessionState' = SessionState
      BY <2>0, <2>6, <3>1 DEF DeliverFrame, CleanupUnderWay, SessionState
    <3>3. CASE frame = <<>>
      <4>1. delivered' = delivered
        BY <2>0, <3>1, <3>3, ConcatEmptySeq DEF TypeOK
      <4> QED  BY <2>2, <2>h, <3>1, <3>3, <4>1
    <3>4. CASE frame # <<>>
      <4>1. /\ frame \in [1..FrameUnits -> Held]
            /\ \A i, j \in 1..FrameUnits : i < j => frame[i] < frame[j]
            /\ Player!Before(Player!Range(frame), Held \ Player!Range(frame))
            /\ Held' = Held \ Player!Range(frame)
        BY <2>6, <3>4, DeliverHolds DEF Before, Range, Player!Before, Player!Range
      <4> QED  BY <3>1, <3>2, <4>1 DEF Player!Next, Player!Play
    <3> QED  BY <3>3, <3>4
  <2>7. CASE FireCallback
    <3>1. /\ UNCHANGED <<audio_queue, ring_samples, frame, accepted, delivered, completes, flusher,
                         flush_mark, flush_keep, cleaner>>
          /\ capture = "fire" /\ fired' = fired + 1
      BY <2>7 DEF FireCallback
    <3>2. SessionState # "closed" /\ SessionState' = SessionState
      BY <2>0, <3>1 DEF CleanupUnderWay, SessionState
    <3>3. fired < completes
      BY <2>0, <3>1 DEF EventsAreOwed, TypeOK
    <3> QED  BY <2>h, <3>1, <3>2, <3>3 DEF Player!Next, Player!Announce
  <2>8. CASE SpeechGenerationComplete
    <3>1. /\ UNCHANGED <<audio_queue, ring_samples, frame, accepted, delivered, fired, flusher,
                         flush_mark, flush_keep, cleaner>>
          /\ completes' = completes + 1
      BY <2>8 DEF SpeechGenerationComplete
    <3>2. SessionState # "closed" /\ SessionState' = SessionState
      BY <2>8, <3>1 DEF SpeechGenerationComplete, AdmPresent, SessionState
    <3> QED  BY <2>h, <3>1, <3>2 DEF Player!Next, Player!Ask
  <2>9. ASSUME NEW fade \in FadeUnits, LockForFlush(fade)
        PROVE  Player!Next \/ UNCHANGED Player!vars
    <3>1. /\ UNCHANGED <<audio_queue, ring_samples, frame, accepted, delivered, completes, fired,
                         cleaner>>
          /\ flusher = "idle"
      BY <2>9 DEF LockForFlush, MutexFree
    <3>2. CASE recording
      <4>1. flusher' = "locked" /\ flush_mark' = accepted /\ flush_keep' = fade
        BY <2>9, <3>2 DEF LockForFlush
      <4>2. SessionState = "open" /\ SessionState' = SessionState
        BY <2>0, <3>1, <3>2 DEF CleanupUnderWay, SessionState
      <4> QED  BY <2>h, <3>1, <4>1, <4>2 DEF Player!Next, Player!BeginFlush
    <3>3. CASE ~recording
      <4>1. UNCHANGED <<flusher, flush_mark, flush_keep>>
        BY <2>9, <3>3 DEF LockForFlush
      <4> QED  BY <2>2, <2>h, <3>1, <4>1
    <3> QED  BY <3>2, <3>3
  <2>10. CASE FadeRing
    <3>1. /\ UNCHANGED <<audio_queue, frame, accepted, delivered, completes, fired, flush_mark,
                         flush_keep, cleaner>>
          /\ flusher = "locked" /\ flusher' = "draining"
      BY <2>10 DEF FadeRing
    <3>2. SessionState' = SessionState
      BY <3>1 DEF SessionState
    <3>3. CASE cleaner = "done"
      <4>1. ring_samples = <<>>
        BY <2>0, <3>3 DEF CleanupUnderWay
      <4>2. ring_samples' = ring_samples
        BY <2>10, <4>1, <2>0, EmptyUnits DEF FadeRing, TypeOK
      <4> QED  BY <2>h, <3>1, <3>2, <4>2 DEF Player!vars
    <3>4. CASE cleaner # "done"
      <4>1. SessionState # "closed"
        BY <3>4 DEF SessionState
      <4>2. Held' \in SUBSET Held
        BY <2>10, CutHolds
      <4> QED  BY <3>1, <3>2, <4>1, <4>2 DEF Player!Next, Player!Discard
    <3> QED  BY <3>3, <3>4
  <2>11. CASE DiscardChunk
    <3>1. /\ UNCHANGED <<accepted, delivered, completes, fired, flusher, flush_mark, flush_keep,
                         cleaner>>
          /\ flusher = "draining"
      BY <2>11 DEF DiscardChunk
    <3>2. SessionState # "closed" /\ SessionState' = SessionState
      BY <2>11, <3>1 DEF DiscardChunk, QueueAlive, SessionState
    <3>3. Held' \in SUBSET Held
      BY <2>11, CutHolds
    <3> QED  BY <3>1, <3>2, <3>3 DEF Player!Next, Player!Discard
  <2>12. CASE UnlockFlush
    <3>1. /\ UNCHANGED <<audio_queue, ring_samples, frame, accepted, delivered, completes, fired,
                         flush_mark, flush_keep, cleaner>>
          /\ flusher = "draining" /\ flusher' = "idle"
      BY <2>12 DEF UnlockFlush
    <3>2. SessionState # "closed" /\ SessionState' = SessionState
      BY <2>12, <3>1 DEF UnlockFlush, QueueAlive, SessionState
    <3>3. Player!Cardinality({u \in Held : u <= flush_mark}) <= flush_keep + FrameUnits
      BY <2>12, FlushLeaves, PlayerCounts
    <3> QED  BY <2>h, <3>1, <3>2, <3>3 DEF Player!Next, Player!EndFlush
  <2>13. CASE StopRecording
    <3>1. /\ UNCHANGED <<audio_queue, ring_samples, frame, accepted, delivered, completes, fired,
                         flusher, flush_mark, flush_keep>>
          /\ cleaner = "idle" /\ cleaner' = "joining"
      BY <2>13 DEF StopRecording
    <3>2. SessionState = "open" /\ SessionState' = "ending"
      BY <3>1 DEF SessionState
    <3> QED  BY <2>h, <3>1, <3>2 DEF Player!Next, Player!End
  <2>14. CASE JoinCapture
    <3>1. /\ UNCHANGED <<audio_queue, ring_samples, frame, accepted, delivered, completes, fired,
                         flusher, flush_mark, flush_keep>>
          /\ cleaner = "joining" /\ cleaner' = "terminating"
      BY <2>14 DEF JoinCapture
    <3>2. SessionState' = SessionState
      BY <3>1 DEF SessionState
    <3> QED  BY <2>h, <3>1, <3>2 DEF Player!vars
  <2>15. CASE Terminate
    <3>1. /\ UNCHANGED <<accepted, delivered, completes, fired, flusher, flush_mark, flush_keep>>
          /\ cleaner = "terminating" /\ cleaner' = "resetting"
      BY <2>15 DEF Terminate
    <3>2. SessionState = "ending" /\ SessionState' = SessionState
      BY <3>1 DEF SessionState
    <3>3. Held' \in SUBSET Held
      BY <2>15, CutHolds
    <3> QED  BY <3>1, <3>2, <3>3 DEF Player!Next, Player!Discard
  <2>16. CASE ResetQueue
    <3>1. /\ UNCHANGED <<ring_samples, frame, accepted, delivered, completes, fired, flusher,
                         flush_mark, flush_keep>>
          /\ cleaner = "resetting" /\ cleaner' = "done" /\ audio_queue' = <<>>
      BY <2>16 DEF ResetQueue
    <3>2. SessionState = "ending" /\ SessionState' = "closed"
      BY <3>1 DEF SessionState
    <3>3. ring_samples = <<>> /\ frame = <<>>
      BY <2>0, <3>1 DEF CleanupUnderWay, IInv, RingPlayed
    <3>4. DOMAIN <<>> = {}
      BY EmptyUnits, LenProperties
    <3>5. Held' = {}
      BY <3>1, <3>3, <3>4, EmptyUnits DEF Held, Queued
    <3> QED  BY <3>1, <3>2, <3>5 DEF Player!Next, Player!Close
  <2> QED
    BY <2>1, <2>3, <2>4, <2>5, <2>6, <2>7, <2>8, <2>9, <2>10, <2>11, <2>12, <2>13, <2>14, <2>15, <2>16
    DEF Next, RunCaptureLoop, FlushAudioBuffer, Cleanup
<1> QED  BY <1>1, <1>2, Invariance, PTL DEF Spec, Player!Spec, ImplementsPlayer
=============================================================================
