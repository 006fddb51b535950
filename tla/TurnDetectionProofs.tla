------------------------ MODULE TurnDetectionProofs ------------------------
(***************************************************************************)
(* What TLC checks of TurnDetection on one set of sizes, proved for every  *)
(* capacity, chunk, padding and frame: the buffer of a turn is the latest  *)
(* audio without a gap, and long enough to be padded when it is judged.    *)
(***************************************************************************)
EXTENDS TurnDetection, SequenceTheorems, WellFoundedInduction, TLAPS

-----------------------------------------------------------------------------
(* The remainder of a division is the one there is. *)
LEMMA Remainder ==
  ASSUME NEW m \in Nat \ {0}, NEW a \in Int, NEW q \in Int, NEW r \in 0..(m - 1),
         a = m * q + r
  PROVE  a % m = r
OBVIOUS

(* A size_t holds a number of its range, and one below zero wraps. *)
LEMMA SizeRemainder ==
  ASSUME NEW m \in Nat \ {0}, NEW r \in 0..(m - 1)
  PROVE  r % m = r /\ (r - m) % m = r
<1>1. r % m = r
  OBVIOUS
<1>2. r - m \in Int /\ -1 \in Int /\ r - m = m * (-1) + r
  OBVIOUS
<1>3. (r - m) % m = r
  BY <1>2, Remainder
<1> QED  BY <1>1, <1>3

-----------------------------------------------------------------------------
(* Lemmas about AudioTurnBuffer. *)

(* LastOf is a suffix. *)
LEMMA LastOfProperties ==
  ASSUME NEW S, NEW s \in Seq(S), NEW n \in Nat
  PROVE  /\ LastOf(s, n) \in Seq(S)
         /\ Len(LastOf(s, n)) = IF Len(s) <= n THEN Len(s) ELSE n
         /\ \A i \in 1..Len(LastOf(s, n)) :
              LastOf(s, n)[i] = s[Len(s) - Len(LastOf(s, n)) + i]
<1>0. Len(s) \in Nat
  BY LenProperties
<1>1. CASE Len(s) <= n
  BY <1>0, <1>1 DEF LastOf
<1>2. CASE Len(s) > n
  <2> DEFINE m == Len(s) - n + 1
  <2>1. m \in Int /\ \A i \in m..Len(s) : s[i] \in S
    BY <1>0, <1>2, ElementOfSeq
  <2>2. /\ SubSeq(s, m, Len(s)) \in Seq(S)
        /\ Len(SubSeq(s, m, Len(s))) = IF m <= Len(s) THEN Len(s) - m + 1 ELSE 0
        /\ \A i \in 1..(Len(s) - m + 1) : SubSeq(s, m, Len(s))[i] = s[m + i - 1]
    BY <1>0, <2>1, SubSeqProperties
  <2>3. LastOf(s, n) = SubSeq(s, m, Len(s))
    BY <1>0, <1>2 DEF LastOf
  <2> QED  BY <1>0, <1>2, <2>2, <2>3
<1> QED  BY <1>0, <1>1, <1>2

(* AudioTurnBuffer::Append keeps the last kMaxSamples of the old and the new
   samples together, for every number of new samples a size_t can count, those
   for which samples_to_keep wraps included. *)
THEOREM AppendKeepsLatest ==
  ASSUME NEW S, NEW buffer \in Seq(S), NEW samples \in Seq(S),
         Len(buffer) <= kMaxSamples, Len(samples) < SizeModulus
  PROVE  AppendSamples(buffer, samples) = LastOf(buffer \o samples, kMaxSamples)
<1> DEFINE both == buffer \o samples
           keep == SamplesToKeep(samples)
<1>0. /\ Len(buffer) \in Nat /\ Len(samples) \in Nat
      /\ kMaxSamples \in Nat /\ kMaxSamples > 0
      /\ SizeModulus \in Nat /\ 2 * kMaxSamples <= SizeModulus
  BY LenProperties, AudioTurnBufferAssumption
<1>1. /\ both \in Seq(S)
      /\ Len(both) = Len(buffer) + Len(samples)
      /\ \A i \in 1..(Len(buffer) + Len(samples)) :
           both[i] = IF i <= Len(buffer) THEN buffer[i] ELSE samples[i - Len(buffer)]
  BY ConcatProperties
<1> DEFINE last == LastOf(both, kMaxSamples)
<1>2. /\ last \in Seq(S)
      /\ Len(last) = IF Len(both) <= kMaxSamples THEN Len(both) ELSE kMaxSamples
      /\ \A i \in 1..Len(last) : last[i] = both[Len(both) - Len(last) + i]
  BY <1>0, <1>1, LastOfProperties
<1> HIDE DEF both, last
<1>3. CASE ~Exceeds(buffer, samples)
  <2>1. AppendSamples(buffer, samples) = both
    BY <1>3 DEF AppendSamples, both
  <2>2. last = both
    BY <1>0, <1>1, <1>3 DEF Exceeds, last, LastOf
  <2> QED  BY <2>1, <2>2 DEF last, both
<1>4. CASE Exceeds(buffer, samples) /\ Len(samples) < kMaxSamples
  <2>1. keep = kMaxSamples - Len(samples)
    <3> DEFINE d == kMaxSamples - Len(samples)
    <3>1. /\ d \in 0..(SizeModulus - 1) /\ d \in Int
          /\ SizeModulus \in Nat \ {0}
      BY <1>0, <1>4
    <3> HIDE DEF d
    <3>2. d % SizeModulus = d
      BY <3>1, SizeRemainder
    <3> QED  BY <3>2 DEF SamplesToKeep, d
  <2> HIDE DEF keep
  <2>2. keep \in Nat /\ keep > 0 /\ keep < Len(buffer)
    BY <1>0, <1>4, <2>1 DEF Exceeds
  <2> DEFINE old == LastOf(buffer, keep)
  <2>3. AppendSamples(buffer, samples) = old \o samples
    BY <1>4, <2>2 DEF AppendSamples, keep
  <2>4. /\ old \in Seq(S)
        /\ Len(old) = keep
        /\ \A i \in 1..keep : old[i] = buffer[Len(buffer) - keep + i]
    BY <1>0, <2>2, LastOfProperties
  <2> HIDE DEF old
  <2>5. /\ old \o samples \in Seq(S)
        /\ Len(old \o samples) = keep + Len(samples)
        /\ \A i \in 1..(keep + Len(samples)) :
             (old \o samples)[i] = IF i <= keep THEN old[i] ELSE samples[i - keep]
    BY <2>4, ConcatProperties
  <2>6. Len(last) = kMaxSamples /\ Len(both) - Len(last) = Len(buffer) - keep
    <3>1. Len(both) > kMaxSamples
      BY <1>0, <1>1, <1>4 DEF Exceeds
    <3>2. Len(last) = kMaxSamples
      BY <1>0, <1>1, <1>2, <3>1
    <3> QED  BY <1>0, <1>1, <2>1, <3>2
  <2>7. ASSUME NEW i \in 1..kMaxSamples PROVE (old \o samples)[i] = last[i]
    <3>1. /\ i \in 1..(keep + Len(samples))
          /\ Len(buffer) - keep + i \in 1..(Len(buffer) + Len(samples))
      BY <1>0, <2>1, <2>2
    <3>2. last[i] = both[Len(buffer) - keep + i]
      BY <1>2, <2>6
    <3>3. CASE i <= keep
      <4>1. Len(buffer) - keep + i <= Len(buffer) /\ i \in 1..keep
        BY <1>0, <2>2, <3>3
      <4> QED  BY <1>1, <2>4, <2>5, <3>1, <3>2, <3>3, <4>1
    <3>4. CASE i > keep
      <4> DEFINE j == Len(buffer) - keep + i
      <4>1. /\ j \in 1..(Len(buffer) + Len(samples))
            /\ ~(j <= Len(buffer)) /\ ~(i <= keep)
            /\ j - Len(buffer) = i - keep
        BY <1>0, <2>2, <3>1, <3>4
      <4> HIDE DEF j
      <4>2. both[j] = samples[i - keep]
        BY <1>1, <4>1
      <4>3. (old \o samples)[i] = samples[i - keep]
        BY <2>5, <3>1, <4>1
      <4> QED  BY <3>2, <4>2, <4>3 DEF j
    <3>5. i <= keep \/ i > keep
      BY <1>0, <2>2
    <3> QED  BY <3>3, <3>4, <3>5
  <2>8. Len(old \o samples) = Len(last)
    BY <1>0, <2>1, <2>5, <2>6
  <2>9. old \o samples = last
    BY <1>2, <2>5, <2>6, <2>7, <2>8, SeqEqual
  <2> QED  BY <2>3, <2>9 DEF last, both
<1>5. CASE Exceeds(buffer, samples) /\ Len(samples) >= kMaxSamples
  <2>1. ~(keep > 0 /\ keep < Len(buffer))
    <3>1. CASE Len(samples) = kMaxSamples
      BY <1>0, <3>1 DEF SamplesToKeep
    <3>2. CASE Len(samples) > kMaxSamples
      <4>1. kMaxSamples - Len(samples) + SizeModulus \in 0..(SizeModulus - 1)
        BY <1>0, <3>2
      <4>2. keep = kMaxSamples - Len(samples) + SizeModulus
        <5> DEFINE d == kMaxSamples - Len(samples)
                   r == d + SizeModulus
        <5>1. /\ r \in 0..(SizeModulus - 1) /\ d \in Int
              /\ SizeModulus \in Nat \ {0}
          BY <1>0, <4>1
        <5>2. d = r - SizeModulus
          BY <5>1
        <5> HIDE DEF d, r
        <5>3. d % SizeModulus = r
          BY <5>1, <5>2, SizeRemainder
        <5> QED  BY <5>3 DEF SamplesToKeep, d, r
      <4> QED  BY <1>0, <4>2
    <3> QED  BY <1>0, <1>5, <3>1, <3>2
  <2>2. AppendSamples(buffer, samples) = LastOf(samples, kMaxSamples)
    BY <1>5, <2>1 DEF AppendSamples
  <2> DEFINE new == LastOf(samples, kMaxSamples)
  <2>3. /\ new \in Seq(S)
        /\ Len(new) = kMaxSamples
        /\ \A i \in 1..kMaxSamples : new[i] = samples[Len(samples) - kMaxSamples + i]
    <3>1. /\ new \in Seq(S)
          /\ Len(new) = IF Len(samples) <= kMaxSamples THEN Len(samples) ELSE kMaxSamples
          /\ \A i \in 1..Len(new) : new[i] = samples[Len(samples) - Len(new) + i]
      BY <1>0, LastOfProperties
    <3> HIDE DEF new
    <3>2. Len(new) = kMaxSamples
      BY <1>0, <1>5, <3>1
    <3> QED  BY <3>1, <3>2
  <2> HIDE DEF new
  <2>4. Len(last) = kMaxSamples
    BY <1>0, <1>1, <1>2, <1>5 DEF Exceeds
  <2>5. ASSUME NEW i \in 1..kMaxSamples PROVE new[i] = last[i]
    <3> DEFINE j == Len(buffer) + Len(samples) - kMaxSamples + i
    <3>1. /\ j \in 1..(Len(buffer) + Len(samples)) /\ ~(j <= Len(buffer))
          /\ j - Len(buffer) = Len(samples) - kMaxSamples + i
      BY <1>0, <1>5
    <3>2. last[i] = both[j]
      BY <1>1, <1>2, <2>4
    <3> HIDE DEF j
    <3> QED  BY <1>1, <2>3, <3>1, <3>2
  <2>6. new = last
    BY <1>2, <2>3, <2>4, <2>5, SeqEqual
  <2> QED  BY <2>2, <2>6 DEF new, last, both
<1> QED  BY <1>0, <1>3, <1>4, <1>5

-----------------------------------------------------------------------------
(* Stretches of audio: n consecutive samples, the first of them after a. *)
Run(a, n) == [k \in 1..n |-> a + k]

LEMMA RunProperties ==
  ASSUME NEW a \in Int, NEW n \in Nat
  PROVE  /\ Run(a, n) \in Seq(Int)
         /\ Len(Run(a, n)) = n
         /\ \A k \in 1..n : Run(a, n)[k] = a + k
<1>1. Run(a, n) \in [1..n -> Int]
  BY DEF Run
<1>2. Run(a, n) \in Seq(Int)
  BY <1>1, SeqDef
<1>3. DOMAIN Run(a, n) = 1..n /\ DOMAIN Run(a, n) = 1..Len(Run(a, n)) /\ Len(Run(a, n)) \in Nat
  BY <1>1, <1>2, LenProperties
<1>4. Len(Run(a, n)) = n
  BY <1>3
<1> QED  BY <1>2, <1>4 DEF Run

(* Adjacent stretches join. *)
LEMMA RunConcat ==
  ASSUME NEW a \in Int, NEW m \in Nat, NEW n \in Nat
  PROVE  Run(a, m) \o Run(a + m, n) = Run(a, m + n)
<1> DEFINE s == Run(a, m)
           t == Run(a + m, n)
           u == Run(a, m + n)
<1>1. /\ s \in Seq(Int) /\ Len(s) = m /\ \A k \in 1..m : s[k] = a + k
      /\ t \in Seq(Int) /\ Len(t) = n /\ \A k \in 1..n : t[k] = a + m + k
      /\ u \in Seq(Int) /\ Len(u) = m + n /\ \A k \in 1..(m + n) : u[k] = a + k
  BY RunProperties
<1> HIDE DEF s, t, u
<1>2. /\ s \o t \in Seq(Int)
      /\ Len(s \o t) = m + n
      /\ \A k \in 1..(m + n) : (s \o t)[k] = IF k <= m THEN s[k] ELSE t[k - m]
  BY <1>1, ConcatProperties
<1>3. ASSUME NEW k \in 1..(m + n) PROVE (s \o t)[k] = u[k]
  <2>1. CASE k <= m
    BY <1>1, <1>2, <2>1
  <2>2. CASE k > m
    <3>1. k - m \in 1..n /\ ~(k <= m)
      BY <2>2
    <3>2. t[k - m] = a + m + (k - m)
      BY <1>1, <3>1
    <3> QED  BY <1>1, <1>2, <3>1, <3>2
  <2>3. k <= m \/ k > m
    OBVIOUS
  <2> QED  BY <2>1, <2>2, <2>3
<1> QED  BY <1>1, <1>2, <1>3, SeqEqual DEF s, t, u

(* What is left of a stretch without its first k samples. *)
LEMMA RunCut ==
  ASSUME NEW a \in Int, NEW m \in Nat, NEW k \in 0..m
  PROVE  SubSeq(Run(a, m), k + 1, m) = Run(a + k, m - k)
<1> DEFINE s == Run(a, m)
           t == Run(a + k, m - k)
           c == SubSeq(s, k + 1, m)
<1>0. a + k \in Int /\ m - k \in Nat
  OBVIOUS
<1>1. /\ s \in Seq(Int) /\ Len(s) = m /\ \A j \in 1..m : s[j] = a + j
      /\ t \in Seq(Int) /\ Len(t) = m - k /\ \A j \in 1..(m - k) : t[j] = a + k + j
  BY <1>0, RunProperties
<1> HIDE DEF s, t
<1>2. k + 1 \in Int /\ m \in Int /\ \A j \in (k + 1)..m : s[j] \in Int
  BY <1>1
<1>3. /\ c \in Seq(Int)
      /\ Len(c) = IF k + 1 <= m THEN m - (k + 1) + 1 ELSE 0
      /\ \A j \in 1..(m - (k + 1) + 1) : c[j] = s[k + 1 + j - 1]
  BY <1>2, SubSeqProperties
<1> HIDE DEF c
<1>4. Len(c) = m - k
  BY <1>3
<1>5. ASSUME NEW j \in 1..(m - k) PROVE c[j] = t[j]
  <2>1. j \in 1..(m - (k + 1) + 1) /\ k + 1 + j - 1 = k + j /\ k + j \in 1..m
    OBVIOUS
  <2>2. c[j] = s[k + j]
    BY <1>3, <2>1
  <2>3. s[k + j] = a + k + j
    BY <1>1, <2>1
  <2> QED  BY <1>1, <2>2, <2>3
<1> QED  BY <1>1, <1>3, <1>4, <1>5, SeqEqual DEF s, t, c

LEMMA RunLast ==
  ASSUME NEW a \in Int, NEW m \in Nat, NEW n \in Nat
  PROVE  LastOf(Run(a, m), n) = IF m <= n THEN Run(a, m) ELSE Run(a + m - n, n)
<1>1. Len(Run(a, m)) = m
  BY RunProperties
<1>2. CASE m <= n
  BY <1>1, <1>2 DEF LastOf
<1>3. CASE m > n
  <2> DEFINE k == m - n
  <2>1. k \in 0..m /\ m - k = n /\ a + k = a + m - n
    BY <1>3
  <2>2. SubSeq(Run(a, m), k + 1, m) = Run(a + k, m - k)
    BY <2>1, RunCut
  <2> QED  BY <1>1, <1>3, <2>1, <2>2 DEF LastOf
<1> QED  BY <1>2, <1>3

-----------------------------------------------------------------------------
(* The inductive invariant.  RecentAudio says that the rests of a frame add up
   to whole chunks; that they do is seen by counting the chunks (WholeChunks).
   EnoughToReflect rests on how little of the audio before a turn can be left in
   the accumulator when the turn begins (Rests): less than what one frame adds,
   so that most of the next chunk is audio of the turn. *)
KeptOf(n) == IF n < kMaxSamples THEN n ELSE kMaxSamples

Newest ==
  /\ turn_buffer = Latest(KeptOf(heard - cleared))
  /\ vad_accumulator = Latest(Len(vad_accumulator))
  /\ Len(vad_accumulator) \in 0..heard

WholeChunks == \E q \in Nat : heard - Len(vad_accumulator) = kVadChunkSize * q

Rests ==
  /\ Len(vad_accumulator) < heard - cleared + MaxResampled
  /\ Len(vad_accumulator) < kVadChunkSize + MaxResampled
  /\ phase = "listen" => Len(vad_accumulator) < kVadChunkSize
  /\ phase = "compute" => /\ heard - cleared > stage_2_pad
                          /\ Len(vad_accumulator) < MaxResampled

Counters ==
  /\ heard \in 0..MaxHeard /\ cleared \in 0..heard
  /\ current_state \in VadState /\ phase \in {"listen", "chunk", "compute"}
  /\ n_threads \in ThreadCounts

IInv == Counters /\ Newest /\ WholeChunks /\ Rests

(* What the assumptions say of the sizes. *)
LEMMA Sizes ==
  /\ kMaxSamples \in Nat /\ kVadChunkSize \in Nat /\ MaxResampled \in Nat /\ MaxHeard \in Nat
  /\ stage_2_pad \in Nat /\ SizeModulus \in Nat
  /\ kVadChunkSize > 0 /\ MaxResampled > 0 /\ kMaxSamples > 0
  /\ kVadChunkSize <= kMaxSamples
  /\ MaxResampled + stage_2_pad <= kVadChunkSize
  /\ kMaxSamples < SizeModulus
<1>1. kFFTSize \in Nat
  BY LogMelAssumption
<1>2. stage_2_pad \in Nat
  BY <1>1 DEF stage_2_pad
<1> QED  BY <1>2, AudioTurnBufferAssumption, TurnDetectionAssumption

(* Latest is a stretch that ends with the sample heard last. *)
LEMMA LatestProperties ==
  ASSUME heard \in Nat, NEW n \in 0..heard
  PROVE  /\ Latest(n) = Run(heard - n, n)
         /\ Len(Latest(n)) = n
         /\ Latest(n) \in Seq(1..heard)
<1>1. Latest(n) = Run(heard - n, n)
  BY DEF Latest, Run
<1>2. Len(Run(heard - n, n)) = n
  BY RunProperties
<1>3. Latest(n) \in [1..n -> 1..heard]
  BY DEF Latest
<1> QED  BY <1>1, <1>2, <1>3, SeqDef

LEMMA InitIInv == Init => IInv
<1> SUFFICES ASSUME Init PROVE IInv
  OBVIOUS
<1>1. heard = 0 /\ cleared = 0 /\ turn_buffer = <<>> /\ vad_accumulator = <<>>
  BY DEF Init
<1>2. Len(<<>>) = 0
  BY EmptySeq
<1>3. Latest(0) = <<>>
  <2>1. Latest(0) \in Seq(1..0) /\ Len(Latest(0)) = 0
    BY <1>1, LatestProperties
  <2> QED  BY <2>1, EmptySeq
<1>4. Newest
  <2>1. KeptOf(heard - cleared) = 0
    BY <1>1, Sizes DEF KeptOf
  <2> QED  BY <1>1, <1>2, <1>3, <2>1 DEF Newest
<1>5. WholeChunks
  <2>1. heard - Len(vad_accumulator) = kVadChunkSize * 0
    BY <1>1, <1>2, Sizes
  <2> QED  BY <2>1 DEF WholeChunks
<1>6. Rests
  BY <1>1, <1>2, Sizes DEF Rests, Init
<1>7. Counters
  BY <1>1, Sizes DEF Counters, Init, VadState
<1> QED  BY <1>4, <1>5, <1>6, <1>7 DEF IInv

(* A frame is appended to the turn buffer and to the accumulator. *)
LEMMA ProcessAudioIInv ==
  ASSUME IInv, NEW samples \in 0..MaxResampled, ProcessAudio(samples)
  PROVE  IInv'
<1> DEFINE new  == Run(heard, samples)
           n    == KeptOf(heard - cleared)
           rest == Len(vad_accumulator)
<1>0. /\ heard \in Nat /\ cleared \in 0..heard /\ samples \in Nat
      /\ heard' = heard + samples /\ cleared' = cleared
      /\ heard' \in Nat /\ heard' <= MaxHeard
      /\ rest \in 0..heard
      /\ turn_buffer = Latest(n) /\ vad_accumulator = Latest(rest)
      /\ n \in 0..heard /\ n <= kMaxSamples /\ n <= heard - cleared
  BY Sizes DEF IInv, Counters, Newest, KeptOf, ProcessAudio
<1>1. new \in Seq(Int) /\ Len(new) = samples
  BY <1>0, RunProperties
<1>2. turn_buffer' = AppendSamples(turn_buffer, new) /\ vad_accumulator' = vad_accumulator \o new
  BY DEF ProcessAudio, Run
<1>3. /\ turn_buffer = Run(heard - n, n) /\ Len(turn_buffer) = n
      /\ vad_accumulator = Run(heard - rest, rest)
  BY <1>0, LatestProperties
<1>4. /\ heard - n \in Int /\ n \in Nat /\ heard - n + n = heard
      /\ heard - rest \in Int /\ rest \in Nat /\ heard - rest + rest = heard
  BY <1>0
<1> HIDE DEF n, rest
<1>5. /\ turn_buffer \o new = Run(heard - n, n + samples)
      /\ vad_accumulator \o new = Run(heard - rest, rest + samples)
  <2>1. turn_buffer \o new = Run(heard - n, n) \o Run(heard - n + n, samples)
    BY <1>3, <1>4
  <2>2. vad_accumulator \o new = Run(heard - rest, rest) \o Run(heard - rest + rest, samples)
    BY <1>3, <1>4
  <2> QED  BY <1>0, <1>4, <2>1, <2>2, RunConcat
<1> HIDE DEF new
<1>6. vad_accumulator' = Run(heard - rest, rest + samples) /\ Len(vad_accumulator') = rest + samples
  BY <1>0, <1>2, <1>4, <1>5, RunProperties
<1>7. turn_buffer' = LastOf(Run(heard - n, n + samples), kMaxSamples)
  <2>1. turn_buffer \in Seq(Int)
    BY <1>3, <1>4, RunProperties
  <2>2. Len(turn_buffer) <= kMaxSamples /\ Len(new) < SizeModulus
    BY <1>0, <1>1, <1>3, Sizes
  <2> QED  BY <1>1, <1>2, <1>5, <2>1, <2>2, AppendKeepsLatest
<1>8. Newest'
  <2> DEFINE k == KeptOf(heard' - cleared')
  <2>1. /\ k \in 0..heard'
        /\ IF n + samples <= kMaxSamples
           THEN k = n + samples /\ heard' - k = heard - n
           ELSE k = kMaxSamples /\ heard' - k = heard - n + (n + samples) - kMaxSamples
    BY <1>0, Sizes DEF n, KeptOf
  <2> HIDE DEF k
  <2>2. turn_buffer' = Run(heard' - k, k)
    <3>1. heard - n \in Int /\ n + samples \in Nat /\ kMaxSamples \in Nat
      BY <1>0, <1>4, Sizes
    <3> DEFINE m == n + samples
               a == heard - n
    <3> HIDE DEF m, a
    <3>2. a \in Int /\ m \in Nat /\ kMaxSamples \in Nat
      BY <3>1 DEF m, a
    <3>3. LastOf(Run(a, m), kMaxSamples) =
            IF m <= kMaxSamples THEN Run(a, m) ELSE Run(a + m - kMaxSamples, kMaxSamples)
      BY <3>2, RunLast
    <3> QED  BY <1>7, <2>1, <3>3 DEF m, a
  <2>3. turn_buffer' = [j \in 1..k |-> heard' - k + j]
    BY <2>2 DEF Run
  <2>4. /\ rest + samples \in 0..heard' /\ heard' - (rest + samples) = heard - rest
    BY <1>0, <1>4
  <2>5. vad_accumulator' = [j \in 1..(rest + samples) |-> heard' - (rest + samples) + j]
    BY <1>6, <2>4 DEF Run
  <2> QED  BY <1>6, <2>3, <2>4, <2>5 DEF Newest, Latest, k
<1>9. WholeChunks'
  <2>1. PICK q \in Nat : heard - rest = kVadChunkSize * q
    BY DEF IInv, WholeChunks, rest
  <2>2. heard' - Len(vad_accumulator') = heard - rest
    BY <1>0, <1>4, <1>6
  <2> QED  BY <2>1, <2>2 DEF WholeChunks
<1>10. Rests'
  <2>1. phase = "listen" /\ phase' = "chunk"
    BY DEF ProcessAudio
  <2>2. rest < heard - cleared + MaxResampled /\ rest < kVadChunkSize
    BY <2>1 DEF IInv, Rests, rest
  <2> QED  BY <1>0, <1>4, <1>6, <2>1, <2>2, Sizes DEF Rests
<1>11. Counters'
  BY <1>0 DEF IInv, Counters, ProcessAudio
<1> QED  BY <1>8, <1>9, <1>10, <1>11 DEF IInv

(* The turn buffer is what was heard since it was cleared, kept or cleared. *)
LEMMA BufferKeptOrCleared ==
  ASSUME heard \in Nat, heard' = heard, cleared \in 0..heard,
         turn_buffer = Latest(KeptOf(heard - cleared)), KeepBuffer \/ ClearBuffer
  PROVE  turn_buffer' = [k \in 1..KeptOf(heard' - cleared') |->
                           heard' - KeptOf(heard' - cleared') + k]
<1>1. CASE KeepBuffer
  BY <1>1 DEF KeepBuffer, Latest
<1>2. CASE ClearBuffer
  <2>1. turn_buffer' = <<>> /\ cleared' = heard
    BY <1>2 DEF ClearBuffer
  <2>2. KeptOf(heard' - cleared') = 0 /\ 0 \in 0..heard
    BY <2>1, Sizes DEF KeptOf
  <2>3. Latest(0) = <<>>
    <3>1. Latest(0) \in Seq(1..heard) /\ Len(Latest(0)) = 0
      BY <2>2, LatestProperties
    <3> QED  BY <3>1, EmptySeq
  <2>4. Latest(0) = [k \in 1..0 |-> heard' - 0 + k]
    BY DEF Latest
  <2> QED  BY <2>1, <2>2, <2>3, <2>4
<1> QED  BY <1>1, <1>2

(* A chunk leaves the accumulator; the turn buffer is kept or cleared. *)
LEMMA TakeChunkIInv ==
  ASSUME IInv, phase = "chunk", TakeChunk, KeepBuffer \/ ClearBuffer,
         current_state' \in VadState,
         phase' = "chunk" \/ (phase' = "compute" /\ KeepBuffer)
  PROVE  IInv'
<1> DEFINE rest == Len(vad_accumulator)
           left == rest - kVadChunkSize
<1>0. /\ heard \in Nat /\ heard <= MaxHeard /\ cleared \in 0..heard /\ heard' = heard
      /\ rest \in 0..heard /\ rest >= kVadChunkSize
      /\ vad_accumulator = Latest(rest)
      /\ vad_accumulator' = SubSeq(vad_accumulator, kVadChunkSize + 1, rest)
  BY Sizes DEF IInv, Counters, Newest, TakeChunk
<1> HIDE DEF rest
<1>1. /\ left \in 0..heard /\ rest - kVadChunkSize = left
      /\ heard - rest + kVadChunkSize = heard - left
      /\ kVadChunkSize \in 0..rest /\ heard - rest \in Int /\ rest \in Nat
      /\ left \in Nat /\ heard - left \in Int
  BY <1>0, Sizes
<1> HIDE DEF left
<1>2. vad_accumulator' = Run(heard - left, left)
  <2>1. vad_accumulator = Run(heard - rest, rest)
    BY <1>0, LatestProperties
  <2>2. SubSeq(Run(heard - rest, rest), kVadChunkSize + 1, rest)
          = Run(heard - rest + kVadChunkSize, rest - kVadChunkSize)
    BY <1>1, RunCut
  <2> QED  BY <1>0, <1>1, <2>1, <2>2
<1>3. Len(vad_accumulator') = left
  BY <1>1, <1>2, RunProperties
<1>4. /\ rest < heard - cleared + MaxResampled
      /\ rest < kVadChunkSize + MaxResampled
  BY DEF IInv, Rests, rest
<1>5. left < MaxResampled /\ left < kVadChunkSize + MaxResampled
  BY <1>0, <1>1, <1>4, Sizes
<1>6. KeepBuffer => cleared' = cleared /\ turn_buffer' = turn_buffer
  BY DEF KeepBuffer
<1>7. ClearBuffer => cleared' = heard /\ turn_buffer' = <<>>
  BY DEF ClearBuffer
<1>8. Newest'
  <2>1. vad_accumulator' = [k \in 1..left |-> heard' - left + k]
    BY <1>0, <1>2 DEF Run
  <2>2. turn_buffer' = [k \in 1..KeptOf(heard' - cleared') |->
                          heard' - KeptOf(heard' - cleared') + k]
    BY <1>0, BufferKeptOrCleared DEF IInv, Newest
  <2> QED  BY <1>0, <1>1, <1>3, <2>1, <2>2 DEF Newest, Latest
<1>9. WholeChunks'
  <2>1. PICK q \in Nat : heard - rest = kVadChunkSize * q
    BY DEF IInv, WholeChunks, rest
  <2>2. heard - left = kVadChunkSize * (q + 1) /\ q + 1 \in Nat
    BY <1>1, <2>1, Sizes
  <2>3. heard' - Len(vad_accumulator') = kVadChunkSize * (q + 1)
    BY <1>0, <1>3, <2>2
  <2> QED  BY <2>2, <2>3 DEF WholeChunks
<1>10. cleared' \in 0..heard /\ left < heard - cleared' + MaxResampled
  <2>1. CASE KeepBuffer
    BY <1>0, <1>1, <1>4, <1>6, <2>1, Sizes
  <2>2. CASE ClearBuffer
    BY <1>0, <1>1, <1>5, <1>7, <2>2, Sizes
  <2> QED  BY <2>1, <2>2
<1>11. Rests'
  <2>1. phase' = "compute" => heard - cleared' > stage_2_pad
    BY <1>0, <1>4, <1>6, Sizes
  <2>2. phase' # "listen"
    OBVIOUS
  <2> QED  BY <1>0, <1>1, <1>3, <1>5, <1>10, <2>1, <2>2 DEF Rests
<1>12. Counters'
  BY <1>0, <1>10 DEF IInv, Counters, TakeChunk
<1> QED  BY <1>8, <1>9, <1>11, <1>12 DEF IInv

(* The model has judged, or failed. *)
LEMMA JudgedIInv ==
  ASSUME IInv, NEW state \in VadState, Judged(state), KeepBuffer \/ ClearBuffer
  PROVE  IInv'
<1> DEFINE rest == Len(vad_accumulator)
<1>0. /\ heard \in Nat /\ heard <= MaxHeard /\ cleared \in 0..heard /\ heard' = heard
      /\ rest \in 0..heard /\ rest < MaxResampled /\ rest < heard - cleared + MaxResampled
      /\ vad_accumulator = Latest(rest) /\ vad_accumulator' = vad_accumulator
      /\ phase' = "chunk"
  BY Sizes DEF IInv, Counters, Newest, Rests, Judged
<1> HIDE DEF rest
<1>1. KeepBuffer => cleared' = cleared /\ turn_buffer' = turn_buffer
  BY DEF KeepBuffer
<1>2. ClearBuffer => cleared' = heard /\ turn_buffer' = <<>>
  BY DEF ClearBuffer
<1>3. Newest'
  <2>1. turn_buffer' = [k \in 1..KeptOf(heard' - cleared') |->
                          heard' - KeptOf(heard' - cleared') + k]
    BY <1>0, BufferKeptOrCleared DEF IInv, Newest
  <2>2. Len(vad_accumulator') = rest
    BY <1>0 DEF rest
  <2> QED  BY <1>0, <2>1, <2>2 DEF Newest, Latest
<1>4. WholeChunks'
  BY <1>0 DEF IInv, WholeChunks
<1>5. cleared' \in 0..heard /\ rest < heard - cleared' + MaxResampled
  BY <1>0, <1>1, <1>2, Sizes
<1>6. Rests'
  <2>1. Len(vad_accumulator') = rest
    BY <1>0 DEF rest
  <2>2. phase' # "listen" /\ phase' # "compute"
    BY <1>0
  <2>3. rest < kVadChunkSize + MaxResampled
    BY <1>0, Sizes
  <2> QED  BY <1>0, <1>5, <2>1, <2>2, <2>3 DEF Rests
<1>7. Counters'
  BY <1>0, <1>5 DEF IInv, Counters, Judged
<1> QED  BY <1>3, <1>4, <1>6, <1>7 DEF IInv

(* What the loop of ProcessAudio does with a chunk. *)
LEMMA ChunkIInv ==
  ASSUME IInv, phase = "chunk",
         \/ ChunkIgnored \/ Pause \/ ResumeSpeech \/ HandleSpeechDetected
         \/ TreatAsBackchannel \/ TriggerSmartTurnDetection
  PROVE  IInv'
<1>0. current_state \in VadState
  BY DEF IInv, Counters
<1>1. CASE ChunkIgnored \/ Pause \/ ResumeSpeech
  BY <1>0, <1>1, TakeChunkIInv
     DEF ChunkIgnored, Pause, ResumeSpeech, GoOn, VadState
<1>2. CASE HandleSpeechDetected \/ TreatAsBackchannel
  BY <1>2, TakeChunkIInv DEF HandleSpeechDetected, TreatAsBackchannel, VadState
<1>3. CASE TriggerSmartTurnDetection
  BY <1>3, TakeChunkIInv DEF TriggerSmartTurnDetection, VadState
<1> QED  BY <1>1, <1>2, <1>3

LEMMA NextIInv == IInv /\ [Next]_vars => IInv'
<1> SUFFICES ASSUME IInv, [Next]_vars PROVE IInv'
  OBVIOUS
<1>1. CASE \E samples \in 0..MaxResampled : ProcessAudio(samples)
  BY <1>1, ProcessAudioIInv
<1>2. CASE KeepRest
  <2>1. UNCHANGED <<heard, cleared, turn_buffer, vad_accumulator>>
        /\ phase' = "listen" /\ Len(vad_accumulator) < kVadChunkSize
        /\ UNCHANGED <<current_state, n_threads>>
    BY <1>2 DEF KeepRest, audio
  <2>2. Newest' /\ WholeChunks' /\ Counters'
    BY <2>1 DEF IInv, Newest, WholeChunks, Counters, Latest
  <2>3. Rests'
    BY <2>1 DEF IInv, Rests
  <2> QED  BY <2>2, <2>3 DEF IInv
<1>3. CASE \/ ChunkIgnored \/ Pause \/ ResumeSpeech \/ HandleSpeechDetected
           \/ TreatAsBackchannel \/ TriggerSmartTurnDetection
  <2>1. phase = "chunk"
    BY <1>3 DEF ChunkIgnored, Pause, ResumeSpeech, HandleSpeechDetected,
                TreatAsBackchannel, TriggerSmartTurnDetection, GoOn, TakeChunk
  <2> QED  BY <1>3, <2>1, ChunkIInv
<1>4. CASE TurnCompletes \/ TurnWaits \/ TurnFails
  BY <1>4, JudgedIInv DEF TurnCompletes, TurnWaits, TurnFails, VadState
<1>5. CASE \/ phase = "compute" /\ \E t \in Workers : WorkerThread(t)
           \/ UNCHANGED vars
  <2>1. UNCHANGED <<heard, cleared, turn_buffer, vad_accumulator, current_state, phase, n_threads>>
    BY <1>5 DEF WorkerThread, ComputeColumn, FillWithSilence, WriteColumn, audio, vars
  <2> QED  BY <2>1 DEF IInv, Newest, WholeChunks, Counters, Rests, Latest
<1> QED  BY <1>1, <1>2, <1>3, <1>4, <1>5 DEF Next

LEMMA Invariance == Spec => []IInv
BY InitIInv, NextIInv, PTL DEF Spec

-----------------------------------------------------------------------------
LEMMA IInvTypeOK == IInv => TypeOK
<1> SUFFICES ASSUME IInv PROVE TypeOK
  OBVIOUS
<1>1. heard \in 0..MaxHeard /\ cleared \in 0..heard /\ heard \in Nat /\ heard <= MaxHeard
  BY Sizes DEF IInv, Counters
<1>2. /\ KeptOf(heard - cleared) \in 0..heard /\ Len(vad_accumulator) \in 0..heard
      /\ turn_buffer = Latest(KeptOf(heard - cleared))
      /\ vad_accumulator = Latest(Len(vad_accumulator))
  BY <1>1, Sizes DEF IInv, Newest, KeptOf
<1>3. turn_buffer \in Seq(1..heard) /\ vad_accumulator \in Seq(1..heard)
  BY <1>1, <1>2, LatestProperties
<1>4. turn_buffer \in Seq(1..MaxHeard) /\ vad_accumulator \in Seq(1..MaxHeard)
  <2>1. 1..heard \subseteq 1..MaxHeard
    BY <1>1, Sizes
  <2> QED  BY <1>3, <2>1, SeqMonotonic
<1> QED  BY <1>1, <1>3, <1>4 DEF IInv, Counters, TypeOK

(* The variables of a pipeline have their types: what is buffered are samples
   that were heard. *)
THEOREM TypeCorrect == Spec => []TypeOK
BY Invariance, IInvTypeOK, PTL

(* Whatever the sizes, the frames, the VAD and the model do: the turn buffer is
   the audio since the turn began, or its last kMaxSamples, up to the newest
   sample and without a gap; and the VAD is given whole chunks, every sample
   once. *)
THEOREM TurnsAreRecentAudio == Spec => []RecentAudio
<1>1. IInv => RecentAudio
  <2> SUFFICES ASSUME IInv PROVE RecentAudio
    OBVIOUS
  <2>1. PICK q \in Nat : heard - Len(vad_accumulator) = kVadChunkSize * q
    BY DEF IInv, WholeChunks
  <2>2. (heard - Len(vad_accumulator)) % kVadChunkSize = 0
    <3> DEFINE a == heard - Len(vad_accumulator)
    <3>1. /\ kVadChunkSize \in Nat \ {0} /\ a \in Int /\ q \in Int
          /\ 0 \in 0..(kVadChunkSize - 1) /\ a = kVadChunkSize * q + 0
      BY <2>1, Sizes DEF IInv, Counters, Newest
    <3> HIDE DEF a
    <3>2. a % kVadChunkSize = 0
      BY <3>1, Remainder
    <3> QED  BY <3>2 DEF a
  <2> QED  BY <2>2 DEF IInv, Newest, Rests, RecentAudio, KeptOf
<1> QED  BY <1>1, Invariance, PTL

LEMMA IInvEnoughToReflect == IInv => EnoughToReflect
<1> SUFFICES ASSUME IInv, phase = "compute" PROVE n_samples > stage_2_pad
  BY DEF EnoughToReflect
<1> DEFINE n == KeptOf(heard - cleared)
<1>1. heard \in Nat /\ cleared \in 0..heard /\ heard - cleared > stage_2_pad
  BY Sizes DEF IInv, Counters, Rests
<1>2. n \in 0..heard /\ n > stage_2_pad
  BY <1>1, Sizes DEF KeptOf
<1>3. turn_buffer = Latest(n)
  BY DEF IInv, Newest
<1> HIDE DEF n
<1>4. Len(turn_buffer) = n
  BY <1>1, <1>2, <1>3, LatestProperties
<1> QED  BY <1>2, <1>4 DEF n_samples

(* No turn is judged whose buffer is too short for the reflective padding,
   because what is left of the audio before the turn fills less of the chunk that
   ends the turn than the padding leaves free. *)
THEOREM JudgedTurnsCanBePadded == Spec => []EnoughToReflect
BY Invariance, IInvEnoughToReflect, PTL
-----------------------------------------------------------------------------
(* Induction: a set of numbers with 0 that is closed under successors has all
   of them. *)
LEMMA NatSetInduction ==
  ASSUME NEW S \in SUBSET Nat, 0 \in S, \A n \in S : n + 1 \in S
  PROVE  S = Nat
<1> SUFFICES ASSUME S # Nat PROVE FALSE
  OBVIOUS
<1> DEFINE T == Nat \ S
<1>1. T \subseteq Nat /\ T # {}
  OBVIOUS
<1>2. PICK m \in T : \A k \in T : <<k, m>> \notin OpToRel(<, Nat)
  <2> HIDE DEF T
  <2> QED  BY <1>1, WFMin, NatLessThanWellFounded, Zenon
<1>3. m \in Nat /\ m # 0
  OBVIOUS
<1>4. m - 1 \in Nat /\ m - 1 < m
  BY <1>3
<1>5. <<m - 1, m>> \in OpToRel(<, Nat)
  BY <1>3, <1>4, Zenon DEF OpToRel
<1>6. m - 1 \in S
  BY <1>2, <1>4, <1>5, Zenon
<1> QED  BY <1>6, <1>3

-----------------------------------------------------------------------------
(* Numbers that are the same modulo Modulus. *)
Same(a, b) == \E q \in Int : a = b + Modulus * q

LEMMA ModulusPositive == Modulus \in Int /\ Modulus \in Nat \ {0} /\ Modulus > 0
BY LogMelAssumption

LEMMA SameReflexive ==
  ASSUME NEW a \in Int PROVE Same(a, a)
<1>1. a = a + Modulus * 0 /\ 0 \in Int
  BY ModulusPositive
<1> QED  BY <1>1 DEF Same

LEMMA SameSymmetric ==
  ASSUME NEW a \in Int, NEW b \in Int, Same(a, b) PROVE Same(b, a)
<1>1. PICK q \in Int : a = b + Modulus * q
  BY DEF Same
<1>2. b = a + Modulus * (-q) /\ -q \in Int
  BY <1>1, ModulusPositive
<1> QED  BY <1>2 DEF Same

LEMMA SameTransitive ==
  ASSUME NEW a \in Int, NEW b \in Int, NEW c \in Int, Same(a, b), Same(b, c)
  PROVE  Same(a, c)
<1>1. PICK q \in Int : a = b + Modulus * q
  BY DEF Same
<1>2. PICK r \in Int : b = c + Modulus * r
  BY DEF Same
<1>3. a = c + Modulus * (q + r) /\ q + r \in Int
  BY <1>1, <1>2, ModulusPositive
<1> QED  BY <1>3 DEF Same

LEMMA SameSum ==
  ASSUME NEW a \in Int, NEW b \in Int, NEW c \in Int, NEW d \in Int, Same(a, b), Same(c, d)
  PROVE  Same(a + c, b + d) /\ Same(a - c, b - d)
<1>1. PICK q \in Int : a = b + Modulus * q
  BY DEF Same
<1>2. PICK r \in Int : c = d + Modulus * r
  BY DEF Same
<1>3. a + c = b + d + Modulus * (q + r) /\ q + r \in Int
  BY <1>1, <1>2, ModulusPositive
<1>4. a - c = b - d + Modulus * (q - r) /\ q - r \in Int
  BY <1>1, <1>2, ModulusPositive
<1> QED  BY <1>3, <1>4 DEF Same

LEMMA SameProduct ==
  ASSUME NEW a \in Int, NEW b \in Int, NEW c \in Int, NEW d \in Int, Same(a, b), Same(c, d)
  PROVE  Same(a * c, b * d)
<1>1. PICK q \in Int : a = b + Modulus * q
  BY DEF Same
<1>2. PICK r \in Int : c = d + Modulus * r
  BY DEF Same
<1>3. a * c = b * d + Modulus * (b * r + d * q + Modulus * (q * r))
  BY <1>1, <1>2, ModulusPositive
<1>4. b * r + d * q + Modulus * (q * r) \in Int
  BY ModulusPositive
<1> QED  BY <1>3, <1>4 DEF Same

(* A remainder is a number of the field, and the same as what it is of. *)
LEMMA ModIsSame ==
  ASSUME NEW a \in Int
  PROVE  a % Modulus \in Number /\ a % Modulus \in Int /\ Same(a % Modulus, a) /\ Same(a, a % Modulus)
<1>1. a % Modulus \in 0..(Modulus - 1)
  BY ModulusPositive
<1>2. a = (a % Modulus) + Modulus * (a \div Modulus) /\ a \div Modulus \in Int
  BY ModulusPositive
<1>3. Same(a, a % Modulus)
  BY <1>2 DEF Same
<1>4. a % Modulus \in Int
  BY <1>1
<1> QED  BY <1>1, <1>3, <1>4, SameSymmetric DEF Number

(* What is the same has the same remainder. *)
LEMMA SameMod ==
  ASSUME NEW a \in Int, NEW b \in Int, Same(a, b)
  PROVE  a % Modulus = b % Modulus
<1>1. PICK q \in Int : b = (b % Modulus) + Modulus * q /\ b % Modulus \in 0..(Modulus - 1)
  <2>1. b % Modulus \in 0..(Modulus - 1)
    BY ModulusPositive
  <2>2. b = (b % Modulus) + Modulus * (b \div Modulus) /\ b \div Modulus \in Int
    BY ModulusPositive
  <2> QED  BY <2>1, <2>2
<1> DEFINE r == b % Modulus
<1>2. r \in 0..(Modulus - 1) /\ b = r + Modulus * q
  BY <1>1
<1> HIDE DEF r
<1>3. PICK p \in Int : a = b + Modulus * p
  BY DEF Same
<1>4. a = Modulus * (p + q) + r /\ p + q \in Int
  BY <1>2, <1>3, ModulusPositive
<1>5. a % Modulus = r
  BY <1>2, <1>4, ModulusPositive, Remainder
<1> QED  BY <1>5 DEF r

LEMMA NumberMod ==
  ASSUME NEW a \in Number
  PROVE  a \in Int /\ a % Modulus = a
<1>1. a \in 0..(Modulus - 1) /\ a = Modulus * 0 + a /\ a \in Int /\ 0 \in Int
  BY ModulusPositive DEF Number
<1> QED  BY <1>1, ModulusPositive, Remainder

-----------------------------------------------------------------------------
(* The partial sums of SumOf. *)
Sums(f, first, last, sum) ==
  sum = [k \in first..last |-> IF k = first THEN 0 ELSE sum[k - 1] + f[k - 1]]

LEMMA SumsExist ==
  ASSUME NEW f, NEW first \in Nat, NEW n \in Nat
  PROVE  \E sum : Sums(f, first, first + n, sum)
<1> DEFINE S == {k \in Nat : \E sum : Sums(f, first, first + k, sum)}
<1>1. 0 \in S
  <2>1. Sums(f, first, first + 0, [k \in first..(first + 0) |-> 0])
    BY DEF Sums
  <2> QED  BY <2>1
<1>2. ASSUME NEW k \in S PROVE k + 1 \in S
  <2>1. PICK sum : Sums(f, first, first + k, sum)
    OBVIOUS
  <2> DEFINE last == first + k
             next == [j \in first..(last + 1) |-> IF j <= last THEN sum[j] ELSE sum[j - 1] + f[j - 1]]
  <2>2. \A j \in first..last : sum[j] = IF j = first THEN 0 ELSE sum[j - 1] + f[j - 1]
    BY <2>1 DEF Sums
  <2>3. next = [j \in first..(last + 1) |-> IF j = first THEN 0 ELSE next[j - 1] + f[j - 1]]
    <3> SUFFICES ASSUME NEW j \in first..(last + 1)
                 PROVE next[j] = IF j = first THEN 0 ELSE next[j - 1] + f[j - 1]
      OBVIOUS
    <3>1. CASE j = first
      BY <2>2, <3>1
    <3>2. CASE j # first
      <4>1. j - 1 \in first..last /\ next[j - 1] = sum[j - 1]
        BY <3>2
      <4>2. CASE j <= last
        BY <2>2, <3>2, <4>1, <4>2
      <4>3. CASE ~(j <= last)
        BY <3>2, <4>1, <4>3
      <4> QED  BY <4>2, <4>3
    <3> QED  BY <3>1, <3>2
  <2>4. last + 1 = first + (k + 1) /\ k + 1 \in Nat
    OBVIOUS
  <2> HIDE DEF next, last
  <2>5. Sums(f, first, last + 1, next)
    BY <2>3 DEF Sums
  <2> QED  BY <2>4, <2>5
<1>3. S = Nat
  <2>1. S \in SUBSET Nat
    OBVIOUS
  <2> HIDE DEF S
  <2> QED  BY <1>1, <1>2, <2>1, NatSetInduction
<1>4. n \in S
  BY <1>3
<1> QED  BY <1>4

(* Two of them agree as far as both go. *)
LEMMA SumsAgree ==
  ASSUME NEW f, NEW first \in Nat, NEW a \in Nat, NEW b \in Nat, first <= a, a <= b,
         NEW s, NEW t, Sums(f, first, a, s), Sums(f, first, b, t)
  PROVE  s[a] = t[a]
<1> DEFINE S == {k \in Nat : first + k <= a => s[first + k] = t[first + k]}
<1>0. /\ \A j \in first..a : s[j] = IF j = first THEN 0 ELSE s[j - 1] + f[j - 1]
      /\ \A j \in first..b : t[j] = IF j = first THEN 0 ELSE t[j - 1] + f[j - 1]
  BY DEF Sums
<1>1. 0 \in S
  <2>1. first \in first..a /\ first \in first..b /\ first + 0 = first
    OBVIOUS
  <2>2. s[first] = 0 /\ t[first] = 0
    BY <1>0, <2>1
  <2> QED  BY <2>1, <2>2
<1>2. ASSUME NEW k \in S PROVE k + 1 \in S
  <2> SUFFICES ASSUME first + (k + 1) <= a PROVE s[first + (k + 1)] = t[first + (k + 1)]
    OBVIOUS
  <2> DEFINE j == first + (k + 1)
  <2>1. j \in first..a /\ j \in first..b /\ j # first /\ j - 1 = first + k
    OBVIOUS
  <2>2. s[first + k] = t[first + k]
    OBVIOUS
  <2> HIDE DEF j
  <2>3. s[j] = s[first + k] + f[first + k] /\ t[j] = t[first + k] + f[first + k]
    BY <1>0, <2>1
  <2> QED  BY <2>2, <2>3 DEF j
<1>3. S = Nat
  <2>1. S \in SUBSET Nat
    OBVIOUS
  <2> HIDE DEF S
  <2> QED  BY <1>1, <1>2, <2>1, NatSetInduction
<1>4. PICK k \in Nat : first + k = a
  <2>1. a - first \in Nat /\ first + (a - first) = a
    OBVIOUS
  <2> QED  BY <2>1
<1>5. k \in S
  BY <1>3
<1> QED  BY <1>4, <1>5

LEMMA SumOfIs ==
  ASSUME NEW f, NEW first \in Nat, NEW n \in Nat
  PROVE  \E sum : Sums(f, first, first + n, sum) /\ SumOf(f, first, first + n) = sum[first + n] % Modulus
<1> DEFINE sum == CHOOSE s : Sums(f, first, first + n, s)
<1>1. Sums(f, first, first + n, sum)
  BY SumsExist, Zenon
<1>2. SumOf(f, first, first + n) = sum[first + n] % Modulus
  BY Zenon DEF SumOf, Sums
<1> HIDE DEF sum
<1> QED  BY <1>1, <1>2

(* The partial sums are numbers where the summands are. *)
LEMMA SumsInt ==
  ASSUME NEW f, NEW first \in Nat, NEW n \in Nat, NEW sum, Sums(f, first, first + n, sum),
         \A k \in first..(first + n - 1) : f[k] \in Int
  PROVE  sum[first + n] \in Int
<1> DEFINE S == {k \in Nat : k <= n => sum[first + k] \in Int}
<1>0. \A j \in first..(first + n) : sum[j] = IF j = first THEN 0 ELSE sum[j - 1] + f[j - 1]
  BY DEF Sums
<1>1. 0 \in S
  BY <1>0
<1>2. ASSUME NEW k \in S PROVE k + 1 \in S
  <2> SUFFICES ASSUME k + 1 <= n PROVE sum[first + (k + 1)] \in Int
    OBVIOUS
  <2> DEFINE j == first + (k + 1)
  <2>1. j \in first..(first + n) /\ j # first /\ j - 1 = first + k /\ first + k \in first..(first + n - 1)
    OBVIOUS
  <2>2. sum[first + k] \in Int /\ f[first + k] \in Int
    BY <2>1
  <2> HIDE DEF j
  <2>3. sum[j] = sum[first + k] + f[first + k]
    BY <1>0, <2>1
  <2> QED  BY <2>2, <2>3 DEF j
<1>3. S = Nat
  <2>1. S \in SUBSET Nat
    OBVIOUS
  <2> HIDE DEF S
  <2> QED  BY <1>1, <1>2, <2>1, NatSetInduction
<1>4. n \in S
  BY <1>3
<1> QED  BY <1>4

(* SumOf is a number of the field; the empty sum is 0, and one more summand is
   added modulo Modulus. *)
LEMMA SumOfSteps ==
  ASSUME NEW f, NEW first \in Nat, NEW n \in Nat,
         \A k \in first..(first + n - 1) : f[k] \in Int
  PROVE  /\ SumOf(f, first, first + n) \in Number
         /\ SumOf(f, first, first + n) \in Int
         /\ n = 0 => SumOf(f, first, first + n) = 0
         /\ f[first + n] \in Int =>
              SumOf(f, first, first + (n + 1)) = (SumOf(f, first, first + n) + f[first + n]) % Modulus
<1>1. PICK s : Sums(f, first, first + n, s) /\ SumOf(f, first, first + n) = s[first + n] % Modulus
  BY SumOfIs
<1>2. PICK t : Sums(f, first, first + (n + 1), t)
                /\ SumOf(f, first, first + (n + 1)) = t[first + (n + 1)] % Modulus
  <2>1. n + 1 \in Nat
    OBVIOUS
  <2> QED  BY <2>1, SumOfIs
<1>3. s[first + n] \in Int
  BY <1>1, SumsInt
<1>4. SumOf(f, first, first + n) \in Number /\ SumOf(f, first, first + n) \in Int
  BY <1>1, <1>3, ModIsSame
<1>5. ASSUME n = 0 PROVE SumOf(f, first, first + n) = 0
  <2>1. s[first + n] = 0
    BY <1>1, <1>5 DEF Sums
  <2>2. 0 \in Number
    BY ModulusPositive DEF Number
  <2> QED  BY <1>1, <2>1, <2>2, NumberMod
<1>6. ASSUME f[first + n] \in Int
      PROVE  SumOf(f, first, first + (n + 1)) = (SumOf(f, first, first + n) + f[first + n]) % Modulus
  <2>1. s[first + n] = t[first + n]
    <3> DEFINE a == first + n
               b == first + (n + 1)
    <3>1. a \in Nat /\ b \in Nat /\ first <= a /\ a <= b
      OBVIOUS
    <3>2. Sums(f, first, a, s) /\ Sums(f, first, b, t)
      BY <1>1, <1>2
    <3> HIDE DEF a, b
    <3>3. s[a] = t[a]
      BY <3>1, <3>2, SumsAgree
    <3> QED  BY <3>3 DEF a
  <2>2. t[first + (n + 1)] = t[first + n] + f[first + n]
    <3> DEFINE j == first + (n + 1)
    <3>1. j \in first..j /\ j # first /\ j - 1 = first + n
      OBVIOUS
    <3>2. \A i \in first..j : t[i] = IF i = first THEN 0 ELSE t[i - 1] + f[i - 1]
      BY <1>2, Zenon DEF Sums
    <3> HIDE DEF j
    <3>3. t[j] = t[first + n] + f[first + n]
      BY <3>1, <3>2
    <3> QED  BY <3>3 DEF j
  <2> DEFINE x == s[first + n]
             y == SumOf(f, first, first + n)
             z == f[first + n]
  <2>3. SumOf(f, first, first + (n + 1)) = (x + z) % Modulus
    BY <1>2, <2>1, <2>2
  <2>4. x \in Int /\ y \in Int /\ z \in Int /\ y = x % Modulus
    BY <1>1, <1>3, <1>4, <1>6
  <2> HIDE DEF x, y, z
  <2>5. Same(x, y) /\ Same(z, z)
    BY <2>4, ModIsSame, SameReflexive
  <2>6. Same(x + z, y + z)
    BY <2>4, <2>5, SameSum
  <2>7. (x + z) % Modulus = (y + z) % Modulus
    BY <2>4, <2>6, SameMod
  <2> QED  BY <2>3, <2>7 DEF y, z
<1> QED  BY <1>4, <1>5, <1>6

(* The same for the sums that begin with f[0]. *)
LEMMA SumNext ==
  ASSUME NEW f, NEW n \in Nat, \A k \in Nat : k < n => f[k] \in Int
  PROVE  /\ SumOf(f, 0, n) \in Number /\ SumOf(f, 0, n) \in Int
         /\ n = 0 => SumOf(f, 0, n) = 0
         /\ f[n] \in Int => /\ SumOf(f, 0, n + 1) \in Int
                            /\ Same(SumOf(f, 0, n + 1), SumOf(f, 0, n) + f[n])
<1>1. /\ 0 \in Nat /\ \A k \in 0..(0 + n - 1) : f[k] \in Int
      /\ 0 + n = n /\ 0 + (n + 1) = n + 1
  OBVIOUS
<1>2. /\ SumOf(f, 0, 0 + n) \in Number /\ SumOf(f, 0, 0 + n) \in Int
      /\ n = 0 => SumOf(f, 0, 0 + n) = 0
      /\ f[0 + n] \in Int => SumOf(f, 0, 0 + (n + 1)) = (SumOf(f, 0, 0 + n) + f[0 + n]) % Modulus
  BY <1>1, SumOfSteps, Zenon
<1>3. /\ SumOf(f, 0, n) \in Number /\ SumOf(f, 0, n) \in Int
      /\ n = 0 => SumOf(f, 0, n) = 0
      /\ f[n] \in Int => SumOf(f, 0, n + 1) = (SumOf(f, 0, n) + f[n]) % Modulus
  BY <1>1, <1>2
<1>4. ASSUME f[n] \in Int
      PROVE  SumOf(f, 0, n + 1) \in Int /\ Same(SumOf(f, 0, n + 1), SumOf(f, 0, n) + f[n])
  <2>1. SumOf(f, 0, n) + f[n] \in Int
    BY <1>3, <1>4
  <2> QED  BY <1>3, <1>4, <2>1, ModIsSame
<1> QED  BY <1>3, <1>4

(* Sums are linear, ... *)
LEMMA SumLinear ==
  ASSUME NEW n \in Nat, NEW x \in Int, NEW y \in Int, NEW f, NEW g, NEW h,
         \A k \in Nat : k < n => /\ f[k] \in Int /\ g[k] \in Int /\ h[k] \in Int
                                 /\ Same(h[k], x * f[k] + y * g[k])
  PROVE  Same(SumOf(h, 0, n), x * SumOf(f, 0, n) + y * SumOf(g, 0, n))
<1> DEFINE S == {k \in Nat : k <= n => Same(SumOf(h, 0, k), x * SumOf(f, 0, k) + y * SumOf(g, 0, k))}
<1>1. 0 \in S
  <2>1. SumOf(f, 0, 0) = 0 /\ SumOf(g, 0, 0) = 0 /\ SumOf(h, 0, 0) = 0
    BY SumNext
  <2>2. x * 0 + y * 0 = 0 /\ Same(0, 0)
    BY SameReflexive
  <2> QED  BY <2>1, <2>2
<1>2. ASSUME NEW k \in S PROVE k + 1 \in S
  <2> SUFFICES ASSUME k + 1 <= n
               PROVE  Same(SumOf(h, 0, k + 1), x * SumOf(f, 0, k + 1) + y * SumOf(g, 0, k + 1))
    OBVIOUS
  <2> DEFINE F == SumOf(f, 0, k)
             G == SumOf(g, 0, k)
             H == SumOf(h, 0, k)
             FF == SumOf(f, 0, k + 1)
             GG == SumOf(g, 0, k + 1)
             HH == SumOf(h, 0, k + 1)
             u == f[k]
             v == g[k]
             w == h[k]
  <2>1. /\ k \in Nat /\ k < n
        /\ \A j \in Nat : j < k => f[j] \in Int /\ g[j] \in Int /\ h[j] \in Int
        /\ u \in Int /\ v \in Int /\ w \in Int
        /\ Same(w, x * u + y * v)
    OBVIOUS
  <2>2. F \in Int /\ FF \in Int /\ Same(FF, F + u)
    BY <2>1, SumNext
  <2>3. G \in Int /\ GG \in Int /\ Same(GG, G + v)
    BY <2>1, SumNext
  <2>4. H \in Int /\ HH \in Int /\ Same(HH, H + w)
    BY <2>1, SumNext
  <2>5. Same(H, x * F + y * G)
    BY <2>1
  <2> HIDE DEF F, G, H, FF, GG, HH, u, v, w
  <2>6. PICK p \in Int : FF = F + u + Modulus * p
    BY <2>2 DEF Same
  <2>7. PICK q \in Int : GG = G + v + Modulus * q
    BY <2>3 DEF Same
  <2>8. PICK r \in Int : HH = H + w + Modulus * r
    BY <2>4 DEF Same
  <2>9. PICK s \in Int : H = x * F + y * G + Modulus * s
    BY <2>5 DEF Same
  <2>10. PICK t \in Int : w = x * u + y * v + Modulus * t
    BY <2>1 DEF Same
  <2>11. /\ x * FF = x * F + x * u + Modulus * (x * p)
         /\ y * GG = y * G + y * v + Modulus * (y * q)
    BY <2>1, <2>2, <2>3, <2>6, <2>7, ModulusPositive
  <2>12. HH = x * FF + y * GG + Modulus * (r + s + t - x * p - y * q)
    <3> DEFINE a == x * F
               b == x * u
               c == y * G
               d == y * v
               e == x * p
               i == y * q
    <3>1. a \in Int /\ b \in Int /\ c \in Int /\ d \in Int /\ e \in Int /\ i \in Int
      BY <2>1, <2>2, <2>3
    <3>2. HH = (a + c + Modulus * s) + (b + d + Modulus * t) + Modulus * r
      BY <2>8, <2>9, <2>10
    <3>3. x * FF + y * GG = (a + b + Modulus * e) + (c + d + Modulus * i)
      BY <2>11
    <3> HIDE DEF a, b, c, d, e, i
    <3>4. HH = (a + b + Modulus * e) + (c + d + Modulus * i) + Modulus * (r + s + t - e - i)
      BY <3>1, <3>2, ModulusPositive
    <3> QED  BY <3>3, <3>4 DEF e, i
  <2>13. r + s + t - x * p - y * q \in Int
    OBVIOUS
  <2> QED  BY <2>12, <2>13 DEF Same, FF, GG, HH
<1>3. S = Nat
  <2>1. S \in SUBSET Nat
    OBVIOUS
  <2> HIDE DEF S
  <2> QED  BY <1>1, <1>2, <2>1, NatSetInduction
<1>4. n \in S
  BY <1>3
<1> QED  BY <1>4

(* ... depend on their summands only, ... *)
LEMMA SumSame ==
  ASSUME NEW n \in Nat, NEW f, NEW h,
         \A k \in Nat : k < n => f[k] \in Int /\ h[k] \in Int /\ Same(h[k], f[k])
  PROVE  SumOf(h, 0, n) = SumOf(f, 0, n)
<1>1. /\ SumOf(h, 0, n) \in Number /\ SumOf(h, 0, n) \in Int
      /\ SumOf(f, 0, n) \in Number /\ SumOf(f, 0, n) \in Int
  BY SumNext
<1>2. \A k \in Nat : k < n => /\ f[k] \in Int /\ f[k] \in Int /\ h[k] \in Int
                              /\ Same(h[k], 1 * f[k] + 0 * f[k])
  OBVIOUS
<1>3. Same(SumOf(h, 0, n), 1 * SumOf(f, 0, n) + 0 * SumOf(f, 0, n))
  BY <1>2, SumLinear, 1 \in Int, 0 \in Int, Zenon
<1>4. 1 * SumOf(f, 0, n) + 0 * SumOf(f, 0, n) = SumOf(f, 0, n)
  BY <1>1
<1>5. SumOf(h, 0, n) % Modulus = SumOf(f, 0, n) % Modulus
  BY <1>1, <1>3, <1>4, SameMod
<1> QED  BY <1>1, <1>5, NumberMod

(* ... are 0 when those are, ... *)
LEMMA SumZero ==
  ASSUME NEW n \in Nat, NEW f, \A k \in Nat : k < n => f[k] = 0
  PROVE  SumOf(f, 0, n) = 0
<1>1. SumOf(f, 0, n) \in Number /\ SumOf(f, 0, n) \in Int
  BY SumNext
<1>2. \A k \in Nat : k < n => /\ f[k] \in Int /\ f[k] \in Int /\ f[k] \in Int
                              /\ Same(f[k], 0 * f[k] + 0 * f[k])
  BY SameReflexive
<1>3. Same(SumOf(f, 0, n), 0 * SumOf(f, 0, n) + 0 * SumOf(f, 0, n))
  BY <1>2, SumLinear, 0 \in Int, Zenon
<1>4. 0 * SumOf(f, 0, n) + 0 * SumOf(f, 0, n) = 0
  BY <1>1
<1>5. SumOf(f, 0, n) % Modulus = 0 % Modulus
  BY <1>1, <1>3, <1>4, SameMod
<1>6. 0 \in Number
  BY ModulusPositive DEF Number
<1> QED  BY <1>1, <1>5, <1>6, NumberMod

(* ... and may be taken over the even and the odd numbers one after the other. *)
LEMMA SumEvenOdd ==
  ASSUME NEW n \in Nat, NEW f, NEW g, NEW h,
         \A k \in Nat : k < n => /\ f[k] \in Int /\ g[k] \in Int
                                 /\ h[2 * k] \in Int /\ h[2 * k + 1] \in Int
                                 /\ Same(h[2 * k], f[k]) /\ Same(h[2 * k + 1], g[k])
  PROVE  Same(SumOf(h, 0, 2 * n), SumOf(f, 0, n) + SumOf(g, 0, n))
<1> DEFINE S == {k \in Nat : k <= n => Same(SumOf(h, 0, 2 * k), SumOf(f, 0, k) + SumOf(g, 0, k))}
<1>0. ASSUME NEW j \in Nat, j < 2 * n PROVE h[j] \in Int
  <2>1. PICK k \in Nat : k < n /\ (j = 2 * k \/ j = 2 * k + 1)
    <3>1. /\ j = 2 * (j \div 2) + (j % 2) /\ j % 2 \in 0..1 /\ j \div 2 \in Nat
          /\ j \div 2 < n
      BY <1>0
    <3> QED  BY <3>1
  <2> QED  BY <2>1
<1>1. 0 \in S
  <2>1. SumOf(f, 0, 0) = 0 /\ SumOf(g, 0, 0) = 0 /\ SumOf(h, 0, 0) = 0
    BY SumNext
  <2>2. 0 + 0 = 0 /\ 2 * 0 = 0 /\ Same(0, 0)
    BY SameReflexive
  <2> QED  BY <2>1, <2>2
<1>2. ASSUME NEW k \in S PROVE k + 1 \in S
  <2> SUFFICES ASSUME k + 1 <= n
               PROVE  Same(SumOf(h, 0, 2 * (k + 1)), SumOf(f, 0, k + 1) + SumOf(g, 0, k + 1))
    OBVIOUS
  <2> DEFINE F == SumOf(f, 0, k)
             G == SumOf(g, 0, k)
             H == SumOf(h, 0, 2 * k)
             HO == SumOf(h, 0, 2 * k + 1)
             FF == SumOf(f, 0, k + 1)
             GG == SumOf(g, 0, k + 1)
             HH == SumOf(h, 0, 2 * k + 1 + 1)
             u == f[k]
             v == g[k]
             w == h[2 * k]
             z == h[2 * k + 1]
  <2>1. /\ k \in Nat /\ k < n
        /\ \A j \in Nat : j < k => f[j] \in Int /\ g[j] \in Int
        /\ u \in Int /\ v \in Int /\ w \in Int /\ z \in Int
        /\ Same(w, u) /\ Same(z, v)
    OBVIOUS
  <2>2. F \in Int /\ FF \in Int /\ Same(FF, F + u)
    BY <2>1, SumNext
  <2>3. G \in Int /\ GG \in Int /\ Same(GG, G + v)
    BY <2>1, SumNext
  <2>4. H \in Int /\ HO \in Int /\ Same(HO, H + w)
    <3>1. 2 * k \in Nat /\ \A j \in Nat : j < 2 * k => h[j] \in Int
      BY <1>0, <2>1
    <3> QED  BY <2>1, <3>1, SumNext
  <2>5. HH \in Int /\ Same(HH, HO + z)
    <3>1. 2 * k + 1 \in Nat /\ \A j \in Nat : j < 2 * k + 1 => h[j] \in Int
      BY <1>0, <2>1
    <3> QED  BY <2>1, <3>1, SumNext
  <2>6. Same(H, F + G)
    BY <2>1
  <2>7. 2 * (k + 1) = 2 * k + 1 + 1
    BY <2>1
  <2> HIDE DEF F, G, H, HO, FF, GG, HH, u, v, w, z
  <2>8. PICK p \in Int : FF = F + u + Modulus * p
    BY <2>2 DEF Same
  <2>9. PICK q \in Int : GG = G + v + Modulus * q
    BY <2>3 DEF Same
  <2>10. PICK r \in Int : HO = H + w + Modulus * r
    BY <2>4 DEF Same
  <2>11. PICK r2 \in Int : HH = HO + z + Modulus * r2
    BY <2>5 DEF Same
  <2>12. PICK s \in Int : H = F + G + Modulus * s
    BY <2>6 DEF Same
  <2>13. PICK t \in Int : w = u + Modulus * t
    BY <2>1 DEF Same
  <2>14. PICK t2 \in Int : z = v + Modulus * t2
    BY <2>1 DEF Same
  <2>15. /\ HH = FF + GG + Modulus * (r + r2 + s + t + t2 - p - q)
         /\ r + r2 + s + t + t2 - p - q \in Int
    BY <2>1, <2>2, <2>3, <2>4, <2>5, <2>8, <2>9, <2>10, <2>11, <2>12, <2>13, <2>14, ModulusPositive
  <2> QED  BY <2>7, <2>15 DEF Same, FF, GG, HH
<1>3. S = Nat
  <2>1. S \in SUBSET Nat
    OBVIOUS
  <2> HIDE DEF S
  <2> QED  BY <1>1, <1>2, <2>1, NatSetInduction
<1>4. n \in S
  BY <1>3
<1> QED  BY <1>4

(* A loop that is left and taken up again adds up the same. *)
LEMMA SumJoins ==
  ASSUME NEW f, NEW b \in Nat, NEW n \in Nat, \A k \in Nat : k < b + n => f[k] \in Int
  PROVE  SumOf(f, 0, b + n) = (SumOf(f, 0, b) + SumOf(f, b, b + n)) % Modulus
<1> DEFINE S == {k \in Nat : k <= n => SumOf(f, 0, b + k) = (SumOf(f, 0, b) + SumOf(f, b, b + k)) % Modulus}
<1>0. SumOf(f, 0, b) \in Number /\ SumOf(f, 0, b) \in Int
  BY SumNext
<1>1. 0 \in S
  <2>1. b + 0 = b /\ 0 = 0 /\ 0 \in Nat /\ \A k \in b..(b + 0 - 1) : f[k] \in Int
    OBVIOUS
  <2>2. SumOf(f, b, b + 0) = 0
    BY <2>1, SumOfSteps, Zenon
  <2>3. SumOf(f, 0, b) = (SumOf(f, 0, b) + 0) % Modulus
    BY <1>0, NumberMod
  <2> QED  BY <2>1, <2>2, <2>3
<1>2. ASSUME NEW k \in S PROVE k + 1 \in S
  <2> SUFFICES ASSUME k + 1 <= n
               PROVE  SumOf(f, 0, b + (k + 1)) = (SumOf(f, 0, b) + SumOf(f, b, b + (k + 1))) % Modulus
    OBVIOUS
  <2> DEFINE m == b + k
             A == SumOf(f, 0, b)
             B == SumOf(f, b, b + k)
             BB == SumOf(f, b, b + (k + 1))
             C == SumOf(f, 0, m)
             CC == SumOf(f, 0, m + 1)
             u == f[m]
  <2>1. /\ k \in Nat /\ m \in Nat /\ b + (k + 1) = m + 1 /\ b + k = m
        /\ \A j \in Nat : j < m => f[j] \in Int
        /\ \A j \in b..(b + k - 1) : f[j] \in Int
        /\ f[m] \in Int
    OBVIOUS
  <2>2. C \in Int /\ CC \in Int /\ CC \in Number /\ Same(CC, C + u)
    <3> HIDE DEF m
    <3>1. C \in Int /\ CC \in Int /\ Same(CC, C + u)
      BY <2>1, SumNext
    <3>2. \A j \in Nat : j < m + 1 => f[j] \in Int
      BY <2>1
    <3>3. m + 1 \in Nat
      BY <2>1
    <3> QED  BY <3>1, <3>2, <3>3, SumNext
  <2>3. B \in Int /\ BB = (B + u) % Modulus
    BY <2>1, SumOfSteps, Zenon
  <2>4. C = (A + B) % Modulus
    BY <2>1
  <2> HIDE DEF m, A, B, BB, C, CC, u
  <2>5. A \in Int /\ u \in Int
    BY <1>0, <2>1 DEF A, u
  <2>6. BB \in Int /\ Same(BB, B + u)
    <3>1. B + u \in Int
      BY <2>3, <2>5
    <3> QED  BY <2>3, <3>1, ModIsSame
  <2>7. Same(C, A + B)
    <3>1. A + B \in Int
      BY <2>3, <2>5
    <3> QED  BY <2>4, <3>1, ModIsSame
  <2>8. PICK p \in Int : CC = C + u + Modulus * p
    BY <2>2 DEF Same
  <2>9. PICK q \in Int : BB = B + u + Modulus * q
    BY <2>6 DEF Same
  <2>10. PICK r \in Int : C = A + B + Modulus * r
    BY <2>7 DEF Same
  <2>11. CC = A + BB + Modulus * (p + r - q) /\ p + r - q \in Int /\ A + BB \in Int
    BY <2>2, <2>3, <2>5, <2>6, <2>8, <2>9, <2>10, ModulusPositive
  <2>12. CC % Modulus = (A + BB) % Modulus
    BY <2>2, <2>11, SameMod DEF Same
  <2>13. CC = (A + BB) % Modulus
    BY <2>2, <2>12, NumberMod
  <2> QED  BY <2>1, <2>13 DEF A, BB, CC
<1>3. S = Nat
  <2>1. S \in SUBSET Nat
    OBVIOUS
  <2> HIDE DEF S
  <2> QED  BY <1>1, <1>2, <2>1, NatSetInduction
<1>4. n \in S
  BY <1>3
<1> QED  BY <1>4

-----------------------------------------------------------------------------
(* The powers of the root of unity, as far as n. *)
Powers(p, n) ==
  p = [k \in 0..n |-> IF k = 0 THEN 1 ELSE (p[k - 1] * RootOfUnity) % Modulus]

LEMMA PowersExist ==
  ASSUME NEW n \in Nat
  PROVE  \E p : Powers(p, n)
<1> DEFINE S == {k \in Nat : \E p : Powers(p, k)}
<1>1. 0 \in S
  <2>1. Powers([k \in 0..0 |-> 1], 0)
    BY DEF Powers
  <2> QED  BY <2>1
<1>2. ASSUME NEW k \in S PROVE k + 1 \in S
  <2>1. PICK p : Powers(p, k)
    OBVIOUS
  <2> DEFINE next == [j \in 0..(k + 1) |-> IF j <= k THEN p[j] ELSE (p[j - 1] * RootOfUnity) % Modulus]
  <2>2. \A j \in 0..k : p[j] = IF j = 0 THEN 1 ELSE (p[j - 1] * RootOfUnity) % Modulus
    BY <2>1 DEF Powers
  <2>3. next = [j \in 0..(k + 1) |-> IF j = 0 THEN 1 ELSE (next[j - 1] * RootOfUnity) % Modulus]
    <3> SUFFICES ASSUME NEW j \in 0..(k + 1)
                 PROVE next[j] = IF j = 0 THEN 1 ELSE (next[j - 1] * RootOfUnity) % Modulus
      OBVIOUS
    <3>1. CASE j = 0
      BY <2>2, <3>1
    <3>2. CASE j # 0
      <4>1. j - 1 \in 0..k /\ next[j - 1] = p[j - 1]
        BY <3>2
      <4>2. CASE j <= k
        BY <2>2, <3>2, <4>1, <4>2
      <4>3. CASE ~(j <= k)
        BY <3>2, <4>1, <4>3
      <4> QED  BY <4>2, <4>3
    <3> QED  BY <3>1, <3>2
  <2> HIDE DEF next
  <2>4. Powers(next, k + 1)
    BY <2>3 DEF Powers
  <2> QED  BY <2>4
<1>3. S = Nat
  <2>1. S \in SUBSET Nat
    OBVIOUS
  <2> HIDE DEF S
  <2> QED  BY <1>1, <1>2, <2>1, NatSetInduction
<1>4. n \in S
  BY <1>3
<1> QED  BY <1>4

LEMMA PowersAgree ==
  ASSUME NEW a \in Nat, NEW b \in Nat, a <= b, NEW s, NEW t, Powers(s, a), Powers(t, b)
  PROVE  s[a] = t[a]
<1> DEFINE S == {k \in Nat : k <= a => s[k] = t[k]}
<1>0. /\ \A j \in 0..a : s[j] = IF j = 0 THEN 1 ELSE (s[j - 1] * RootOfUnity) % Modulus
      /\ \A j \in 0..b : t[j] = IF j = 0 THEN 1 ELSE (t[j - 1] * RootOfUnity) % Modulus
  BY DEF Powers
<1>1. 0 \in S
  BY <1>0
<1>2. ASSUME NEW k \in S PROVE k + 1 \in S
  <2> SUFFICES ASSUME k + 1 <= a PROVE s[k + 1] = t[k + 1]
    OBVIOUS
  <2> DEFINE j == k + 1
  <2>1. j \in 0..a /\ j \in 0..b /\ j # 0 /\ j - 1 = k /\ s[k] = t[k]
    OBVIOUS
  <2> HIDE DEF j
  <2>2. s[j] = t[j]
    BY <1>0, <2>1
  <2> QED  BY <2>2 DEF j
<1>3. S = Nat
  <2>1. S \in SUBSET Nat
    OBVIOUS
  <2> HIDE DEF S
  <2> QED  BY <1>1, <1>2, <2>1, NatSetInduction
<1>4. a \in S
  BY <1>3
<1> QED  BY <1>4

LEMMA PowerSteps ==
  /\ PowerOfRoot[0] = 1
  /\ \A k \in Nat : PowerOfRoot[k + 1] = (PowerOfRoot[k] * RootOfUnity) % Modulus
<1> DEFINE to(k) == CHOOSE p : Powers(p, k)
           P == [k \in Nat |-> to(k)[k]]
<1>1. ASSUME NEW k \in Nat PROVE Powers(to(k), k)
  BY PowersExist, Zenon
<1>2. P = [k \in Nat |-> IF k = 0 THEN 1 ELSE (P[k - 1] * RootOfUnity) % Modulus]
  <2>1. ASSUME NEW k \in Nat
        PROVE  P[k] = IF k = 0 THEN 1 ELSE (P[k - 1] * RootOfUnity) % Modulus
    <3>1. Powers(to(k), k)
      BY <1>1
    <3>2. P[k] = to(k)[k]
      OBVIOUS
    <3>3. CASE k = 0
      <4> HIDE DEF to
      <4>1. to(k)[0] = 1
        BY <3>1, <3>3 DEF Powers
      <4> QED  BY <3>3, <4>1
    <3>4. CASE k # 0
      <4>1. k - 1 \in Nat /\ k - 1 <= k
        BY <3>4
      <4>2. Powers(to(k - 1), k - 1)
        BY <1>1, <4>1
      <4>3. P[k - 1] = to(k - 1)[k - 1]
        BY <4>1
      <4> HIDE DEF to, P
      <4>4. to(k - 1)[k - 1] = to(k)[k - 1]
        BY <3>1, <4>1, <4>2, PowersAgree
      <4>5. to(k)[k] = (to(k)[k - 1] * RootOfUnity) % Modulus
        <5> DEFINE p == to(k)
        <5>1. p = [j \in 0..k |-> IF j = 0 THEN 1 ELSE (p[j - 1] * RootOfUnity) % Modulus]
          BY <3>1, Zenon DEF Powers
        <5> HIDE DEF p
        <5>2. p[k] = (p[k - 1] * RootOfUnity) % Modulus
          BY <3>4, <5>1
        <5> QED  BY <5>2 DEF p
      <4> QED  BY <3>2, <3>4, <4>3, <4>4, <4>5
    <3> QED  BY <3>3, <3>4
  <2>2. P = [k \in Nat |-> P[k]]
    OBVIOUS
  <2> HIDE DEF P
  <2> QED  BY <2>1, <2>2
<1> HIDE DEF to, P
<1>3. PowerOfRoot = [k \in Nat |-> IF k = 0 THEN 1 ELSE (PowerOfRoot[k - 1] * RootOfUnity) % Modulus]
  <2> DEFINE Is(p) == p = [k \in Nat |-> IF k = 0 THEN 1 ELSE (p[k - 1] * RootOfUnity) % Modulus]
  <2>1. PowerOfRoot = CHOOSE p : Is(p)
    BY Zenon DEF PowerOfRoot
  <2>2. Is(P)
    BY <1>2
  <2> HIDE DEF Is
  <2>3. Is(PowerOfRoot)
    BY <2>1, <2>2, Zenon
  <2> QED  BY <2>3, Zenon DEF Is
<1>4. ASSUME NEW k \in Nat PROVE PowerOfRoot[k + 1] = (PowerOfRoot[k] * RootOfUnity) % Modulus
  <2>1. k + 1 \in Nat /\ k + 1 # 0 /\ k + 1 - 1 = k
    OBVIOUS
  <2> DEFINE p == PowerOfRoot
  <2>2. p = [j \in Nat |-> IF j = 0 THEN 1 ELSE (p[j - 1] * RootOfUnity) % Modulus]
    BY <1>3, Zenon
  <2> HIDE DEF p
  <2>3. p[k + 1] = (p[k] * RootOfUnity) % Modulus
    BY <2>1, <2>2
  <2> QED  BY <2>3 DEF p
<1>5. PowerOfRoot[0] = 1
  <2> DEFINE p == PowerOfRoot
  <2>1. p = [j \in Nat |-> IF j = 0 THEN 1 ELSE (p[j - 1] * RootOfUnity) % Modulus]
    BY <1>3, Zenon
  <2> HIDE DEF p
  <2>2. p[0] = 1
    BY <2>1
  <2> QED  BY <2>2 DEF p
<1> QED  BY <1>4, <1>5

(* e^(i x), and its inverse, for x a multiple of the step of the table. *)
E(j) == PowerOfRoot[j]
F(j) == PowerOfRoot[j * (kFFTSize - 1)]

LEMMA RootInt == RootOfUnity \in Int /\ ImaginaryUnit \in Int
<1>1. RootOfUnity \in Number /\ ImaginaryUnit \in Number
  BY LogMelAssumption
<1> QED  BY <1>1, NumberMod

LEMMA FrameSize == /\ kFFTSize \in Nat /\ kFFTSize > 1 /\ kFFTSize \in Nat \ {0}
                   /\ kFFTSize = 2 * (kFFTSize \div 2) /\ kFFTSize \div 2 \in Nat /\ kFFTSize \div 2 > 0
<1>1. kFFTSize \in Nat \ {0} /\ kFFTSize % 2 = 0
  BY LogMelAssumption
<1> QED  BY <1>1

LEMMA EInt ==
  ASSUME NEW j \in Nat
  PROVE  E(j) \in Int /\ F(j) \in Int /\ j * (kFFTSize - 1) \in Nat
<1>0. ASSUME NEW n \in Nat PROVE E(n) \in Int
  <2> DEFINE S == {k \in Nat : PowerOfRoot[k] \in Int}
  <2>1. 0 \in S
    BY PowerSteps
  <2>2. ASSUME NEW k \in S PROVE k + 1 \in S
    <3>1. PowerOfRoot[k] * RootOfUnity \in Int
      BY RootInt
    <3>2. (PowerOfRoot[k] * RootOfUnity) % Modulus \in Int
      BY <3>1, ModIsSame
    <3> QED  BY <3>2, PowerSteps
  <2>3. S \in SUBSET Nat
    OBVIOUS
  <2> HIDE DEF S
  <2>4. S = Nat
    BY <2>1, <2>2, <2>3, NatSetInduction
  <2> QED  BY <2>4 DEF S, E
<1>1. j * (kFFTSize - 1) \in Nat
  <2>1. kFFTSize - 1 \in Nat
    BY FrameSize
  <2> QED  BY <2>1
<1> QED  BY <1>0, <1>1 DEF E, F

LEMMA EAdd ==
  ASSUME NEW a \in Nat, NEW b \in Nat
  PROVE  Same(E(a + b), E(a) * E(b))
<1> DEFINE S == {k \in Nat : Same(E(a + k), E(a) * E(k))}
<1>1. 0 \in S
  <2>1. a + 0 = a /\ E(0) = 1 /\ E(a) * 1 = E(a) /\ E(a) \in Int
    BY PowerSteps, EInt DEF E
  <2> QED  BY <2>1, SameReflexive
<1>2. ASSUME NEW k \in S PROVE k + 1 \in S
  <2>1. E(a) \in Int /\ E(k) \in Int /\ E(a + k) \in Int /\ E(k + 1) \in Int /\ E(a + (k + 1)) \in Int
    BY EInt
  <2>2. Same(E(k + 1), E(k) * RootOfUnity)
    <3>1. E(k) * RootOfUnity \in Int
      BY <2>1, RootInt
    <3>2. E(k + 1) = (E(k) * RootOfUnity) % Modulus
      BY PowerSteps DEF E
    <3> QED  BY <3>1, <3>2, ModIsSame
  <2>3. Same(E(a + (k + 1)), E(a + k) * RootOfUnity)
    <3>1. E(a + k) * RootOfUnity \in Int
      BY <2>1, RootInt
    <3>2. E((a + k) + 1) = (E(a + k) * RootOfUnity) % Modulus
      <4>1. a + k \in Nat
        OBVIOUS
      <4> QED  BY <4>1, PowerSteps DEF E
    <3>3. (a + k) + 1 = a + (k + 1)
      OBVIOUS
    <3> QED  BY <3>1, <3>2, <3>3, ModIsSame
  <2>4. Same(E(a + k), E(a) * E(k))
    OBVIOUS
  <2> DEFINE x == E(a)
             y == E(k)
             z == E(a + k)
             yy == E(k + 1)
             zz == E(a + (k + 1))
  <2> HIDE DEF x, y, z, yy, zz
  <2>5. Same(zz, z * RootOfUnity) /\ Same(z, x * y) /\ Same(yy, y * RootOfUnity)
    BY <2>2, <2>3, <2>4 DEF x, y, z, yy, zz
  <2>6. x \in Int /\ y \in Int /\ z \in Int /\ yy \in Int /\ zz \in Int
    BY <2>1 DEF x, y, z, yy, zz
  <2>7. /\ z * RootOfUnity \in Int /\ x * y \in Int /\ y * RootOfUnity \in Int
        /\ (x * y) * RootOfUnity \in Int /\ x * (y * RootOfUnity) \in Int /\ x * yy \in Int
        /\ (x * y) * RootOfUnity = x * (y * RootOfUnity)
    BY <2>6, RootInt
  <2>8. Same(z * RootOfUnity, (x * y) * RootOfUnity)
    BY <2>5, <2>6, <2>7, RootInt, SameReflexive, SameProduct
  <2>9. Same(x * (y * RootOfUnity), x * yy)
    BY <2>5, <2>6, <2>7, SameReflexive, SameSymmetric, SameProduct
  <2>10. Same(zz, x * (y * RootOfUnity))
    BY <2>5, <2>6, <2>7, <2>8, SameTransitive
  <2>11. Same(zz, x * yy)
    BY <2>6, <2>7, <2>9, <2>10, SameTransitive
  <2> QED  BY <2>11 DEF x, yy, zz
<1>3. S = Nat
  <2>1. S \in SUBSET Nat
    OBVIOUS
  <2> HIDE DEF S
  <2> QED  BY <1>1, <1>2, <2>1, NatSetInduction
<1>4. b \in S
  BY <1>3
<1> QED  BY <1>4

(* The powers repeat after kFFTSize of them. *)
LEMMA EPeriod ==
  ASSUME NEW a \in Nat, NEW q \in Nat
  PROVE  Same(E(a + kFFTSize * q), E(a))
<1> DEFINE S == {k \in Nat : Same(E(a + kFFTSize * k), E(a))}
<1>1. 0 \in S
  <2>1. a + kFFTSize * 0 = a
    BY FrameSize
  <2> QED  BY <2>1, EInt, SameReflexive
<1>2. ASSUME NEW k \in S PROVE k + 1 \in S
  <2> DEFINE b == a + kFFTSize * k
  <2>1. b \in Nat /\ b + kFFTSize = a + kFFTSize * (k + 1)
    BY FrameSize
  <2>2. Same(E(b), E(a))
    OBVIOUS
  <2> HIDE DEF b
  <2>3. Same(E(b + kFFTSize), E(b) * E(kFFTSize))
    BY <2>1, FrameSize, EAdd
  <2>4. E(kFFTSize) = 1
    BY LogMelAssumption DEF E
  <2>5. E(b) \in Int /\ E(a) \in Int /\ E(b + kFFTSize) \in Int
    BY <2>1, FrameSize, EInt
  <2>6. E(b) * E(kFFTSize) = E(b)
    BY <2>4, <2>5
  <2>7. Same(E(b + kFFTSize), E(a))
    BY <2>2, <2>3, <2>5, <2>6, SameTransitive
  <2> QED  BY <2>1, <2>7
<1>3. S = Nat
  <2>1. S \in SUBSET Nat
    OBVIOUS
  <2> HIDE DEF S
  <2> QED  BY <1>1, <1>2, <2>1, NatSetInduction
<1>4. q \in S
  BY <1>3
<1> QED  BY <1>4

LEMMA EResidue ==
  ASSUME NEW a \in Nat, NEW b \in Nat, a % kFFTSize = b % kFFTSize
  PROVE  Same(E(a), E(b))
<1> DEFINE r == a % kFFTSize
<1>1. PICK p \in Nat : a = r + kFFTSize * p
  <2>1. a = (a % kFFTSize) + kFFTSize * (a \div kFFTSize) /\ a \div kFFTSize \in Nat
    BY FrameSize
  <2> QED  BY <2>1
<1>2. PICK q \in Nat : b = r + kFFTSize * q
  <2>1. b = (b % kFFTSize) + kFFTSize * (b \div kFFTSize) /\ b \div kFFTSize \in Nat
    BY FrameSize
  <2> QED  BY <2>1
<1>3. r \in Nat
  BY FrameSize
<1> HIDE DEF r
<1>4. Same(E(a), E(r)) /\ Same(E(b), E(r))
  BY <1>1, <1>2, <1>3, EPeriod
<1> QED  BY <1>3, <1>4, EInt, SameSymmetric, SameTransitive

-----------------------------------------------------------------------------
(* The tables, continued over all multiples of the step. *)
Cos(j) == cos_vals_[j % kFFTSize]
Sin(j) == sin_vals_[j % kFFTSize]

LEMMA HalfIsHalf == Half \in Int /\ 2 * Half = 1 + Modulus
<1>1. Modulus \in Nat \ {0} /\ Modulus % 2 = 1
  BY LogMelAssumption
<1> QED  BY <1>1 DEF Half

LEMMA TableEntries ==
  ASSUME NEW r \in 0..(kFFTSize - 1)
  PROVE  /\ cos_vals_[r] \in Number /\ cos_vals_[r] \in Int
         /\ sin_vals_[r] \in Number /\ sin_vals_[r] \in Int
         /\ Same(cos_vals_[r], Half * (E(r) + E(kFFTSize - r)))
         /\ Same(sin_vals_[r], Half * ImaginaryUnit * (E(kFFTSize - r) - E(r)))
<1> DEFINE c == Half * (E(r) + E(kFFTSize - r))
           s == Half * ImaginaryUnit * (E(kFFTSize - r) - E(r))
<1>1. E(r) \in Int /\ E(kFFTSize - r) \in Int
  <2>1. r \in Nat /\ kFFTSize - r \in Nat
    BY FrameSize
  <2> QED  BY <2>1, EInt
<1>2. c \in Int /\ s \in Int
  BY <1>1, HalfIsHalf, RootInt
<1>3. cos_vals_[r] = c % Modulus /\ sin_vals_[r] = s % Modulus
  BY DEF cos_vals_, sin_vals_, kSinCosTableSize, E
<1> HIDE DEF c, s
<1>4. /\ cos_vals_[r] \in Number /\ cos_vals_[r] \in Int /\ Same(cos_vals_[r], c)
      /\ sin_vals_[r] \in Number /\ sin_vals_[r] \in Int /\ Same(sin_vals_[r], s)
  BY <1>2, <1>3, ModIsSame
<1> QED  BY <1>4 DEF c, s

(* r steps back are j * (kFFTSize - 1) steps forward, for j with remainder r. *)
LEMMA StepsBack ==
  ASSUME NEW j \in Nat
  PROVE  (kFFTSize - (j % kFFTSize)) % kFFTSize = (j * (kFFTSize - 1)) % kFFTSize
<1> DEFINE r == j % kFFTSize
           d == j \div kFFTSize
<1>1. r \in 0..(kFFTSize - 1) /\ d \in Nat /\ j = kFFTSize * d + r
  BY FrameSize
<1> HIDE DEF r, d
<1>2. j * (kFFTSize - 1) = kFFTSize * (d * (kFFTSize - 1)) + r * kFFTSize - r
  <2>1. j * (kFFTSize - 1) = (kFFTSize * d) * (kFFTSize - 1) + r * (kFFTSize - 1)
    BY <1>1, FrameSize
  <2>2. (kFFTSize * d) * (kFFTSize - 1) = kFFTSize * (d * (kFFTSize - 1))
    BY <1>1, FrameSize
  <2>3. r * (kFFTSize - 1) = r * kFFTSize - r
    BY <1>1, FrameSize
  <2>4. kFFTSize * (d * (kFFTSize - 1)) \in Int
    BY <1>1, FrameSize
  <2> QED  BY <1>1, <2>1, <2>2, <2>3, <2>4, FrameSize
<1> DEFINE u == j * (kFFTSize - 1)
           w == d * (kFFTSize - 1)
<1>3. w \in Int /\ u \in Int
  BY <1>1, FrameSize
<1>4. u = kFFTSize * w + r * kFFTSize - r
  BY <1>2
<1> HIDE DEF u, w
<1>5. CASE r = 0
  <2>1. u = kFFTSize * w + 0 /\ 0 \in 0..(kFFTSize - 1) /\ kFFTSize - r = kFFTSize * 1 + 0
    BY <1>3, <1>4, <1>5, FrameSize
  <2>2. u % kFFTSize = 0
    BY <1>3, <2>1, FrameSize, Remainder
  <2>3. (kFFTSize - r) % kFFTSize = 0
    <3>1. kFFTSize - r \in Int /\ 1 \in Int
      BY <1>1, FrameSize
    <3> QED  BY <2>1, <3>1, FrameSize, Remainder
  <2> QED  BY <2>2, <2>3 DEF u, r
<1>6. CASE r # 0
  <2> DEFINE b == kFFTSize - r
  <2>1. b \in 0..(kFFTSize - 1) /\ b \in Int /\ w + r - 1 \in Int
    BY <1>1, <1>3, <1>6, FrameSize
  <2>2. u = kFFTSize * (w + r - 1) + b /\ b = kFFTSize * 0 + b
    BY <1>1, <1>3, <1>4, FrameSize
  <2> HIDE DEF b
  <2>3. u % kFFTSize = b
    BY <1>3, <2>1, <2>2, FrameSize, Remainder
  <2>4. b % kFFTSize = b
    <3>1. 0 \in Int
      OBVIOUS
    <3> QED  BY <2>1, <2>2, <3>1, FrameSize, Remainder
  <2> QED  BY <2>3, <2>4 DEF u, r, b
<1> QED  BY <1>5, <1>6

LEMMA CosSin ==
  ASSUME NEW j \in Nat
  PROVE  /\ Cos(j) \in Number /\ Cos(j) \in Int /\ Sin(j) \in Number /\ Sin(j) \in Int
         /\ Same(Cos(j), Half * (E(j) + F(j)))
         /\ Same(Sin(j), Half * ImaginaryUnit * (F(j) - E(j)))
<1> DEFINE r == j % kFFTSize
           b == kFFTSize - r
           u == j * (kFFTSize - 1)
<1>1. r \in 0..(kFFTSize - 1) /\ r \in Nat /\ b \in Nat /\ r % kFFTSize = j % kFFTSize
  <2>1. r \in 0..(kFFTSize - 1)
    BY FrameSize
  <2> HIDE DEF r
  <2>2. r = kFFTSize * 0 + r /\ r \in Int /\ 0 \in Int
    BY <2>1, FrameSize
  <2>3. r % kFFTSize = r
    BY <2>1, <2>2, FrameSize, Remainder
  <2> QED  BY <2>1, <2>3, FrameSize DEF r
<1>2. b % kFFTSize = u % kFFTSize
  BY StepsBack
<1>3. u \in Nat /\ E(j) \in Int /\ F(j) \in Int /\ F(j) = E(u)
  BY EInt DEF E, F
<1>4. /\ Cos(j) \in Number /\ Cos(j) \in Int /\ Sin(j) \in Number /\ Sin(j) \in Int
      /\ Same(Cos(j), Half * (E(r) + E(b)))
      /\ Same(Sin(j), Half * ImaginaryUnit * (E(b) - E(r)))
  <2> HIDE DEF r
  <2>1. /\ cos_vals_[r] \in Number /\ cos_vals_[r] \in Int
        /\ sin_vals_[r] \in Number /\ sin_vals_[r] \in Int
        /\ Same(cos_vals_[r], Half * (E(r) + E(b)))
        /\ Same(sin_vals_[r], Half * ImaginaryUnit * (E(b) - E(r)))
    BY <1>1, TableEntries, Zenon
  <2> QED  BY <2>1 DEF Cos, Sin, r
<1> HIDE DEF r, b, u
<1>5. Same(E(r), E(j)) /\ Same(E(b), E(u))
  <2>1. r % kFFTSize = j % kFFTSize
    BY <1>1
  <2> QED  BY <1>1, <1>2, <1>3, <2>1, EResidue
<1>6. E(r) \in Int /\ E(b) \in Int /\ E(u) \in Int
  BY <1>1, <1>3, EInt
<1> DEFINE x == E(r)
           y == E(b)
           v == E(j)
           w == F(j)
<1>7. Same(x, v) /\ Same(y, w) /\ x \in Int /\ y \in Int /\ v \in Int /\ w \in Int
  BY <1>3, <1>5, <1>6
<1> HIDE DEF x, y, v, w
<1>8. Same(x + y, v + w) /\ Same(y - x, w - v)
  BY <1>7, SameSum
<1>9. /\ x + y \in Int /\ v + w \in Int /\ y - x \in Int /\ w - v \in Int
      /\ Half * ImaginaryUnit \in Int /\ Half \in Int
  BY <1>7, HalfIsHalf, RootInt
<1>10. /\ Same(Half * (x + y), Half * (v + w))
       /\ Same((Half * ImaginaryUnit) * (y - x), (Half * ImaginaryUnit) * (w - v))
  BY <1>8, <1>9, SameReflexive, SameProduct
<1>11. /\ Half * (x + y) \in Int /\ Half * (v + w) \in Int
       /\ (Half * ImaginaryUnit) * (y - x) \in Int /\ (Half * ImaginaryUnit) * (w - v) \in Int
  BY <1>9
<1> QED  BY <1>4, <1>10, <1>11, SameTransitive DEF x, y, v, w

LEMMA UnitSquare == Same(ImaginaryUnit * ImaginaryUnit, -1)
<1>1. ImaginaryUnit * ImaginaryUnit \in Int
  BY RootInt
<1>2. Same(ImaginaryUnit * ImaginaryUnit, Modulus - 1)
  BY <1>1, LogMelAssumption, ModIsSame
<1>3. Same(Modulus - 1, -1) /\ Modulus - 1 \in Int /\ -1 \in Int
  <2>1. Modulus - 1 = -1 + Modulus * 1 /\ 1 \in Int
    BY ModulusPositive
  <2> QED  BY <2>1, ModulusPositive DEF Same
<1> QED  BY <1>1, <1>2, <1>3, SameTransitive

LEMMA FAdd ==
  ASSUME NEW a \in Nat, NEW b \in Nat
  PROVE  Same(F(a + b), F(a) * F(b))
<1> DEFINE u == a * (kFFTSize - 1)
           v == b * (kFFTSize - 1)
<1>1. u \in Nat /\ v \in Nat
  BY EInt
<1>2. (a + b) * (kFFTSize - 1) = u + v
  BY FrameSize
<1> HIDE DEF u, v
<1>3. Same(E(u + v), E(u) * E(v))
  BY <1>1, EAdd
<1> QED  BY <1>2, <1>3 DEF E, F, u, v

(* The addition theorems. *)
LEMMA Addition ==
  ASSUME NEW a \in Nat, NEW b \in Nat
  PROVE  /\ Same(Cos(a + b), Cos(a) * Cos(b) - Sin(a) * Sin(b))
         /\ Same(Sin(a + b), Sin(a) * Cos(b) + Cos(a) * Sin(b))
<1> DEFINE A == E(a)
           B == E(b)
           P == F(a)
           Q == F(b)
           AB == E(a + b)
           PQ == F(a + b)
           h == Half
           i == ImaginaryUnit
           Ca == Cos(a)
           Cb == Cos(b)
           Sa == Sin(a)
           Sb == Sin(b)
           C == Cos(a + b)
           S == Sin(a + b)
<1>1. /\ A \in Int /\ B \in Int /\ P \in Int /\ Q \in Int /\ AB \in Int /\ PQ \in Int
      /\ h \in Int /\ i \in Int /\ 2 * h = 1 + Modulus
      /\ Ca \in Int /\ Cb \in Int /\ Sa \in Int /\ Sb \in Int /\ C \in Int /\ S \in Int
  BY EInt, HalfIsHalf, RootInt, CosSin
<1>2. /\ Same(Ca, h * (A + P)) /\ Same(Cb, h * (B + Q))
      /\ Same(Sa, h * i * (P - A)) /\ Same(Sb, h * i * (Q - B))
  BY CosSin
<1>3. Same(C, h * (AB + PQ)) /\ Same(S, h * i * (PQ - AB))
  <2>1. a + b \in Nat
    OBVIOUS
  <2> QED  BY <2>1, CosSin
<1>4. Same(AB, A * B) /\ Same(PQ, P * Q)
  BY EAdd, FAdd
<1>5. Same(i * i, -1)
  BY UnitSquare
<1> HIDE DEF A, B, P, Q, AB, PQ, h, i, Ca, Cb, Sa, Sb, C, S
<1>6. /\ h * (A + P) \in Int /\ h * (B + Q) \in Int /\ h * i * (P - A) \in Int /\ h * i * (Q - B) \in Int
  BY <1>1
<1> DEFINE ca == h * (A + P)
           cb == h * (B + Q)
           sa == h * i * (P - A)
           sb == h * i * (Q - B)
<1>7. /\ Same(Ca * Cb, ca * cb) /\ Same(Sa * Sb, sa * sb)
      /\ Same(Sa * Cb, sa * cb) /\ Same(Ca * Sb, ca * sb)
      /\ ca * cb \in Int /\ sa * sb \in Int /\ sa * cb \in Int /\ ca * sb \in Int
      /\ Ca * Cb \in Int /\ Sa * Sb \in Int /\ Sa * Cb \in Int /\ Ca * Sb \in Int
  <2> HIDE DEF ca, cb, sa, sb
  <2>1. /\ ca \in Int /\ cb \in Int /\ sa \in Int /\ sb \in Int
        /\ Same(Ca, ca) /\ Same(Cb, cb) /\ Same(Sa, sa) /\ Same(Sb, sb)
    BY <1>2, <1>6 DEF ca, cb, sa, sb
  <2> QED  BY <1>1, <2>1, SameProduct
<1>8. /\ Same(Ca * Cb - Sa * Sb, ca * cb - sa * sb)
      /\ Same(Sa * Cb + Ca * Sb, sa * cb + ca * sb)
  <2> HIDE DEF ca, cb, sa, sb
  <2> QED  BY <1>7, SameSum
<1>9. PICK n \in Int : i * i = -1 + Modulus * n
  BY <1>5 DEF Same
<1> DEFINE hh == h * (A * B + P * Q)
           dd == h * i * (P * Q - A * B)
<1>10. hh \in Int /\ dd \in Int
  BY <1>1
<1>11. ca * cb - sa * sb = hh + Modulus * (hh - n * (h * h * ((P - A) * (Q - B))))
  <2>1. sa * sb = (i * i) * (h * h * ((P - A) * (Q - B)))
    BY <1>1
  <2>2. ca * cb = h * h * ((A + P) * (B + Q))
    BY <1>1
  <2>3. (A + P) * (B + Q) + (P - A) * (Q - B) = 2 * (A * B + P * Q)
    BY <1>1
  <2>4. (2 * h) * hh = 2 * (h * h * (A * B + P * Q))
    BY <1>1
  <2>5. (2 * h) * hh = hh + Modulus * hh
    BY <1>1, <1>10, ModulusPositive
  <2> DEFINE x == (P - A) * (Q - B)
             y == (A + P) * (B + Q)
             z == A * B + P * Q
             k == h * h
  <2>6. x \in Int /\ y \in Int /\ z \in Int /\ k \in Int /\ y + x = 2 * z
    BY <1>1, <2>3
  <2>7. sa * sb = (-1 + Modulus * n) * (k * x) /\ ca * cb = k * y /\ 2 * (k * z) = hh + Modulus * hh
    BY <1>9, <2>1, <2>2, <2>4, <2>5
  <2> HIDE DEF ca, cb, sa, sb, x, y, z, k, hh
  <2>8. ca * cb - sa * sb = (k * y + k * x) - Modulus * (n * (k * x))
    BY <2>6, <2>7, ModulusPositive
  <2>9. k * y + k * x = 2 * (k * z)
    <3>1. k * (y + x) = k * y + k * x /\ k * (2 * z) = 2 * (k * z)
      BY <2>6
    <3> QED  BY <2>6, <3>1
  <2>10. k * x \in Int /\ n * (k * x) \in Int /\ hh \in Int
    BY <1>10, <2>6
  <2>11. ca * cb - sa * sb = hh + Modulus * (hh - n * (k * x))
    <3> DEFINE v == n * (k * x)
    <3>1. v \in Int /\ ca * cb - sa * sb = (hh + Modulus * hh) - Modulus * v
      <4>1. k * y + k * x = hh + Modulus * hh
        BY <2>7, <2>9, Zenon
      <4>2. ca * cb - sa * sb = (k * y + k * x) - Modulus * v
        BY <2>8
      <4> QED
        BY <2>10, <4>1, <4>2
    <3> HIDE DEF v
    <3>2. Modulus * (hh - v) = Modulus * hh - Modulus * v
      BY <2>10, <3>1, ModulusPositive
    <3>3. Modulus * hh \in Int /\ Modulus * v \in Int
      BY <2>10, <3>1, ModulusPositive
    <3>4. ca * cb - sa * sb = hh + Modulus * (hh - v)
      BY <2>10, <3>1, <3>2, <3>3
    <3> QED  BY <3>4 DEF v
  <2>12. k * x = h * h * ((P - A) * (Q - B))
    BY DEF k, x
  <2> QED  BY <2>11, <2>12, Zenon
<1>12. sa * cb + ca * sb = dd + Modulus * dd
  <2>1. sa * cb + ca * sb = (2 * h) * dd
    <3>1. sa * cb = h * h * i * ((P - A) * (B + Q))
      BY <1>1
    <3>2. ca * sb = h * h * i * ((A + P) * (Q - B))
      BY <1>1
    <3>3. (P - A) * (B + Q) + (A + P) * (Q - B) = 2 * (P * Q - A * B)
      BY <1>1
    <3>4. (2 * h) * dd = (h * h * i) * (2 * (P * Q - A * B))
      BY <1>1
    <3> DEFINE x == (P - A) * (B + Q)
               y == (A + P) * (Q - B)
               k == h * h * i
    <3>5. x \in Int /\ y \in Int /\ k \in Int
      BY <1>1
    <3>6. sa * cb = k * x /\ ca * sb = k * y /\ (2 * h) * dd = k * (x + y)
      BY <3>1, <3>2, <3>3, <3>4
    <3> HIDE DEF x, y, k, sa, sb, ca, cb, dd
    <3> QED  BY <3>5, <3>6
  <2> QED  BY <1>1, <1>10, <2>1, ModulusPositive
<1>13. /\ Same(ca * cb - sa * sb, hh) /\ Same(sa * cb + ca * sb, dd)
       /\ ca * cb - sa * sb \in Int /\ sa * cb + ca * sb \in Int
  <2>1. hh - n * (h * h * ((P - A) * (Q - B))) \in Int
    BY <1>1, <1>10
  <2> HIDE DEF ca, cb, sa, sb, hh, dd
  <2> QED  BY <1>7, <1>10, <1>11, <1>12, <2>1 DEF Same
<1>14. Same(C, hh) /\ Same(S, dd)
  <2>1. Same(AB + PQ, A * B + P * Q) /\ Same(PQ - AB, P * Q - A * B)
    <3>1. A * B \in Int /\ P * Q \in Int
      BY <1>1
    <3> DEFINE x == A * B
               y == P * Q
    <3> HIDE DEF x, y
    <3>2. x \in Int /\ y \in Int /\ Same(AB, x) /\ Same(PQ, y)
      BY <1>4, <3>1 DEF x, y
    <3>3. Same(AB + PQ, x + y) /\ Same(PQ - AB, y - x)
      BY <1>1, <3>2, SameSum
    <3> QED  BY <3>3 DEF x, y
  <2> DEFINE x == AB + PQ
             y == A * B + P * Q
             v == PQ - AB
             w == P * Q - A * B
             k == h * i
  <2>2. x \in Int /\ y \in Int /\ v \in Int /\ w \in Int /\ k \in Int
    BY <1>1
  <2>3. Same(x, y) /\ Same(v, w) /\ Same(C, h * x) /\ Same(S, k * v) /\ hh = h * y /\ dd = k * w
    BY <1>3, <2>1
  <2> HIDE DEF x, y, v, w, k, hh, dd
  <2>4. Same(h * x, h * y) /\ Same(k * v, k * w)
    BY <1>1, <2>2, <2>3, SameReflexive, SameProduct
  <2>5. h * x \in Int /\ h * y \in Int /\ k * v \in Int /\ k * w \in Int
    BY <1>1, <2>2
  <2> QED  BY <1>1, <2>3, <2>4, <2>5, SameTransitive
<1> HIDE DEF ca, cb, sa, sb, hh, dd
<1>15. /\ Same(Ca * Cb - Sa * Sb, hh) /\ Same(Sa * Cb + Ca * Sb, dd)
       /\ Ca * Cb - Sa * Sb \in Int /\ Sa * Cb + Ca * Sb \in Int
  <2>1. /\ Ca * Cb - Sa * Sb \in Int /\ Sa * Cb + Ca * Sb \in Int
    BY <1>7
  <2> QED  BY <1>8, <1>10, <1>13, <2>1, SameTransitive
<1>16. /\ Same(C, Ca * Cb - Sa * Sb) /\ Same(S, Sa * Cb + Ca * Sb)
  BY <1>1, <1>10, <1>14, <1>15, SameSymmetric, SameTransitive
<1> QED  BY <1>16 DEF C, S, Ca, Cb, Sa, Sb

(* A full turn changes nothing, half a turn the signs. *)
LEMMA FullTurns ==
  ASSUME NEW j \in Nat, NEW q \in Nat
  PROVE  Cos(j + kFFTSize * q) = Cos(j) /\ Sin(j + kFFTSize * q) = Sin(j)
<1> DEFINE r == j % kFFTSize
           d == j \div kFFTSize
           a == j + kFFTSize * q
<1>1. r \in 0..(kFFTSize - 1) /\ d \in Int /\ j = kFFTSize * d + r
  BY FrameSize
<1> HIDE DEF r, d
<1>2. a \in Int /\ a = kFFTSize * (d + q) + r /\ d + q \in Int
  BY <1>1, FrameSize
<1> HIDE DEF a
<1>3. a % kFFTSize = r
  BY <1>1, <1>2, FrameSize, Remainder
<1> QED  BY <1>3 DEF Cos, Sin, a, r

LEMMA NoTurn == Same(Cos(0), 1) /\ Same(Sin(0), 0)
<1>1. E(0) = 1 /\ F(0) = 1
  <2>1. 0 * (kFFTSize - 1) = 0
    BY FrameSize
  <2> QED  BY <2>1, PowerSteps DEF E, F
<1>2. Same(Cos(0), Half * (1 + 1)) /\ Same(Sin(0), Half * ImaginaryUnit * (1 - 1))
  <2>1. 0 \in Nat
    OBVIOUS
  <2> QED  BY <1>1, <2>1, CosSin
<1>3. Half * (1 + 1) = 1 + Modulus * 1 /\ Half * (1 + 1) \in Int /\ 1 \in Int
  BY HalfIsHalf, ModulusPositive
<1>4. Half * ImaginaryUnit * (1 - 1) = 0
  BY HalfIsHalf, RootInt
<1>5. Same(Half * (1 + 1), 1)
  BY <1>3 DEF Same
<1>6. Cos(0) \in Int
  BY CosSin
<1> QED  BY <1>2, <1>3, <1>4, <1>5, <1>6, SameTransitive

LEMMA HalfTurn ==
  ASSUME NEW j \in Nat
  PROVE  /\ Same(Cos(j + kFFTSize \div 2), -Cos(j))
         /\ Same(Sin(j + kFFTSize \div 2), -Sin(j))
<1> DEFINE b == kFFTSize \div 2
           C == Cos(j)
           S == Sin(j)
           Cb == Cos(b)
           Sb == Sin(b)
           CC == Cos(j + b)
           SS == Sin(j + b)
<1>1. b \in Nat /\ kFFTSize = 2 * b /\ b > 0 /\ j + b \in Nat
  BY FrameSize
<1>2. E(b) = Modulus - 1
  BY LogMelAssumption DEF E
<1> HIDE DEF b
<1>3. Same(F(b), E(b))
  <2> DEFINE u == b * (kFFTSize - 1)
  <2>1. u = kFFTSize * (b - 1) + b /\ u \in Nat /\ b = kFFTSize * 0 + b
    <3>1. u = b * (2 * b - 1) /\ kFFTSize * (b - 1) = (2 * b) * (b - 1)
      BY <1>1
    <3>2. b * (2 * b - 1) = (2 * b) * (b - 1) + b
      BY <1>1
    <3>3. b * (2 * b - 1) \in Nat
      BY <1>1
    <3> QED  BY <1>1, <3>1, <3>2, <3>3
  <2>2. b \in 0..(kFFTSize - 1) /\ b - 1 \in Int /\ b \in Int /\ 0 \in Int
    BY <1>1
  <2> HIDE DEF u
  <2>3. u % kFFTSize = b /\ u \in Int
    BY <2>1, <2>2, FrameSize, Remainder
  <2>4. b % kFFTSize = b
    BY <2>1, <2>2, FrameSize, Remainder
  <2>5. Same(E(u), E(b))
    BY <1>1, <2>1, <2>3, <2>4, EResidue
  <2> QED  BY <2>5 DEF E, F, u
<1> DEFINE e == E(b)
           f == F(b)
           h == Half
           i == ImaginaryUnit
<1>4. /\ e \in Int /\ f \in Int /\ h \in Int /\ i \in Int /\ 2 * h = 1 + Modulus
      /\ e = Modulus - 1 /\ Same(f, e)
      /\ Same(Cb, h * (e + f)) /\ Same(Sb, h * i * (f - e))
      /\ Cb \in Int /\ Sb \in Int
  BY <1>1, <1>2, <1>3, EInt, HalfIsHalf, RootInt, CosSin
<1>5. /\ C \in Int /\ S \in Int /\ CC \in Int /\ SS \in Int
      /\ Same(CC, C * Cb - S * Sb) /\ Same(SS, S * Cb + C * Sb)
  BY <1>1, Addition, CosSin
<1> HIDE DEF e, f, h, i, C, S, CC, SS, Cb, Sb
<1>6. PICK p \in Int : f = e + Modulus * p
  BY <1>4 DEF Same
<1>7. PICK q \in Int : Cb = h * (e + f) + Modulus * q
  BY <1>4 DEF Same
<1>8. PICK r \in Int : Sb = h * i * (f - e) + Modulus * r
  BY <1>4 DEF Same
<1>9. Same(Cb, -1)
  <2>1. h * (e + f) = (2 * h) * e + Modulus * (h * p)
    BY <1>4, <1>6, ModulusPositive
  <2>2. (2 * h) * e = e + Modulus * e
    BY <1>4, ModulusPositive
  <2>3. h * p \in Int
    BY <1>4
  <2>4. Cb = -1 + Modulus * (1 + e + h * p + q) /\ 1 + e + h * p + q \in Int
    <3> DEFINE v == h * p
    <3>1. v \in Int /\ Cb = (e + Modulus * e) + Modulus * v + Modulus * q /\ e = Modulus - 1
      BY <1>4, <1>7, <2>1, <2>2, <2>3
    <3> HIDE DEF v
    <3>2. Cb = -1 + Modulus * (1 + e + v + q) /\ 1 + e + v + q \in Int
      BY <1>4, <3>1, ModulusPositive
    <3> QED  BY <3>2 DEF v
  <2> QED  BY <2>4 DEF Same
<1>10. Same(Sb, 0)
  <2>1. f - e = Modulus * p /\ h * i \in Int
    BY <1>4, <1>6, ModulusPositive
  <2>2. (h * i) * (Modulus * p) = Modulus * ((h * i) * p) /\ (h * i) * p \in Int
    BY <2>1, ModulusPositive
  <2>3. Sb = 0 + Modulus * ((h * i) * p + r) /\ (h * i) * p + r \in Int
    <3> DEFINE v == (h * i) * p
    <3>1. v \in Int /\ Sb = Modulus * v + Modulus * r
      BY <1>8, <2>1, <2>2
    <3> HIDE DEF v
    <3>2. Sb = 0 + Modulus * (v + r) /\ v + r \in Int
      BY <3>1, ModulusPositive
    <3> QED  BY <3>2 DEF v
  <2> QED  BY <2>3 DEF Same
<1>11. PICK u \in Int : Cb = -1 + Modulus * u
  BY <1>9 DEF Same
<1>12. PICK v \in Int : Sb = 0 + Modulus * v
  BY <1>10 DEF Same
<1>13. /\ C * Cb - S * Sb = -C + Modulus * (C * u - S * v) /\ C * u - S * v \in Int
       /\ S * Cb + C * Sb = -S + Modulus * (S * u + C * v) /\ S * u + C * v \in Int
       /\ C * Cb - S * Sb \in Int /\ S * Cb + C * Sb \in Int /\ -C \in Int /\ -S \in Int
  BY <1>4, <1>5, <1>11, <1>12, ModulusPositive
<1>14. Same(CC, -C) /\ Same(SS, -S)
  <2>1. Same(C * Cb - S * Sb, -C) /\ Same(S * Cb + C * Sb, -S)
    BY <1>13 DEF Same
  <2> QED  BY <1>5, <1>13, <2>1, SameTransitive
<1> QED  BY <1>14 DEF b, C, S, CC, SS

-----------------------------------------------------------------------------
(* The transform of x[0] .. x[N - 1], by its definition. *)
Angle(N, k, n)   == k * n * (kFFTSize \div N)
ReTerms(x, N, k) == [n \in 0..(N - 1) |-> x[n] * Cos(Angle(N, k, n))]
ImTerms(x, N, k) == [n \in 0..(N - 1) |-> -(x[n] * Sin(Angle(N, k, n)))]
Re(x, N, k)      == SumOf(ReTerms(x, N, k), 0, N)
Im(x, N, k)      == SumOf(ImTerms(x, N, k), 0, N)

LEMMA AngleNat ==
  ASSUME NEW N \in Nat \ {0}, NEW k \in Nat, NEW n \in Nat
  PROVE  Angle(N, k, n) \in Nat
<1>1. kFFTSize \div N \in Nat
  BY FrameSize
<1>2. k * n \in Nat
  OBVIOUS
<1> HIDE DEF Angle
<1> QED  BY <1>1, <1>2 DEF Angle

LEMMA Terms ==
  ASSUME NEW N \in Nat \ {0}, NEW k \in Nat, NEW x, NEW n \in Nat, n < N, x[n] \in Int
  PROVE  /\ ReTerms(x, N, k)[n] = x[n] * Cos(Angle(N, k, n)) /\ ReTerms(x, N, k)[n] \in Int
         /\ ImTerms(x, N, k)[n] = -(x[n] * Sin(Angle(N, k, n))) /\ ImTerms(x, N, k)[n] \in Int
<1>1. Cos(Angle(N, k, n)) \in Int /\ Sin(Angle(N, k, n)) \in Int
  BY AngleNat, CosSin
<1>2. n \in 0..(N - 1)
  OBVIOUS
<1>3. x[n] * Cos(Angle(N, k, n)) \in Int /\ -(x[n] * Sin(Angle(N, k, n))) \in Int
  BY <1>1
<1> QED  BY <1>2, <1>3 DEF ReTerms, ImTerms

LEMMA ReImNumber ==
  ASSUME NEW N \in Nat \ {0}, NEW k \in Nat, NEW x, \A n \in Nat : n < N => x[n] \in Int
  PROVE  /\ Re(x, N, k) \in Number /\ Re(x, N, k) \in Int
         /\ Im(x, N, k) \in Number /\ Im(x, N, k) \in Int
<1>1. \A n \in Nat : n < N => ReTerms(x, N, k)[n] \in Int /\ ImTerms(x, N, k)[n] \in Int
  BY Terms
<1>2. N \in Nat
  OBVIOUS
<1> QED  BY <1>1, <1>2, SumNext DEF Re, Im

(* Two numbers times the cosine or the sine of a sum of angles. *)
LEMMA TurnedTerm ==
  ASSUME NEW v \in Int, NEW s \in Int, NEW a \in Nat, NEW b \in Nat
  PROVE  /\ Same(s * (v * Cos(a + b)), (s * Cos(b)) * (v * Cos(a)) + (s * Sin(b)) * (-(v * Sin(a))))
         /\ Same(s * (-(v * Sin(a + b))), (s * Cos(b)) * (-(v * Sin(a))) + (-(s * Sin(b))) * (v * Cos(a)))
<1> DEFINE Ca == Cos(a)
           Cb == Cos(b)
           Sa == Sin(a)
           Sb == Sin(b)
           CC == Cos(a + b)
           SS == Sin(a + b)
<1>1. /\ Ca \in Int /\ Cb \in Int /\ Sa \in Int /\ Sb \in Int /\ CC \in Int /\ SS \in Int
      /\ Same(CC, Ca * Cb - Sa * Sb) /\ Same(SS, Sa * Cb + Ca * Sb)
  <2>1. a + b \in Nat
    OBVIOUS
  <2> QED  BY <2>1, Addition, CosSin
<1> HIDE DEF Ca, Cb, Sa, Sb, CC, SS
<1>2. Ca * Cb - Sa * Sb \in Int /\ Sa * Cb + Ca * Sb \in Int /\ s * v \in Int /\ -(s * v) \in Int
  BY <1>1
<1>3. /\ Same((s * v) * CC, (s * v) * (Ca * Cb - Sa * Sb))
      /\ Same((-(s * v)) * SS, (-(s * v)) * (Sa * Cb + Ca * Sb))
  BY <1>1, <1>2, SameReflexive, SameProduct
<1>4. /\ (s * v) * CC = s * (v * CC)
      /\ (-(s * v)) * SS = s * (-(v * SS))
      /\ (s * v) * (Ca * Cb - Sa * Sb) = (s * Cb) * (v * Ca) + (s * Sb) * (-(v * Sa))
      /\ (-(s * v)) * (Sa * Cb + Ca * Sb) = (s * Cb) * (-(v * Sa)) + (-(s * Sb)) * (v * Ca)
  BY <1>1
<1> QED  BY <1>3, <1>4 DEF Ca, Cb, Sa, Sb, CC, SS

(* A sum whose odd terms are combinations of two others. *)
LEMMA Halves ==
  ASSUME NEW H \in Nat, NEW c \in Int, NEW d \in Int,
         NEW f, NEW p, NEW q, NEW h,
         \A m \in Nat : m < H =>
           /\ f[m] \in Int /\ p[m] \in Int /\ q[m] \in Int
           /\ h[2 * m] \in Int /\ h[2 * m + 1] \in Int
           /\ Same(h[2 * m], f[m])
           /\ Same(h[2 * m + 1], c * p[m] + d * q[m])
  PROVE  Same(SumOf(h, 0, 2 * H), SumOf(f, 0, H) + (c * SumOf(p, 0, H) + d * SumOf(q, 0, H)))
<1> DEFINE g == [m \in 0..(H - 1) |-> h[2 * m + 1]]
           A == SumOf(h, 0, 2 * H)
           B == SumOf(f, 0, H)
           G == SumOf(g, 0, H)
           P == SumOf(p, 0, H)
           Q == SumOf(q, 0, H)
<1>1. \A m \in Nat : m < H => g[m] = h[2 * m + 1]
  OBVIOUS
<1> HIDE DEF g
<1>2. Same(A, B + G)
  <2>1. \A m \in Nat : m < H => /\ f[m] \in Int /\ g[m] \in Int
                                /\ h[2 * m] \in Int /\ h[2 * m + 1] \in Int
                                /\ Same(h[2 * m], f[m]) /\ Same(h[2 * m + 1], g[m])
    BY <1>1, SameReflexive
  <2> QED  BY <2>1, SumEvenOdd
<1>3. Same(G, c * P + d * Q)
  <2>1. \A m \in Nat : m < H => /\ p[m] \in Int /\ q[m] \in Int /\ g[m] \in Int
                                /\ Same(g[m], c * p[m] + d * q[m])
    BY <1>1
  <2> QED  BY <2>1, SumLinear
<1>4. A \in Int /\ B \in Int /\ G \in Int /\ P \in Int /\ Q \in Int
  <2>1. \A m \in Nat : m < H => f[m] \in Int /\ g[m] \in Int /\ p[m] \in Int /\ q[m] \in Int
    BY <1>1
  <2>2. 2 * H \in Nat /\ \A j \in Nat : j < 2 * H => h[j] \in Int
    <3>1. ASSUME NEW j \in Nat, j < 2 * H PROVE h[j] \in Int
      <4>1. PICK m \in Nat : m < H /\ (j = 2 * m \/ j = 2 * m + 1)
        <5>1. /\ j = 2 * (j \div 2) + (j % 2) /\ j % 2 \in 0..1 /\ j \div 2 \in Nat
              /\ j \div 2 < H
          BY <3>1
        <5> QED  BY <5>1
      <4> QED  BY <4>1
    <3> QED  BY <3>1
  <2> QED  BY <2>1, <2>2, SumNext
<1> HIDE DEF A, B, G, P, Q
<1>5. Same(A, B + (c * P + d * Q))
  <2> DEFINE w == c * P + d * Q
  <2>1. w \in Int /\ Same(G, w) /\ Same(B, B) /\ B + G \in Int
    BY <1>3, <1>4, SameReflexive
  <2> HIDE DEF w
  <2>2. Same(B + G, B + w) /\ B + w \in Int
    BY <1>4, <2>1, SameSum
  <2>3. Same(A, B + w)
    BY <1>2, <1>4, <2>1, <2>2, SameTransitive
  <2> QED  BY <2>3 DEF w
<1> QED  BY <1>5 DEF A, B, P, Q

(* A transform whose odd terms are turned by phi, and their signs by s, is the
   transform of the even terms and the turned one of the odd. *)
LEMMA HalvesRe ==
  ASSUME NEW H \in Nat \ {0}, NEW k \in Nat, NEW phi \in Nat, NEW s \in Int,
         NEW x, NEW y, NEW h,
         \A m \in Nat : m < H =>
           /\ x[m] \in Int /\ y[m] \in Int /\ h[2 * m] \in Int /\ h[2 * m + 1] \in Int
           /\ Same(h[2 * m], x[m] * Cos(Angle(H, k, m)))
           /\ Same(h[2 * m + 1], s * (y[m] * Cos(Angle(H, k, m) + phi)))
  PROVE  Same(SumOf(h, 0, 2 * H),
              Re(x, H, k) + ((s * Cos(phi)) * Re(y, H, k) + (s * Sin(phi)) * Im(y, H, k)))
<1> DEFINE f == ReTerms(x, H, k)
           p == ReTerms(y, H, k)
           q == ImTerms(y, H, k)
           c == s * Cos(phi)
           d == s * Sin(phi)
<1>0. H \in Nat /\ c \in Int /\ d \in Int
  BY CosSin
<1>1. ASSUME NEW m \in Nat, m < H
      PROVE  /\ f[m] \in Int /\ p[m] \in Int /\ q[m] \in Int
             /\ h[2 * m] \in Int /\ h[2 * m + 1] \in Int
             /\ Same(h[2 * m], f[m])
             /\ Same(h[2 * m + 1], c * p[m] + d * q[m])
  <2> DEFINE v == y[m]
             a == Angle(H, k, m)
             z == h[2 * m + 1]
  <2>1. /\ x[m] \in Int /\ v \in Int /\ h[2 * m] \in Int /\ z \in Int
        /\ Same(h[2 * m], x[m] * Cos(a))
        /\ Same(z, s * (v * Cos(a + phi)))
    BY <1>1
  <2>2. /\ f[m] = x[m] * Cos(a) /\ f[m] \in Int
        /\ p[m] = v * Cos(a) /\ p[m] \in Int
        /\ q[m] = -(v * Sin(a)) /\ q[m] \in Int
    BY <1>1, <2>1, Terms
  <2>3. a \in Nat /\ a + phi \in Nat
    BY AngleNat
  <2> HIDE DEF v, a, z, f, p, q
  <2>4. Same(s * (v * Cos(a + phi)), c * p[m] + d * q[m])
    BY <2>1, <2>2, <2>3, TurnedTerm
  <2>5. s * (v * Cos(a + phi)) \in Int /\ c * p[m] + d * q[m] \in Int
    <3>1. Cos(a + phi) \in Int
      BY <2>3, CosSin
    <3> HIDE DEF c, d
    <3> QED  BY <1>0, <2>1, <2>2, <3>1
  <2> HIDE DEF c, d
  <2>6. Same(z, c * p[m] + d * q[m])
    BY <2>1, <2>4, <2>5, SameTransitive
  <2> QED  BY <2>1, <2>2, <2>6 DEF z
<1> HIDE DEF f, p, q, c, d
<1>2. Same(SumOf(h, 0, 2 * H), SumOf(f, 0, H) + (c * SumOf(p, 0, H) + d * SumOf(q, 0, H)))
  BY <1>0, <1>1, Halves
<1> QED  BY <1>2 DEF f, p, q, c, d, Re, Im

LEMMA HalvesIm ==
  ASSUME NEW H \in Nat \ {0}, NEW k \in Nat, NEW phi \in Nat, NEW s \in Int,
         NEW x, NEW y, NEW h,
         \A m \in Nat : m < H =>
           /\ x[m] \in Int /\ y[m] \in Int /\ h[2 * m] \in Int /\ h[2 * m + 1] \in Int
           /\ Same(h[2 * m], -(x[m] * Sin(Angle(H, k, m))))
           /\ Same(h[2 * m + 1], s * (-(y[m] * Sin(Angle(H, k, m) + phi))))
  PROVE  Same(SumOf(h, 0, 2 * H),
              Im(x, H, k) + ((s * Cos(phi)) * Im(y, H, k) + (-(s * Sin(phi))) * Re(y, H, k)))
<1> DEFINE f == ImTerms(x, H, k)
           p == ImTerms(y, H, k)
           q == ReTerms(y, H, k)
           c == s * Cos(phi)
           d == -(s * Sin(phi))
<1>0. H \in Nat /\ c \in Int /\ d \in Int
  BY CosSin
<1>1. ASSUME NEW m \in Nat, m < H
      PROVE  /\ f[m] \in Int /\ p[m] \in Int /\ q[m] \in Int
             /\ h[2 * m] \in Int /\ h[2 * m + 1] \in Int
             /\ Same(h[2 * m], f[m])
             /\ Same(h[2 * m + 1], c * p[m] + d * q[m])
  <2> DEFINE v == y[m]
             a == Angle(H, k, m)
             z == h[2 * m + 1]
  <2>1. /\ x[m] \in Int /\ v \in Int /\ h[2 * m] \in Int /\ z \in Int
        /\ Same(h[2 * m], -(x[m] * Sin(a)))
        /\ Same(z, s * (-(v * Sin(a + phi))))
    BY <1>1
  <2>2. /\ f[m] = -(x[m] * Sin(a)) /\ f[m] \in Int
        /\ p[m] = -(v * Sin(a)) /\ p[m] \in Int
        /\ q[m] = v * Cos(a) /\ q[m] \in Int
    BY <1>1, <2>1, Terms
  <2>3. a \in Nat /\ a + phi \in Nat
    BY AngleNat
  <2> HIDE DEF v, a, z, f, p, q
  <2>4. Same(s * (-(v * Sin(a + phi))), c * p[m] + d * q[m])
    BY <2>1, <2>2, <2>3, TurnedTerm
  <2>5. s * (-(v * Sin(a + phi))) \in Int /\ c * p[m] + d * q[m] \in Int
    <3>1. Sin(a + phi) \in Int
      BY <2>3, CosSin
    <3> HIDE DEF c, d
    <3> QED  BY <1>0, <2>1, <2>2, <3>1
  <2> HIDE DEF c, d
  <2>6. Same(z, c * p[m] + d * q[m])
    BY <2>1, <2>4, <2>5, SameTransitive
  <2> QED  BY <2>1, <2>2, <2>6 DEF z
<1> HIDE DEF f, p, q, c, d
<1>2. Same(SumOf(h, 0, 2 * H), SumOf(f, 0, H) + (c * SumOf(p, 0, H) + d * SumOf(q, 0, H)))
  BY <1>0, <1>1, Halves
<1> QED  BY <1>2 DEF f, p, q, c, d, Re, Im

LEMMA Quotient ==
  ASSUME NEW m \in Nat \ {0}, NEW q \in Nat
  PROVE  (m * q) \div m = q
<1> DEFINE a == m * q
           d == a \div m
           r == a % m
<1>1. a \in Nat /\ d \in Int /\ r \in 0..(m - 1) /\ a = m * d + r
  OBVIOUS
<1> HIDE DEF d, r
<1>2. m * (q - d) = r
  <2>1. m * (q - d) = m * q - m * d
    BY <1>1
  <2> QED  BY <1>1, <2>1
<1> HIDE DEF a
<1>3. q - d = 0
  <2> DEFINE e == q - d
  <2>1. e \in Int /\ m * e = r
    BY <1>1, <1>2
  <2> HIDE DEF e
  <2>2. ~(e >= 1)
    <3> SUFFICES ASSUME e >= 1 PROVE FALSE
      OBVIOUS
    <3>1. m * e >= m
      BY <2>1
    <3> QED  BY <1>1, <2>1, <3>1
  <2>3. ~(e <= -1)
    <3> SUFFICES ASSUME e <= -1 PROVE FALSE
      OBVIOUS
    <3>1. m * e <= -m
      BY <2>1
    <3> QED  BY <1>1, <2>1, <3>1
  <2>4. e = 0
    BY <2>1, <2>2, <2>3
  <2> QED  BY <2>4 DEF e
<1> QED  BY <1>1, <1>3 DEF a, d

HalfAngles(H, st, k, m) ==
  /\ Angle(2 * H, k, 2 * m) = Angle(H, k, m)
  /\ Angle(2 * H, k, 2 * m + 1) = Angle(H, k, m) + k * st
  /\ Angle(2 * H, k + H, 2 * m) = Angle(H, k, m) + kFFTSize * m
  /\ Angle(2 * H, k + H, 2 * m + 1) = ((Angle(H, k, m) + k * st) + kFFTSize * m) + kFFTSize \div 2

LEMMA Angles ==
  ASSUME NEW H \in Nat \ {0}, NEW st \in Nat, kFFTSize = (2 * H) * st, NEW k \in Nat, NEW m \in Nat
  PROVE  HalfAngles(H, st, k, m)
<1>1. kFFTSize \div (2 * H) = st
  <2>1. 2 * H \in Nat \ {0}
    OBVIOUS
  <2> QED  BY <2>1, Quotient
<1>2. kFFTSize \div H = 2 * st
  <2>1. 2 * st \in Nat /\ kFFTSize = H * (2 * st)
    OBVIOUS
  <2> QED  BY <2>1, Quotient
<1>3. kFFTSize \div 2 = H * st
  <2>1. 2 \in Nat \ {0} /\ H * st \in Nat /\ kFFTSize = 2 * (H * st)
    OBVIOUS
  <2> QED  BY <2>1, Quotient
<1> DEFINE t == k * m * (2 * st)
<1>4. Angle(H, k, m) = t
  BY <1>2 DEF Angle
<1>5. /\ k * (2 * m) * st = t
      /\ k * (2 * m + 1) * st = t + k * st
      /\ (k + H) * (2 * m) * st = t + ((2 * H) * st) * m
      /\ (k + H) * (2 * m + 1) * st = ((t + k * st) + ((2 * H) * st) * m) + H * st
  OBVIOUS
<1> HIDE DEF t
<1> QED  BY <1>1, <1>3, <1>4, <1>5 DEF Angle, HalfAngles

(* The step of the fast transform: the transform of N = 2 * H numbers, from
   those of the H even and the H odd ones. *)
LEMMA Butterfly ==
  ASSUME NEW H \in Nat \ {0}, NEW st \in Nat, kFFTSize = (2 * H) * st,
         NEW k \in Nat, NEW x, NEW xe, NEW xo,
         \A n \in Nat : n < 2 * H => x[n] \in Int,
         \A m \in Nat : m < H => xe[m] = x[2 * m] /\ xo[m] = x[2 * m + 1]
  PROVE  LET c == Cos(k * st)
             d == Sin(k * st)
         IN  /\ Same(Re(x, 2 * H, k), Re(xe, H, k) + (c * Re(xo, H, k) + d * Im(xo, H, k)))
             /\ Same(Im(x, 2 * H, k), Im(xe, H, k) + (c * Im(xo, H, k) + (-d) * Re(xo, H, k)))
             /\ Same(Re(x, 2 * H, k + H), Re(xe, H, k) + ((-c) * Re(xo, H, k) + (-d) * Im(xo, H, k)))
             /\ Same(Im(x, 2 * H, k + H), Im(xe, H, k) + ((-c) * Im(xo, H, k) + d * Re(xo, H, k)))
<1>a. ASSUME NEW m \in Nat
      PROVE  /\ Angle(2 * H, k, 2 * m) = Angle(H, k, m)
             /\ Angle(2 * H, k, 2 * m + 1) = Angle(H, k, m) + k * st
             /\ Angle(2 * H, k + H, 2 * m) = Angle(H, k, m) + kFFTSize * m
             /\ Angle(2 * H, k + H, 2 * m + 1) = ((Angle(H, k, m) + k * st) + kFFTSize * m) + kFFTSize \div 2
  <2>1. HalfAngles(H, st, k, m)
    BY Angles
  <2> QED  BY <2>1, Zenon DEF HalfAngles
<1> DEFINE phi == k * st
           c == Cos(phi)
           d == Sin(phi)
           N == 2 * H
           j == k + H
<1>0. phi \in Nat /\ c \in Int /\ d \in Int /\ N \in Nat \ {0} /\ j \in Nat
  <2>1. phi \in Nat /\ N \in Nat \ {0} /\ j \in Nat
    OBVIOUS
  <2> HIDE DEF phi
  <2> QED  BY <2>1, CosSin
<1>1. ASSUME NEW m \in Nat, m < H
      PROVE  /\ 2 * m \in Nat /\ 2 * m < N /\ 2 * m + 1 \in Nat /\ 2 * m + 1 < N
             /\ xe[m] \in Int /\ xo[m] \in Int /\ x[2 * m] = xe[m] /\ x[2 * m + 1] = xo[m]
             /\ Angle(H, k, m) \in Nat /\ Angle(H, k, m) + phi \in Nat
             /\ Cos(Angle(H, k, m)) \in Int /\ Sin(Angle(H, k, m)) \in Int
             /\ Cos(Angle(H, k, m) + phi) \in Int /\ Sin(Angle(H, k, m) + phi) \in Int
  <2>1. 2 * m \in Nat /\ 2 * m < N /\ 2 * m + 1 \in Nat /\ 2 * m + 1 < N
    BY <1>1
  <2>2. xe[m] \in Int /\ xo[m] \in Int /\ x[2 * m] = xe[m] /\ x[2 * m + 1] = xo[m]
    BY <1>1, <2>1
  <2>3. Angle(H, k, m) \in Nat /\ Angle(H, k, m) + phi \in Nat
    <3>1. Angle(H, k, m) \in Nat
      BY AngleNat
    <3> HIDE DEF phi
    <3> QED  BY <1>0, <3>1
  <2> HIDE DEF phi
  <2> QED  BY <2>1, <2>2, <2>3, CosSin
<1>2. Same(Re(x, N, k), Re(xe, H, k) + (c * Re(xo, H, k) + d * Im(xo, H, k)))
  <2> DEFINE h == ReTerms(x, N, k)
  <2>1. ASSUME NEW m \in Nat, m < H
        PROVE  /\ xe[m] \in Int /\ xo[m] \in Int /\ h[2 * m] \in Int /\ h[2 * m + 1] \in Int
               /\ Same(h[2 * m], xe[m] * Cos(Angle(H, k, m)))
               /\ Same(h[2 * m + 1], 1 * (xo[m] * Cos(Angle(H, k, m) + phi)))
    <3>1. Angle(N, k, 2 * m) = Angle(H, k, m) /\ Angle(N, k, 2 * m + 1) = Angle(H, k, m) + phi
      BY <1>a, <2>1, Zenon
    <3> HIDE DEF N, phi
    <3> DEFINE n == 2 * m
               i == 2 * m + 1
    <3>4. n \in Nat /\ n < N /\ i \in Nat /\ i < N /\ x[n] = xe[m] /\ x[i] = xo[m]
          /\ x[n] \in Int /\ x[i] \in Int
      BY <1>1, <2>1
    <3>5. Angle(N, k, n) = Angle(H, k, m) /\ Angle(N, k, i) = Angle(H, k, m) + phi
      BY <3>1
    <3> HIDE DEF n, i
    <3>6. h[n] = x[n] * Cos(Angle(N, k, n)) /\ h[n] \in Int
      BY <1>0, <3>4, Terms
    <3>7. h[i] = x[i] * Cos(Angle(N, k, i)) /\ h[i] \in Int
      BY <1>0, <3>4, Terms
    <3>2. /\ h[2 * m] = xe[m] * Cos(Angle(H, k, m)) /\ h[2 * m] \in Int
          /\ h[2 * m + 1] = xo[m] * Cos(Angle(H, k, m) + phi) /\ h[2 * m + 1] \in Int
      BY <3>4, <3>5, <3>6, <3>7, Zenon DEF n, i
    <3> HIDE DEF h
    <3>3. 1 * (xo[m] * Cos(Angle(H, k, m) + phi)) = xo[m] * Cos(Angle(H, k, m) + phi)
      BY <1>1, <2>1
    <3> QED  BY <1>1, <2>1, <3>2, <3>3, SameReflexive
  <2> HIDE DEF h, N, phi
  <2>2. 1 \in Int
    OBVIOUS
  <2>3. Same(SumOf(h, 0, 2 * H), Re(xe, H, k) + ((1 * Cos(phi)) * Re(xo, H, k) + (1 * Sin(phi)) * Im(xo, H, k)))
    BY <1>0, <2>1, <2>2, HalvesRe
  <2>4. 1 * Cos(phi) = c /\ 1 * Sin(phi) = d
    BY <1>0
  <2> QED  BY <2>3, <2>4 DEF h, N, Re
<1>3. Same(Im(x, N, k), Im(xe, H, k) + (c * Im(xo, H, k) + (-d) * Re(xo, H, k)))
  <2> DEFINE h == ImTerms(x, N, k)
  <2>1. ASSUME NEW m \in Nat, m < H
        PROVE  /\ xe[m] \in Int /\ xo[m] \in Int /\ h[2 * m] \in Int /\ h[2 * m + 1] \in Int
               /\ Same(h[2 * m], -(xe[m] * Sin(Angle(H, k, m))))
               /\ Same(h[2 * m + 1], 1 * (-(xo[m] * Sin(Angle(H, k, m) + phi))))
    <3>1. Angle(N, k, 2 * m) = Angle(H, k, m) /\ Angle(N, k, 2 * m + 1) = Angle(H, k, m) + phi
      BY <1>a, <2>1, Zenon
    <3> HIDE DEF N, phi
    <3> DEFINE n == 2 * m
               i == 2 * m + 1
    <3>4. n \in Nat /\ n < N /\ i \in Nat /\ i < N /\ x[n] = xe[m] /\ x[i] = xo[m]
          /\ x[n] \in Int /\ x[i] \in Int
      BY <1>1, <2>1
    <3>5. Angle(N, k, n) = Angle(H, k, m) /\ Angle(N, k, i) = Angle(H, k, m) + phi
      BY <3>1
    <3> HIDE DEF n, i
    <3>6. h[n] = -(x[n] * Sin(Angle(N, k, n))) /\ h[n] \in Int
      BY <1>0, <3>4, Terms
    <3>7. h[i] = -(x[i] * Sin(Angle(N, k, i))) /\ h[i] \in Int
      BY <1>0, <3>4, Terms
    <3>2. /\ h[2 * m] = -(xe[m] * Sin(Angle(H, k, m))) /\ h[2 * m] \in Int
          /\ h[2 * m + 1] = -(xo[m] * Sin(Angle(H, k, m) + phi)) /\ h[2 * m + 1] \in Int
      BY <3>4, <3>5, <3>6, <3>7, Zenon DEF n, i
    <3> HIDE DEF h
    <3>3. 1 * (-(xo[m] * Sin(Angle(H, k, m) + phi))) = -(xo[m] * Sin(Angle(H, k, m) + phi))
      BY <1>1, <2>1
    <3> QED  BY <1>1, <2>1, <3>2, <3>3, SameReflexive
  <2> HIDE DEF h, N, phi
  <2>2. 1 \in Int
    OBVIOUS
  <2>3. Same(SumOf(h, 0, 2 * H), Im(xe, H, k) + ((1 * Cos(phi)) * Im(xo, H, k) + (-(1 * Sin(phi))) * Re(xo, H, k)))
    BY <1>0, <2>1, <2>2, HalvesIm
  <2>4. 1 * Cos(phi) = c /\ -(1 * Sin(phi)) = -d
    BY <1>0
  <2> QED  BY <2>3, <2>4 DEF h, N, Im
<1>4. ASSUME NEW m \in Nat, m < H
      PROVE  /\ Cos(Angle(N, j, 2 * m)) = Cos(Angle(H, k, m))
             /\ Sin(Angle(N, j, 2 * m)) = Sin(Angle(H, k, m))
             /\ Cos(Angle(N, j, 2 * m + 1)) \in Int /\ Sin(Angle(N, j, 2 * m + 1)) \in Int
             /\ Same(Cos(Angle(N, j, 2 * m + 1)), -Cos(Angle(H, k, m) + phi))
             /\ Same(Sin(Angle(N, j, 2 * m + 1)), -Sin(Angle(H, k, m) + phi))
  <2> DEFINE a == Angle(H, k, m)
             b == a + phi
             e == b + kFFTSize * m
  <2>1. /\ Angle(N, j, 2 * m) = a + kFFTSize * m
        /\ Angle(N, j, 2 * m + 1) = e + kFFTSize \div 2
    BY <1>a, <1>4, Zenon
  <2>2. a \in Nat /\ b \in Nat
    BY <1>1, <1>4
  <2> HIDE DEF a, b
  <2>3. /\ Cos(a + kFFTSize * m) = Cos(a) /\ Sin(a + kFFTSize * m) = Sin(a)
        /\ Cos(e) = Cos(b) /\ Sin(e) = Sin(b)
    BY <2>2, FullTurns
  <2>4. e \in Nat /\ e + kFFTSize \div 2 \in Nat
    BY <2>2, FrameSize
  <2> HIDE DEF e
  <2>5. /\ Same(Cos(e + kFFTSize \div 2), -Cos(e)) /\ Same(Sin(e + kFFTSize \div 2), -Sin(e))
        /\ Cos(e + kFFTSize \div 2) \in Int /\ Sin(e + kFFTSize \div 2) \in Int
    BY <2>4, HalfTurn, CosSin
  <2> HIDE DEF N, j
  <2>6. /\ Cos(Angle(N, j, 2 * m)) = Cos(a) /\ Sin(Angle(N, j, 2 * m)) = Sin(a)
        /\ Cos(Angle(N, j, 2 * m + 1)) \in Int /\ Sin(Angle(N, j, 2 * m + 1)) \in Int
        /\ Same(Cos(Angle(N, j, 2 * m + 1)), -Cos(b))
        /\ Same(Sin(Angle(N, j, 2 * m + 1)), -Sin(b))
    BY <2>1, <2>3, <2>5
  <2> QED  BY <2>6 DEF a, b
<1>5. Same(Re(x, N, j), Re(xe, H, k) + ((-c) * Re(xo, H, k) + (-d) * Im(xo, H, k)))
  <2> DEFINE h == ReTerms(x, N, j)
  <2>1. ASSUME NEW m \in Nat, m < H
        PROVE  /\ xe[m] \in Int /\ xo[m] \in Int /\ h[2 * m] \in Int /\ h[2 * m + 1] \in Int
               /\ Same(h[2 * m], xe[m] * Cos(Angle(H, k, m)))
               /\ Same(h[2 * m + 1], (-1) * (xo[m] * Cos(Angle(H, k, m) + phi)))
    <3> DEFINE v == xo[m]
               w == Cos(Angle(H, k, m) + phi)
               z == Cos(Angle(N, j, 2 * m + 1))
    <3> HIDE DEF N, phi, j
    <3> DEFINE n == 2 * m
               i == 2 * m + 1
    <3>4. n \in Nat /\ n < N /\ i \in Nat /\ i < N /\ x[n] = xe[m] /\ x[i] = v
          /\ x[n] \in Int /\ x[i] \in Int
      BY <1>1, <2>1
    <3>5. Cos(Angle(N, j, n)) = Cos(Angle(H, k, m)) /\ Cos(Angle(N, j, i)) = z
      BY <1>4, <2>1
    <3> HIDE DEF n, i, z
    <3>6. h[n] = x[n] * Cos(Angle(N, j, n)) /\ h[n] \in Int
      BY <1>0, <3>4, Terms
    <3>7. h[i] = x[i] * Cos(Angle(N, j, i)) /\ h[i] \in Int
      BY <1>0, <3>4, Terms
    <3>1. /\ h[2 * m] = xe[m] * Cos(Angle(H, k, m)) /\ h[2 * m] \in Int
          /\ h[2 * m + 1] = v * z /\ h[2 * m + 1] \in Int
      BY <3>4, <3>5, <3>6, <3>7, Zenon DEF n, i
    <3>2. v \in Int /\ w \in Int /\ z \in Int /\ Same(z, -w) /\ xe[m] \in Int
      BY <1>1, <1>4, <2>1 DEF z
    <3> HIDE DEF h, v, w
    <3>3. Same(v * z, v * (-w)) /\ v * (-w) = (-1) * (v * w)
      <4>1. -w \in Int
        BY <3>2
      <4>2. Same(v * z, v * (-w))
        BY <3>2, <4>1, SameReflexive, SameProduct
      <4> QED  BY <3>2, <4>2
    <3> QED  BY <3>1, <3>2, <3>3, SameReflexive DEF v, w
  <2> HIDE DEF h, N, phi, j
  <2>2. -1 \in Int
    OBVIOUS
  <2>3. Same(SumOf(h, 0, 2 * H), Re(xe, H, k) + (((-1) * Cos(phi)) * Re(xo, H, k) + ((-1) * Sin(phi)) * Im(xo, H, k)))
    BY <1>0, <2>1, <2>2, HalvesRe
  <2>4. (-1) * Cos(phi) = -c /\ (-1) * Sin(phi) = -d
    BY <1>0
  <2> QED  BY <2>3, <2>4 DEF h, N, Re
<1>6. Same(Im(x, N, j), Im(xe, H, k) + ((-c) * Im(xo, H, k) + d * Re(xo, H, k)))
  <2> DEFINE h == ImTerms(x, N, j)
  <2>1. ASSUME NEW m \in Nat, m < H
        PROVE  /\ xe[m] \in Int /\ xo[m] \in Int /\ h[2 * m] \in Int /\ h[2 * m + 1] \in Int
               /\ Same(h[2 * m], -(xe[m] * Sin(Angle(H, k, m))))
               /\ Same(h[2 * m + 1], (-1) * (-(xo[m] * Sin(Angle(H, k, m) + phi))))
    <3> DEFINE v == xo[m]
               w == Sin(Angle(H, k, m) + phi)
               z == Sin(Angle(N, j, 2 * m + 1))
    <3> HIDE DEF N, phi, j
    <3> DEFINE n == 2 * m
               i == 2 * m + 1
    <3>4. n \in Nat /\ n < N /\ i \in Nat /\ i < N /\ x[n] = xe[m] /\ x[i] = v
          /\ x[n] \in Int /\ x[i] \in Int
      BY <1>1, <2>1
    <3>5. Sin(Angle(N, j, n)) = Sin(Angle(H, k, m)) /\ Sin(Angle(N, j, i)) = z
      BY <1>4, <2>1
    <3> HIDE DEF n, i, z
    <3>6. h[n] = -(x[n] * Sin(Angle(N, j, n))) /\ h[n] \in Int
      BY <1>0, <3>4, Terms
    <3>7. h[i] = -(x[i] * Sin(Angle(N, j, i))) /\ h[i] \in Int
      BY <1>0, <3>4, Terms
    <3>1. /\ h[2 * m] = -(xe[m] * Sin(Angle(H, k, m))) /\ h[2 * m] \in Int
          /\ h[2 * m + 1] = -(v * z) /\ h[2 * m + 1] \in Int
      BY <3>4, <3>5, <3>6, <3>7, Zenon DEF n, i
    <3>2. v \in Int /\ w \in Int /\ z \in Int /\ Same(z, -w) /\ xe[m] \in Int
      BY <1>1, <1>4, <2>1 DEF z
    <3> HIDE DEF h, v, w
    <3>3. Same(-(v * z), (-1) * (-(v * w)))
      <4>1. -w \in Int /\ -v \in Int
        BY <3>2
      <4>2. Same((-v) * z, (-v) * (-w))
        BY <3>2, <4>1, SameReflexive, SameProduct
      <4>3. (-v) * z = -(v * z) /\ (-v) * (-w) = (-1) * (-(v * w))
        BY <3>2
      <4> QED  BY <4>2, <4>3
    <3> QED  BY <3>1, <3>2, <3>3, SameReflexive DEF v, w
  <2> HIDE DEF h, N, phi, j
  <2>2. -1 \in Int
    OBVIOUS
  <2>3. Same(SumOf(h, 0, 2 * H), Im(xe, H, k) + (((-1) * Cos(phi)) * Im(xo, H, k) + (-((-1) * Sin(phi))) * Re(xo, H, k)))
    BY <1>0, <2>1, <2>2, HalvesIm
  <2>4. (-1) * Cos(phi) = -c /\ -((-1) * Sin(phi)) = d
    BY <1>0
  <2> QED  BY <2>3, <2>4 DEF h, N, Im
<1> QED  BY <1>2, <1>3, <1>5, <1>6

-----------------------------------------------------------------------------
(* The transform FFT[N] makes out of h, that of the half of N. *)
Transform(h, N, in, out, m) ==
  IF N = 1 THEN Copy(m, in, out)
  ELSE IF N % 2 = 1 THEN DFT(m, in, N, out)
  ELSE LET even_fft == out + 2 * N
           odd_fft  == even_fft + N
           evened   == h[in + N][even_fft][Split(m, in, N, 0)]
           both     == h[in + N][odd_fft][Split(evened, in, N, 1)]
       IN Combine(both, N, out, even_fft, odd_fft)

Level(h, N) ==
  [in \in 0..(2 * kFFTSize) |-> [out \in 0..(8 * kFFTSize) |-> [m \in Memory |-> Transform(h, N, in, out, m)]]]

Levels(f, n) == f = [N \in 1..n |-> Level(f[N \div 2], N)]

LEMMA LevelOne ==
  ASSUME NEW h, NEW g PROVE Level(h, 1) = Level(g, 1)
BY DEF Level, Transform

LEMMA LevelsExist ==
  ASSUME NEW n \in Nat
  PROVE  \E f : Levels(f, n)
<1> DEFINE S == {k \in Nat : \E f : Levels(f, k)}
<1>1. 0 \in S
  <2>1. 1..0 = {}
    OBVIOUS
  <2> DEFINE f == [N \in 1..0 |-> 0]
  <2>2. Levels(f, 0)
    <3> SUFFICES f = [N \in 1..0 |-> Level(f[N \div 2], N)]
      BY DEF Levels
    <3> HIDE DEF Levels
    <3> QED  BY <2>1
  <2> HIDE DEF f
  <2> QED  BY <2>2
<1>2. ASSUME NEW k \in S PROVE k + 1 \in S
  <2>1. PICK f : Levels(f, k)
    OBVIOUS
  <2> DEFINE next == [N \in 1..(k + 1) |-> IF N <= k THEN f[N] ELSE Level(f[N \div 2], N)]
  <2>2. \A N \in 1..k : f[N] = Level(f[N \div 2], N)
    BY <2>1 DEF Levels
  <2>3. next = [N \in 1..(k + 1) |-> Level(next[N \div 2], N)]
    <3> SUFFICES ASSUME NEW N \in 1..(k + 1) PROVE next[N] = Level(next[N \div 2], N)
      OBVIOUS
    <3>1. next[N] = Level(f[N \div 2], N)
      BY <2>2
    <3>2. CASE N = 1
      <4>1. Level(f[N \div 2], 1) = Level(next[N \div 2], 1)
        BY LevelOne
      <4> QED  BY <3>1, <3>2, <4>1
    <3>3. CASE N # 1
      <4>1. N \div 2 \in 1..k /\ N \div 2 <= k /\ N \div 2 \in 1..(k + 1)
        BY <3>3
      <4> DEFINE i == N \div 2
      <4> HIDE DEF i
      <4>2. next[i] = f[i]
        BY <4>1 DEF i
      <4> QED  BY <3>1, <4>2 DEF i
    <3> QED  BY <3>2, <3>3
  <2> HIDE DEF next
  <2>4. Levels(next, k + 1)
    BY <2>3 DEF Levels
  <2> QED  BY <2>4
<1>3. S = Nat
  <2>1. S \in SUBSET Nat
    OBVIOUS
  <2> HIDE DEF S
  <2> QED  BY <1>1, <1>2, <2>1, NatSetInduction
<1>4. n \in S
  BY <1>3
<1> QED  BY <1>4

LEMMA FFTStep ==
  ASSUME NEW N \in 1..kFFTSize, NEW in \in 0..(2 * kFFTSize), NEW out \in 0..(8 * kFFTSize),
         NEW m \in Memory
  PROVE  FFT[N][in][out][m] = Transform(FFT[N \div 2], N, in, out, m)
<1>1. FFT = CHOOSE f : Levels(f, kFFTSize)
  BY DEF FFT, Levels, Level, Transform
<1>2. Levels(FFT, kFFTSize)
  BY <1>1, LevelsExist, FrameSize, Zenon
<1> DEFINE f == FFT
<1>3. f = [n \in 1..kFFTSize |-> Level(f[n \div 2], n)]
  BY <1>2, Zenon DEF Levels
<1> HIDE DEF f
<1>4. f[N] = Level(f[N \div 2], N)
  BY <1>3
<1> DEFINE g == f[N]
           h == f[N \div 2]
<1> HIDE DEF g, h
<1>5. g[in][out][m] = Transform(h, N, in, out, m)
  <2>1. g = Level(h, N)
    BY <1>4 DEF g, h
  <2> QED  BY <2>1 DEF Level
<1> QED  BY <1>5 DEF f, g, h

-----------------------------------------------------------------------------
(* What the operations of the transform do to the arrays of a worker. *)
Window(m, in, N)   == [n \in 0..(N - 1) |-> m.fft_in[in + n]]
RealPart(m, out, N) == [k \in 0..(N - 1) |-> m.fft_out[out + 2 * k]]
ImagPart(m, out, N) == [k \in 0..(N - 1) |-> m.fft_out[out + 2 * k + 1]]

(* Everything but the cells from..upto - 1 is as it was. *)
InKept(m, r, from, upto) ==
  \A a \in 0..(2 * kFFTSize - 1) : a < from \/ upto <= a => r.fft_in[a] = m.fft_in[a]
OutKept(m, r, from, upto) ==
  \A a \in 0..(8 * kFFTSize - 1) : a < from \/ upto <= a => r.fft_out[a] = m.fft_out[a]

(* The transform of x is at out. *)
TransformAt(r, N, out, x) ==
  \A k \in 0..(N - 1) : RealPart(r, out, N)[k] = Re(x, N, k) /\ ImagPart(r, out, N)[k] = Im(x, N, k)

(* r is m after the transform of the N numbers at in has been left at out. *)
Computes(m, r, N, in, out) ==
  /\ r \in Memory
  /\ InKept(m, r, in + N, in + 2 * N)
  /\ OutKept(m, r, out, out + 6 * N)
  /\ TransformAt(r, N, out, Window(m, in, N))

(* The n values are at a place of the array, and nothing else has changed in it. *)
Holds(array, at, n, values) == \A i \in 0..(n - 1) : array[at + i] = values[i]
Kept(old, new, size, at, n) ==
  \A a \in 0..(size - 1) : a < at \/ at + n <= a => new[a] = old[a]
Numbers(array, size) == array \in [0..(size - 1) -> Number]

LEMMA PutInto ==
  ASSUME NEW size \in Nat, NEW array, Numbers(array, size), NEW at \in Nat,
         NEW n \in Nat, NEW values, Numbers(values, n), at + n <= size
  PROVE  /\ Numbers(Put(array, at, values), size)
         /\ Holds(Put(array, at, values), at, n, values)
         /\ Kept(array, Put(array, at, values), size, at, n)
<1> DEFINE p == Put(array, at, values)
<1>1. p = [a \in 0..(size - 1) |-> IF a - at \in 0..(n - 1) THEN values[a - at] ELSE array[a]]
  BY DEF Put, Numbers
<1> HIDE DEF p
<1>2. Numbers(p, size)
  BY <1>1 DEF Numbers
<1>3. ASSUME NEW i \in 0..(n - 1) PROVE p[at + i] = values[i]
  <2> DEFINE a == at + i
  <2>1. a \in 0..(size - 1) /\ a - at = i
    OBVIOUS
  <2> HIDE DEF a
  <2>2. p[a] = values[i]
    BY <1>1, <2>1
  <2> QED  BY <2>2 DEF a
<1>4. ASSUME NEW a \in 0..(size - 1), a < at \/ at + n <= a PROVE p[a] = array[a]
  BY <1>1, <1>4
<1> QED  BY <1>2, <1>3, <1>4 DEF p, Holds, Kept

LEMMA CellNumber ==
  ASSUME NEW m \in Memory
  PROVE  /\ \A a \in 0..(2 * kFFTSize - 1) : m.fft_in[a] \in Number /\ m.fft_in[a] \in Int
         /\ \A a \in 0..(8 * kFFTSize - 1) : m.fft_out[a] \in Number /\ m.fft_out[a] \in Int
<1>1. /\ m.fft_in \in [0..(2 * kFFTSize - 1) -> Number]
      /\ m.fft_out \in [0..(8 * kFFTSize - 1) -> Number]
  BY DEF Memory
<1>2. \A x \in Number : x \in Int
  BY NumberMod
<1> QED  BY <1>1, <1>2

LEMMA WindowNumber ==
  ASSUME NEW m \in Memory, NEW in \in Nat, NEW N \in Nat, in + N <= 2 * kFFTSize
  PROVE  /\ \A n \in Nat : n < N => Window(m, in, N)[n] \in Int
         /\ \A n \in Nat : n < N => Window(m, in, N)[n] = m.fft_in[in + n]
<1>1. ASSUME NEW n \in Nat, n < N PROVE Window(m, in, N)[n] \in Int /\ Window(m, in, N)[n] = m.fft_in[in + n]
  <2> DEFINE a == in + n
  <2>1. a \in 0..(2 * kFFTSize - 1) /\ n \in 0..(N - 1)
    BY <1>1, FrameSize
  <2>2. Window(m, in, N)[n] = m.fft_in[a]
    BY <2>1 DEF Window
  <2> HIDE DEF a
  <2>3. m.fft_in[a] \in Int
    BY <2>1, CellNumber
  <2> QED  BY <2>2, <2>3 DEF a
<1> QED  BY <1>1

(* Values put into fft_out. *)
LEMMA PutOut ==
  ASSUME NEW m \in Memory, NEW out \in Nat, NEW n \in Nat, NEW values, Numbers(values, n),
         out + n <= 8 * kFFTSize
  PROVE  LET r == [m EXCEPT !.fft_out = Put(@, out, values)]
         IN  /\ r \in Memory
             /\ r.fft_in = m.fft_in
             /\ OutKept(m, r, out, out + n)
             /\ Holds(r.fft_out, out, n, values)
<1> DEFINE size  == 8 * kFFTSize
           array == m.fft_out
           r == [m EXCEPT !.fft_out = Put(@, out, values)]
<1>1. size \in Nat /\ Numbers(array, size)
  BY FrameSize DEF Memory, Numbers
<1>2. r.fft_out = Put(array, out, values) /\ r.fft_in = m.fft_in
  BY DEF Memory
<1> HIDE DEF size, array
<1>3. /\ Numbers(Put(array, out, values), size)
      /\ Holds(Put(array, out, values), out, n, values)
      /\ Kept(array, Put(array, out, values), size, out, n)
  <2>1. out + n <= size
    BY DEF size
  <2> QED  BY <1>1, <2>1, PutInto
<1>4. r \in Memory
  BY <1>3 DEF Memory, Numbers, size, array
<1> HIDE DEF r
<1>5. OutKept(m, r, out, out + n)
  BY <1>2, <1>3 DEF OutKept, Kept, size, array
<1> QED  BY <1>2, <1>3, <1>4, <1>5 DEF r

(* The real parts are left at the even places, the imaginary ones at the odd. *)
LEMMA Parts ==
  ASSUME NEW r, NEW out \in Nat, NEW N \in Nat \ {0}, NEW n, n = 2 * N, NEW values,
         Holds(r.fft_out, out, n, values)
  PROVE  \A k \in 0..(N - 1) : /\ RealPart(r, out, N)[k] = values[2 * k]
                               /\ ImagPart(r, out, N)[k] = values[2 * k + 1]
<1> SUFFICES ASSUME NEW k \in 0..(N - 1)
             PROVE  RealPart(r, out, N)[k] = values[2 * k] /\ ImagPart(r, out, N)[k] = values[2 * k + 1]
  OBVIOUS
<1> DEFINE i == 2 * k
           j == 2 * k + 1
<1>1. i \in 0..(2 * N - 1) /\ j \in 0..(2 * N - 1) /\ out + 2 * k = out + i /\ out + 2 * k + 1 = out + j
  OBVIOUS
<1>2. RealPart(r, out, N)[k] = r.fft_out[out + i] /\ ImagPart(r, out, N)[k] = r.fft_out[out + j]
  BY <1>1 DEF RealPart, ImagPart
<1> HIDE DEF i, j
<1>3. r.fft_out[out + i] = values[i] /\ r.fft_out[out + j] = values[j]
  BY <1>1 DEF Holds
<1> QED  BY <1>2, <1>3 DEF i, j

(* One number is its own transform. *)
LEMMA CopyComputes ==
  ASSUME NEW m \in Memory, NEW in \in Nat, NEW out \in Nat,
         in + 2 <= 2 * kFFTSize, out + 6 <= 8 * kFFTSize
  PROVE  Computes(m, Copy(m, in, out), 1, in, out)
<1> DEFINE x == Window(m, in, 1)
           values == [a \in 0..1 |-> IF a = 0 THEN m.fft_in[in] ELSE 0]
           r == Copy(m, in, out)
<1>1. x[0] = m.fft_in[in] /\ x[0] \in Number /\ x[0] \in Int
  <2>1. in \in 0..(2 * kFFTSize - 1) /\ in + 0 = in /\ 0 \in 0..(1 - 1)
    BY FrameSize
  <2>2. x[0] = m.fft_in[in]
    BY <2>1 DEF Window
  <2> QED  BY <2>1, <2>2, CellNumber
<1>2. 0 \in Number /\ 0 \in Int
  BY ModulusPositive DEF Number
<1>3. Numbers(values, 2) /\ values[0] = x[0] /\ values[1] = 0
  BY <1>1, <1>2 DEF Numbers
<1>4. r = [m EXCEPT !.fft_out = Put(@, out, values)]
  BY DEF Copy
<1> HIDE DEF values
<1>5. /\ r \in Memory /\ r.fft_in = m.fft_in /\ OutKept(m, r, out, out + 2)
      /\ Holds(r.fft_out, out, 2, values)
  <2> DEFINE n == 2
  <2>1. n \in Nat /\ Numbers(values, n) /\ out + n <= 8 * kFFTSize
    BY <1>3, FrameSize
  <2> HIDE DEF n
  <2>2. /\ r \in Memory /\ r.fft_in = m.fft_in /\ OutKept(m, r, out, out + n)
        /\ Holds(r.fft_out, out, n, values)
    BY <1>4, <2>1, PutOut
  <2> QED  BY <2>2 DEF n
<1> HIDE DEF r, x
<1>6. /\ RealPart(r, out, 1)[0] = x[0] /\ ImagPart(r, out, 1)[0] = 0
  <2> DEFINE N == 1
  <2>1. N \in Nat \ {0} /\ 2 = 2 * N
    BY <1>5
  <2> HIDE DEF N
  <2>2. \A k \in 0..(N - 1) : /\ RealPart(r, out, N)[k] = values[2 * k]
                              /\ ImagPart(r, out, N)[k] = values[2 * k + 1]
    BY <1>5, <2>1, Parts
  <2> QED  BY <1>3, <2>2 DEF N
<1>7. Re(x, 1, 0) = x[0] /\ Im(x, 1, 0) = 0
  <2> DEFINE f == ReTerms(x, 1, 0)
             g == ImTerms(x, 1, 0)
             c == Cos(0)
             s == Sin(0)
  <2>1. Angle(1, 0, 0) = 0
    BY FrameSize DEF Angle
  <2>2. /\ 1 \in Nat \ {0} /\ 0 \in Nat /\ 0 < 1 /\ 0 + 1 = 1 /\ 0 \in 0..(1 - 1)
        /\ \A n \in Nat : ~(n < 0) /\ (n < 1 => n = 0)
    OBVIOUS
  <2>3. f[0] = x[0] * c /\ f[0] \in Int /\ g[0] = -(x[0] * s) /\ g[0] \in Int
    BY <1>1, <2>1, <2>2, Terms
  <2>4. /\ SumOf(f, 0, 0) = 0 /\ Same(SumOf(f, 0, 1), SumOf(f, 0, 0) + f[0])
        /\ SumOf(g, 0, 0) = 0 /\ Same(SumOf(g, 0, 1), SumOf(g, 0, 0) + g[0])
    <3> HIDE DEF f, g
    <3>1. /\ (0 = 0 => SumOf(f, 0, 0) = 0) /\ Same(SumOf(f, 0, 0 + 1), SumOf(f, 0, 0) + f[0])
          /\ (0 = 0 => SumOf(g, 0, 0) = 0) /\ Same(SumOf(g, 0, 0 + 1), SumOf(g, 0, 0) + g[0])
      BY <2>2, <2>3, SumNext
    <3> QED  BY <2>2, <3>1
  <2>5. /\ Re(x, 1, 0) \in Number /\ Re(x, 1, 0) \in Int /\ Im(x, 1, 0) \in Number /\ Im(x, 1, 0) \in Int
    <3>1. \A n \in Nat : n < 1 => x[n] \in Int
      BY <1>1, <2>2
    <3> QED  BY <2>2, <3>1, ReImNumber
  <2>6. Same(c, 1) /\ Same(s, 0) /\ c \in Int /\ s \in Int /\ 0 \in Int /\ 1 \in Int
    BY <2>2, NoTurn, CosSin
  <2> HIDE DEF f, g, c, s
  <2>7. Same(f[0], x[0]) /\ Same(g[0], 0)
    <3> DEFINE y == x[0]
    <3>1. y \in Int
      BY <1>1
    <3> HIDE DEF y
    <3>2. Same(y * c, y * 1) /\ Same(y * s, y * 0)
      BY <2>6, <3>1, SameReflexive, SameProduct
    <3>3. y * 1 = y /\ y * 0 = 0 /\ y * s \in Int
      BY <2>6, <3>1
    <3>4. PICK q \in Int : y * s = 0 + Modulus * q
      BY <3>2, <3>3 DEF Same
    <3>5. -(y * s) = 0 + Modulus * (-q) /\ -q \in Int
      BY <3>3, <3>4, ModulusPositive
    <3>6. Same(-(y * s), 0)
      BY <3>5 DEF Same
    <3> QED  BY <2>3, <3>2, <3>3, <3>6 DEF y
  <2>8. Re(x, 1, 0) = SumOf(f, 0, 1) /\ Im(x, 1, 0) = SumOf(g, 0, 1)
    BY DEF Re, Im, f, g
  <2>9. Same(SumOf(f, 0, 1), f[0]) /\ Same(SumOf(g, 0, 1), g[0])
    BY <2>3, <2>4
  <2>10. Same(Re(x, 1, 0), x[0]) /\ Same(Im(x, 1, 0), 0)
    BY <1>1, <2>3, <2>5, <2>6, <2>7, <2>8, <2>9, SameTransitive
  <2>11. Re(x, 1, 0) % Modulus = x[0] % Modulus /\ Im(x, 1, 0) % Modulus = 0 % Modulus
    BY <1>1, <2>5, <2>6, <2>10, SameMod
  <2> QED  BY <1>1, <1>2, <2>5, <2>11, NumberMod
<1>8. InKept(m, r, in + 1, in + 2 * 1) /\ OutKept(m, r, out, out + 6 * 1)
  BY <1>5 DEF InKept, OutKept
<1> QED  BY <1>5, <1>6, <1>7, <1>8 DEF Computes, TransformAt, x, r

LEMMA TwoPlaces ==
  ASSUME NEW k \in Nat
  PROVE  /\ (2 * k) % 2 = 0 /\ (2 * k) \div 2 = k
         /\ (2 * k + 1) % 2 = 1 /\ (2 * k + 1) \div 2 = k
OBVIOUS

(* The sums by the definition. *)
LEMMA DFTComputes ==
  ASSUME NEW m \in Memory, NEW in \in Nat, NEW N \in Nat \ {0}, NEW out \in Nat,
         in + 2 * N <= 2 * kFFTSize, out + 6 * N <= 8 * kFFTSize
  PROVE  Computes(m, DFT(m, in, N, out), N, in, out)
<1> DEFINE x == Window(m, in, N)
           sin_cos_step  == kSinCosTableSize \div N
           idx(k, i)     == (k * i * sin_cos_step) % kSinCosTableSize
           re(k) == SumOf([i \in 0..(N - 1) |-> m.fft_in[in + i] * cos_vals_[idx(k, i)]], 0, N)
           im(k) == SumOf([i \in 0..(N - 1) |-> -(m.fft_in[in + i] * sin_vals_[idx(k, i)])], 0, N)
           n == 2 * N
           values == [a \in 0..(n - 1) |-> IF a % 2 = 0 THEN re(a \div 2) ELSE im(a \div 2)]
           r == DFT(m, in, N, out)
<1>1. r = [m EXCEPT !.fft_out = Put(@, out, values)]
  BY DEF DFT
<1>2. ASSUME NEW k \in Nat PROVE re(k) = Re(x, N, k) /\ im(k) = Im(x, N, k)
  <2>1. [i \in 0..(N - 1) |-> m.fft_in[in + i] * cos_vals_[idx(k, i)]] = ReTerms(x, N, k)
    BY DEF ReTerms, Window, Angle, Cos, kSinCosTableSize
  <2>2. [i \in 0..(N - 1) |-> -(m.fft_in[in + i] * sin_vals_[idx(k, i)])] = ImTerms(x, N, k)
    BY DEF ImTerms, Window, Angle, Sin, kSinCosTableSize
  <2> HIDE DEF x
  <2> QED  BY <2>1, <2>2 DEF Re, Im
<1>3. \A i \in Nat : i < N => x[i] \in Int
  <2>1. in + N <= 2 * kFFTSize
    BY FrameSize
  <2> QED  BY <2>1, WindowNumber
<1> HIDE DEF x, re, im
<1>4. \A k \in Nat : re(k) \in Number /\ im(k) \in Number
  <2> SUFFICES ASSUME NEW k \in Nat PROVE re(k) \in Number /\ im(k) \in Number
    OBVIOUS
  <2>1. Re(x, N, k) \in Number /\ Im(x, N, k) \in Number
    BY <1>3, ReImNumber
  <2> QED  BY <1>2, <2>1
<1>5. Numbers(values, n)
  <2> SUFFICES ASSUME NEW a \in 0..(n - 1) PROVE re(a \div 2) \in Number /\ im(a \div 2) \in Number
    BY DEF Numbers
  <2>1. a \div 2 \in Nat
    OBVIOUS
  <2> QED  BY <1>4, <2>1
<1>6. n \in Nat /\ out + n <= 8 * kFFTSize
  BY FrameSize
<1>7. ASSUME NEW k \in 0..(N - 1)
      PROVE  values[2 * k] = re(k) /\ values[2 * k + 1] = im(k)
  <2>1. 2 * k \in 0..(n - 1) /\ 2 * k + 1 \in 0..(n - 1) /\ k \in Nat
    OBVIOUS
  <2>2. (2 * k) % 2 = 0 /\ (2 * k) \div 2 = k /\ (2 * k + 1) % 2 = 1 /\ (2 * k + 1) \div 2 = k
    BY <2>1, TwoPlaces
  <2> QED  BY <2>1, <2>2
<1> HIDE DEF r, values
<1>8. /\ r \in Memory /\ r.fft_in = m.fft_in /\ OutKept(m, r, out, out + n)
      /\ Holds(r.fft_out, out, n, values)
  <2> HIDE DEF n
  <2> QED  BY <1>1, <1>5, <1>6, PutOut
<1>9. \A k \in 0..(N - 1) : RealPart(r, out, N)[k] = values[2 * k] /\ ImagPart(r, out, N)[k] = values[2 * k + 1]
  <2>1. n = 2 * N
    OBVIOUS
  <2> HIDE DEF n
  <2> QED  BY <1>8, <2>1, Parts
<1>10. \A k \in 0..(N - 1) : RealPart(r, out, N)[k] = Re(x, N, k) /\ ImagPart(r, out, N)[k] = Im(x, N, k)
  <2> SUFFICES ASSUME NEW k \in 0..(N - 1)
               PROVE  RealPart(r, out, N)[k] = Re(x, N, k) /\ ImagPart(r, out, N)[k] = Im(x, N, k)
    OBVIOUS
  <2>1. k \in Nat
    OBVIOUS
  <2> QED  BY <1>2, <1>7, <1>9, <2>1
<1>11. InKept(m, r, in + N, in + 2 * N) /\ OutKept(m, r, out, out + 6 * N)
  BY <1>8 DEF InKept, OutKept
<1> QED  BY <1>8, <1>10, <1>11 DEF Computes, TransformAt, x, r

(* One half of the input behind the input. *)
LEMMA SplitKeeps ==
  ASSUME NEW m \in Memory, NEW in \in Nat, NEW H \in Nat \ {0}, NEW odd \in 0..1, NEW N, N = 2 * H,
         in + 2 * N <= 2 * kFFTSize
  PROVE  /\ Split(m, in, N, odd) \in Memory
         /\ Split(m, in, N, odd).fft_out = m.fft_out
         /\ InKept(m, Split(m, in, N, odd), in + N, in + 2 * N)
         /\ \A i \in Nat : i < H =>
              Window(Split(m, in, N, odd), in + N, H)[i] = Window(m, in, N)[2 * i + odd]
<1> DEFINE s == Split(m, in, N, odd)
           values == [i \in 0..(H - 1) |-> m.fft_in[in + 2 * i + odd]]
           size == 2 * kFFTSize
           array == m.fft_in
           at == in + N
<1>1. N \div 2 = H /\ N \in Nat /\ at \in Nat /\ at + H <= size /\ size \in Nat /\ H \in Nat
  <2>1. N \div 2 = H
    BY Quotient
  <2> QED  BY <2>1, FrameSize
<1>2. s = [m EXCEPT !.fft_in = Put(@, at, values)]
  BY <1>1 DEF Split
<1>3. Numbers(array, size)
  BY DEF Memory, Numbers
<1>4. ASSUME NEW i \in 0..(H - 1)
      PROVE  values[i] \in Number /\ values[i] = Window(m, in, N)[2 * i + odd]
  <2> DEFINE n == 2 * i + odd
             a == in + n
  <2>1. n \in 0..(N - 1) /\ in + 2 * i + odd = a /\ a \in 0..(2 * kFFTSize - 1)
    BY FrameSize
  <2>2. values[i] = m.fft_in[a]
    BY <2>1
  <2> HIDE DEF values, n
  <2>3. Window(m, in, N)[n] = m.fft_in[a]
    BY <2>1 DEF Window
  <2> HIDE DEF a
  <2>4. m.fft_in[a] \in Number
    BY <2>1, CellNumber
  <2> QED  BY <2>2, <2>3, <2>4 DEF n
<1>5. Numbers(values, H)
  BY <1>4 DEF Numbers
<1>6. s.fft_in = Put(array, at, values) /\ s.fft_out = m.fft_out
  BY <1>2 DEF Memory
<1>7. s = [fft_in |-> Put(array, at, values), fft_out |-> m.fft_out]
  BY <1>2 DEF Memory
<1> HIDE DEF size, array, at, values
<1>8. /\ Numbers(Put(array, at, values), size)
      /\ Holds(Put(array, at, values), at, H, values)
      /\ Kept(array, Put(array, at, values), size, at, H)
  BY <1>1, <1>3, <1>5, PutInto
<1>9. s \in Memory
  BY <1>7, <1>8 DEF Memory, Numbers, size
<1> HIDE DEF s
<1>10. InKept(m, s, in + N, in + 2 * N)
  BY <1>1, <1>6, <1>8 DEF InKept, Kept, size, array, at
<1>11. ASSUME NEW i \in Nat, i < H
       PROVE  Window(s, in + N, H)[i] = Window(m, in, N)[2 * i + odd]
  <2>1. i \in 0..(H - 1)
    BY <1>11
  <2>2. Window(s, at, H)[i] = s.fft_in[at + i]
    BY <2>1 DEF Window
  <2>3. s.fft_in[at + i] = values[i]
    BY <1>6, <1>8, <2>1 DEF Holds
  <2> QED  BY <1>4, <2>1, <2>2, <2>3 DEF at
<1> QED  BY <1>6, <1>9, <1>10, <1>11 DEF s

(* What the butterflies leave. *)
Butterflies(o, N, st, even, odd) ==
  LET x(a)  == o.fft_out[a]
      re(i) == cos_vals_[i * st]
      im(i) == -sin_vals_[i * st]
      re_turned(i) == re(i) * x(odd + 2 * i) - im(i) * x(odd + 2 * i + 1)
      im_turned(i) == re(i) * x(odd + 2 * i + 1) + im(i) * x(odd + 2 * i)
      turned(a)    == IF a % 2 = 0 THEN re_turned(a \div 2) ELSE im_turned(a \div 2)
  IN [a \in 0..(2 * N - 1) |-> (IF a < N THEN x(even + a) + turned(a)
                                         ELSE x(even + a - N) - turned(a - N)) % Modulus]

ButterflyCells(o, H, N, st, even, odd, k) ==
  LET values == Butterflies(o, N, st, even, odd)
      A == RealPart(o, even, H)[k]
      B == ImagPart(o, even, H)[k]
      P == RealPart(o, odd, H)[k]
      Q == ImagPart(o, odd, H)[k]
      c == Cos(k * st)
      d == Sin(k * st)
  IN  /\ values[2 * k] = (A + (c * P - (-d) * Q)) % Modulus
      /\ values[2 * k + 1] = (B + (c * Q + (-d) * P)) % Modulus
      /\ values[2 * (k + H)] = (A - (c * P - (-d) * Q)) % Modulus
      /\ values[2 * (k + H) + 1] = (B - (c * Q + (-d) * P)) % Modulus

(* The cells the butterflies leave, from the four they are computed from. *)
LEMMA CombineCells ==
  ASSUME NEW o, NEW H \in Nat \ {0}, NEW N, N = 2 * H, NEW st \in Nat, kFFTSize = N * st,
         NEW even \in Nat, NEW odd \in Nat, NEW k \in 0..(H - 1)
  PROVE  ButterflyCells(o, H, N, st, even, odd, k)
<1> DEFINE x(a)  == o.fft_out[a]
           re(i) == cos_vals_[i * st]
           im(i) == -sin_vals_[i * st]
           re_turned(i) == re(i) * x(odd + 2 * i) - im(i) * x(odd + 2 * i + 1)
           im_turned(i) == re(i) * x(odd + 2 * i + 1) + im(i) * x(odd + 2 * i)
           turned(a)    == IF a % 2 = 0 THEN re_turned(a \div 2) ELSE im_turned(a \div 2)
           values == [a \in 0..(2 * N - 1) |->
               (IF a < N THEN x(even + a) + turned(a)
                         ELSE x(even + a - N) - turned(a - N)) % Modulus]
           A == RealPart(o, even, H)[k]
           B == ImagPart(o, even, H)[k]
           P == RealPart(o, odd, H)[k]
           Q == ImagPart(o, odd, H)[k]
           c == Cos(k * st)
           d == Sin(k * st)
<1>1. A = x(even + 2 * k) /\ B = x(even + 2 * k + 1) /\ P = x(odd + 2 * k) /\ Q = x(odd + 2 * k + 1)
  BY DEF RealPart, ImagPart
<1>2. c = re(k) /\ -d = im(k)
  <2>1. (k * st) % kFFTSize = k * st
    <3> DEFINE a == k * st
    <3>1. a \in Nat /\ a < kFFTSize /\ a = kFFTSize * 0 + a
      <4>1. st > 0
        <5> SUFFICES ASSUME st = 0 PROVE FALSE
          OBVIOUS
        <5>1. kFFTSize = 0
          OBVIOUS
        <5> QED  BY <5>1, FrameSize
      <4>2. k * st <= (N - 1) * st
        OBVIOUS
      <4>3. (N - 1) * st = N * st - st
        OBVIOUS
      <4> QED  BY <4>1, <4>2, <4>3
    <3> HIDE DEF a
    <3>2. a \in 0..(kFFTSize - 1) /\ a \in Int /\ 0 \in Int
      BY <3>1, FrameSize
    <3>3. a % kFFTSize = a
      BY <3>1, <3>2, FrameSize, Remainder
    <3> QED  BY <3>3 DEF a
  <2> QED  BY <2>1 DEF Cos, Sin
<1>3. re_turned(k) = c * P - (-d) * Q /\ im_turned(k) = c * Q + (-d) * P
  BY <1>1, <1>2
<1> HIDE DEF re_turned, im_turned
<1>4. turned(2 * k) = re_turned(k) /\ turned(2 * k + 1) = im_turned(k)
  <2>1. (2 * k) % 2 = 0 /\ (2 * k) \div 2 = k /\ (2 * k + 1) % 2 = 1 /\ (2 * k + 1) \div 2 = k
    BY TwoPlaces
  <2> QED  BY <2>1
<1> HIDE DEF turned, x
<1>5. values[2 * k] = (A + turned(2 * k)) % Modulus
  <2> DEFINE a == 2 * k
  <2>1. a \in 0..(2 * N - 1) /\ a < N
    OBVIOUS
  <2> HIDE DEF a
  <2>2. values[a] = (x(even + a) + turned(a)) % Modulus
    BY <2>1
  <2> QED  BY <1>1, <2>2 DEF a
<1>6. values[2 * k + 1] = (B + turned(2 * k + 1)) % Modulus
  <2> DEFINE a == 2 * k + 1
  <2>1. a \in 0..(2 * N - 1) /\ a < N /\ even + a = even + 2 * k + 1
    OBVIOUS
  <2> HIDE DEF a
  <2>2. values[a] = (x(even + a) + turned(a)) % Modulus
    BY <2>1
  <2> QED  BY <1>1, <2>1, <2>2 DEF a
<1>7. values[2 * (k + H)] = (A - turned(2 * k)) % Modulus
  <2> DEFINE a == 2 * (k + H)
             b == 2 * k
  <2>1. a \in 0..(2 * N - 1) /\ ~(a < N) /\ even + a - N = even + b /\ a - N = b
    OBVIOUS
  <2> HIDE DEF a
  <2>2. values[a] = (x(even + a - N) - turned(a - N)) % Modulus
    BY <2>1
  <2>3. values[a] = (x(even + b) - turned(b)) % Modulus
    BY <2>1, <2>2
  <2> QED  BY <1>1, <2>3 DEF a
<1>8. values[2 * (k + H) + 1] = (B - turned(2 * k + 1)) % Modulus
  <2> DEFINE a == 2 * (k + H) + 1
             b == 2 * k + 1
  <2>1. a \in 0..(2 * N - 1) /\ ~(a < N) /\ even + a - N = even + b /\ a - N = b /\ even + b = even + 2 * k + 1
    OBVIOUS
  <2> HIDE DEF a
  <2>2. values[a] = (x(even + a - N) - turned(a - N)) % Modulus
    BY <2>1
  <2> HIDE DEF b, values
  <2>3. values[a] = (x(even + b) - turned(b)) % Modulus
    BY <2>1, <2>2
  <2> QED  BY <1>1, <2>1, <2>3 DEF a, b
<1> HIDE DEF values, A, B, P, Q, c, d, turned, re_turned, im_turned
<1>9. /\ values[2 * k] = (A + (c * P - (-d) * Q)) % Modulus
      /\ values[2 * k + 1] = (B + (c * Q + (-d) * P)) % Modulus
      /\ values[2 * (k + H)] = (A - (c * P - (-d) * Q)) % Modulus
      /\ values[2 * (k + H) + 1] = (B - (c * Q + (-d) * P)) % Modulus
  BY <1>3, <1>4, <1>5, <1>6, <1>7, <1>8
<1>10. values = Butterflies(o, N, st, even, odd)
  BY Zenon DEF Butterflies, values, turned, re_turned, im_turned, x, re, im
<1> QED  BY <1>9, <1>10, Zenon DEF ButterflyCells, A, B, P, Q, c, d

LEMMA ByMod ==
  ASSUME NEW a \in Number, NEW b \in Int, Same(a, b) PROVE a = b % Modulus
<1>1. a \in Int /\ a % Modulus = a
  BY NumberMod
<1> QED  BY <1>1, SameMod

(* xe are the even and xo the odd ones of the 2 * H numbers x. *)
Halved(x, xe, xo, H) ==
  /\ \A n \in Nat : n < 2 * H => x[n] \in Int
  /\ \A i \in Nat : i < H => xe[i] = x[2 * i] /\ xo[i] = x[2 * i + 1]

Combined(o, r, N, out, x) ==
  r \in Memory /\ r.fft_in = o.fft_in /\ OutKept(o, r, out, out + 2 * N) /\ TransformAt(r, N, out, x)

(* The butterflies make the transform out of those of the even and the odd half. *)
LEMMA CombineComputes ==
  ASSUME NEW o \in Memory, NEW H \in Nat \ {0}, NEW N \in Nat, NEW out \in Nat,
         NEW even \in Nat, NEW odd \in Nat, NEW x, NEW xe, NEW xo,
         N = 2 * H, \E st \in Nat : kFFTSize = N * st, out + 6 * N <= 8 * kFFTSize,
         Halved(x, xe, xo, H), TransformAt(o, H, even, xe), TransformAt(o, H, odd, xo)
  PROVE  Combined(o, Combine(o, N, out, even, odd), N, out, x)
<1>b. PICK st \in Nat : kFFTSize = N * st
  OBVIOUS
<1> DEFINE values == Butterflies(o, N, st, even, odd)
           r == Combine(o, N, out, even, odd)
<1>0. N \in Nat \ {0} /\ kSinCosTableSize \div N = st
  <2>1. N \in Nat \ {0}
    OBVIOUS
  <2> QED  BY <1>b, <2>1, Quotient DEF kSinCosTableSize
<1>a. /\ \A i \in Nat : i < N => x[i] \in Int
      /\ \A i \in Nat : i < H => xe[i] = x[2 * i] /\ xo[i] = x[2 * i + 1]
      /\ \A k \in 0..(H - 1) : RealPart(o, even, H)[k] = Re(xe, H, k) /\ ImagPart(o, even, H)[k] = Im(xe, H, k)
      /\ \A k \in 0..(H - 1) : RealPart(o, odd, H)[k] = Re(xo, H, k) /\ ImagPart(o, odd, H)[k] = Im(xo, H, k)
  BY DEF Halved, TransformAt
<1>1. r = [o EXCEPT !.fft_out = Put(@, out, values)]
  BY <1>0 DEF Combine, Butterflies
<1>2. ASSUME NEW k \in 0..(H - 1)
      PROVE  /\ values[2 * k] = Re(x, N, k) /\ values[2 * k] \in Number
             /\ values[2 * k + 1] = Im(x, N, k) /\ values[2 * k + 1] \in Number
             /\ values[2 * (k + H)] = Re(x, N, k + H) /\ values[2 * (k + H)] \in Number
             /\ values[2 * (k + H) + 1] = Im(x, N, k + H) /\ values[2 * (k + H) + 1] \in Number
  <2> DEFINE A == RealPart(o, even, H)[k]
             B == ImagPart(o, even, H)[k]
             P == RealPart(o, odd, H)[k]
             Q == ImagPart(o, odd, H)[k]
             phi == k * st
             c == Cos(phi)
             d == Sin(phi)
             j == k + H
  <2>1. /\ values[2 * k] = (A + (c * P - (-d) * Q)) % Modulus
        /\ values[2 * k + 1] = (B + (c * Q + (-d) * P)) % Modulus
        /\ values[2 * j] = (A - (c * P - (-d) * Q)) % Modulus
        /\ values[2 * j + 1] = (B - (c * Q + (-d) * P)) % Modulus
    <3>1. ButterflyCells(o, H, N, st, even, odd, k)
      BY <1>b, CombineCells
    <3> QED  BY <3>1, Zenon DEF ButterflyCells
  <2>2. A = Re(xe, H, k) /\ B = Im(xe, H, k) /\ P = Re(xo, H, k) /\ Q = Im(xo, H, k)
    BY <1>a
  <2>3. k \in Nat /\ j \in Nat /\ phi \in Nat /\ kFFTSize = (2 * H) * st
    BY <1>b
  <2> HIDE DEF values, A, B, P, Q
  <2>4. /\ Same(Re(x, N, k), A + (c * P + d * Q))
        /\ Same(Im(x, N, k), B + (c * Q + (-d) * P))
        /\ Same(Re(x, N, j), A + ((-c) * P + (-d) * Q))
        /\ Same(Im(x, N, j), B + ((-c) * Q + d * P))
    <3>1. /\ \A n \in Nat : n < 2 * H => x[n] \in Int
          /\ \A i \in Nat : i < H => xe[i] = x[2 * i] /\ xo[i] = x[2 * i + 1]
      BY DEF Halved
    <3>2. /\ Same(Re(x, 2 * H, k), Re(xe, H, k) + (c * Re(xo, H, k) + d * Im(xo, H, k)))
          /\ Same(Im(x, 2 * H, k), Im(xe, H, k) + (c * Im(xo, H, k) + (-d) * Re(xo, H, k)))
          /\ Same(Re(x, 2 * H, k + H), Re(xe, H, k) + ((-c) * Re(xo, H, k) + (-d) * Im(xo, H, k)))
          /\ Same(Im(x, 2 * H, k + H), Im(xe, H, k) + ((-c) * Im(xo, H, k) + d * Re(xo, H, k)))
      BY <2>3, <3>1, Butterfly
    <3> QED  BY <2>2, <3>2, Zenon
  <2>5. /\ Re(x, N, k) \in Number /\ Im(x, N, k) \in Number
        /\ Re(x, N, j) \in Number /\ Im(x, N, j) \in Number
    BY <1>0, <1>a, <2>3, ReImNumber
  <2>6. A \in Int /\ B \in Int /\ P \in Int /\ Q \in Int
    <3>1. \A i \in Nat : i < H => xe[i] \in Int /\ xo[i] \in Int
      <4> SUFFICES ASSUME NEW i \in Nat, i < H PROVE xe[i] \in Int /\ xo[i] \in Int
        OBVIOUS
      <4>1. 2 * i \in Nat /\ 2 * i < N /\ 2 * i + 1 \in Nat /\ 2 * i + 1 < N
        OBVIOUS
      <4>2. x[2 * i] \in Int /\ x[2 * i + 1] \in Int
        BY <1>a, <4>1
      <4> QED  BY <1>a, <4>2
    <3> QED  BY <2>2, <2>3, <3>1, ReImNumber
  <2>7. c \in Int /\ d \in Int
    <3> HIDE DEF phi
    <3> QED  BY <2>3, CosSin
  <2> HIDE DEF c, d, j, phi
  <2>8. /\ A + (c * P + d * Q) = A + (c * P - (-d) * Q) /\ A + (c * P + d * Q) \in Int
        /\ B + (c * Q + (-d) * P) \in Int
        /\ A + ((-c) * P + (-d) * Q) = A - (c * P - (-d) * Q) /\ A + ((-c) * P + (-d) * Q) \in Int
        /\ B + ((-c) * Q + d * P) = B - (c * Q + (-d) * P) /\ B + ((-c) * Q + d * P) \in Int
    BY <2>6, <2>7
  <2>9. /\ Re(x, N, k) = (A + (c * P + d * Q)) % Modulus
        /\ Im(x, N, k) = (B + (c * Q + (-d) * P)) % Modulus
        /\ Re(x, N, j) = (A + ((-c) * P + (-d) * Q)) % Modulus
        /\ Im(x, N, j) = (B + ((-c) * Q + d * P)) % Modulus
    BY <2>4, <2>5, <2>8, ByMod
  <2>10. /\ values[2 * k] = Re(x, N, k) /\ values[2 * k + 1] = Im(x, N, k)
         /\ values[2 * j] = Re(x, N, j) /\ values[2 * j + 1] = Im(x, N, j)
    BY <2>1, <2>8, <2>9
  <2> QED  BY <2>5, <2>10 DEF j
<1> DEFINE n == 2 * N
<1>3. n \in Nat /\ out + n <= 8 * kFFTSize
  BY <1>0, FrameSize
<1>4. ASSUME NEW k \in 0..(N - 1)
      PROVE  /\ values[2 * k] = Re(x, N, k) /\ values[2 * k] \in Number
             /\ values[2 * k + 1] = Im(x, N, k) /\ values[2 * k + 1] \in Number
  <2> HIDE DEF values
  <2>1. CASE k < H
    <3>1. k \in 0..(H - 1)
      BY <2>1
    <3> QED  BY <1>2, <3>1
  <2>2. CASE ~(k < H)
    <3> DEFINE i == k - H
    <3>1. i \in 0..(H - 1) /\ k = i + H
      BY <2>2
    <3> HIDE DEF i
    <3> QED  BY <1>2, <3>1
  <2> QED  BY <2>1, <2>2
<1>5. Numbers(values, n)
  <2>1. ASSUME NEW a \in 0..(n - 1) PROVE values[a] \in Number
    <3> DEFINE k == a \div 2
    <3>1. k \in 0..(N - 1) /\ (a = 2 * k \/ a = 2 * k + 1)
      BY <1>0
    <3> HIDE DEF k, values
    <3> QED  BY <1>4, <3>1
  <2>2. values = [a \in 0..(n - 1) |-> values[a]]
    BY DEF Butterflies
  <2> HIDE DEF values
  <2> QED  BY <2>1, <2>2 DEF Numbers
<1> HIDE DEF r, values
<1>6. /\ r \in Memory /\ r.fft_in = o.fft_in /\ OutKept(o, r, out, out + n)
      /\ Holds(r.fft_out, out, n, values)
  <2> HIDE DEF n
  <2> QED  BY <1>1, <1>3, <1>5, PutOut
<1>7. \A k \in 0..(N - 1) : RealPart(r, out, N)[k] = values[2 * k] /\ ImagPart(r, out, N)[k] = values[2 * k + 1]
  <2>1. n = 2 * N
    OBVIOUS
  <2> HIDE DEF n
  <2> QED  BY <1>0, <1>6, <2>1, Parts
<1> QED  BY <1>4, <1>6, <1>7 DEF r, Combined, TransformAt

FFTComputes(N) ==
  \A in \in 0..(2 * kFFTSize), out \in 0..(8 * kFFTSize), m \in Memory :
    in + 2 * N <= 2 * kFFTSize /\ out + 6 * N <= 8 * kFFTSize
      => Computes(m, FFT[N][in][out][m], N, in, out)

LEMMA EvenComputes ==
  ASSUME NEW H \in Nat \ {0}, NEW N, N = 2 * H, NEW st \in Nat, kFFTSize = N * st, FFTComputes(H),
         N <= kFFTSize
  PROVE  FFTComputes(N)
<1> SUFFICES ASSUME NEW in \in 0..(2 * kFFTSize), NEW out \in 0..(8 * kFFTSize), NEW m \in Memory,
                    in + 2 * N <= 2 * kFFTSize, out + 6 * N <= 8 * kFFTSize
             PROVE  Computes(m, FFT[N][in][out][m], N, in, out)
  BY DEF FFTComputes
<1> DEFINE behind   == in + N
           even_fft == out + 2 * N
           odd_fft  == even_fft + N
           s        == Split(m, in, N, 0)
           evened   == FFT[H][behind][even_fft][s]
           t        == Split(evened, in, N, 1)
           both     == FFT[H][behind][odd_fft][t]
           r        == Combine(both, N, out, even_fft, odd_fft)
           x        == Window(m, in, N)
           xe       == Window(s, behind, H)
           xo       == Window(t, behind, H)
<1>1. FFT[N][in][out][m] = r
  <2>1. N \in 1..kFFTSize /\ N # 1 /\ ~(N % 2 = 1)
    <3>1. N \in Nat /\ N >= 2 /\ N % 2 = 0
      OBVIOUS
    <3> QED  BY <3>1, FrameSize
  <2>2. N \div 2 = H
    BY Quotient
  <2>3. FFT[N][in][out][m] = Transform(FFT[N \div 2], N, in, out, m)
    BY <2>1, FFTStep
  <2> QED  BY <2>1, <2>2, <2>3, Zenon DEF Transform
<1>2. /\ in \in Nat /\ out \in Nat /\ 0 \in 0..1 /\ 1 \in 0..1
      /\ behind \in 0..(2 * kFFTSize) /\ even_fft \in 0..(8 * kFFTSize) /\ odd_fft \in 0..(8 * kFFTSize)
      /\ behind + 2 * H <= 2 * kFFTSize
      /\ even_fft + 6 * H <= 8 * kFFTSize /\ odd_fft + 6 * H <= 8 * kFFTSize
      /\ behind \in Nat /\ even_fft \in Nat /\ odd_fft \in Nat /\ N \in Nat \ {0}
  BY FrameSize
<1>3. /\ s \in Memory /\ s.fft_out = m.fft_out /\ InKept(m, s, in + N, in + 2 * N)
      /\ \A i \in Nat : i < H => xe[i] = x[2 * i + 0]
  BY <1>2, SplitKeeps
<1> HIDE DEF s
<1>4. Computes(s, evened, H, behind, even_fft)
  <2> HIDE DEF behind, even_fft, odd_fft
  <2> QED  BY <1>2, <1>3 DEF FFTComputes
<1>5. evened \in Memory
  BY <1>4 DEF Computes
<1> HIDE DEF evened
<1>6. /\ t \in Memory /\ t.fft_out = evened.fft_out /\ InKept(evened, t, in + N, in + 2 * N)
      /\ \A i \in Nat : i < H => xo[i] = Window(evened, in, N)[2 * i + 1]
  BY <1>2, <1>5, SplitKeeps
<1> HIDE DEF t
<1>7. Computes(t, both, H, behind, odd_fft)
  <2> HIDE DEF behind, even_fft, odd_fft
  <2> QED  BY <1>2, <1>6 DEF FFTComputes
<1>8. both \in Memory
  BY <1>7 DEF Computes
<1> HIDE DEF both
(* The input is not overwritten, *)
<1>9. InKept(m, evened, in + N, in + 2 * N) /\ InKept(m, both, in + N, in + 2 * N)
  <2>1. InKept(s, evened, behind + H, behind + 2 * H) /\ InKept(t, both, behind + H, behind + 2 * H)
    BY <1>4, <1>7 DEF Computes
  <2> QED  BY <1>3, <1>6, <2>1 DEF InKept
<1>10. Window(evened, in, N) = x
  <2> SUFFICES ASSUME NEW n \in 0..(N - 1) PROVE evened.fft_in[in + n] = m.fft_in[in + n]
    BY DEF Window
  <2> DEFINE a == in + n
  <2>1. a \in 0..(2 * kFFTSize - 1) /\ a < in + N
    BY FrameSize
  <2> HIDE DEF a
  <2>2. evened.fft_in[a] = m.fft_in[a]
    BY <1>9, <2>1 DEF InKept
  <2> QED  BY <2>2 DEF a
(* nor is the transform of the even half by that of the odd one. *)
<1>11. ASSUME NEW k \in 0..(H - 1)
       PROVE  /\ RealPart(both, even_fft, H)[k] = RealPart(evened, even_fft, H)[k]
              /\ ImagPart(both, even_fft, H)[k] = ImagPart(evened, even_fft, H)[k]
  <2> DEFINE a == even_fft + 2 * k
             b == even_fft + 2 * k + 1
  <2>1. a \in 0..(8 * kFFTSize - 1) /\ a < odd_fft /\ b \in 0..(8 * kFFTSize - 1) /\ b < odd_fft
    BY FrameSize
  <2> HIDE DEF a, b
  <2>2. both.fft_out[a] = evened.fft_out[a] /\ both.fft_out[b] = evened.fft_out[b]
    BY <1>6, <1>7, <2>1 DEF Computes, OutKept
  <2> QED  BY <2>2 DEF RealPart, ImagPart, a, b
<1> HIDE DEF x, xe, xo
<1>12. TransformAt(both, H, even_fft, xe)
  BY <1>4, <1>11 DEF Computes, TransformAt, xe
<1>13. TransformAt(both, H, odd_fft, xo)
  BY <1>7 DEF Computes, xo
<1>14. Halved(x, xe, xo, H)
  <2>1. \A n \in Nat : n < N => x[n] \in Int
    <3>1. in + N <= 2 * kFFTSize /\ N \in Nat
      BY <1>2
    <3> QED  BY <1>2, <3>1, WindowNumber DEF x
  <2>2. ASSUME NEW i \in Nat, i < H PROVE xe[i] = x[2 * i] /\ xo[i] = x[2 * i + 1]
    <3>1. 2 * i + 0 = 2 * i
      OBVIOUS
    <3> QED  BY <1>3, <1>6, <1>10, <2>2, <3>1
  <2> QED  BY <2>1, <2>2 DEF Halved
<1>15. /\ r \in Memory /\ r.fft_in = both.fft_in /\ OutKept(both, r, out, out + 2 * N)
       /\ TransformAt(r, N, out, x)
  <2>1. N \in Nat /\ \E q \in Nat : kFFTSize = N * q
    OBVIOUS
  <2> HIDE DEF behind, even_fft, odd_fft
  <2>2. both \in Memory /\ H \in Nat \ {0} /\ N \in Nat /\ out \in Nat /\ even_fft \in Nat /\ odd_fft \in Nat
    BY <1>2, <1>8, <2>1
  <2>3. N = 2 * H /\ (\E q \in Nat : kFFTSize = N * q) /\ out + 6 * N <= 8 * kFFTSize
    BY <2>1
  <2>4. Halved(x, xe, xo, H) /\ TransformAt(both, H, even_fft, xe) /\ TransformAt(both, H, odd_fft, xo)
    BY <1>12, <1>13, <1>14
  <2>5. Combined(both, r, N, out, x)
    BY <2>2, <2>3, <2>4, CombineComputes
  <2> HIDE DEF r
  <2> QED  BY <2>5 DEF Combined
<1> HIDE DEF r
<1>16. InKept(m, r, in + N, in + 2 * N)
  BY <1>9, <1>15 DEF InKept
<1>17. OutKept(m, r, out, out + 6 * N)
  <2>1. /\ OutKept(s, evened, even_fft, even_fft + 6 * H)
        /\ OutKept(t, both, odd_fft, odd_fft + 6 * H)
    BY <1>4, <1>7 DEF Computes
  <2> QED  BY <1>3, <1>6, <1>15, <2>1 DEF OutKept
<1> QED  BY <1>1, <1>15, <1>16, <1>17 DEF Computes, x

(* The FFT of the code, for every size that divides the table (the code calls it
   with the whole table, and the halvings keep to its divisors): wherever its input
   and its six-fold room in the output lie in the arrays, and whatever else they
   hold, it leaves there the discrete Fourier transform of the input, modulo the
   prime, keeps the input, and touches nothing outside of its room. *)
THEOREM FastTransformIsTransform ==
  ASSUME NEW N \in 1..kFFTSize, NEW st \in Nat, kFFTSize = N * st
  PROVE  FFTComputes(N)
<1> DEFINE Divides(n) == \E q \in Nat : kFFTSize = n * q
           S == {n \in Nat : \A i \in 1..kFFTSize : i <= n /\ Divides(i) => FFTComputes(i)}
<1>1. 0 \in S
  OBVIOUS
<1>2. ASSUME NEW n \in S PROVE n + 1 \in S
  <2> SUFFICES ASSUME NEW i \in 1..kFFTSize, i = n + 1, Divides(i) PROVE FFTComputes(i)
    <3> HIDE DEF Divides, FFTComputes
    <3> QED  OBVIOUS
  <2>0. i \in Nat \ {0} /\ i <= kFFTSize
    OBVIOUS
  <2>1. CASE i = 1
    <3> SUFFICES ASSUME NEW in \in 0..(2 * kFFTSize), NEW out \in 0..(8 * kFFTSize), NEW m \in Memory,
                        in + 2 * 1 <= 2 * kFFTSize, out + 6 * 1 <= 8 * kFFTSize
                 PROVE  Computes(m, FFT[1][in][out][m], 1, in, out)
      BY <2>1 DEF FFTComputes
    <3>1. 1 \in 1..kFFTSize /\ in \in Nat /\ out \in Nat /\ in + 2 <= 2 * kFFTSize /\ out + 6 <= 8 * kFFTSize
      BY FrameSize
    <3>2. FFT[1][in][out][m] = Copy(m, in, out)
      <4>1. FFT[1][in][out][m] = Transform(FFT[1 \div 2], 1, in, out, m)
        BY <3>1, FFTStep
      <4> QED  BY <4>1, Zenon DEF Transform
    <3> QED  BY <3>1, <3>2, CopyComputes
  <2>2. CASE i # 1 /\ i % 2 = 1
    <3> SUFFICES ASSUME NEW in \in 0..(2 * kFFTSize), NEW out \in 0..(8 * kFFTSize), NEW m \in Memory,
                        in + 2 * i <= 2 * kFFTSize, out + 6 * i <= 8 * kFFTSize
                 PROVE  Computes(m, FFT[i][in][out][m], i, in, out)
      BY DEF FFTComputes
    <3>1. FFT[i][in][out][m] = DFT(m, in, i, out)
      <4>1. FFT[i][in][out][m] = Transform(FFT[i \div 2], i, in, out, m)
        BY FFTStep
      <4> QED  BY <2>2, <4>1, Zenon DEF Transform
    <3>2. in \in Nat /\ out \in Nat
      OBVIOUS
    <3> QED  BY <2>0, <3>1, <3>2, DFTComputes
  <2>3. CASE i % 2 # 1
    <3> DEFINE H == i \div 2
    <3>1. H \in Nat \ {0} /\ i = 2 * H /\ H <= n /\ H \in 1..kFFTSize
      <4>1. i % 2 = 0
        BY <2>0, <2>3
      <4> QED  BY <2>0, <4>1
    <3> HIDE DEF H
    <3>2. PICK q \in Nat : kFFTSize = i * q
      OBVIOUS
    <3>3. Divides(H)
      <4>1. kFFTSize = H * (2 * q) /\ 2 * q \in Nat
        BY <3>1, <3>2
      <4> QED  BY <4>1
    <3>4. FFTComputes(H)
      <4> HIDE DEF Divides, FFTComputes
      <4> QED  BY <3>1, <3>3
    <3> QED  BY <2>0, <3>1, <3>2, <3>4, EvenComputes
  <2> QED  BY <2>1, <2>2, <2>3
<1>3. S = Nat
  <2>1. S \in SUBSET Nat
    OBVIOUS
  <2> HIDE DEF S
  <2> QED  BY <1>1, <1>2, <2>1, NatSetInduction
<1>4. Divides(N) /\ N \in Nat /\ N <= N
  OBVIOUS
<1> HIDE DEF Divides, FFTComputes
<1> QED  BY <1>3, <1>4

-----------------------------------------------------------------------------
(* The power spectrum, as far as the first bins. *)
PowerBins(m, n, p) ==
  p = [bins \in 0..n |-> IF bins = 0 THEN m ELSE PowerBin(p[bins - 1], bins - 1)]

LEMMA PowerBinsExist ==
  ASSUME NEW m, NEW n \in Nat
  PROVE  \E p : PowerBins(m, n, p)
<1> DEFINE S == {k \in Nat : \E p : PowerBins(m, k, p)}
<1>1. 0 \in S
  <2>1. PowerBins(m, 0, [k \in 0..0 |-> m])
    BY DEF PowerBins
  <2> QED  BY <2>1
<1>2. ASSUME NEW k \in S PROVE k + 1 \in S
  <2>1. PICK p : PowerBins(m, k, p)
    OBVIOUS
  <2> DEFINE next == [j \in 0..(k + 1) |-> IF j <= k THEN p[j] ELSE PowerBin(p[j - 1], j - 1)]
  <2>2. \A j \in 0..k : p[j] = IF j = 0 THEN m ELSE PowerBin(p[j - 1], j - 1)
    BY <2>1 DEF PowerBins
  <2>3. next = [j \in 0..(k + 1) |-> IF j = 0 THEN m ELSE PowerBin(next[j - 1], j - 1)]
    <3> SUFFICES ASSUME NEW j \in 0..(k + 1)
                 PROVE next[j] = IF j = 0 THEN m ELSE PowerBin(next[j - 1], j - 1)
      OBVIOUS
    <3>1. CASE j = 0
      BY <2>2, <3>1
    <3>2. CASE j # 0
      <4>1. j - 1 \in 0..k /\ next[j - 1] = p[j - 1]
        BY <3>2
      <4>2. CASE j <= k
        BY <2>2, <3>2, <4>1, <4>2
      <4>3. CASE ~(j <= k)
        BY <3>2, <4>1, <4>3
      <4> QED  BY <4>2, <4>3
    <3> QED  BY <3>1, <3>2
  <2> HIDE DEF next
  <2>4. PowerBins(m, k + 1, next)
    BY <2>3 DEF PowerBins
  <2> QED  BY <2>4
<1>3. S = Nat
  <2>1. S \in SUBSET Nat
    OBVIOUS
  <2> HIDE DEF S
  <2> QED  BY <1>1, <1>2, <2>1, NatSetInduction
<1>4. n \in S
  BY <1>3
<1> QED  BY <1>4

SquareSum(m, j) == (m.fft_out[2 * j] * m.fft_out[2 * j] + m.fft_out[2 * j + 1] * m.fft_out[2 * j + 1]) % Modulus

LEMMA Bins == n_fft \in Nat /\ n_fft > 1 /\ 2 * n_fft <= kFFTSize + 2 /\ stage_2_pad \in Nat
BY FrameSize DEF n_fft, stage_2_pad

(* p is m with the first bins computed. *)
Computed(m, p, bins) ==
  /\ p \in Memory
  /\ \A a \in 0..(8 * kFFTSize - 1) : a >= bins => p.fft_out[a] = m.fft_out[a]
  /\ \A j \in 0..(bins - 1) : p.fft_out[j] = SquareSum(m, j)

LEMMA OneBin ==
  ASSUME NEW m \in Memory, NEW p, NEW b \in Nat, b < n_fft, Computed(m, p, b)
  PROVE  Computed(m, PowerBin(p, b), b + 1)
<1> DEFINE q == PowerBin(p, b)
           c == 2 * b
           e == 2 * b + 1
           v == (p.fft_out[c] * p.fft_out[c] + p.fft_out[e] * p.fft_out[e]) % Modulus
<1>1. /\ p \in Memory
      /\ \A a \in 0..(8 * kFFTSize - 1) : a >= b => p.fft_out[a] = m.fft_out[a]
      /\ \A j \in 0..(b - 1) : p.fft_out[j] = SquareSum(m, j)
  BY DEF Computed
<1>2. /\ c \in 0..(8 * kFFTSize - 1) /\ c >= b /\ e \in 0..(8 * kFFTSize - 1) /\ e >= b
      /\ b \in 0..(8 * kFFTSize - 1)
  BY Bins, FrameSize
<1>3. q = [p EXCEPT !.fft_out[b] = v]
  BY DEF PowerBin
<1> HIDE DEF c, e
<1>4. v \in Number
  <2> DEFINE f == p.fft_out[c]
             g == p.fft_out[e]
  <2>1. f \in Int /\ g \in Int
    BY <1>1, <1>2, CellNumber
  <2> HIDE DEF f, g
  <2>2. f * f + g * g \in Int
    BY <2>1
  <2>3. (f * f + g * g) % Modulus \in Number
    BY <2>2, ModIsSame
  <2> QED  BY <2>3 DEF f, g
<1>5. v = SquareSum(m, b)
  <2>1. p.fft_out[c] = m.fft_out[c] /\ p.fft_out[e] = m.fft_out[e]
    BY <1>1, <1>2
  <2> QED  BY <2>1 DEF SquareSum, c, e
<1> HIDE DEF v, q
<1>6. /\ q \in Memory
      /\ \A a \in 0..(8 * kFFTSize - 1) : q.fft_out[a] = IF a = b THEN v ELSE p.fft_out[a]
  BY <1>1, <1>2, <1>3, <1>4 DEF Memory
<1>7. ASSUME NEW a \in 0..(8 * kFFTSize - 1), a >= b + 1 PROVE q.fft_out[a] = m.fft_out[a]
  <2>1. a # b /\ a >= b
    BY <1>7
  <2> QED  BY <1>1, <1>6, <2>1
<1>8. ASSUME NEW j \in 0..b PROVE q.fft_out[j] = SquareSum(m, j)
  <2>1. j \in 0..(8 * kFFTSize - 1)
    <3> DEFINE size == 8 * kFFTSize
    <3>1. size \in Nat /\ b \in 0..(size - 1)
      BY <1>2, FrameSize
    <3> HIDE DEF size
    <3>2. j \in 0..(size - 1)
      BY <3>1
    <3> QED  BY <3>2 DEF size
  <2>2. j = b \/ (j \in 0..(b - 1) /\ j # b)
    OBVIOUS
  <2> QED  BY <1>1, <1>5, <1>6, <2>1, <2>2
<1>9. b + 1 - 1 = b
  OBVIOUS
<1> QED  BY <1>6, <1>7, <1>8, <1>9 DEF Computed, q

(* Every bin is computed from the transform, though those before it have been
   written over it. *)
LEMMA PowerComputes ==
  ASSUME NEW m \in Memory
  PROVE  Computed(m, Power(m), n_fft)
<1> DEFINE p == CHOOSE f : PowerBins(m, n_fft, f)
           S == {b \in Nat : b <= n_fft => Computed(m, p[b], b)}
<1>1. PowerBins(m, n_fft, p)
  BY PowerBinsExist, Bins, Zenon
<1>2. Power(m) = p[n_fft]
  BY Zenon DEF Power, PowerBins
<1> HIDE DEF p
<1>3. \A b \in 0..n_fft : p[b] = IF b = 0 THEN m ELSE PowerBin(p[b - 1], b - 1)
  BY <1>1 DEF PowerBins
<1>4. 0 \in S
  <2>1. p[0] = m
    BY <1>3, Bins
  <2> QED  BY <2>1 DEF Computed
<1>5. ASSUME NEW b \in S PROVE b + 1 \in S
  <2> SUFFICES ASSUME b + 1 <= n_fft PROVE Computed(m, p[b + 1], b + 1)
    OBVIOUS
  <2> DEFINE j == b + 1
  <2>1. j \in 0..n_fft /\ j # 0 /\ j - 1 = b /\ b < n_fft /\ b \in Nat
    BY Bins
  <2>2. Computed(m, p[b], b)
    <3>1. b <= n_fft
      BY <2>1, Bins
    <3> HIDE DEF j
    <3> QED  BY <3>1
  <2> HIDE DEF j
  <2>3. p[j] = PowerBin(p[b], b)
    BY <1>3, <2>1
  <2> DEFINE pb == p[b]
  <2> HIDE DEF pb
  <2>4. Computed(m, PowerBin(pb, b), b + 1)
    BY <2>1, <2>2, OneBin DEF pb
  <2> QED  BY <2>3, <2>4 DEF j, pb
<1>6. S = Nat
  <2>1. S \in SUBSET Nat
    OBVIOUS
  <2> HIDE DEF S
  <2> QED  BY <1>4, <1>5, <2>1, NatSetInduction
<1>7. Computed(m, p[n_fft], n_fft)
  BY <1>6, Bins
<1> QED  BY <1>2, <1>7

(* The unrolled loop and the rest of it add up one filter. *)
MelTerms(m, j) == [k \in 0..(n_fft - 1) |-> m.fft_out[k] * filters_[j][k]]

LEMMA FilterNumber ==
  ASSUME NEW j \in 0..(kNumMelBins - 1), NEW k \in 0..(n_fft - 1)
  PROVE  filters_[j][k] \in Int
<1>1. filters_ \in [0..(kNumMelBins - 1) -> [0..(kFFTSize \div 2) -> Number]]
  BY LogMelAssumption
<1>2. k \in 0..(kFFTSize \div 2)
  BY FrameSize DEF n_fft
<1>3. filters_[j][k] \in Number
  BY <1>1, <1>2
<1> QED  BY <1>3, NumberMod

LEMMA MelIs ==
  ASSUME NEW m \in Memory, NEW j \in 0..(kNumMelBins - 1)
  PROVE  Mel(m, j) = SumOf(MelTerms(m, j), 0, n_fft)
<1> DEFINE b == (n_fft \div 4) * 4
           n == n_fft - b
           f == MelTerms(m, j)
<1>1. b \in Nat /\ n \in Nat /\ b + n = n_fft
  BY Bins
<1>2. \A k \in Nat : k < n_fft => f[k] \in Int
  <2> SUFFICES ASSUME NEW k \in Nat, k < n_fft PROVE m.fft_out[k] * filters_[j][k] \in Int
    BY Bins DEF MelTerms
  <2>1. k \in 0..(n_fft - 1) /\ k \in 0..(8 * kFFTSize - 1)
    BY Bins, FrameSize
  <2>2. m.fft_out[k] \in Int /\ filters_[j][k] \in Int
    BY <2>1, CellNumber, FilterNumber
  <2> QED  BY <2>2
<1>3. Mel(m, j) = (SumOf(f, 0, b) + SumOf(f, b, n_fft)) % Modulus
  BY DEF Mel, MelTerms
<1> HIDE DEF b, n, f
<1>4. SumOf(f, 0, b + n) = (SumOf(f, 0, b) + SumOf(f, b, b + n)) % Modulus
  BY <1>1, <1>2, SumJoins
<1> QED  BY <1>1, <1>3, <1>4 DEF f

-----------------------------------------------------------------------------
(* A column by its definition, part by part. *)
Frame(samples, n, i) ==
  [a \in 0..(kFFTSize - 1) |-> Padded(samples, n)[i * kHopLength + a] * hann_window_[a]]
CosTerms(frame, k) == [a \in 0..(kFFTSize - 1) |-> frame[a] * cos_vals_[(k * a) % kFFTSize]]
SinTerms(frame, k) == [a \in 0..(kFFTSize - 1) |-> frame[a] * sin_vals_[(k * a) % kFFTSize]]
RefRe(frame, k) == SumOf(CosTerms(frame, k), 0, kFFTSize)
RefIm(frame, k) == SumOf(SinTerms(frame, k), 0, kFFTSize)
RefTerms(frame, j) ==
  [k \in 0..(n_fft - 1) |->
     (RefRe(frame, k) * RefRe(frame, k) + RefIm(frame, k) * RefIm(frame, k)) * filters_[j][k]]

LEMMA ReferenceParts ==
  ASSUME NEW samples, NEW n, NEW i
  PROVE  ReferenceColumn(samples, n, i)
           = [j \in 0..(kNumMelBins - 1) |-> SumOf(RefTerms(Frame(samples, n, i), j), 0, n_fft)]
BY Zenon DEF ReferenceColumn, Frame, CosTerms, SinTerms, RefRe, RefIm, RefTerms

(* The frame the transform reads is the frame of the definition. *)
SameFrame(x, frame) ==
  \A a \in Nat : a < kFFTSize => x[a] \in Int /\ frame[a] \in Int /\ Same(x[a], frame[a])

LEMMA FullAngle ==
  ASSUME NEW k \in Nat, NEW a \in Nat
  PROVE  /\ cos_vals_[(k * a) % kFFTSize] = Cos(Angle(kFFTSize, k, a))
         /\ sin_vals_[(k * a) % kFFTSize] = Sin(Angle(kFFTSize, k, a))
<1>1. kFFTSize \div kFFTSize = 1
  BY FrameSize
<1>2. Angle(kFFTSize, k, a) = k * a
  BY <1>1 DEF Angle
<1> QED  BY <1>2 DEF Cos, Sin

LEMMA FrameTerms ==
  ASSUME NEW x, NEW frame, SameFrame(x, frame), NEW k \in Nat, NEW a \in Nat, a < kFFTSize
  PROVE  LET h == ReTerms(x, kFFTSize, k)
             g == ImTerms(x, kFFTSize, k)
             p == CosTerms(frame, k)
             q == SinTerms(frame, k)
         IN  /\ h[a] \in Int /\ g[a] \in Int /\ p[a] \in Int /\ q[a] \in Int
             /\ Same(h[a], p[a])
             /\ Same(g[a], (-1) * q[a] + 0 * q[a])
<1> DEFINE c == Cos(Angle(kFFTSize, k, a))
           s == Sin(Angle(kFFTSize, k, a))
           y == x[a]
           z == frame[a]
<1>0. kFFTSize \in Nat \ {0} /\ a \in 0..(kFFTSize - 1)
  BY FrameSize
<1>1. y \in Int /\ z \in Int /\ Same(y, z)
  BY DEF SameFrame
<1>2. c \in Int /\ s \in Int
  BY <1>0, AngleNat, CosSin
<1>3. /\ ReTerms(x, kFFTSize, k)[a] = y * c
      /\ ImTerms(x, kFFTSize, k)[a] = -(y * s)
  BY <1>0, <1>1, Terms
<1>4. CosTerms(frame, k)[a] = z * c /\ SinTerms(frame, k)[a] = z * s
  BY <1>0, FullAngle DEF CosTerms, SinTerms
<1> HIDE DEF c, s, y, z
<1>5. Same(y * c, z * c) /\ Same((-s) * y, (-s) * z)
  <2>1. -s \in Int
    BY <1>2
  <2> QED  BY <1>1, <1>2, <2>1, SameReflexive, SameProduct
<1>6. /\ y * c \in Int /\ z * c \in Int /\ -(y * s) \in Int /\ z * s \in Int
      /\ (-s) * y = -(y * s) /\ (-s) * z = (-1) * (z * s) + 0 * (z * s)
  BY <1>1, <1>2
<1> QED  BY <1>3, <1>4, <1>5, <1>6

LEMMA FrameTransform ==
  ASSUME NEW x, NEW frame, SameFrame(x, frame), NEW k \in Nat
  PROVE  /\ Re(x, kFFTSize, k) = RefRe(frame, k)
         /\ Im(x, kFFTSize, k) \in Int /\ RefRe(frame, k) \in Int /\ RefIm(frame, k) \in Int
         /\ Same(Im(x, kFFTSize, k), -RefIm(frame, k))
<1> DEFINE h == ReTerms(x, kFFTSize, k)
           g == ImTerms(x, kFFTSize, k)
           p == CosTerms(frame, k)
           q == SinTerms(frame, k)
<1>1. \A a \in Nat : a < kFFTSize =>
        /\ h[a] \in Int /\ g[a] \in Int /\ p[a] \in Int /\ q[a] \in Int
        /\ Same(h[a], p[a])
        /\ Same(g[a], (-1) * q[a] + 0 * q[a])
  BY FrameTerms
<1> HIDE DEF h, g, p, q
<1>2. SumOf(h, 0, kFFTSize) = SumOf(p, 0, kFFTSize)
  BY <1>1, FrameSize, SumSame
<1>3. Same(SumOf(g, 0, kFFTSize), (-1) * SumOf(q, 0, kFFTSize) + 0 * SumOf(q, 0, kFFTSize))
  <2>1. -1 \in Int /\ 0 \in Int /\ kFFTSize \in Nat
    BY FrameSize
  <2>2. \A a \in Nat : a < kFFTSize => /\ q[a] \in Int /\ q[a] \in Int /\ g[a] \in Int
                                       /\ Same(g[a], (-1) * q[a] + 0 * q[a])
    BY <1>1
  <2> QED  BY <2>1, <2>2, SumLinear, Zenon
<1>4. /\ SumOf(g, 0, kFFTSize) \in Int /\ SumOf(p, 0, kFFTSize) \in Int /\ SumOf(q, 0, kFFTSize) \in Int
  BY <1>1, FrameSize, SumNext
<1>5. (-1) * SumOf(q, 0, kFFTSize) + 0 * SumOf(q, 0, kFFTSize) = -SumOf(q, 0, kFFTSize)
  BY <1>4
<1> QED  BY <1>2, <1>3, <1>4, <1>5 DEF Re, Im, RefRe, RefIm, h, g, p, q

(* What a worker has computed when its frame is that of the definition. *)
LEMMA SpectrumOfFrame ==
  ASSUME NEW m \in Memory, NEW frame, SameFrame(Window(m, 0, kFFTSize), frame)
  PROVE  /\ Power(FFT[kFFTSize][0][0][m]) \in Memory
         /\ Column(Power(FFT[kFFTSize][0][0][m]))
              = [j \in 0..(kNumMelBins - 1) |-> SumOf(RefTerms(frame, j), 0, n_fft)]
<1> DEFINE K == kFFTSize
           o == FFT[K][0][0][m]
           w == Power(o)
           x == Window(m, 0, K)
<1>1. o \in Memory /\ TransformAt(o, K, 0, x)
  <2>1. /\ K \in 1..kFFTSize /\ 1 \in Nat /\ kFFTSize = K * 1
        /\ 0 \in 0..(2 * kFFTSize) /\ 0 \in 0..(8 * kFFTSize)
        /\ 0 + 2 * K <= 2 * kFFTSize /\ 0 + 6 * K <= 8 * kFFTSize
    BY FrameSize
  <2>2. FFTComputes(K)
    BY <2>1, FastTransformIsTransform
  <2>3. Computes(m, o, K, 0, 0)
    <3> HIDE DEF o
    <3> QED  BY <2>1, <2>2 DEF FFTComputes, o
  <2> QED  BY <2>3 DEF Computes
<1> HIDE DEF o
<1>2. Computed(o, w, n_fft)
  BY <1>1, PowerComputes
<1>3. w \in Memory
  BY <1>2 DEF Computed
<1> HIDE DEF w, x
<1>4. ASSUME NEW k \in 0..(n_fft - 1)
      PROVE  /\ w.fft_out[k] \in Int
             /\ RefRe(frame, k) * RefRe(frame, k) + RefIm(frame, k) * RefIm(frame, k) \in Int
             /\ Same(w.fft_out[k], RefRe(frame, k) * RefRe(frame, k) + RefIm(frame, k) * RefIm(frame, k))
  <2> DEFINE P == RefRe(frame, k)
             Q == RefIm(frame, k)
             B == Im(x, K, k)
  <2>1. k \in 0..(K - 1) /\ k \in Nat
    BY Bins, FrameSize
  <2>2. Re(x, K, k) = P /\ B \in Int /\ P \in Int /\ Q \in Int /\ Same(B, -Q)
    BY <2>1, FrameTransform DEF x
  <2>3. o.fft_out[2 * k] = P /\ o.fft_out[2 * k + 1] = B
    <3>1. RealPart(o, 0, K)[k] = P /\ ImagPart(o, 0, K)[k] = B
      BY <1>1, <2>1, <2>2 DEF TransformAt
    <3>2. 0 + 2 * k = 2 * k /\ 0 + 2 * k + 1 = 2 * k + 1
      BY <2>1
    <3> QED  BY <2>1, <3>1, <3>2 DEF RealPart, ImagPart
  <2>4. w.fft_out[k] = (P * P + B * B) % Modulus
    BY <1>2, <2>3 DEF Computed, SquareSum
  <2> HIDE DEF P, Q, B
  <2>5. Same(P * P + B * B, P * P + Q * Q) /\ P * P + B * B \in Int /\ P * P + Q * Q \in Int
    <3>1. -Q \in Int /\ (-Q) * (-Q) = Q * Q
      BY <2>2
    <3>2. Same(B * B, (-Q) * (-Q))
      BY <2>2, <3>1, SameProduct
    <3>3. P * P \in Int /\ B * B \in Int /\ Q * Q \in Int
      BY <2>2
    <3>4. P * P + B * B \in Int /\ P * P + Q * Q \in Int
      BY <2>2
    <3>5. Same(P * P, P * P)
      BY <3>3, SameReflexive
    <3> QED  BY <3>1, <3>2, <3>3, <3>4, <3>5, SameSum
  <2>6. /\ (P * P + B * B) % Modulus \in Int
        /\ Same((P * P + B * B) % Modulus, P * P + B * B)
    BY <2>5, ModIsSame
  <2>7. Same((P * P + B * B) % Modulus, P * P + Q * Q)
    BY <2>5, <2>6, SameTransitive
  <2> QED  BY <2>4, <2>5, <2>6, <2>7 DEF P, Q
<1>5. ASSUME NEW j \in 0..(kNumMelBins - 1)
      PROVE  Mel(w, j) = SumOf(RefTerms(frame, j), 0, n_fft)
  <2> DEFINE h == MelTerms(w, j)
             f == RefTerms(frame, j)
  <2>1. ASSUME NEW k \in Nat, k < n_fft
        PROVE  f[k] \in Int /\ h[k] \in Int /\ Same(h[k], f[k])
    <3> DEFINE a == w.fft_out[k]
               b == RefRe(frame, k) * RefRe(frame, k) + RefIm(frame, k) * RefIm(frame, k)
               c == filters_[j][k]
    <3>1. k \in 0..(n_fft - 1)
      BY <2>1, Bins
    <3>2. a \in Int /\ b \in Int /\ Same(a, b) /\ c \in Int
      BY <1>4, <3>1, FilterNumber
    <3>3. h[k] = a * c /\ f[k] = b * c
      BY <3>1 DEF MelTerms, RefTerms
    <3> HIDE DEF a, b, c, h, f
    <3>4. Same(a * c, b * c)
      BY <3>2, SameReflexive, SameProduct
    <3>5. a * c \in Int /\ b * c \in Int
      BY <3>2
    <3> QED  BY <3>3, <3>4, <3>5
  <2>2. Mel(w, j) = SumOf(h, 0, n_fft)
    BY <1>3, MelIs
  <2> HIDE DEF h, f
  <2>3. SumOf(h, 0, n_fft) = SumOf(f, 0, n_fft)
    BY <2>1, Bins, SumSame
  <2> QED  BY <2>2, <2>3 DEF f
<1>6. Column(w) = [j \in 0..(kNumMelBins - 1) |-> SumOf(RefTerms(frame, j), 0, n_fft)]
  BY <1>5 DEF Column
<1> QED  BY <1>3, <1>6 DEF w, o

-----------------------------------------------------------------------------
(* The padded samples, and the stretch of them that a column is computed from. *)
NumbersOf(samples, n) == \A t \in 0..(n - 1) : samples[t] \in Number

LEMMA Sized ==
  ASSUME NEW n \in Nat
  PROVE  /\ stage_1_pad(n) \in Nat /\ stage_2_pad \in Nat /\ 2 * stage_2_pad = kFFTSize
         /\ PaddedSize(n) \in Nat /\ PaddedSize(n) >= n + 2 * stage_2_pad
         /\ n_len(n) \in Int /\ kHopLength \in Nat \ {0} /\ kTargetSampleCount \in Nat
<1>1. kTargetSampleCount \in Nat /\ kHopLength \in Nat \ {0} /\ kFFTSize \in Nat /\ kFFTSize % 2 = 0
  BY LogMelAssumption
<1>2. stage_2_pad \in Nat /\ 2 * stage_2_pad = kFFTSize
  BY <1>1 DEF stage_2_pad
<1>3. stage_1_pad(n) \in Nat
  BY <1>1 DEF stage_1_pad
<1>4. PaddedSize(n) \in Nat /\ PaddedSize(n) >= n + 2 * stage_2_pad
  BY <1>2, <1>3 DEF PaddedSize
<1>5. n_len(n) \in Int
  BY <1>1, <1>4 DEF n_len
<1> QED  BY <1>1, <1>2, <1>3, <1>4, <1>5

LEMMA ColumnInside ==
  ASSUME NEW n \in Nat, NEW i \in 0..(n_len(n) - 1), NEW a \in 0..(kFFTSize - 1)
  PROVE  i * kHopLength + a \in 0..(PaddedSize(n) - 1)
<1> DEFINE P == PaddedSize(n) - kFFTSize
           h == kHopLength
           d == n_len(n)
<1>1. h \in Nat \ {0} /\ P \in Nat /\ d \in Int /\ kFFTSize \in Nat
  BY Sized, FrameSize
<1>2. i \in Nat /\ i < d /\ PaddedSize(n) = P + kFFTSize /\ PaddedSize(n) \in Nat
  BY <1>1, Sized
<1>3. d = P \div h
  BY DEF n_len
<1> HIDE DEF P, h, d
<1>4. h * d <= P
  <2>1. P = h * (P \div h) + (P % h) /\ P % h \in 0..(h - 1) /\ P \div h \in Int
    BY <1>1
  <2> DEFINE q == P \div h
             r == P % h
             v == h * q
  <2>2. P = v + r /\ r >= 0 /\ r \in Int /\ v \in Int
    BY <1>1, <2>1
  <2> HIDE DEF v, r
  <2>3. v <= P
    BY <1>1, <2>2
  <2> QED  BY <1>3, <2>3 DEF v
<1>5. i * h <= h * d
  <2> DEFINE e == d - i
  <2>1. e \in Nat /\ d = i + e
    BY <1>1, <1>2
  <2> HIDE DEF e
  <2>2. h * d = i * h + h * e
    BY <1>1, <1>2, <2>1
  <2>3. h * e >= 0 /\ i * h \in Nat /\ h * e \in Nat
    BY <1>1, <1>2, <2>1
  <2> QED  BY <2>2, <2>3
<1> DEFINE off == i * h
<1>6. off \in Nat /\ off <= P
  <2>1. off \in Nat /\ h * d \in Int
    BY <1>1, <1>2
  <2> QED  BY <1>1, <1>4, <1>5, <2>1
<1> HIDE DEF off
<1>7. off + a \in 0..(PaddedSize(n) - 1)
  BY <1>1, <1>2, <1>6
<1> QED  BY <1>7 DEF off, h

LEMMA PaddedNumber ==
  ASSUME NEW n \in Nat, n > stage_2_pad, NEW samples, NumbersOf(samples, n),
         NEW t \in 0..(PaddedSize(n) - 1)
  PROVE  /\ Padded(samples, n)[t] \in Int
         /\ t >= n + stage_2_pad => Padded(samples, n)[t] = 0
<1> DEFINE p == stage_2_pad
           v == Padded(samples, n)[t]
<1>1. p \in Nat /\ PaddedSize(n) \in Nat /\ t \in Nat
  BY Sized
<1>2. v = CASE t < p -> samples[p - t]
            [] t \in p..(p + n - 1) -> samples[t - p]
            [] OTHER -> 0
  BY DEF Padded
<1> HIDE DEF v, p
<1>3. \A i \in 0..(n - 1) : samples[i] \in Int
  BY NumberMod DEF NumbersOf
<1>4. CASE t < p
  <2> DEFINE i == p - t
  <2>1. i \in 0..(n - 1) /\ ~(t \in p..(p + n - 1))
    BY <1>1, <1>4 DEF p
  <2>2. v = samples[i]
    BY <1>2, <1>4, <2>1
  <2> HIDE DEF i
  <2>3. v \in Int
    BY <1>3, <2>1, <2>2
  <2>4. ~(t >= n + p)
    BY <1>1, <1>4
  <2> QED  BY <2>3, <2>4 DEF v, p
<1>5. CASE t \in p..(p + n - 1)
  <2> DEFINE i == t - p
  <2>1. i \in 0..(n - 1) /\ ~(t < p)
    BY <1>1, <1>5
  <2>2. v = samples[i]
    BY <1>2, <1>5, <2>1
  <2> HIDE DEF i
  <2>3. v \in Int
    BY <1>3, <2>1, <2>2
  <2>4. ~(t >= n + p)
    BY <1>1, <1>5
  <2> QED  BY <2>3, <2>4 DEF v, p
<1>6. CASE ~(t < p) /\ ~(t \in p..(p + n - 1))
  <2>1. v = 0
    BY <1>2, <1>6
  <2> QED  BY <2>1 DEF v
<1> QED  BY <1>4, <1>5, <1>6

LEMMA HannNumber ==
  ASSUME NEW a \in 0..(kFFTSize - 1)
  PROVE  hann_window_[a] \in Int
<1> DEFINE c == cos_vals_[a]
<1>1. c \in Int /\ Half \in Int
  BY TableEntries, HalfIsHalf
<1>2. hann_window_[a] = (Half * (1 - c)) % Modulus
  BY DEF hann_window_
<1> HIDE DEF c
<1>3. Half * (1 - c) \in Int
  BY <1>1
<1> QED  BY <1>2, <1>3, ModIsSame

LEMMA FrameNumber ==
  ASSUME NEW n \in Nat, n > stage_2_pad, NEW samples, NumbersOf(samples, n),
         NEW i \in 0..(n_len(n) - 1), NEW a \in 0..(kFFTSize - 1)
  PROVE  LET t == i * kHopLength + a
         IN  /\ Frame(samples, n, i)[a] \in Int
             /\ (hann_window_[a] * Padded(samples, n)[t]) % Modulus \in Number
             /\ Same((hann_window_[a] * Padded(samples, n)[t]) % Modulus, Frame(samples, n, i)[a])
             /\ t >= n + stage_2_pad => Frame(samples, n, i)[a] = 0
<1> DEFINE t == i * kHopLength + a
           v == Padded(samples, n)[t]
           w == hann_window_[a]
<1>1. t \in 0..(PaddedSize(n) - 1)
  BY ColumnInside
<1>2. Frame(samples, n, i)[a] = v * w
  BY DEF Frame
<1> HIDE DEF t
<1>3. v \in Int /\ (t >= n + stage_2_pad => v = 0)
  BY <1>1, PaddedNumber
<1>4. w \in Int
  BY HannNumber
<1> HIDE DEF v, w
<1>5. v * w \in Int /\ w * v \in Int /\ w * v = v * w /\ (v = 0 => v * w = 0)
  BY <1>3, <1>4
<1>6. (w * v) % Modulus \in Number /\ Same((w * v) % Modulus, w * v)
  BY <1>5, ModIsSame
<1> QED  BY <1>2, <1>3, <1>5, <1>6 DEF t, v, w

(* The frame a worker computes from is that of the definition, whatever its
   arrays held. *)
LEMMA FrameIsFilled ==
  ASSUME NEW n \in Nat, NEW samples, NEW m \in Memory, NEW i \in 0..(n_len(n) - 1),
         n > stage_2_pad, NumbersOf(samples, n)
  PROVE  LET f == WithFrame(m, Padded(samples, n), n + stage_2_pad, i)
         IN  f \in Memory /\ SameFrame(Window(f, 0, kFFTSize), Frame(samples, n, i))
<1> DEFINE padded == Padded(samples, n)
           frame  == Frame(samples, n, i)
           N      == n + stage_2_pad
           off    == i * kHopLength
           f      == WithFrame(m, padded, N, i)
           size   == 2 * kFFTSize
           value(a) == (hann_window_[a] * padded[off + a]) % Modulus
           cells  == [a \in 0..(size - 1) |->
                        IF a < kFFTSize /\ off + a < N THEN value(a)
                        ELSE IF N - off < kFFTSize THEN 0 ELSE m.fft_in[a]]
<1>1. m.fft_in \in [0..(size - 1) -> Number] /\ m.fft_out \in [0..(8 * kFFTSize - 1) -> Number]
  BY DEF Memory
<1>2. f = [m EXCEPT !.fft_in = cells]
  <2>1. DOMAIN m.fft_in = 0..(size - 1)
    BY <1>1
  <2> QED  BY <2>1 DEF WithFrame
<1>0. /\ N \in Nat /\ off \in Nat /\ kFFTSize \in Nat /\ size \in Nat /\ kFFTSize <= size /\ kFFTSize > 0
  <2>1. i \in Nat /\ kHopLength \in Nat /\ stage_2_pad \in Nat
    BY Sized
  <2> QED  BY <2>1, FrameSize
<1>3. ASSUME NEW a \in 0..(kFFTSize - 1)
      PROVE  /\ frame[a] \in Int /\ value(a) \in Number /\ Same(value(a), frame[a])
             /\ off + a >= N => frame[a] = 0
  BY FrameNumber
<1>4. 0 \in Number /\ Same(0, 0)
  BY ModulusPositive, SameReflexive DEF Number
<1> HIDE DEF value, frame, padded, off, N
<1>5. ASSUME NEW a \in 0..(size - 1) PROVE cells[a] \in Number
  <2>1. CASE a < kFFTSize /\ off + a < N
    <3>1. a \in 0..(kFFTSize - 1)
      BY <1>0, <2>1
    <3>2. cells[a] = value(a)
      BY <2>1
    <3> HIDE DEF cells
    <3> QED  BY <1>3, <3>1, <3>2
  <2>2. CASE ~(a < kFFTSize /\ off + a < N)
    <3>1. m.fft_in[a] \in Number
      BY <1>1
    <3> QED  BY <1>4, <2>2, <3>1
  <2> QED  BY <2>1, <2>2
<1>6. ASSUME NEW a \in 0..(kFFTSize - 1) PROVE cells[a] \in Int /\ Same(cells[a], frame[a])
  <2>0. a \in 0..(size - 1) /\ a < kFFTSize /\ a \in Nat
    BY <1>0
  <2>1. CASE off + a < N
    <3>1. cells[a] = value(a)
      BY <2>0, <2>1
    <3> HIDE DEF cells
    <3> QED  BY <1>3, <3>1, NumberMod
  <2>2. CASE ~(off + a < N)
    <3>1. N - off < kFFTSize /\ off + a >= N
      BY <1>0, <2>0, <2>2
    <3>2. cells[a] = 0
      BY <2>0, <2>2, <3>1
    <3> HIDE DEF cells
    <3> QED  BY <1>3, <1>4, <3>1, <3>2
  <2> QED  BY <2>1, <2>2
<1>7. cells \in [0..(size - 1) -> Number]
  BY <1>5
<1> HIDE DEF cells, f
<1>8. f \in Memory /\ f.fft_in = cells
  BY <1>1, <1>2, <1>7 DEF Memory
<1> DEFINE x == Window(f, 0, kFFTSize)
<1>9. ASSUME NEW a \in Nat, a < kFFTSize
      PROVE  x[a] \in Int /\ frame[a] \in Int /\ Same(x[a], frame[a])
  <2>1. a \in 0..(kFFTSize - 1) /\ 0 + a = a
    BY <1>0, <1>9
  <2>2. x[a] = cells[a]
    BY <1>8, <2>1 DEF Window
  <2> QED  BY <1>3, <1>6, <2>1, <2>2
<1> QED  BY <1>8, <1>9 DEF SameFrame, f, padded, N, frame

LEMMA ColumnIsReference ==
  ASSUME NEW n \in Nat, NEW samples, NEW m \in Memory, NEW i \in 0..(n_len(n) - 1),
         n > stage_2_pad, NumbersOf(samples, n)
  PROVE  LET o == Transformed(m, Padded(samples, n), n + stage_2_pad, i)
         IN  o \in Memory /\ Column(o) = ReferenceColumn(samples, n, i)
<1> DEFINE f == WithFrame(m, Padded(samples, n), n + stage_2_pad, i)
           o == Power(FFT[kFFTSize][0][0][f])
<1>1. f \in Memory /\ SameFrame(Window(f, 0, kFFTSize), Frame(samples, n, i))
  BY FrameIsFilled
<1> HIDE DEF f
<1>2. /\ o \in Memory
      /\ Column(o) = [j \in 0..(kNumMelBins - 1) |-> SumOf(RefTerms(Frame(samples, n, i), j), 0, n_fft)]
  BY <1>1, SpectrumOfFrame
<1>3. Column(o) = ReferenceColumn(samples, n, i)
  BY <1>2, ReferenceParts, Zenon
<1>4. o = Transformed(m, Padded(samples, n), n + stage_2_pad, i)
  BY DEF Transformed, f
<1> QED  BY <1>2, <1>3, <1>4

(* The columns that hold no samples are zero by the definition too. *)
LEMMA SilentIsReference ==
  ASSUME NEW n \in Nat, NEW samples, NEW i \in 0..(n_len(n) - 1),
         n > stage_2_pad, NumbersOf(samples, n), i \notin Sounding(n + stage_2_pad, n_len(n))
  PROVE  SilentColumn = ReferenceColumn(samples, n, i)
<1> DEFINE frame == Frame(samples, n, i)
           N     == n + stage_2_pad
           h     == kHopLength
<1>0. h \in Nat \ {0} /\ N \in Nat /\ i \in Nat
  BY Sized
<1>1. i >= N \div h + 1
  BY <1>0 DEF Sounding
<1>2. i * h >= N
  <2> DEFINE q == N \div h
             r == N % h
  <2>1. N = h * q + r /\ r \in 0..(h - 1) /\ q \in Nat
    BY <1>0
  <2> DEFINE e == i - (q + 1)
  <2>5. i >= q + 1
    BY <1>1
  <2> HIDE DEF q, r, h, N
  <2>2. e \in Nat /\ i = q + 1 + e
    BY <1>0, <2>1, <2>5
  <2> HIDE DEF e
  <2>3. i * h = h * q + h + h * e
    BY <1>0, <2>1, <2>2
  <2>4. h * e >= 0 /\ h * e \in Int /\ h * q \in Int
    BY <1>0, <2>1, <2>2
  <2> QED  BY <1>0, <2>1, <2>3, <2>4
<1>3. ASSUME NEW a \in 0..(kFFTSize - 1) PROVE frame[a] = 0
  <2> DEFINE t == i * h + a
  <2>1. t >= N
    <3> DEFINE off == i * h
    <3>1. off \in Nat /\ off >= N /\ a \in Nat
      BY <1>0, <1>2
    <3> HIDE DEF off, N
    <3>2. off + a >= N
      BY <1>0, <3>1
    <3> QED  BY <3>2 DEF off
  <2> QED  BY <2>1, FrameNumber
<1> HIDE DEF frame
<1>4. ASSUME NEW k \in 0..(n_fft - 1) PROVE RefRe(frame, k) = 0 /\ RefIm(frame, k) = 0
  <2>1. k \in Nat /\ kFFTSize \in Nat
    BY FrameSize
  <2>2. ASSUME NEW a \in Nat, a < kFFTSize
        PROVE  CosTerms(frame, k)[a] = 0 /\ SinTerms(frame, k)[a] = 0
    <3>1. a \in 0..(kFFTSize - 1)
      BY <2>1, <2>2
    <3>2. cos_vals_[(k * a) % kFFTSize] \in Int /\ sin_vals_[(k * a) % kFFTSize] \in Int
      <4>1. Angle(kFFTSize, k, a) \in Nat
        BY <2>1, FrameSize, AngleNat
      <4>2. Cos(Angle(kFFTSize, k, a)) \in Int /\ Sin(Angle(kFFTSize, k, a)) \in Int
        BY <4>1, CosSin
      <4> QED  BY <2>1, <4>2, FullAngle
    <3>3. CosTerms(frame, k)[a] = 0 * cos_vals_[(k * a) % kFFTSize]
          /\ SinTerms(frame, k)[a] = 0 * sin_vals_[(k * a) % kFFTSize]
      BY <1>3, <3>1 DEF CosTerms, SinTerms
    <3> QED  BY <3>2, <3>3
  <2> QED  BY <2>1, <2>2, SumZero DEF RefRe, RefIm
<1>5. ASSUME NEW j \in 0..(kNumMelBins - 1) PROVE SumOf(RefTerms(frame, j), 0, n_fft) = 0
  <2>1. ASSUME NEW k \in Nat, k < n_fft PROVE RefTerms(frame, j)[k] = 0
    <3>1. k \in 0..(n_fft - 1)
      BY <2>1, Bins
    <3>2. filters_[j][k] \in Int
      BY <3>1, FilterNumber
    <3>3. RefTerms(frame, j)[k] = (0 * 0 + 0 * 0) * filters_[j][k]
      BY <1>4, <3>1 DEF RefTerms
    <3> QED  BY <3>2, <3>3
  <2> QED  BY <2>1, Bins, SumZero
<1>6. ReferenceColumn(samples, n, i) = [j \in 0..(kNumMelBins - 1) |-> SumOf(RefTerms(frame, j), 0, n_fft)]
  BY ReferenceParts, Zenon DEF frame
<1> QED  BY <1>5, <1>6 DEF SilentColumn

-----------------------------------------------------------------------------
(* The inductive invariant of the workers: worker t is at one of the columns t,
   t + n_threads, t + 2 * n_threads, ..., and what has been written are the
   columns before where its worker is, as they are by definition.  Without it,
   that two workers never write the same column cannot be seen, nor that the
   columns before are left alone. *)
Written == {c \in Columns : c < column[c % n_threads]}

ColumnsInv ==
  phase = "compute" =>
    /\ column \in [Workers -> Nat]
    /\ memory \in [Workers -> Memory]
    /\ \A t \in Workers : \E q \in Nat : column[t] = n_threads * q + t
    /\ data = [c \in Written |-> ReferenceColumn(Samples, n_samples, c)]

LEMMA Threads == IInv => n_threads \in Nat \ {0}
BY TurnDetectionAssumption DEF IInv, Counters

LEMMA Turn ==
  ASSUME IInv, phase = "compute"
  PROVE  n_samples \in Nat /\ n_samples > stage_2_pad /\ NumbersOf(Samples, n_samples)
<1>1. turn_buffer \in Seq(1..MaxHeard)
  BY IInvTypeOK DEF TypeOK
<1>2. n_samples \in Nat
  BY <1>1, LenProperties DEF n_samples
<1>3. n_samples > stage_2_pad
  BY IInvEnoughToReflect DEF EnoughToReflect
<1>4. ASSUME NEW t \in 0..(n_samples - 1) PROVE Samples[t] \in Number
  <2> DEFINE k == t + 1
  <2>1. k \in 1..Len(turn_buffer)
    BY <1>2 DEF n_samples
  <2>2. Samples[t] = Wave[turn_buffer[k]]
    BY DEF Samples
  <2> HIDE DEF k
  <2>3. turn_buffer[k] \in 1..MaxHeard
    BY <1>1, <2>1, ElementOfSeq
  <2> QED  BY <2>2, <2>3, TurnDetectionAssumption
<1> QED  BY <1>2, <1>3, <1>4 DEF NumbersOf

(* A number that is t more than a multiple of n_threads is of worker t. *)
LEMMA OfWorker ==
  ASSUME NEW n \in Nat \ {0}, NEW t \in 0..(n - 1), NEW q \in Nat
  PROVE  (n * q + t) % n = t
<1> DEFINE a == n * q + t
<1>1. a \in Int /\ a = n * q + t /\ q \in Int
  OBVIOUS
<1> HIDE DEF a
<1>2. a % n = t
  BY <1>1, Remainder
<1> QED  BY <1>2 DEF a

(* Of the columns of a worker, those before its next place are those before this
   one, and this one. *)
LEMMA NextOfWorker ==
  ASSUME NEW n \in Nat \ {0}, NEW a \in Nat, NEW c \in Nat, a % n = c % n
  PROVE  c < a + n <=> c < a \/ c = a
<1> DEFINE r == a % n
           p == a \div n
           q == c \div n
<1>1. a = n * p + r /\ c = n * q + r /\ p \in Int /\ q \in Int /\ r \in Int
  OBVIOUS
<1> HIDE DEF r, p, q
<1>2. ASSUME c < a + n, c > a PROVE FALSE
  <2> DEFINE e == q - p
             v == n * e
  <2>1. c - a = v /\ e \in Int /\ v \in Int
    BY <1>1
  <2>2. e <= 0 => v <= 0
    BY <2>1
  <2>3. e >= 1 => v >= n
    BY <2>1
  <2> HIDE DEF e, v
  <2> QED  BY <1>2, <2>1, <2>2, <2>3
<1> QED  BY <1>2

LEMMA StartInv ==
  ASSUME IInv, TriggerSmartTurnDetection PROVE ColumnsInv'
<1> SUFFICES ASSUME phase' = "compute" PROVE ColumnsInv'
  BY DEF ColumnsInv
<1>1. /\ n_threads' = n_threads /\ Workers' = Workers
      /\ column' = [t \in Workers |-> t] /\ memory' = [t \in Workers |-> ZeroMemory] /\ data' = <<>>
  BY DEF TriggerSmartTurnDetection, TakeChunk, Workers
<1>2. n_threads \in Nat \ {0} /\ Workers = 0..(n_threads - 1)
  BY Threads DEF Workers
<1>3. column' \in [Workers' -> Nat]
  BY <1>1, <1>2
<1>4. memory' \in [Workers' -> Memory]
  <2>1. 0 \in Number
    BY ModulusPositive DEF Number
  <2>2. ZeroMemory \in Memory
    BY <2>1 DEF ZeroMemory, Memory
  <2> QED  BY <1>1, <2>2
<1>5. ASSUME NEW t \in Workers' PROVE \E q \in Nat : column'[t] = n_threads' * q + t
  <2>1. column'[t] = n_threads' * 0 + t /\ 0 \in Nat
    BY <1>1, <1>2
  <2> QED  BY <2>1
<1>6. Written' = {}
  <2> SUFFICES ASSUME NEW c \in Columns', c < column'[c % n_threads'] PROVE FALSE
    BY DEF Written
  <2>1. c \in Nat
    BY DEF Columns
  <2> DEFINE r == c % n_threads
  <2>2. r \in Workers /\ r <= c
    <3> DEFINE N == n_threads
               q == c \div N
               v == N * q
    <3>1. r \in 0..(N - 1) /\ c = v + r /\ q \in Nat
      BY <1>2, <2>1
    <3>2. N \in Nat \ {0} /\ Workers = 0..(N - 1)
      BY <1>2
    <3> HIDE DEF q, r, N
    <3>3. v \in Nat
      BY <3>1, <3>2
    <3> HIDE DEF v
    <3> QED  BY <3>1, <3>2, <3>3
  <2>3. column'[r] = r
    BY <1>1, <2>2
  <2>4. r \in Nat /\ ~(c < r)
    BY <1>2, <2>1, <2>2
  <2> QED  BY <1>1, <2>3, <2>4
<1>7. data' = [c \in Written' |-> ReferenceColumn(Samples, n_samples, c)']
  BY <1>1, <1>6
<1> QED  BY <1>3, <1>4, <1>5, <1>7 DEF ColumnsInv

(* A worker writes the column it is at, as it is by definition. *)
LEMMA WriteInv ==
  ASSUME IInv, ColumnsInv, NEW t \in Workers, NEW values, WriteColumn(t, values),
         values = ReferenceColumn(Samples, n_samples, column[t]),
         memory' \in [Workers -> Memory]
  PROVE  ColumnsInv'
<1> DEFINE a == column[t]
           N == n_threads
<1>1. N \in Nat \ {0} /\ Workers = 0..(N - 1)
  BY Threads DEF Workers
<1>2. /\ phase = "compute" /\ a \in Columns
      /\ data' = [c \in DOMAIN data \cup {a} |-> IF c = a THEN values ELSE data[c]]
      /\ column' = [column EXCEPT ![t] = a + N]
      /\ n_threads' = N /\ phase' = phase /\ turn_buffer' = turn_buffer
  BY DEF WriteColumn, audio
<1>3. /\ column \in [Workers -> Nat]
      /\ \A s \in Workers : \E q \in Nat : column[s] = N * q + s
      /\ data = [c \in Written |-> ReferenceColumn(Samples, n_samples, c)]
  BY <1>2 DEF ColumnsInv
<1>4. /\ Workers' = Workers /\ n_samples' = n_samples /\ Columns' = Columns /\ Samples' = Samples
  BY <1>2 DEF Workers, n_samples, Columns, Samples
<1>5. a \in Nat /\ a % N = t
  <2>1. PICK q \in Nat : a = N * q + t
    BY <1>3
  <2>2. a \in Nat
    BY <1>3
  <2> HIDE DEF a, N
  <2>3. (N * q + t) % N = t
    BY <1>1, OfWorker
  <2> QED  BY <2>1, <2>2, <2>3
<1> HIDE DEF N
<1>6. column' \in [Workers' -> Nat]
  <2>1. a + N \in Nat
    BY <1>1, <1>5
  <2> QED  BY <1>2, <1>3, <1>4, <2>1
<1>7. ASSUME NEW s \in Workers' PROVE \E q \in Nat : column'[s] = n_threads' * q + s
  <2>1. s \in Workers
    BY <1>4
  <2>2. PICK q \in Nat : column[s] = N * q + s
    BY <1>3, <2>1
  <2>3. CASE s = t
    <3>1. column'[s] = a + N
      BY <1>2, <1>3, <2>1, <2>3
    <3>2. a + N = N * (q + 1) + s /\ q + 1 \in Nat
      <4>1. s \in Nat /\ a = N * q + s
        BY <1>1, <2>1, <2>2, <2>3
      <4> HIDE DEF a
      <4> QED  BY <1>1, <4>1
    <3>3. n_threads' = N
      BY <1>2
    <3> QED  BY <3>1, <3>2, <3>3
  <2>4. CASE s # t
    <3>1. column'[s] = column[s]
      BY <1>2, <1>3, <2>1, <2>4
    <3> QED  BY <1>2, <2>2, <3>1
  <2> QED  BY <2>3, <2>4
<1>8. Written' = Written \cup {a}
  <2>1. ASSUME NEW c \in Columns PROVE c < column'[c % N] <=> c < column[c % N] \/ c = a
    <3> DEFINE r == c % N
    <3>1. c \in Nat /\ r \in Workers
      <4>1. c \in Nat
        BY DEF Columns
      <4> QED  BY <1>1, <4>1
    <3>2. CASE r = t
      <4>1. column'[r] = a + N /\ column[r] = a
        BY <1>2, <1>3, <3>2
      <4>2. a % N = c % N
        BY <1>5, <3>2
      <4> HIDE DEF a, r
      <4>3. c < a + N <=> c < a \/ c = a
        BY <1>1, <1>5, <3>1, <4>2, NextOfWorker
      <4> QED  BY <4>1, <4>3 DEF r
    <3>3. CASE r # t
      <4>1. column'[r] = column[r]
        BY <1>2, <1>3, <3>1, <3>3
      <4>2. c # a
        BY <1>5, <3>3
      <4> QED  BY <4>1, <4>2
    <3> QED  BY <3>2, <3>3
  <2>2. Written' = {c \in Columns : c < column'[c % N]}
    BY <1>2, <1>4 DEF Written
  <2>3. Written = {c \in Columns : c < column[c % N]}
    BY DEF Written, N
  <2>4. a \in Columns
    BY <1>2
  <2> HIDE DEF a
  <2> QED  BY <2>1, <2>2, <2>3, <2>4
<1>9. data' = [c \in Written' |-> ReferenceColumn(Samples, n_samples, c)]
  <2>1. DOMAIN data = Written /\ \A c \in Written : data[c] = ReferenceColumn(Samples, n_samples, c)
    BY <1>3
  <2>2. data' = [c \in Written \cup {a} |-> IF c = a THEN values ELSE data[c]]
    BY <1>2, <2>1
  <2>3. \A c \in Written \cup {a} : (IF c = a THEN values ELSE data[c]) = ReferenceColumn(Samples, n_samples, c)
    BY <2>1
  <2> HIDE DEF a
  <2> QED  BY <1>8, <2>2, <2>3
<1>10. data' = [c \in Written' |-> ReferenceColumn(Samples', n_samples', c)]
  BY <1>4, <1>9
<1> QED  BY <1>4, <1>6, <1>7, <1>10 DEF ColumnsInv

LEMMA WorkerInv ==
  ASSUME IInv, ColumnsInv, phase = "compute", NEW t \in Workers, WorkerThread(t)
  PROVE  ColumnsInv'
<1> DEFINE n == n_samples
           samples == Samples
           a == column[t]
           o == Transformed(memory[t], Padded(samples, n), n + stage_2_pad, a)
<1>1. n \in Nat /\ n > stage_2_pad /\ NumbersOf(samples, n)
  BY Turn
<1>2. memory \in [Workers -> Memory] /\ memory[t] \in Memory
  BY DEF ColumnsInv
<1>3. CASE ComputeColumn(t)
  <2>1. /\ WriteColumn(t, Column(o)) /\ memory' = [memory EXCEPT ![t] = o]
        /\ a \in 0..(n_len(n) - 1)
    BY <1>3 DEF ComputeColumn, WriteColumn, Columns
  <2>2. o \in Memory /\ Column(o) = ReferenceColumn(samples, n, a)
    <3> DEFINE m == memory[t]
    <3> HIDE DEF m, a, n, samples, o
    <3>1. m \in Memory
      BY <1>2 DEF m
    <3> QED  BY <1>1, <2>1, <3>1, ColumnIsReference DEF o, m
  <2> HIDE DEF o
  <2>3. memory' \in [Workers -> Memory]
    BY <1>2, <2>1, <2>2
  <2> QED  BY <2>1, <2>2, <2>3, WriteInv
<1>4. CASE FillWithSilence(t)
  <2>1. /\ WriteColumn(t, SilentColumn) /\ memory' = memory
        /\ a \in 0..(n_len(n) - 1) /\ a \notin Sounding(n + stage_2_pad, n_len(n))
    BY <1>4 DEF FillWithSilence, WriteColumn, Columns
  <2>2. SilentColumn = ReferenceColumn(samples, n, a)
    <3> HIDE DEF a, n, samples
    <3> QED  BY <1>1, <2>1, SilentIsReference
  <2> QED  BY <1>2, <2>1, <2>2, WriteInv
<1> QED  BY <1>3, <1>4 DEF WorkerThread

LEMMA ColumnsStep == IInv /\ ColumnsInv /\ [Next]_vars => ColumnsInv'
<1> SUFFICES ASSUME IInv, ColumnsInv, [Next]_vars PROVE ColumnsInv'
  OBVIOUS
<1>1. CASE \E samples \in 0..MaxResampled : ProcessAudio(samples)
  BY <1>1 DEF ProcessAudio, ColumnsInv
<1>2. CASE KeepRest
  BY <1>2 DEF KeepRest, ColumnsInv
<1>3. CASE ChunkIgnored \/ Pause \/ ResumeSpeech
  BY <1>3 DEF ChunkIgnored, Pause, ResumeSpeech, GoOn, TakeChunk, ColumnsInv
<1>4. CASE HandleSpeechDetected \/ TreatAsBackchannel
  BY <1>4 DEF HandleSpeechDetected, TreatAsBackchannel, TakeChunk, ColumnsInv
<1>5. CASE TriggerSmartTurnDetection
  BY <1>5, StartInv
<1>6. CASE phase = "compute" /\ \E t \in Workers : WorkerThread(t)
  BY <1>6, WorkerInv
<1>7. CASE TurnCompletes \/ TurnWaits \/ TurnFails
  BY <1>7 DEF TurnCompletes, TurnWaits, TurnFails, Judged, ColumnsInv
<1>8. CASE UNCHANGED vars
  BY <1>8 DEF vars, audio, mel, ColumnsInv, Written, Workers, Columns, Samples, n_samples
<1> QED  BY <1>1, <1>2, <1>3, <1>4, <1>5, <1>6, <1>7, <1>8 DEF Next

(* Whatever their number and the order in which they run, and whatever the
   sizes, the samples and the filter bank: the workers write each column once,
   and when they are joined the output is the normalized spectrogram by its
   definition, computed in arrays that are used again for every column. *)
THEOREM SpectrogramIsReference == Spec => []SpectrumIsReference
<1>1. Init => ColumnsInv
  BY DEF Init, ColumnsInv
<1>2. Spec => []ColumnsInv
  BY <1>1, ColumnsStep, Invariance, PTL DEF Spec
<1>3. IInv /\ ColumnsInv => SpectrumIsReference
  <2> SUFFICES ASSUME IInv, ColumnsInv, phase = "compute"
               PROVE  /\ \A t \in Workers : column[t] \in Columns => column[t] \notin DOMAIN data
                      /\ Joined => Normalized(data) = Reference(Samples, n_samples)
    BY DEF SpectrumIsReference
  <2>0. n_threads \in Nat \ {0} /\ Workers = 0..(n_threads - 1)
    BY Threads DEF Workers
  <2>1. /\ column \in [Workers -> Nat]
        /\ \A t \in Workers : \E q \in Nat : column[t] = n_threads * q + t
        /\ data = [c \in Written |-> ReferenceColumn(Samples, n_samples, c)]
    BY DEF ColumnsInv
  <2>2. ASSUME NEW t \in Workers, column[t] \in DOMAIN data PROVE FALSE
    <3>1. column[t] \in Written
      BY <2>1, <2>2
    <3>2. PICK q \in Nat : column[t] = n_threads * q + t
      BY <2>1
    <3>3. column[t] % n_threads = t
      BY <2>0, <3>2, OfWorker
    <3>4. column[t] < column[t]
      BY <3>1, <3>3 DEF Written
    <3> QED  BY <2>1, <3>4
  <2>3. ASSUME Joined PROVE Normalized(data) = Reference(Samples, n_samples)
    <3>1. Written = Columns
      <4> SUFFICES ASSUME NEW c \in Columns PROVE c < column[c % n_threads]
        BY DEF Written
      <4>1. n_len(n_samples) \in Int /\ c \in Nat /\ c < n_len(n_samples)
        <5>1. n_len(n_samples) \in Int
          BY Turn, Sized
        <5> QED  BY <5>1 DEF Columns
      <4> DEFINE r == c % n_threads
      <4>2. r \in Workers
        BY <2>0, <4>1
      <4>3. column[r] \in Nat /\ column[r] \notin Columns
        BY <2>1, <2>3, <4>2 DEF Joined
      <4> HIDE DEF r
      <4>4. ~(column[r] < n_len(n_samples))
        BY <4>1, <4>3 DEF Columns
      <4>5. c < column[r]
        BY <4>1, <4>3, <4>4
      <4> QED  BY <4>5 DEF r
    <3>2. data = [c \in Columns |-> ReferenceColumn(Samples, n_samples, c)]
      BY <2>1, <3>1
    <3>3. Reference(Samples, n_samples) = Normalized([c \in Columns |-> ReferenceColumn(Samples, n_samples, c)])
      BY Zenon DEF Reference, Columns
    <3> QED  BY <3>2, <3>3
  <2> QED  BY <2>2, <2>3
<1> QED  BY <1>2, <1>3, Invariance, PTL
=============================================================================
