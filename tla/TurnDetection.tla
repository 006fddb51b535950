---------------------------- MODULE TurnDetection ----------------------------
(***************************************************************************)
(* The way of audio through a VadTurnPipeline: resampled samples go to the *)
(* turn buffer and to the accumulator, which is cut into chunks for the    *)
(* VAD; in a silence the turn buffer is turned into a spectrogram by       *)
(* n_threads workers, and the model judges the turn.                       *)
(*                                                                         *)
(* A sample is its number in the order of the resampler's output.  The     *)
(* VAD, which other sessions share, may be in any state after a chunk;     *)
(* what an utterance lasted, and what the model says, may be anything.     *)
(***************************************************************************)
EXTENDS AudioTurnBuffer, LogMelSpectrogram

CONSTANTS kVadChunkSize,
          MaxResampled,     \* the most samples the resampler returns for one frame
          ThreadCounts,     \* the values n_threads_for_mel may have
          Wave,             \* the value of each sample
          MaxHeard          \* bound: samples that are resampled

ASSUME TurnDetectionAssumption ==
  /\ {kVadChunkSize, MaxResampled, MaxHeard} \subseteq Nat \ {0}
  /\ kMaxSamples <= kTargetSampleCount
  /\ kVadChunkSize <= kMaxSamples
  /\ MaxResampled + stage_2_pad <= kVadChunkSize
  /\ ThreadCounts \subseteq Nat \ {0}
  /\ Wave \in [1..MaxHeard -> Number]

VARIABLES heard,            \* samples resampled so far
          cleared,          \* history: heard when the turn buffer was last cleared
          turn_buffer,      \* buffer_ of the AudioTurnBuffer
          vad_accumulator,
          current_state,    \* current_state_
          phase,            \* in ProcessAudio: "listen", "chunk" or "compute"
          n_threads,        \* config_.n_threads_for_mel
          column,           \* i of each WorkerThread
          memory,           \* fft_in and fft_out of each
          data              \* output.data: the columns written so far

audio  == <<heard, cleared, turn_buffer, vad_accumulator>>
mel    == <<column, memory, data>>
vars   == <<audio, current_state, phase, n_threads, mel>>

VadState  == {"kIdle", "kSpeech", "kSilence"}
Workers   == 0..(n_threads - 1)
n_samples == Len(turn_buffer)
Samples   == [t \in 0..(n_samples - 1) |-> Wave[turn_buffer[t + 1]]]

(* The samples up to the last one heard, n of them. *)
Latest(n) == [k \in 1..n |-> heard - n + k]

Init ==
  /\ heard = 0 /\ cleared = 0
  /\ turn_buffer = <<>>
  /\ vad_accumulator = <<>>
  /\ current_state = "kIdle"
  /\ phase = "listen"
  /\ n_threads \in ThreadCounts
  /\ column = <<>> /\ memory = <<>> /\ data = <<>>

-----------------------------------------------------------------------------
(* ProcessAudio on the samples the resampler made of a frame. *)
ProcessAudio(samples) ==
  /\ phase = "listen"
  /\ phase' = "chunk"
  /\ heard + samples <= MaxHeard
  /\ heard' = heard + samples
  /\ LET resampled_audio == [k \in 1..samples |-> heard + k] IN
       /\ turn_buffer' = AppendSamples(turn_buffer, resampled_audio)
       /\ vad_accumulator' = vad_accumulator \o resampled_audio
  /\ UNCHANGED <<cleared, current_state, n_threads, mel>>

(* The loop ends: what is left does not make a chunk. *)
KeepRest ==
  /\ phase = "chunk"
  /\ Len(vad_accumulator) < kVadChunkSize
  /\ phase' = "listen"
  /\ UNCHANGED <<audio, current_state, n_threads, mel>>

(* Bug: half of a chunk is left, so that the chunks overlap. *)
TakeHalf ==
  /\ phase = "chunk"
  /\ Len(vad_accumulator) >= kVadChunkSize
  /\ vad_accumulator' = SubSeq(vad_accumulator, kVadChunkSize \div 2 + 1, Len(vad_accumulator))
  /\ UNCHANGED <<heard, n_threads>>

(* A chunk is taken out of the accumulator. *)
TakeChunk ==
  /\ phase = "chunk"
  /\ Len(vad_accumulator) >= kVadChunkSize
  /\ vad_accumulator' = SubSeq(vad_accumulator, kVadChunkSize + 1, Len(vad_accumulator))
  /\ UNCHANGED <<heard, n_threads>>

KeepBuffer  == UNCHANGED <<cleared, turn_buffer>>
ClearBuffer == turn_buffer' = <<>> /\ cleared' = heard

(* ProcessVadChunk, and the loop goes on.  The state does not change, or the
   inference fails. *)
GoOn(state) ==
  /\ TakeChunk
  /\ KeepBuffer
  /\ current_state' = state
  /\ UNCHANGED <<phase, mel>>

ChunkIgnored  == GoOn(current_state)
Pause         == current_state = "kSpeech" /\ GoOn("kSilence")
ResumeSpeech  == current_state = "kSilence" /\ GoOn("kSpeech")

(* HandleSpeechDetected: only a fresh turn clears the buffer. *)
HandleSpeechDetected ==
  /\ TakeChunk
  /\ current_state = "kIdle"
  /\ current_state' = "kSpeech"
  /\ ClearBuffer
  /\ UNCHANGED <<phase, mel>>

(* HandleSilenceDetected on an utterance that was too short. *)
TreatAsBackchannel ==
  /\ TakeChunk
  /\ current_state = "kSpeech"
  /\ current_state' = "kIdle"
  /\ ClearBuffer
  /\ UNCHANGED <<phase, mel>>

(* HandleSilenceDetected, TriggerSmartTurnDetection and Compute as far as the
   start of the workers.  An empty buffer is not judged.  The calling thread is
   worker 0. *)
TriggerSmartTurnDetection ==
  /\ TakeChunk
  /\ current_state # "kIdle"
  /\ current_state' = IF turn_buffer = <<>> THEN "kIdle" ELSE "kSilence"
  /\ phase' = IF turn_buffer = <<>> THEN "chunk" ELSE "compute"
  /\ KeepBuffer
  /\ column' = [t \in Workers |-> t]
  /\ memory' = [t \in Workers |-> ZeroMemory]
  /\ data' = <<>>

-----------------------------------------------------------------------------
(* WorkerThread.  Its vectors are made once and used for all of its columns. *)
Columns == 0..(n_len(n_samples) - 1)

WriteColumn(t, values) ==
  /\ phase = "compute"
  /\ column[t] \in Columns
  /\ data' = [c \in DOMAIN data \cup {column[t]} |->
                IF c = column[t] THEN values ELSE data[c]]
  /\ column' = [column EXCEPT ![t] = @ + n_threads]
  /\ UNCHANGED <<audio, current_state, phase, n_threads>>

ComputeColumn(t) ==
  LET n == n_samples + stage_2_pad
      m == Transformed(memory[t], Padded(Samples, n_samples), n, column[t]) IN
    /\ column[t] \in Sounding(n, n_len(n_samples))
    /\ WriteColumn(t, Column(m))
    /\ memory' = [memory EXCEPT ![t] = m]

FillWithSilence(t) ==
  /\ column[t] \notin Sounding(n_samples + stage_2_pad, n_len(n_samples))
  /\ WriteColumn(t, SilentColumn)
  /\ UNCHANGED memory

Joined == \A t \in Workers : column[t] \notin Columns

(* The workers are joined, the output is normalized and the model judges: back
   in TriggerSmartTurnDetection, and in the loop of ProcessAudio. *)
Judged(state) ==
  /\ phase = "compute"
  /\ Joined
  /\ phase' = "chunk"
  /\ current_state' = state
  /\ column' = <<>> /\ memory' = <<>> /\ data' = <<>>
  /\ UNCHANGED <<heard, vad_accumulator, n_threads>>

TurnCompletes == Judged("kIdle") /\ ClearBuffer
TurnWaits     == Judged("kSilence") /\ KeepBuffer
TurnFails     == Judged("kIdle") /\ KeepBuffer

WorkerThread(t) == ComputeColumn(t) \/ FillWithSilence(t)

Next ==
  \/ \E samples \in 0..MaxResampled : ProcessAudio(samples)
  \/ KeepRest
  \/ ChunkIgnored \/ Pause \/ ResumeSpeech \/ HandleSpeechDetected
  \/ TreatAsBackchannel \/ TriggerSmartTurnDetection
  \/ phase = "compute" /\ \E t \in Workers : WorkerThread(t)
  \/ TurnCompletes \/ TurnWaits \/ TurnFails

Spec == Init /\ [][Next]_vars

-----------------------------------------------------------------------------
TypeOK ==
  /\ heard \in 0..MaxHeard
  /\ cleared \in 0..heard
  /\ turn_buffer \in Seq(1..MaxHeard)
  /\ vad_accumulator \in Seq(1..MaxHeard)
  /\ current_state \in VadState
  /\ phase \in {"listen", "chunk", "compute"}
  /\ n_threads \in ThreadCounts

(* What the model judges is the audio since the turn began, up to the newest
   sample and without a gap, or its last kMaxSamples; and the VAD is given every
   sample once, in order, in chunks of its size: Append and its ring, the
   accumulator and its rests, over any sequence of frames, turns and failures. *)
RecentAudio ==
  /\ turn_buffer =
       Latest(IF heard - cleared < kMaxSamples THEN heard - cleared ELSE kMaxSamples)
  /\ vad_accumulator = Latest(Len(vad_accumulator))
  /\ (heard - Len(vad_accumulator)) % kVadChunkSize = 0
  /\ phase = "listen" => Len(vad_accumulator) < kVadChunkSize

(* The reflective padding reads the stage_2_pad samples behind the first: a
   buffer that is judged has them, though it was cleared when the turn began and
   what was in the accumulator then is not in it. *)
EnoughToReflect == phase = "compute" => n_samples > stage_2_pad

(* The workers, whatever their number and their order, write each column once,
   and when they are joined the output is what its definition says: padding,
   scratch space of the FFT and reuse of a worker's arrays included. *)
SpectrumIsReference ==
  phase = "compute" =>
    /\ \A t \in Workers : column[t] \in Columns => column[t] \notin DOMAIN data
    /\ Joined => Normalized(data) = Reference(Samples, n_samples)
=============================================================================
