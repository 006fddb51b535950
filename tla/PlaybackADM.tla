---------------------------- MODULE PlaybackADM ----------------------------
(***************************************************************************)
(* The playback path of one session of the speaking engine:               *)
(*   - the media thread (MediaStream::HandleMediaFrame) pushes PCM chunks  *)
(*     into the bounded lock-free audio queue;                             *)
(*   - the capture thread (CustomAudioDeviceModule::RunCaptureLoop) moves  *)
(*     them every 10 ms to the sample ring, takes one frame from it and    *)
(*     hands the frame to WebRTC, then looks whether playback is complete; *)
(*   - the command thread flushes (FlushAudioBuffer) and marks the end of  *)
(*     speech (SpeechGenerationComplete);                                  *)
(*   - the thread that removes the session stops recording, terminates the *)
(*     module and frees the queue (the middle of Session::Cleanup).        *)
(*                                                                         *)
(* Audio is counted in units: FrameUnits of them make the 10 ms frame. The *)
(* units are numbered in the order the queue accepted them, so a chunk is  *)
(* an interval of numbers and the ring a sequence of numbers.              *)
(***************************************************************************)
EXTENDS Naturals, Sequences, FiniteSets, Functions

CONSTANTS FrameUnits,   \* units in a 10 ms frame (kSamplesPer10ms)
          CapUnits,     \* units in the 200 ms latency cap of the ring
          QueueCap,     \* capacity of the SPSC queue (256 in Session)
          ChunkUnits,   \* the sizes a chunk may have
          FadeUnits,    \* the fade lengths a flush may ask for, 0 for none
          MaxChunks,    \* bound: media frames read
          MaxFlushes,   \* bound: flush_audio commands
          MaxCompletes  \* bound: speech_generation_complete commands

ASSUME PlaybackAssumption ==
  /\ FrameUnits \in Nat \ {0}
  /\ CapUnits \in Nat
  /\ QueueCap \in Nat
  /\ ChunkUnits \subseteq Nat \ {0}
  /\ FadeUnits \subseteq Nat
  /\ MaxChunks \in Nat /\ MaxFlushes \in Nat /\ MaxCompletes \in Nat

VARIABLES
  \* shared by the threads
  audio_queue,                 \* chunks [first, len], oldest first
  ring_samples,                \* units, oldest first
  recording,                   \* recording_
  speech_generation_complete,  \* speech_generation_complete_ of the ADM
  \* the threads
  media,     \* "idle", or "checked" once HandleMediaFrame's tests passed
  capture,   \* where RunCaptureLoop is
  frame,     \* the capture thread's local frame, <<>> when it is silence
  flusher,   \* where FlushAudioBuffer is
  cleaner,   \* where Session::Cleanup is
  \* histories and counters
  accepted,   \* units the queue accepted so far
  delivered,  \* units handed to WebRTC, in order
  chunks, flushes, completes,  \* commands and frames so far
  fired,      \* playback_complete events so far
  mark,       \* accepted, when the end of speech was last marked
  flush_mark, \* accepted, when the last flush took the lock
  flush_keep  \* units of the ring that flush was asked to keep

shared  == <<audio_queue, ring_samples, recording, speech_generation_complete>>
threads == <<media, capture, frame, flusher, cleaner>>
history == <<accepted, delivered, chunks, flushes, completes, fired,
             mark, flush_mark, flush_keep>>
vars    == <<shared, threads, history>>

CapturePc == {"test", "sleep", "drain", "deliver", "check", "reset", "fire", "exited"}
FlusherPc == {"idle", "locked", "draining"}
CleanerPc == {"idle", "joining", "terminating", "resetting", "done"}

Chunk == [first : Nat, len : Nat \ {0}]

(* The units of a chunk, in order. *)
UnitsOf(chunk) == [i \in 1..chunk.len |-> chunk.first + i - 1]

(* CustomAudioDeviceModule::mutex_ is held by the capture thread between
   "drain" and AssembleOne10msFrame and between the two accesses to the flag,
   and by the command thread inside FlushAudioBuffer. *)
MutexFree == capture \notin {"drain", "reset"} /\ flusher = "idle"

(* audio_queue.reset() frees the queue under threads that may still use it.
   What such a use does is undefined; here the thread gets no further. *)
QueueAlive == cleaner # "done"

(* After Session's constructor: the module initialised, the capture thread
   running, the completion callback set. *)
Init ==
  /\ audio_queue = <<>> /\ ring_samples = <<>>
  /\ recording = TRUE /\ speech_generation_complete = FALSE
  /\ media = "idle" /\ capture = "test" /\ frame = <<>>
  /\ flusher = "idle" /\ cleaner = "idle"
  /\ accepted = 0 /\ delivered = <<>>
  /\ chunks = 0 /\ flushes = 0 /\ completes = 0 /\ fired = 0
  /\ mark = 0 /\ flush_mark = 0 /\ flush_keep = 0

-----------------------------------------------------------------------------
(* The media thread. *)

(* HandleMediaFrame up to the push: the frame is valid and the session still
   has its track, module and queue.  Frames that fail a test are counted and
   dropped, which changes nothing here. *)
CheckMediaFrame ==
  /\ media = "idle"
  /\ cleaner = "idle"
  /\ chunks < MaxChunks
  /\ chunks' = chunks + 1
  /\ media' = "checked"
  /\ UNCHANGED <<shared, capture, frame, flusher, cleaner, accepted, delivered,
                 flushes, completes, fired, mark, flush_mark, flush_keep>>

(* audio_queue->push: a full queue drops the chunk. *)
PushChunk ==
  /\ media = "checked"
  /\ QueueAlive
  /\ media' = "idle"
  /\ \E n \in ChunkUnits :
        IF Len(audio_queue) < QueueCap
        THEN /\ audio_queue' = Append(audio_queue, [first |-> accepted + 1, len |-> n])
             /\ accepted' = accepted + n
        ELSE UNCHANGED <<audio_queue, accepted>>
  /\ UNCHANGED <<ring_samples, recording, speech_generation_complete, capture, frame,
                 flusher, cleaner, delivered, chunks, flushes, completes, fired,
                 mark, flush_mark, flush_keep>>

-----------------------------------------------------------------------------
(* The capture thread. *)

(* while (recording_), then, after the sleep to the next deadline, the lock: when
   StopRecording falls between, the loop runs once more. *)
Tick ==
  /\ \/ /\ capture = "test" /\ recording
        /\ capture' = "sleep"
     \/ /\ capture = "sleep" /\ MutexFree
        /\ capture' = "drain"
  /\ UNCHANGED <<shared, media, frame, flusher, cleaner, history>>

ExitLoop ==
  /\ capture = "test"
  /\ ~recording
  /\ capture' = "exited"
  /\ UNCHANGED <<shared, media, frame, flusher, cleaner, history>>

(* Bug: the chunk goes in front of what the ring holds. *)
DrainInFront ==
  /\ capture = "drain"
  /\ audio_queue # <<>>
  /\ ring_samples' = UnitsOf(Head(audio_queue)) \o ring_samples
  /\ audio_queue' = Tail(audio_queue)
  /\ UNCHANGED <<recording, speech_generation_complete, threads, history>>

(* One turn of while (audio_queue_->pop(chunk)), the mutex held. *)
DrainChunk ==
  /\ capture = "drain"
  /\ audio_queue # <<>>
  /\ ring_samples' = ring_samples \o UnitsOf(Head(audio_queue))
  /\ audio_queue' = Tail(audio_queue)
  /\ UNCHANGED <<recording, speech_generation_complete, threads, history>>

(* The ring within its latency cap: the oldest units go. *)
Capped(ring) ==
  IF Len(ring) > CapUnits THEN SubSeq(ring, Len(ring) - CapUnits + 1, Len(ring)) ELSE ring

(* Bug: the cap is not enforced. *)
AssembleUncapped ==
  /\ capture = "drain"
  /\ audio_queue = <<>>
  /\ IF Len(ring_samples) >= FrameUnits
     THEN /\ frame' = SubSeq(ring_samples, 1, FrameUnits)
          /\ ring_samples' = SubSeq(ring_samples, FrameUnits + 1, Len(ring_samples))
     ELSE frame' = <<>> /\ UNCHANGED ring_samples
  /\ capture' = "deliver"
  /\ UNCHANGED <<audio_queue, recording, speech_generation_complete, media, flusher,
                 cleaner, history>>

(* Bug: a silent frame throws the rest of the ring away. *)
AssembleDiscarding ==
  /\ capture = "drain"
  /\ audio_queue = <<>>
  /\ LET ring == Capped(ring_samples) IN
        IF Len(ring) >= FrameUnits
        THEN /\ frame' = SubSeq(ring, 1, FrameUnits)
             /\ ring_samples' = SubSeq(ring, FrameUnits + 1, Len(ring))
        ELSE frame' = <<>> /\ ring_samples' = <<>>
  /\ capture' = "deliver"
  /\ UNCHANGED <<audio_queue, recording, speech_generation_complete, media, flusher,
                 cleaner, history>>

(* The queue is empty: cap the ring, AssembleOne10msFrame, unlock.  A ring
   shorter than a frame gives silence and keeps what it holds. *)
AssembleOne10msFrame ==
  /\ capture = "drain"
  /\ audio_queue = <<>>
  /\ LET ring == Capped(ring_samples) IN
        IF Len(ring) >= FrameUnits
        THEN /\ frame' = SubSeq(ring, 1, FrameUnits)
             /\ ring_samples' = SubSeq(ring, FrameUnits + 1, Len(ring))
        ELSE frame' = <<>> /\ ring_samples' = ring
  /\ capture' = "deliver"
  /\ UNCHANGED <<audio_queue, recording, speech_generation_complete, media, flusher,
                 cleaner, history>>

(* SetRecordedBuffer and DeliverRecordedData, outside the lock. *)
DeliverFrame ==
  /\ capture = "deliver"
  /\ delivered' = delivered \o frame
  /\ frame' = <<>>
  /\ capture' = "check"
  /\ UNCHANGED <<shared, media, flusher, cleaner, accepted, chunks, flushes, completes,
                 fired, mark, flush_mark, flush_keep>>

(* Bug: a rest that is too short for a frame does not count. *)
CheckFrames ==
  /\ capture = "check"
  /\ MutexFree
  /\ capture' = IF speech_generation_complete /\ Len(ring_samples) < FrameUnits
                THEN "reset" ELSE "test"
  /\ UNCHANGED <<shared, media, frame, flusher, cleaner, history>>

(* The second critical section: the flag is loaded and the ring looked at. *)
CheckCompletion ==
  /\ capture = "check"
  /\ MutexFree
  /\ capture' = IF speech_generation_complete /\ ring_samples = <<>> THEN "reset" ELSE "test"
  /\ UNCHANGED <<shared, media, frame, flusher, cleaner, history>>

(* Bug: the flag is cleared and the callback forgotten. *)
ResetOnly ==
  /\ capture = "reset"
  /\ speech_generation_complete' = FALSE
  /\ capture' = "test"
  /\ UNCHANGED <<audio_queue, ring_samples, recording, media, frame, flusher, cleaner,
                 history>>

(* Bug: the flag stays set. *)
KeepFlag ==
  /\ capture = "reset"
  /\ capture' = "fire"
  /\ UNCHANGED <<shared, media, frame, flusher, cleaner, history>>

(* speech_generation_complete_.store(false): the flag is atomic, the load and
   the store are two accesses, and SpeechGenerationComplete takes no lock. *)
ResetFlag ==
  /\ capture = "reset"
  /\ speech_generation_complete' = FALSE
  /\ capture' = "fire"
  /\ UNCHANGED <<audio_queue, ring_samples, recording, media, frame, flusher, cleaner,
                 history>>

(* The callback, outside the lock: SendOnPlaybackCompleteEvent. *)
FireCallback ==
  /\ capture = "fire"
  /\ fired' = fired + 1
  /\ capture' = "test"
  /\ UNCHANGED <<shared, media, frame, flusher, cleaner, accepted, delivered, chunks,
                 flushes, completes, mark, flush_mark, flush_keep>>

RunCaptureLoop ==
  \/ Tick \/ ExitLoop \/ DrainChunk \/ AssembleOne10msFrame
  \/ DeliverFrame \/ CheckCompletion \/ ResetFlag \/ FireCallback

-----------------------------------------------------------------------------
(* The command thread; it executes commands until the end of Cleanup, but a
   command finds adm null once Cleanup has reset it. *)

AdmPresent == cleaner \in {"idle", "joining", "terminating"}

(* SpeechGenerationCompleteCommand::Execute -> SpeechGenerationComplete. *)
SpeechGenerationComplete ==
  /\ flusher = "idle"
  /\ AdmPresent
  /\ completes < MaxCompletes
  /\ completes' = completes + 1
  /\ speech_generation_complete' = TRUE
  /\ mark' = accepted
  /\ UNCHANGED <<audio_queue, ring_samples, recording, threads, accepted, delivered,
                 chunks, flushes, fired, flush_mark, flush_keep>>

(* FlushAudioBuffer: the lock, and the early return when nothing records. *)
LockForFlush(fade) ==
  /\ MutexFree
  /\ AdmPresent
  /\ flushes < MaxFlushes
  /\ flushes' = flushes + 1
  /\ IF recording
     THEN flusher' = "locked" /\ flush_mark' = accepted /\ flush_keep' = fade
     ELSE UNCHANGED <<flusher, flush_mark, flush_keep>>
  /\ UNCHANGED <<shared, media, capture, frame, cleaner, accepted, delivered, chunks,
                 completes, fired, mark>>

(* The ring: with a fade its oldest fade_samples stay (faded), else nothing. *)
FadeRing ==
  /\ flusher = "locked"
  /\ flusher' = "draining"
  /\ ring_samples' = IF flush_keep > 0 /\ Len(ring_samples) > flush_keep
                     THEN SubSeq(ring_samples, 1, flush_keep)
                     ELSE IF flush_keep > 0 THEN ring_samples ELSE <<>>
  /\ UNCHANGED <<audio_queue, recording, speech_generation_complete, media, capture,
                 frame, cleaner, history>>

(* One turn of while (audio_queue_->pop(chunk)): the chunk is discarded. *)
DiscardChunk ==
  /\ flusher = "draining"
  /\ QueueAlive
  /\ audio_queue # <<>>
  /\ audio_queue' = Tail(audio_queue)
  /\ UNCHANGED <<ring_samples, recording, speech_generation_complete, threads, history>>

(* Bug: the flush leaves the queue alone. *)
UnlockEarly ==
  /\ flusher = "draining"
  /\ flusher' = "idle"
  /\ UNCHANGED <<shared, media, capture, frame, cleaner, history>>

UnlockFlush ==
  /\ flusher = "draining"
  /\ QueueAlive
  /\ audio_queue = <<>>
  /\ flusher' = "idle"
  /\ UNCHANGED <<shared, media, capture, frame, cleaner, history>>

FlushAudioBuffer == FadeRing \/ DiscardChunk \/ UnlockFlush

-----------------------------------------------------------------------------
(* Session::Cleanup, from audio_track = nullptr to audio_queue.reset(). *)

(* StopRecording: recording_.exchange(false). *)
StopRecording ==
  /\ cleaner = "idle"
  /\ cleaner' = "joining"
  /\ recording' = FALSE
  /\ UNCHANGED <<audio_queue, ring_samples, speech_generation_complete, media, capture,
                 frame, flusher, history>>

JoinCapture ==
  /\ cleaner = "joining"
  /\ capture = "exited"
  /\ cleaner' = "terminating"
  /\ UNCHANGED <<shared, media, capture, frame, flusher, history>>

(* Terminate: ring_samples_.clear(), without the mutex; then adm = nullptr. *)
Terminate ==
  /\ cleaner = "terminating"
  /\ cleaner' = "resetting"
  /\ ring_samples' = <<>>
  /\ UNCHANGED <<audio_queue, recording, speech_generation_complete, media, capture,
                 frame, flusher, history>>

(* audio_queue.reset() destroys the queue and what it holds. *)
ResetQueue ==
  /\ cleaner = "resetting"
  /\ cleaner' = "done"
  /\ audio_queue' = <<>>
  /\ UNCHANGED <<ring_samples, recording, speech_generation_complete, media, capture,
                 frame, flusher, history>>

Cleanup == JoinCapture \/ Terminate \/ ResetQueue

-----------------------------------------------------------------------------
Next ==
  \/ CheckMediaFrame \/ PushChunk
  \/ RunCaptureLoop
  \/ SpeechGenerationComplete
  \/ \E fade \in FadeUnits : LockForFlush(fade)
  \/ FlushAudioBuffer
  \/ StopRecording \/ Cleanup

Spec == Init /\ [][Next]_vars

(* The threads are scheduled; nothing makes a client send, a session end. *)
Fairness ==
  /\ WF_vars(PushChunk)
  /\ WF_vars(RunCaptureLoop)
  /\ WF_vars(FlushAudioBuffer)
  /\ WF_vars(Cleanup)

FairSpec == Spec /\ Fairness

-----------------------------------------------------------------------------
(* The units the engine holds: queued, in the ring, or in the frame that is
   being delivered. *)
Units(chunk) == chunk.first..(chunk.first + chunk.len - 1)
Queued == UNION {Units(audio_queue[i]) : i \in DOMAIN audio_queue}
Held   == Queued \cup Range(ring_samples) \cup Range(frame)

TypeOK ==
  /\ audio_queue \in Seq(Chunk) /\ Len(audio_queue) <= QueueCap
  /\ ring_samples \in Seq(Nat)
  /\ recording \in BOOLEAN
  /\ speech_generation_complete \in BOOLEAN
  /\ media \in {"idle", "checked"}
  /\ capture \in CapturePc
  /\ frame \in Seq(Nat) /\ Len(frame) \in {0, FrameUnits}
  /\ flusher \in FlusherPc
  /\ cleaner \in CleanerPc
  /\ accepted \in Nat
  /\ delivered \in Seq(Nat)
  /\ chunks \in 0..MaxChunks /\ flushes \in 0..MaxFlushes
  /\ completes \in 0..MaxCompletes /\ fired \in Nat
  /\ mark \in Nat /\ flush_mark \in Nat /\ flush_keep \in Nat

(* What was delivered, what is being delivered, what the ring holds and what
   the queue holds are, in that order, strictly increasing units: audio is
   played in the order it was accepted and no part of it twice, whatever the
   drains, caps and flushes in between. *)
Ascending(s) == \A i, j \in DOMAIN s : i < j => s[i] < s[j]
Before(S, T) == \A x \in S, y \in T : x < y
ChunksAscending(q) == \A i, j \in DOMAIN q : i < j => q[i].first + q[i].len <= q[j].first

InOrder ==
  /\ Ascending(delivered) /\ Ascending(frame) /\ Ascending(ring_samples)
  /\ ChunksAscending(audio_queue)
  /\ Before(Range(delivered), Held)
  /\ Before(Range(frame), Range(ring_samples) \cup Queued)
  /\ Before(Range(ring_samples), Queued)
  /\ \A u \in Held \cup Range(delivered) : u \in 1..accepted

(* Outside a drain the ring is within the latency cap of
   ring_hard_cap_frames_ms_: WebRTC is never behind by more. *)
LatencyBound == capture # "drain" => Len(ring_samples) <= CapUnits

(* Once FlushAudioBuffer has returned, of all the audio accepted before it
   took the lock at most the fade it was asked for is still to be played
   (the frame under delivery excepted): barge-in silences the speaker. *)
FlushEffective ==
  flusher = "idle" /\ QueueAlive =>
    Cardinality({u \in Queued \cup Range(ring_samples) : u <= flush_mark}) <= flush_keep

(* Audio that was accepted leaves the engine only by being delivered, by the
   latency cap (which takes the oldest of the ring), by a flush, or with the
   session: no step of the capture thread loses a unit. *)
OverCap == IF Len(ring_samples) > CapUnits
           THEN {ring_samples[i] : i \in 1..(Len(ring_samples) - CapUnits)} ELSE {}

NothingVanishes ==
  [][ (flusher = "idle" /\ cleaner = "idle")
        => Held \subseteq Held' \cup Range(delivered') \cup OverCap ]_vars

(* The end of speech is announced: the flag does not stay set while the
   session records, unless a rest of less than a frame is left in the ring,
   which AssembleOne10msFrame never plays. *)
CompletionAnnounced ==
  speech_generation_complete ~>
    (capture = "fire" \/ ~recording \/ Len(ring_samples) \in 1..(FrameUnits - 1))

(* When playback_complete is sent, what the engine had received by the end of
   speech (commands.cpp:198 "Mark that all audio chunks have been received from
   TTS") was played, capped or flushed, or it still waits in the queue, at which
   the completion test does not look: in the ring there is none of it. *)
CompletionOverlooksQueueOnly ==
  capture = "fire" => \A u \in Held : u <= mark => u \in Queued

(* The engine as an abstract player: the units it holds, wherever they are,
   are what is to be played. *)
SessionState == IF cleaner = "idle" THEN "open"
                ELSE IF cleaner = "done" THEN "closed" ELSE "ending"

Player == INSTANCE AudioPlayer WITH
  pending <- Held, played <- delivered, asked <- completes, announced <- fired,
  flushing <- flusher # "idle", mark <- flush_mark, keep <- flush_keep,
  session <- SessionState

(* To the orchestrator the queue, the ring, the capture thread and the commands
   are one player: whole frames in the order of acceptance, skipped only from the
   oldest and only beyond the cap, discarded only by a flush or with the session,
   events that were asked for, and nothing that moves when Cleanup is through. *)
ImplementsPlayer == Player!Spec
=============================================================================
