------------------------------ MODULE VadTurn -------------------------------
(***************************************************************************)
(* Turn taking in the listening engine: the SileroVAD state machine, which *)
(* all sessions share, the VadTurnPipeline of each session, and the gate   *)
(* of its MediaStream, which the pipeline's events open and close once the *)
(* Events and the Media call have attached and wired their streams.        *)
(*                                                                         *)
(* A step of time is one chunk of audio of one session.  Process and       *)
(* GetState are two calls, and no lock keeps the chunks of other sessions  *)
(* from getting between them.  Durations are capped at the thresholds they *)
(* are compared with.                                                      *)
(***************************************************************************)
EXTENDS Naturals

CONSTANTS Session,                  \* the sessions that share the VAD
          kChunkDurationMs,         \* the duration of one chunk
          min_speech_duration_ms, min_silence_duration_ms,  \* VadConfig
          kMinUtteranceDurationMs,
          kSilenceTimeoutBaseMs, kSilenceTimeoutExtendedMs,
          TurnResult                \* the outcomes of SmartTurnDetector::Process

ASSUME VadTurnAssumption ==
  /\ {kChunkDurationMs, min_speech_duration_ms, min_silence_duration_ms,
      kMinUtteranceDurationMs} \subseteq Nat \ {0}
  /\ kChunkDurationMs < min_silence_duration_ms   \* 32 and 300
  /\ kSilenceTimeoutBaseMs \in Nat
  /\ kSilenceTimeoutExtendedMs \in Nat
  /\ kSilenceTimeoutBaseMs <= kSilenceTimeoutExtendedMs
  /\ TurnResult \subseteq {"low", "mid", "high", "fail"}

VARIABLES vad,            \* the shared SileroVAD: state_ and its two durations
          live,           \* the pipelines that run
          phase,          \* between Process and GetState a pipeline "reacts"
          current_state,  \* current_state_ of each pipeline
          since_speech,   \* ms since speech_start_time_
          since_silence,  \* ms since silence_start_time_
          buffered,       \* the pipelines whose turn buffer is not empty
          wiring,         \* what hears the events of a session: nothing, its event
                          \* stream, or the listener that is "wired" to it as well
          gate_open,      \* the sessions whose gate is open
          turn,           \* history: the sessions in a turn
          late,           \* history: those whose turn began before the listener was wired
          event,          \* history: what a session's last chunk emitted, if it was
                          \* the last of all
          alone,          \* history: the sessions that have had the VAD for
                          \* themselves since they began
          heard,          \* history: ms the user of such a session has spoken
                          \* without a pause, up to now
          quiet,          \* history: ms of silence since that user last spoke for
                          \* min_speech_duration_ms
          dropped         \* history: such sessions whose last turn ended in a failure

clocks  == <<since_speech, since_silence>>
streams == <<wiring, gate_open, turn, late>>
history == <<alone, heard, quiet, dropped>>
vars    == <<vad, live, phase, current_state, clocks, buffered, streams, event, history>>

VadState == {"kIdle", "kSpeech", "kSilence"}
Wiring   == {"none", "events", "wired"}
Event    == {"none", "speech_started", "speech_ended", "complete", "timeout"}

Capped(ms, limit) == IF ms > limit THEN limit ELSE ms
Later(ms, limit)  == Capped(ms + kChunkDurationMs, limit)

Init ==
  /\ vad = [state |-> "kIdle", speech |-> 0, silence |-> 0]
  /\ live = {}
  /\ phase = [s \in Session |-> "listen"]
  /\ current_state = [s \in Session |-> "kIdle"]
  /\ since_speech = [s \in Session |-> 0]
  /\ since_silence = [s \in Session |-> 0]
  /\ buffered = {}
  /\ wiring = [s \in Session |-> "none"]
  /\ gate_open = {}
  /\ turn = {}
  /\ late = {}
  /\ event = [s \in Session |-> "none"]
  /\ alone = {}
  /\ heard = [s \in Session |-> 0]
  /\ quiet = [s \in Session |-> 0]
  /\ dropped = {}

-----------------------------------------------------------------------------
(* SileroVAD::UpdateState. *)

Begun(v) ==
  v.state # "kIdle" \/ Later(v.speech, min_speech_duration_ms) >= min_speech_duration_ms

(* Bug: the silence of an earlier pause is not forgotten. *)
PausesAddUp(v) ==
  [state   |-> IF Begun(v) THEN "kSpeech" ELSE "kIdle",
   speech  |-> Later(v.speech, min_speech_duration_ms),
   silence |-> v.silence]

(* A chunk with speech.  The speech of an idle VAD adds up over any silence. *)
Spoken(v) ==
  [state   |-> IF Begun(v) THEN "kSpeech" ELSE "kIdle",
   speech  |-> Later(v.speech, min_speech_duration_ms),
   silence |-> 0]

(* A chunk without. *)
Silent(v) ==
  LET silence == Later(v.silence, min_silence_duration_ms)
      over    == v.state # "kIdle" /\ silence >= min_silence_duration_ms IN
    [state   |-> IF v.state = "kIdle" \/ over THEN "kIdle" ELSE "kSilence",
     speech  |-> IF over THEN 0 ELSE v.speech,
     silence |-> silence]

(* ProcessAudio up to the inference: the resampled audio is appended to the
   turn buffer, and a chunk is complete.  speech_start_time_ is read in a turn only,
   which begins with its being set. *)
Listen(s) ==
  /\ s \in live
  /\ phase[s] = "listen"
  /\ buffered' = buffered \cup {s}
  /\ since_speech' = [since_speech EXCEPT ![s] =
       IF current_state[s] = "kIdle" THEN 0 ELSE Later(@, kMinUtteranceDurationMs)]
  /\ since_silence' = [since_silence EXCEPT ![s] = Later(@, kSilenceTimeoutExtendedMs)]
  /\ event' = [t \in Session |-> "none"]
  /\ UNCHANGED <<live, current_state, streams>>

(* SileroVAD::Process gives a probability, and the state of the VAD, which is
   everybody's, follows it. *)
Process(s) ==
  /\ Listen(s)
  /\ phase' = [phase EXCEPT ![s] = "react"]
  /\ alone' = alone \cap {s}
  /\ dropped' = dropped \cap {s}

OfAlone(s, ms) == [t \in Session |-> IF t = s /\ t \in alone THEN ms ELSE 0]

ProcessSpeech(s) ==
  /\ Process(s)
  /\ vad' = Spoken(vad)
  /\ LET spoken == Later(heard[s], min_speech_duration_ms) IN
       /\ heard' = OfAlone(s, spoken)
       /\ quiet' = OfAlone(s, IF spoken < min_speech_duration_ms THEN quiet[s] ELSE 0)

ProcessSilence(s) ==
  /\ Process(s)
  /\ vad' = Silent(vad)
  /\ heard' = OfAlone(s, 0)
  /\ quiet' = OfAlone(s, Later(quiet[s], min_silence_duration_ms))

(* The inference throws: -1, and the chunk is ignored. *)
ProcessFails(s) ==
  /\ Listen(s)
  /\ UNCHANGED <<phase, vad, history>>

-----------------------------------------------------------------------------
(* The reaction of the pipeline to the state of the VAD: ProcessVadChunk. *)

React(s) ==
  /\ phase[s] = "react"
  /\ phase' = [phase EXCEPT ![s] = "listen"]
  /\ UNCHANGED <<vad, live, wiring, history>>

Become(s, state) == current_state' = [current_state EXCEPT ![s] = state]

(* Without an event stream an event goes nowhere. *)
Emit(s, e) == event' = [event EXCEPT ![s] = IF wiring[s] = "none" THEN "none" ELSE e]

(* A listener that is wired hears of the beginning and of the end of a turn. *)
NoTurnEvent    == UNCHANGED <<gate_open, turn, late>>
Hears(s, gate) == gate_open' = IF wiring[s] = "wired" THEN gate ELSE gate_open

(* Speech goes on, or resumes. *)
StayInSpeech(s) ==
  /\ React(s)
  /\ vad.state = "kSpeech"
  /\ current_state[s] # "kIdle"
  /\ Become(s, "kSpeech")
  /\ NoTurnEvent
  /\ UNCHANGED <<clocks, buffered, event>>

(* HandleSpeechDetected: the turn buffer is cleared, speech_started is emitted if
   there is an event stream, and the listener, if there is one, opens the gate. *)
HandleSpeechDetected(s) ==
  /\ React(s)
  /\ vad.state = "kSpeech"
  /\ current_state[s] = "kIdle"
  /\ Become(s, "kSpeech")
  /\ Emit(s, "speech_started")
  /\ buffered' = buffered \ {s}
  /\ since_speech' = [since_speech EXCEPT ![s] = 0]
  /\ Hears(s, gate_open \cup {s})
  /\ turn' = turn \cup {s}
  /\ late' = IF wiring[s] = "wired" THEN late \ {s} ELSE late \cup {s}
  /\ UNCHANGED since_silence

(* Bug: the state of the VAD is taken over whatever the pipeline's own. *)
PauseAlways(s) ==
  /\ React(s)
  /\ vad.state = "kSilence"
  /\ Become(s, "kSilence")
  /\ NoTurnEvent
  /\ UNCHANGED <<clocks, buffered, event>>

(* A brief silence during speech. *)
Pause(s) ==
  /\ React(s)
  /\ vad.state = "kSilence"
  /\ Become(s, IF current_state[s] = "kSpeech" THEN "kSilence" ELSE current_state[s])
  /\ NoTurnEvent
  /\ UNCHANGED <<clocks, buffered, event>>

RemainIdle(s) ==
  /\ React(s)
  /\ vad.state = "kIdle"
  /\ current_state[s] = "kIdle"
  /\ NoTurnEvent
  /\ UNCHANGED <<current_state, clocks, buffered, event>>

(* HandleSilenceDetected on a short utterance, straight from kSpeech: no event. *)
TreatAsBackchannel(s) ==
  /\ React(s)
  /\ vad.state = "kIdle"
  /\ current_state[s] = "kSpeech"
  /\ since_speech[s] < kMinUtteranceDurationMs
  /\ Become(s, "kIdle")
  /\ buffered' = buffered \ {s}
  /\ since_silence' = [since_silence EXCEPT ![s] = 0]
  /\ NoTurnEvent
  /\ UNCHANGED <<since_speech, event>>

(* What the silence of HandleSilenceDetected leads to: it sets
   silence_start_time_ and emits speech_ended only when it comes from kSpeech. *)
FirstSilence(s) == current_state[s] = "kSpeech" /\ since_speech[s] >= kMinUtteranceDurationMs

TurnIsTested(s) ==
  /\ phase[s] = "react"
  /\ phase' = [phase EXCEPT ![s] = "listen"]
  /\ vad.state = "kIdle"
  /\ current_state[s] = "kSilence" \/ FirstSilence(s)
  /\ since_silence' = IF FirstSilence(s) THEN [since_silence EXCEPT ![s] = 0]
                                         ELSE since_silence
  /\ UNCHANGED <<vad, live, since_speech, wiring, alone, heard, quiet>>

(* The timeouts TriggerSmartTurnDetection may compute from a probability. *)
Timeout(r) ==
  CASE r = "low"  -> {kSilenceTimeoutExtendedMs}
    [] r = "mid"  -> {kSilenceTimeoutExtendedMs,
                      (kSilenceTimeoutBaseMs + kSilenceTimeoutExtendedMs) \div 2}
    [] r = "high" -> {kSilenceTimeoutBaseMs}

(* The turn buffer is empty, or the model fails: the turn is dropped. *)
TurnDropped(s) ==
  /\ TurnIsTested(s)
  /\ s \notin buffered \/ "fail" \in TurnResult
  /\ Become(s, "kIdle")
  /\ Emit(s, IF FirstSilence(s) THEN "speech_ended" ELSE "none")
  /\ dropped' = dropped \cup ({s} \cap alone)
  /\ NoTurnEvent
  /\ UNCHANGED buffered

(* user_turn_complete, at which the listener closes the gate. *)
TurnCompletes(s) ==
  /\ TurnIsTested(s)
  /\ s \in buffered
  /\ \E r \in TurnResult \ {"fail"} : \E timeout_ms \in Timeout(r) :
       /\ r = "high" \/ since_silence'[s] >= timeout_ms
       /\ Emit(s, IF r = "high" THEN "complete" ELSE "timeout")
  /\ Become(s, "kIdle")
  /\ buffered' = buffered \ {s}
  /\ Hears(s, gate_open \ {s})
  /\ turn' = turn \ {s}
  /\ late' = late \ {s}
  /\ dropped' = dropped \ {s}

(* Bug: the pipeline goes back to kIdle while the turn is not complete. *)
TurnGivenUp(s) ==
  /\ TurnIsTested(s)
  /\ s \in buffered
  /\ \E r \in TurnResult \ {"fail", "high"} : \E timeout_ms \in Timeout(r) :
       since_silence'[s] < timeout_ms
  /\ Become(s, "kIdle")
  /\ Emit(s, IF FirstSilence(s) THEN "speech_ended" ELSE "none")
  /\ NoTurnEvent
  /\ UNCHANGED <<buffered, dropped>>

(* Bug: the wait for a longer silence starts anew with every test. *)
TurnWaitsAnew(s) ==
  /\ phase[s] = "react"
  /\ phase' = [phase EXCEPT ![s] = "listen"]
  /\ vad.state = "kIdle"
  /\ current_state[s] = "kSilence" \/ FirstSilence(s)
  /\ s \in buffered
  /\ \E r \in TurnResult \ {"fail", "high"} : \E timeout_ms \in Timeout(r) :
       since_silence[s] < timeout_ms
  /\ since_silence' = [since_silence EXCEPT ![s] = 0]
  /\ Become(s, "kSilence")
  /\ Emit(s, IF FirstSilence(s) THEN "speech_ended" ELSE "none")
  /\ UNCHANGED <<vad, live, since_speech, buffered, streams, history>>

(* The turn is incomplete: it is tested again after the next chunk. *)
TurnWaits(s) ==
  /\ TurnIsTested(s)
  /\ s \in buffered
  /\ \E r \in TurnResult \ {"fail", "high"} : \E timeout_ms \in Timeout(r) :
       since_silence'[s] < timeout_ms
  /\ Become(s, "kSilence")
  /\ Emit(s, IF FirstSilence(s) THEN "speech_ended" ELSE "none")
  /\ NoTurnEvent
  /\ UNCHANGED <<buffered, dropped>>

ProcessVadChunk(s) ==
  \/ StayInSpeech(s) \/ HandleSpeechDetected(s) \/ Pause(s) \/ RemainIdle(s)
  \/ TreatAsBackchannel(s) \/ TurnDropped(s) \/ TurnCompletes(s) \/ TurnWaits(s)

-----------------------------------------------------------------------------
(* The pipeline and the streams of a session that begins; also what is kept for a
   session that is not there. *)
Anew(s) ==
  /\ current_state' = [current_state EXCEPT ![s] = "kIdle"]
  /\ since_speech' = [since_speech EXCEPT ![s] = 0]
  /\ since_silence' = [since_silence EXCEPT ![s] = 0]
  /\ buffered' = buffered \ {s}
  /\ wiring' = [wiring EXCEPT ![s] = "none"]
  /\ gate_open' = gate_open \ {s}
  /\ turn' = turn \ {s}
  /\ late' = late \ {s}
  /\ event' = [event EXCEPT ![s] = "none"]
  /\ heard' = [heard EXCEPT ![s] = 0]
  /\ quiet' = [quiet EXCEPT ![s] = 0]
  /\ dropped' = dropped \ {s}
  /\ UNCHANGED <<vad, phase>>

(* A session and its pipeline begin: Start.  The VAD is left as it is.  The Control
   call does not wait for the streams the Events and the Media call attach. *)
Start(s) ==
  /\ s \notin live
  /\ live' = live \cup {s}
  /\ alone' = alone \cup {s}
  /\ Anew(s)

(* The session is removed: Stop.  A chunk in progress is finished first. *)
Stop(s) ==
  /\ s \in live
  /\ phase[s] = "listen"
  /\ live' = live \ {s}
  /\ alone' = alone \ {s}
  /\ Anew(s)

Rewire(s, from, to) ==
  /\ s \in live
  /\ wiring[s] = from
  /\ wiring' = [wiring EXCEPT ![s] = to]
  /\ UNCHANGED <<vad, live, phase, current_state, clocks, buffered, gate_open, turn, late,
                 event, history>>

(* SetEventStream of the Events call. *)
AttachEvents(s) == Rewire(s, "none", "events")

(* RegisterEventListener of whichever of the Events and the Media call sees both
   streams.  The listener is told of turns that begin or end from here on; the
   gate of its stream is closed. *)
WireMedia(s) == Rewire(s, "events", "wired")

Next ==
  \E s \in Session :
    \/ Start(s) \/ Stop(s)
    \/ AttachEvents(s) \/ WireMedia(s)
    \/ ProcessSpeech(s) \/ ProcessSilence(s) \/ ProcessFails(s)
    \/ ProcessVadChunk(s)

Spec == Init /\ [][Next]_vars

(* WebRTC delivers the audio of a live session, and the model now and then
   succeeds; who speaks when is nobody's obligation. *)
Fairness ==
  \A s \in Session :
    /\ SF_vars(ProcessSpeech(s) \/ ProcessSilence(s))
    /\ WF_vars(ProcessVadChunk(s))

FairSpec == Spec /\ Fairness

-----------------------------------------------------------------------------
TypeOK ==
  /\ vad \in [state : VadState, speech : 0..min_speech_duration_ms,
              silence : 0..min_silence_duration_ms]
  /\ vad.state = "kSpeech" => vad.silence = 0
  /\ live \subseteq Session
  /\ phase \in [Session -> {"listen", "react"}]
  /\ current_state \in [Session -> VadState]
  /\ since_speech \in [Session -> 0..kMinUtteranceDurationMs]
  /\ since_silence \in [Session -> 0..kSilenceTimeoutExtendedMs]
  /\ buffered \subseteq Session
  /\ wiring \in [Session -> Wiring]
  /\ gate_open \subseteq Session /\ turn \subseteq Session /\ late \subseteq Session
  /\ event \in [Session -> Event]
  /\ heard \in [Session -> 0..min_speech_duration_ms]
  /\ quiet \in [Session -> 0..min_silence_duration_ms]
  /\ alone \subseteq Session /\ dropped \subseteq Session

(* A pipeline is out of kIdle only in a turn whose beginning it has announced to
   whatever was attached by then: whatever the other sessions do to the VAD, no
   turn goes on that the client, if it had its Events call, was not told of, and
   the gate is open for it if it was wired when the turn began, else closed to the
   end of that turn, also when Media is wired in the middle of it. *)
TurnIsAnnounced ==
  \A s \in Session :
    current_state[s] # "kIdle" =>
      s \in turn /\ (s \in gate_open <=> s \notin late)

(* A session that has the VAD for itself has a turn judged only after so much
   silence since its user last spoke: shorter pauses of the turn do not count,
   nor do chunks whose inference failed. *)
TurnEndsInSilence ==
  \A s \in alone :
    event[s] \in {"speech_ended", "complete", "timeout"}
      => quiet[s] >= min_silence_duration_ms

(* A turn of such a session that goes on is not announced again: unless the model
   failed on the turn before, a second speech_started comes after the end of that
   turn. *)
OneStartPerTurn ==
  [][\A s \in alone \ dropped :
       event'[s] = "speech_started" /\ phase'[s] # phase[s] => s \notin turn]_vars

(* When the user of such a session has fallen silent for good, the turn ends: an
   incomplete turn is tested again until its timeout. *)
TurnEnds ==
  \A s \in Session :
    <>[](heard[s] = 0 /\ s \in live \cap alone) => <>[](current_state[s] = "kIdle")

-----------------------------------------------------------------------------
(* What the source says of the code and the code does not do. *)

(* vad_turn_pipeline.h:45 "Backchannel filtering: ignore utterances shorter
   than this": no turn is complete before that has passed. *)
BackchannelIsIgnored ==
  \A s \in Session :
    event[s] \in {"complete", "timeout"} => since_speech[s] >= kMinUtteranceDurationMs
=============================================================================
