---------------------------- MODULE VadTurnProofs ----------------------------
(***************************************************************************)
(* Turn taking, proved for any number of sessions that share the VAD and   *)
(* for every choice of the durations.                                      *)
(***************************************************************************)
EXTENDS VadTurn, TLAPS

-----------------------------------------------------------------------------
(* The inductive invariant.  The VAD that is shared knows nothing of sessions;
   what ties it to a session that has it for itself is what both have counted:
   the VAD has counted at least the speech the session has (it forgets none over
   a silence), and, once a turn has begun, at most the silence (it forgets it at
   every chunk with speech, the session only when speech lasts). *)
VadFollows(s) ==
  /\ heard[s] <= vad.speech
  /\ current_state[s] # "kIdle" => vad.silence <= quiet[s]
  /\ current_state[s] # "kIdle" /\ vad.state = "kIdle" => quiet[s] >= min_silence_duration_ms

(* Such a session sees every state of the VAD: it is not in speech any more when
   the VAD goes idle, so none of its turns is taken for a backchannel. *)
PipelineFollows(s) ==
  current_state[s] = "kSpeech" =>
    vad.state = "kSpeech" \/ (phase[s] = "react" /\ vad.state = "kSilence")

TurnFollows(s) == current_state[s] = "kIdle" /\ s \notin dropped => s \notin turn

JudgedInSilence(s) ==
  event[s] \in {"speech_ended", "complete", "timeout"} => quiet[s] >= min_silence_duration_ms

Follows == \A s \in alone :
  VadFollows(s) /\ PipelineFollows(s) /\ TurnFollows(s) /\ JudgedInSilence(s)

NothingEmitted == \A s \in Session : phase[s] = "react" => event[s] = "none"

(* A gate is open in the turns that its listener has heard begin, and only there;
   none is without a listener. *)
GateIsOfTurn ==
  /\ gate_open = turn \ late
  /\ \A s \in Session : wiring[s] # "wired" => s \notin gate_open

InTurn == \A s \in Session : current_state[s] # "kIdle" => s \in turn

IInv == TypeOK /\ InTurn /\ GateIsOfTurn /\ Follows /\ NothingEmitted

LEMMA Durations ==
  /\ kChunkDurationMs \in Nat /\ min_speech_duration_ms \in Nat
  /\ min_silence_duration_ms \in Nat /\ kMinUtteranceDurationMs \in Nat
  /\ kSilenceTimeoutBaseMs \in Nat /\ kSilenceTimeoutExtendedMs \in Nat
  /\ kChunkDurationMs > 0 /\ min_speech_duration_ms > 0
  /\ min_silence_duration_ms > kChunkDurationMs /\ kMinUtteranceDurationMs > 0
BY VadTurnAssumption

(* A capped clock goes forward, and keeps the order of two clocks. *)
LEMMA LaterProperties ==
  ASSUME NEW limit \in Nat, NEW ms \in 0..limit
  PROVE  /\ Later(ms, limit) \in 0..limit
         /\ ms <= Later(ms, limit)
         /\ Later(ms, limit) = IF ms + kChunkDurationMs > limit
                               THEN limit ELSE ms + kChunkDurationMs
         /\ \A other \in 0..limit : ms <= other => Later(ms, limit) <= Later(other, limit)
BY Durations DEF Later, Capped

LEMMA InitIInv == Init => IInv
<1> SUFFICES ASSUME Init PROVE IInv
  OBVIOUS
<1>1. TypeOK
  BY Durations DEF Init, TypeOK, VadState, Event, Wiring
<1>2. InTurn /\ GateIsOfTurn /\ Follows /\ NothingEmitted
  BY DEF Init, InTurn, GateIsOfTurn, Follows, NothingEmitted
<1> QED  BY <1>1, <1>2 DEF IInv

(* The state machine of the VAD. *)
LEMMA SpokenProperties ==
  ASSUME TypeOK
  PROVE  /\ Spoken(vad) \in [state : VadState, speech : 0..min_speech_duration_ms,
                             silence : 0..min_silence_duration_ms]
         /\ Spoken(vad).silence = 0
         /\ Spoken(vad).speech = Later(vad.speech, min_speech_duration_ms)
         /\ Spoken(vad).state \in {"kSpeech", "kIdle"}
         /\ Spoken(vad).state = "kIdle" =>
              vad.state = "kIdle" /\ Spoken(vad).speech < min_speech_duration_ms
<1>1. Later(vad.speech, min_speech_duration_ms) \in 0..min_speech_duration_ms
  BY Durations, LaterProperties DEF TypeOK
<1> QED  BY <1>1, Durations DEF Spoken, Begun, VadState

LEMMA SilentProperties ==
  ASSUME TypeOK
  PROVE  /\ Silent(vad) \in [state : VadState, speech : 0..min_speech_duration_ms,
                             silence : 0..min_silence_duration_ms]
         /\ Silent(vad).silence = Later(vad.silence, min_silence_duration_ms)
         /\ Silent(vad).state \in {"kSilence", "kIdle"}
         /\ Silent(vad).state = "kIdle" /\ vad.state # "kIdle" =>
              Silent(vad).silence = min_silence_duration_ms
         /\ vad.state = "kSpeech" => Silent(vad).state = "kSilence"
<1>1. Later(vad.silence, min_silence_duration_ms) \in 0..min_silence_duration_ms
  BY Durations, LaterProperties DEF TypeOK
<1>2. vad.speech \in 0..min_speech_duration_ms /\ 0 \in 0..min_speech_duration_ms
  BY Durations DEF TypeOK
<1>3. vad.state = "kSpeech" => Later(vad.silence, min_silence_duration_ms) < min_silence_duration_ms
  BY Durations, LaterProperties DEF TypeOK
<1> QED  BY <1>1, <1>2, <1>3, Durations DEF Silent, VadState

LEMMA ListenTypes ==
  ASSUME TypeOK, NEW s \in Session, Listen(s)
  PROVE  /\ buffered' \subseteq Session
         /\ since_speech' \in [Session -> 0..kMinUtteranceDurationMs]
         /\ since_silence' \in [Session -> 0..kSilenceTimeoutExtendedMs]
         /\ event' \in [Session -> Event]
<1>1. /\ (IF current_state[s] = "kIdle" THEN 0
          ELSE Later(since_speech[s], kMinUtteranceDurationMs)) \in 0..kMinUtteranceDurationMs
      /\ Later(since_silence[s], kSilenceTimeoutExtendedMs) \in 0..kSilenceTimeoutExtendedMs
  BY Durations, LaterProperties DEF TypeOK
<1> QED  BY <1>1 DEF TypeOK, Listen, Event

LEMMA ProcessSpeechIInv ==
  ASSUME IInv, NEW s \in Session, ProcessSpeech(s)
  PROVE  IInv'
<1> DEFINE spoken == Later(heard[s], min_speech_duration_ms)
<1>0. /\ TypeOK /\ Listen(s)
      /\ phase' = [phase EXCEPT ![s] = "react"] /\ alone' = alone \cap {s}
      /\ dropped' = dropped \cap {s} /\ vad' = Spoken(vad)
      /\ heard' = OfAlone(s, spoken)
      /\ quiet' = OfAlone(s, IF spoken < min_speech_duration_ms THEN quiet[s] ELSE 0)
      /\ UNCHANGED <<live, current_state, wiring, gate_open, turn, late>>
      /\ event' = [t \in Session |-> "none"]
  BY DEF IInv, ProcessSpeech, Process, Listen, streams
<1>1. /\ spoken \in 0..min_speech_duration_ms
      /\ \A other \in 0..min_speech_duration_ms :
           heard[s] <= other => spoken <= Later(other, min_speech_duration_ms)
  BY <1>0, Durations, LaterProperties DEF TypeOK
<1> HIDE DEF spoken
<1>2. TypeOK'
  <2>1. heard' \in [Session -> 0..min_speech_duration_ms]
        /\ quiet' \in [Session -> 0..min_silence_duration_ms]
    BY <1>0, <1>1, Durations DEF OfAlone, TypeOK
  <2> QED  BY <1>0, <2>1, ListenTypes, SpokenProperties DEF TypeOK
<1>3. InTurn' /\ GateIsOfTurn'
  BY <1>0 DEF IInv, InTurn, GateIsOfTurn
<1>4. Follows'
  <2> SUFFICES ASSUME s \in alone
               PROVE  (VadFollows(s) /\ PipelineFollows(s) /\ TurnFollows(s) /\ JudgedInSilence(s))'
    BY <1>0 DEF Follows
  <2>1. VadFollows(s) /\ PipelineFollows(s) /\ TurnFollows(s)
    BY DEF IInv, Follows
  <2>2. heard'[s] = spoken /\ quiet'[s] = (IF spoken < min_speech_duration_ms THEN quiet[s] ELSE 0)
    BY <1>0 DEF OfAlone
  <2>3. /\ heard[s] \in Nat /\ quiet[s] \in Nat /\ vad.speech \in 0..min_speech_duration_ms
    BY <1>0, Durations DEF TypeOK
  <2>4. spoken <= vad'.speech /\ vad'.silence = 0 /\ vad'.speech \in Nat
    BY <1>0, <1>1, <2>1, <2>3, SpokenProperties, Durations DEF VadFollows
  <2>5. vad'.state = "kIdle" => vad.state = "kIdle" /\ spoken < min_speech_duration_ms
    BY <1>0, <1>1, <2>4, SpokenProperties, Durations
  <2>6. VadFollows(s)'
    BY <1>0, <1>1, <2>1, <2>2, <2>3, <2>4, <2>5, Durations DEF VadFollows
  <2>7. PipelineFollows(s)'
    BY <1>0, <2>1, <2>5, SpokenProperties DEF PipelineFollows
  <2>8. TurnFollows(s)' /\ JudgedInSilence(s)'
    BY <1>0, <2>1 DEF TurnFollows, JudgedInSilence
  <2> QED  BY <2>6, <2>7, <2>8
<1>5. NothingEmitted'
  BY <1>0 DEF NothingEmitted
<1> QED  BY <1>2, <1>3, <1>4, <1>5 DEF IInv

LEMMA ProcessSilenceIInv ==
  ASSUME IInv, NEW s \in Session, ProcessSilence(s)
  PROVE  IInv'
<1>0. /\ TypeOK /\ Listen(s)
      /\ phase' = [phase EXCEPT ![s] = "react"] /\ alone' = alone \cap {s}
      /\ dropped' = dropped \cap {s} /\ vad' = Silent(vad)
      /\ heard' = OfAlone(s, 0)
      /\ quiet' = OfAlone(s, Later(quiet[s], min_silence_duration_ms))
      /\ UNCHANGED <<live, current_state, wiring, gate_open, turn, late>>
      /\ event' = [t \in Session |-> "none"]
  BY DEF IInv, ProcessSilence, Process, Listen, streams
<1>1. /\ Later(quiet[s], min_silence_duration_ms) \in 0..min_silence_duration_ms
      /\ quiet[s] <= Later(quiet[s], min_silence_duration_ms)
      /\ vad.silence <= quiet[s] =>
           Later(vad.silence, min_silence_duration_ms) <= Later(quiet[s], min_silence_duration_ms)
  BY <1>0, Durations, LaterProperties DEF TypeOK
<1>2. TypeOK'
  <2>1. heard' \in [Session -> 0..min_speech_duration_ms]
        /\ quiet' \in [Session -> 0..min_silence_duration_ms]
    BY <1>0, <1>1, Durations DEF OfAlone, TypeOK
  <2> QED  BY <1>0, <2>1, ListenTypes, SilentProperties DEF TypeOK
<1>3. InTurn' /\ GateIsOfTurn'
  BY <1>0 DEF IInv, InTurn, GateIsOfTurn
<1>4. Follows'
  <2> SUFFICES ASSUME s \in alone
               PROVE  (VadFollows(s) /\ PipelineFollows(s) /\ TurnFollows(s) /\ JudgedInSilence(s))'
    BY <1>0 DEF Follows
  <2>1. VadFollows(s) /\ PipelineFollows(s) /\ TurnFollows(s)
    BY DEF IInv, Follows
  <2>2. heard'[s] = 0 /\ quiet'[s] = Later(quiet[s], min_silence_duration_ms)
    BY <1>0 DEF OfAlone
  <2>3. quiet[s] \in Nat /\ quiet'[s] \in Nat /\ vad'.speech \in Nat
    BY <1>0, <1>1, <2>2, SilentProperties, Durations DEF TypeOK
  <2>4. current_state[s] # "kIdle" => vad'.silence <= quiet'[s]
    BY <1>0, <1>1, <2>1, <2>2, SilentProperties DEF VadFollows
  <2>5. current_state[s] # "kIdle" /\ vad'.state = "kIdle" => quiet'[s] >= min_silence_duration_ms
    <3>1. CASE vad.state = "kIdle"
      BY <1>0, <1>1, <2>1, <2>2, <2>3, <3>1, Durations DEF VadFollows
    <3>2. CASE vad.state # "kIdle"
      BY <1>0, <2>3, <2>4, <3>2, SilentProperties, Durations
    <3> QED  BY <3>1, <3>2
  <2>6. VadFollows(s)'
    BY <1>0, <2>2, <2>3, <2>4, <2>5 DEF VadFollows
  <2>7. PipelineFollows(s)'
    <3>1. phase[s] = "listen" /\ phase'[s] = "react"
      BY <1>0 DEF Listen, TypeOK
    <3> QED  BY <1>0, <2>1, <3>1, SilentProperties DEF PipelineFollows
  <2>8. TurnFollows(s)' /\ JudgedInSilence(s)'
    BY <1>0, <2>1 DEF TurnFollows, JudgedInSilence
  <2> QED  BY <2>6, <2>7, <2>8
<1>5. NothingEmitted'
  BY <1>0 DEF NothingEmitted
<1> QED  BY <1>2, <1>3, <1>4, <1>5 DEF IInv

LEMMA ProcessFailsIInv ==
  ASSUME IInv, NEW s \in Session, ProcessFails(s)
  PROVE  IInv'
<1>0. /\ TypeOK /\ Listen(s)
      /\ UNCHANGED <<phase, vad, alone, heard, quiet, dropped, live, current_state>>
      /\ UNCHANGED <<wiring, gate_open, turn, late>>
      /\ event' = [t \in Session |-> "none"]
  BY DEF IInv, ProcessFails, Listen, streams, history
<1>1. TypeOK'
  BY <1>0, ListenTypes DEF TypeOK
<1>2. Follows'
  BY <1>0 DEF IInv, TypeOK, Follows, VadFollows, PipelineFollows, TurnFollows, JudgedInSilence
<1>3. InTurn' /\ GateIsOfTurn' /\ NothingEmitted'
  BY <1>0 DEF IInv, InTurn, GateIsOfTurn, NothingEmitted
<1> QED  BY <1>1, <1>2, <1>3 DEF IInv

(* A reaction of the pipeline reads the VAD and changes nothing of the history
   but dropped; whatever is emitted concerns its session alone. *)
Reaction(s) ==
  /\ phase[s] = "react" /\ phase' = [phase EXCEPT ![s] = "listen"]
  /\ UNCHANGED <<vad, live, wiring, alone, heard, quiet>>
  /\ \E state \in VadState : current_state' = [current_state EXCEPT ![s] = state]
  /\ \E e \in Event : event' = [event EXCEPT ![s] = e]
  /\ buffered' \in {buffered, buffered \ {s}}
  /\ gate_open' \in {gate_open, gate_open \cup {s}, gate_open \ {s}}
  /\ turn' \in {turn, turn \cup {s}, turn \ {s}}
  /\ late' \in {late, late \cup {s}, late \ {s}}
  /\ dropped' \in {dropped, dropped \cup ({s} \cap alone), dropped \ {s}}
  /\ since_speech' \in {since_speech, [since_speech EXCEPT ![s] = 0]}
  /\ since_silence' \in {since_silence, [since_silence EXCEPT ![s] = 0]}

(* So what is left to see of a reaction is its own session. *)
LEMMA ReactionIInv ==
  ASSUME IInv, NEW s \in Session, Reaction(s),
         current_state'[s] # "kIdle" => s \in turn', GateIsOfTurn',
         s \in alone => (VadFollows(s) /\ PipelineFollows(s) /\ TurnFollows(s) /\ JudgedInSilence(s))'
  PROVE  IInv'
<1>0. TypeOK
  BY DEF IInv
<1>1. ASSUME NEW t \in Session, t # s
      PROVE  /\ phase'[t] = phase[t] /\ current_state'[t] = current_state[t]
             /\ event'[t] = event[t] /\ (t \in turn' <=> t \in turn)
             /\ (t \in dropped' <=> t \in dropped)
  BY <1>0, <1>1 DEF TypeOK, Reaction
<1>2. TypeOK'
  BY <1>0, Durations DEF TypeOK, Reaction
<1>3. InTurn'
  BY <1>1 DEF IInv, InTurn
<1>4. Follows'
  <2> SUFFICES ASSUME NEW t \in alone, t # s
               PROVE  (VadFollows(t) /\ PipelineFollows(t) /\ TurnFollows(t) /\ JudgedInSilence(t))'
    BY DEF Follows, Reaction
  <2>1. t \in Session
    BY <1>0 DEF TypeOK
  <2> QED  BY <1>1, <2>1 DEF IInv, Follows, VadFollows, PipelineFollows, TurnFollows,
                             JudgedInSilence, Reaction
<1>5. NothingEmitted'
  BY <1>0, <1>1 DEF IInv, NothingEmitted, Reaction, TypeOK
<1> QED  BY <1>2, <1>3, <1>4, <1>5 DEF IInv

(* An announced turn goes on, begins or pauses, or there is none. *)
LEMMA ListeningReactionIInv ==
  ASSUME IInv, NEW s \in Session,
         StayInSpeech(s) \/ HandleSpeechDetected(s) \/ Pause(s) \/ RemainIdle(s)
  PROVE  IInv'
<1>0. TypeOK /\ phase[s] = "react" /\ event[s] = "none" /\ current_state[s] \in VadState
  BY DEF IInv, NothingEmitted, TypeOK, StayInSpeech, HandleSpeechDetected, Pause, RemainIdle, React
<1>1. s \in alone => VadFollows(s) /\ PipelineFollows(s) /\ TurnFollows(s) /\ JudgedInSilence(s)
  BY DEF IInv, Follows
<1>2. (current_state[s] # "kIdle" => s \in turn) /\ GateIsOfTurn
  BY DEF IInv, InTurn
<1>n. NoTurnEvent /\ UNCHANGED wiring => GateIsOfTurn'
  BY <1>2 DEF GateIsOfTurn, NoTurnEvent
<1>3. CASE StayInSpeech(s)
  <2>1. /\ vad.state = "kSpeech" /\ current_state[s] # "kIdle"
        /\ current_state' = [current_state EXCEPT ![s] = "kSpeech"]
        /\ phase' = [phase EXCEPT ![s] = "listen"]
        /\ NoTurnEvent /\ UNCHANGED <<vad, live, clocks, buffered, wiring, event, history>>
    BY <1>3 DEF StayInSpeech, React, Become, clocks, history
  <2>2. Reaction(s)
    BY <1>0, <2>1 DEF Reaction, NoTurnEvent, clocks, history, VadState, Event, TypeOK
  <2> QED  BY <1>0, <1>1, <1>2, <1>n, <2>1, <2>2, ReactionIInv
           DEF VadFollows, PipelineFollows, TurnFollows, JudgedInSilence, TypeOK, history, NoTurnEvent
<1>4. CASE HandleSpeechDetected(s)
  <2>1. /\ vad.state = "kSpeech" /\ current_state[s] = "kIdle"
        /\ current_state' = [current_state EXCEPT ![s] = "kSpeech"]
        /\ event' = [event EXCEPT ![s] = IF wiring[s] = "none" THEN "none" ELSE "speech_started"]
        /\ gate_open' = (IF wiring[s] = "wired" THEN gate_open \cup {s} ELSE gate_open)
        /\ turn' = turn \cup {s}
        /\ late' = (IF wiring[s] = "wired" THEN late \ {s} ELSE late \cup {s})
        /\ phase' = [phase EXCEPT ![s] = "listen"]
        /\ buffered' = buffered \ {s} /\ since_speech' = [since_speech EXCEPT ![s] = 0]
        /\ UNCHANGED <<vad, live, since_silence, wiring, history>>
    BY <1>4 DEF HandleSpeechDetected, React, Become, Emit, Hears
  <2>2. Reaction(s)
    BY <1>0, <2>1 DEF Reaction, history, VadState, Event
  <2>5. GateIsOfTurn'
    BY <1>2, <2>1 DEF GateIsOfTurn
  <2>3. vad.silence = 0 /\ quiet[s] >= 0
    BY <1>0, <2>1, Durations DEF TypeOK
  <2>4. /\ VadFollows(s) => VadFollows(s)'
        /\ (PipelineFollows(s) /\ TurnFollows(s) /\ JudgedInSilence(s))'
    BY <1>0, <2>1, <2>3 DEF VadFollows, PipelineFollows, TurnFollows, JudgedInSilence, TypeOK, history
  <2> QED  BY <1>1, <2>1, <2>2, <2>4, <2>5, ReactionIInv
<1>5. CASE Pause(s)
  <2>1. /\ vad.state = "kSilence"
        /\ current_state' = [current_state EXCEPT ![s] =
             IF current_state[s] = "kSpeech" THEN "kSilence" ELSE current_state[s]]
        /\ phase' = [phase EXCEPT ![s] = "listen"]
        /\ NoTurnEvent /\ UNCHANGED <<vad, live, clocks, buffered, wiring, event, history>>
    BY <1>5 DEF Pause, React, Become, clocks, history
  <2>2. Reaction(s)
    BY <1>0, <2>1 DEF Reaction, NoTurnEvent, clocks, history, VadState, Event, TypeOK
  <2> QED  BY <1>0, <1>1, <1>2, <1>n, <2>1, <2>2, ReactionIInv
           DEF VadFollows, PipelineFollows, TurnFollows, JudgedInSilence, TypeOK, history, NoTurnEvent
<1>6. CASE RemainIdle(s)
  <2>1. /\ vad.state = "kIdle" /\ current_state[s] = "kIdle" /\ current_state' = current_state
        /\ phase' = [phase EXCEPT ![s] = "listen"]
        /\ NoTurnEvent /\ UNCHANGED <<vad, live, clocks, buffered, wiring, event, history>>
    BY <1>6 DEF RemainIdle, React, clocks, history
  <2>2. Reaction(s)
    BY <1>0, <2>1 DEF Reaction, NoTurnEvent, clocks, history, VadState, Event, TypeOK
  <2> QED  BY <1>0, <1>1, <1>2, <1>n, <2>1, <2>2, ReactionIInv
           DEF VadFollows, PipelineFollows, TurnFollows, JudgedInSilence, TypeOK, history, NoTurnEvent
<1> QED  BY <1>3, <1>4, <1>5, <1>6

(* Not of a session that has the VAD for itself. *)
LEMMA BackchannelIInv ==
  ASSUME IInv, NEW s \in Session, TreatAsBackchannel(s)
  PROVE  IInv'
<1>1. /\ vad.state = "kIdle" /\ current_state[s] = "kSpeech" /\ phase[s] = "react"
      /\ current_state' = [current_state EXCEPT ![s] = "kIdle"]
      /\ phase' = [phase EXCEPT ![s] = "listen"]
      /\ buffered' = buffered \ {s}
      /\ since_silence' = [since_silence EXCEPT ![s] = 0]
      /\ UNCHANGED <<vad, live, since_speech, wiring, gate_open, turn, late, event, history>>
  BY DEF TreatAsBackchannel, React, Become, NoTurnEvent, history
<1>2. s \notin alone
  BY <1>1 DEF IInv, Follows, PipelineFollows
<1>3. Reaction(s)
  BY <1>1 DEF Reaction, clocks, history, VadState, Event, IInv, TypeOK
<1>4. current_state'[s] = "kIdle" /\ GateIsOfTurn'
  BY <1>1 DEF IInv, TypeOK, GateIsOfTurn
<1> QED  BY <1>2, <1>3, <1>4, ReactionIInv

(* The turn is judged, and goes on, ends or is dropped. *)
LEMMA JudgementIInv ==
  ASSUME IInv, NEW s \in Session, TurnDropped(s) \/ TurnCompletes(s) \/ TurnWaits(s)
  PROVE  IInv'
<1>1. TurnIsTested(s)
  BY DEF TurnDropped, TurnCompletes, TurnWaits
<1>2. /\ TypeOK /\ phase[s] = "react" /\ vad.state = "kIdle" /\ current_state[s] # "kIdle"
      /\ phase' = [phase EXCEPT ![s] = "listen"]
      /\ since_silence' \in {since_silence, [since_silence EXCEPT ![s] = 0]}
      /\ UNCHANGED <<vad, live, since_speech, wiring, alone, heard, quiet>>
  BY <1>1 DEF TurnIsTested, FirstSilence, IInv
<1>3. s \in turn /\ GateIsOfTurn
  BY <1>2 DEF IInv, InTurn
<1>4. s \in alone => VadFollows(s) /\ current_state[s] # "kSpeech"
  BY <1>2 DEF IInv, Follows, PipelineFollows
<1>5. \/ /\ current_state' = [current_state EXCEPT ![s] = "kIdle"]
         /\ \E e \in Event : event' = [event EXCEPT ![s] = e]
         /\ dropped' = dropped \cup ({s} \cap alone)
         /\ UNCHANGED <<buffered, gate_open, turn, late>>
      \/ /\ current_state' = [current_state EXCEPT ![s] = "kIdle"]
         /\ \E e \in Event : event' = [event EXCEPT ![s] = e]
         /\ buffered' = buffered \ {s}
         /\ gate_open' = (IF wiring[s] = "wired" THEN gate_open \ {s} ELSE gate_open)
         /\ turn' = turn \ {s} /\ late' = late \ {s} /\ dropped' = dropped \ {s}
      \/ /\ current_state' = [current_state EXCEPT ![s] = "kSilence"]
         /\ \E e \in Event : event' = [event EXCEPT ![s] = e]
         /\ UNCHANGED <<buffered, gate_open, turn, late, dropped>>
  <2>1. CASE TurnDropped(s)
    BY <2>1 DEF TurnDropped, Become, Emit, NoTurnEvent, Event
  <2>2. CASE TurnCompletes(s)
    BY <2>2 DEF TurnCompletes, Become, Emit, Hears, Event
  <2>3. CASE TurnWaits(s)
    BY <2>3 DEF TurnWaits, Become, Emit, NoTurnEvent, Event
  <2> QED  BY <2>1, <2>2, <2>3
<1>6. Reaction(s)
  BY <1>2, <1>5 DEF Reaction, VadState
<1>7. (current_state'[s] # "kIdle" => s \in turn') /\ GateIsOfTurn'
  BY <1>2, <1>3, <1>5 DEF TypeOK, GateIsOfTurn
<1>8. s \in alone => (VadFollows(s) /\ PipelineFollows(s) /\ TurnFollows(s) /\ JudgedInSilence(s))'
  <2> SUFFICES ASSUME s \in alone
               PROVE  (VadFollows(s) /\ PipelineFollows(s) /\ TurnFollows(s) /\ JudgedInSilence(s))'
    OBVIOUS
  <2>1. VadFollows(s)' /\ JudgedInSilence(s)'
    BY <1>2, <1>4, <1>5 DEF VadFollows, JudgedInSilence
  <2>2. PipelineFollows(s)' /\ TurnFollows(s)'
    BY <1>2, <1>5 DEF PipelineFollows, TurnFollows, TypeOK
  <2> QED  BY <2>1, <2>2
<1> QED  BY <1>6, <1>7, <1>8, ReactionIInv

LEMMA AnewIInv ==
  ASSUME IInv, NEW s \in Session, Anew(s), live' \subseteq Session,
         alone' \in {alone \cup {s}, alone \ {s}}
  PROVE  IInv'
<1>0. /\ TypeOK /\ current_state' = [current_state EXCEPT ![s] = "kIdle"]
      /\ since_speech' = [since_speech EXCEPT ![s] = 0]
      /\ since_silence' = [since_silence EXCEPT ![s] = 0]
      /\ wiring' = [wiring EXCEPT ![s] = "none"] /\ turn' = turn \ {s} /\ late' = late \ {s}
      /\ buffered' = buffered \ {s} /\ gate_open' = gate_open \ {s}
      /\ event' = [event EXCEPT ![s] = "none"] /\ dropped' = dropped \ {s}
      /\ heard' = [heard EXCEPT ![s] = 0] /\ quiet' = [quiet EXCEPT ![s] = 0]
      /\ UNCHANGED <<vad, phase>>
  BY DEF IInv, Anew
<1>1. TypeOK'
  BY <1>0, Durations DEF TypeOK, VadState, Event, Wiring
<1>2. InTurn' /\ GateIsOfTurn' /\ NothingEmitted'
  BY <1>0 DEF IInv, InTurn, GateIsOfTurn, NothingEmitted, TypeOK
<1>3. Follows'
  <2> SUFFICES ASSUME NEW t \in alone'
               PROVE  (VadFollows(t) /\ PipelineFollows(t) /\ TurnFollows(t) /\ JudgedInSilence(t))'
    BY DEF Follows
  <2>1. CASE t = s
    <3>1. /\ current_state'[s] = "kIdle" /\ event'[s] = "none" /\ heard'[s] = 0
          /\ s \notin turn' /\ vad' = vad
      BY <1>0 DEF TypeOK
    <3>2. 0 <= vad.speech
      BY <1>0, Durations DEF TypeOK
    <3> QED  BY <2>1, <3>1, <3>2 DEF VadFollows, PipelineFollows, TurnFollows, JudgedInSilence
  <2>2. CASE t # s
    <3>1. t \in alone /\ t \in Session
      BY <1>0, <2>2 DEF TypeOK
    <3>2. /\ current_state'[t] = current_state[t] /\ event'[t] = event[t]
          /\ heard'[t] = heard[t] /\ quiet'[t] = quiet[t] /\ phase'[t] = phase[t]
          /\ vad' = vad /\ (t \in turn' <=> t \in turn)
          /\ (t \in dropped' <=> t \in dropped)
      BY <1>0, <2>2, <3>1 DEF TypeOK
    <3> QED  BY <3>1, <3>2 DEF IInv, Follows, VadFollows, PipelineFollows, TurnFollows, JudgedInSilence
  <2> QED  BY <2>1, <2>2
<1> QED  BY <1>1, <1>2, <1>3 DEF IInv

(* A stream that is attached, or wired, in a turn leaves its gate as it is. *)
LEMMA RewireIInv ==
  ASSUME IInv, NEW s \in Session, AttachEvents(s) \/ WireMedia(s)
  PROVE  IInv'
<1>1. /\ wiring[s] # "wired"
      /\ \E to \in Wiring : wiring' = [wiring EXCEPT ![s] = to]
      /\ UNCHANGED <<vad, live, phase, current_state, clocks, buffered, gate_open, turn, late,
                     event, history>>
  BY DEF AttachEvents, WireMedia, Rewire, Wiring
<1> QED  BY <1>1 DEF IInv, TypeOK, InTurn, GateIsOfTurn, Follows, VadFollows, PipelineFollows,
                     TurnFollows, JudgedInSilence, NothingEmitted, clocks, history

LEMMA NextIInv == IInv /\ [Next]_vars => IInv'
<1> SUFFICES ASSUME IInv, [Next]_vars PROVE IInv'
  OBVIOUS
<1>1. ASSUME NEW s \in Session,
             \/ Start(s) \/ Stop(s)
             \/ AttachEvents(s) \/ WireMedia(s)
             \/ ProcessSpeech(s) \/ ProcessSilence(s) \/ ProcessFails(s)
             \/ ProcessVadChunk(s)
      PROVE  IInv'
  <2>1. CASE Start(s) \/ Stop(s)
    <3>1. Anew(s) /\ live' \subseteq Session /\ alone' \in {alone \cup {s}, alone \ {s}}
      BY <2>1 DEF Start, Stop, IInv, TypeOK
    <3> QED  BY <3>1, AnewIInv
  <2>2. CASE AttachEvents(s) \/ WireMedia(s)
    BY <2>2, RewireIInv
  <2>3. CASE ProcessSpeech(s)
    BY <2>3, ProcessSpeechIInv
  <2>4. CASE ProcessSilence(s)
    BY <2>4, ProcessSilenceIInv
  <2>5. CASE ProcessFails(s)
    BY <2>5, ProcessFailsIInv
  <2>6. CASE ProcessVadChunk(s)
    BY <2>6, ListeningReactionIInv, BackchannelIInv, JudgementIInv DEF ProcessVadChunk
  <2> QED  BY <1>1, <2>1, <2>2, <2>3, <2>4, <2>5, <2>6
<1>2. CASE UNCHANGED vars
  BY <1>2 DEF IInv, TypeOK, InTurn, GateIsOfTurn, Follows, VadFollows, PipelineFollows,
              TurnFollows, JudgedInSilence, NothingEmitted, vars, streams, clocks, history
<1> QED  BY <1>1, <1>2 DEF Next

LEMMA Invariance == Spec => []IInv
BY InitIInv, NextIInv, PTL DEF Spec

-----------------------------------------------------------------------------
(* The state of the VAD, of the pipelines and of the gates has its type; a VAD
   in speech has counted no silence. *)
THEOREM TypeCorrect == Spec => []TypeOK
BY Invariance, PTL DEF IInv

(* Whatever the sessions do to the VAD they share, and whenever their Events and
   Media calls come: a pipeline is in a turn only when it has announced its
   beginning to what was attached then, and its gate is open in that turn if and
   only if the listener was wired when it began. *)
THEOREM TurnsAreAnnounced == Spec => []TurnIsAnnounced
<1>1. IInv => TurnIsAnnounced
  BY DEF IInv, InTurn, GateIsOfTurn, TurnIsAnnounced
<1> QED  BY <1>1, Invariance, PTL

(* A session that has the VAD for itself has no turn judged before its user has
   been silent for min_silence_duration_ms, whatever the VAD was left with by the
   sessions before. *)
THEOREM TurnsEndInSilence == Spec => []TurnEndsInSilence
<1>1. IInv => TurnEndsInSilence
  BY DEF IInv, Follows, JudgedInSilence, TurnEndsInSilence
<1> QED  BY <1>1, Invariance, PTL

(* A turn of such a session is announced once: no second speech_started before
   its end. *)
THEOREM TurnsStartOnce == Spec => OneStartPerTurn
<1> DEFINE StartsOnce == \A s \in alone \ dropped :
             event'[s] = "speech_started" /\ phase'[s] # phase[s] => s \notin turn
<1>1. IInv /\ [Next]_vars => StartsOnce
  <2> SUFFICES ASSUME IInv, Next, NEW s \in alone \ dropped,
                      event'[s] = "speech_started", phase'[s] # phase[s]
               PROVE  s \notin turn
    BY DEF vars
  <2>1. s \in Session /\ phase \in [Session -> {"listen", "react"}] /\ event \in [Session -> Event]
    BY DEF IInv, TypeOK
  <2>2. PICK t \in Session :
          \/ Start(t) \/ Stop(t)
          \/ AttachEvents(t) \/ WireMedia(t)
          \/ ProcessSpeech(t) \/ ProcessSilence(t) \/ ProcessFails(t)
          \/ ProcessVadChunk(t)
    BY DEF Next
  <2>3. ProcessVadChunk(t)
    BY <2>1, <2>2 DEF Start, Stop, Anew, AttachEvents, WireMedia, Rewire, ProcessSpeech,
         ProcessSilence, ProcessFails, Process, Listen
  <2>4. t = s /\ phase[s] = "react"
    BY <2>1, <2>3 DEF ProcessVadChunk, StayInSpeech, HandleSpeechDetected, Pause, RemainIdle,
         TreatAsBackchannel, TurnDropped, TurnCompletes, TurnWaits, React, TurnIsTested
  <2>5. event[s] = "none"
    BY <2>1, <2>4 DEF IInv, NothingEmitted
  <2>6. HandleSpeechDetected(s)
    BY <2>1, <2>3, <2>4, <2>5 DEF ProcessVadChunk, StayInSpeech, Pause, RemainIdle,
         TreatAsBackchannel, TurnDropped, TurnCompletes, TurnWaits, Emit
  <2> QED  BY <2>6 DEF IInv, Follows, TurnFollows, HandleSpeechDetected
<1> QED  BY <1>1, Invariance, PTL DEF Spec, OneStartPerTurn

(* What GateForward lets a pipeline and its listener do: SpeechStarted at any
   time, UserTurnComplete in a turn only, and otherwise NoEvent; a listener that is
   Reached opens and closes the gate with them.  Nobody else, but the session that
   begins or ends, touches the turn or the gate. *)
Reacts(s) == phase[s] = "react" /\ phase'[s] = "listen"
Ended     == {"complete", "timeout"}

GateForwardAllows(s) ==
  /\ Reacts(s) /\ event'[s] = "speech_started" =>
       s \in turn' /\ (s \in gate_open' <=> wiring[s] = "wired")
  /\ Reacts(s) /\ event'[s] \in Ended => s \in turn /\ s \notin turn' /\ s \notin gate_open'
  /\ Reacts(s) /\ event'[s] \notin {"speech_started"} \cup Ended =>
       /\ s \in gate_open' <=> s \in gate_open
       /\ wiring[s] # "none" => (s \in turn' <=> s \in turn)
  /\ ~Reacts(s) /\ (s \in live' <=> s \in live) =>
       (s \in turn' <=> s \in turn) /\ (s \in gate_open' <=> s \in gate_open)
  /\ ~(s \in live' <=> s \in live) => s \notin turn' /\ s \notin gate_open'

(* GateForward takes the events of a pipeline from an automaton; VadTurn emits no
   sequence of them, whatever its sessions do to the VAD they share, which that
   automaton does not have. *)
THEOREM EventsAreThoseOfTheGate ==
  Spec => turn = {} /\ gate_open = {} /\ [][\A s \in Session : GateForwardAllows(s)]_vars
<1>1. IInv /\ [Next]_vars => [\A s \in Session : GateForwardAllows(s)]_vars
  <2> SUFFICES ASSUME IInv, Next, NEW s \in Session PROVE GateForwardAllows(s)
    OBVIOUS
  <2>0. /\ phase \in [Session -> {"listen", "react"}] /\ event \in [Session -> Event]
        /\ phase[s] = "react" => event[s] = "none"
        /\ current_state[s] # "kIdle" => s \in turn
        /\ s \in gate_open => s \in turn /\ wiring[s] = "wired"
    BY DEF IInv, TypeOK, NothingEmitted, InTurn, GateIsOfTurn
  <2>1. ASSUME NEW t \in Session, Start(t) \/ Stop(t) PROVE GateForwardAllows(s)
    <3>1. /\ ~Reacts(s) /\ turn' = turn \ {t} /\ gate_open' = gate_open \ {t}
          /\ s # t => (s \in live' <=> s \in live)
      BY <2>1 DEF Start, Stop, Anew, Reacts
    <3>2. t = s => ~(s \in live' <=> s \in live)
      BY <2>1 DEF Start, Stop
    <3> QED  BY <3>1, <3>2 DEF GateForwardAllows
  <2>2. ASSUME NEW t \in Session,
               \/ AttachEvents(t) \/ WireMedia(t)
               \/ ProcessSpeech(t) \/ ProcessSilence(t) \/ ProcessFails(t)
        PROVE  GateForwardAllows(s)
    <3>1. gate_open' = gate_open /\ turn' = turn /\ live' = live
      BY <2>2 DEF AttachEvents, WireMedia, Rewire, ProcessSpeech, ProcessSilence, ProcessFails,
         Process, Listen, streams
    <3>2. ~Reacts(s)
      BY <2>0, <2>2 DEF AttachEvents, WireMedia, Rewire, ProcessSpeech, ProcessSilence,
         ProcessFails, Process, Listen, Reacts
    <3> QED  BY <3>1, <3>2 DEF GateForwardAllows
  <2>3. ASSUME NEW t \in Session, ProcessVadChunk(t) PROVE GateForwardAllows(s)
    <3>1. live' = live /\ phase[t] = "react" /\ phase' = [phase EXCEPT ![t] = "listen"]
      BY <2>3 DEF ProcessVadChunk, StayInSpeech, HandleSpeechDetected, Pause, RemainIdle,
         TreatAsBackchannel, TurnDropped, TurnCompletes, TurnWaits, React, TurnIsTested
    <3>2. CASE s # t
      <4>1. ~Reacts(s)
        BY <2>0, <3>1, <3>2 DEF Reacts
      <4>2. (s \in gate_open' <=> s \in gate_open) /\ (s \in turn' <=> s \in turn)
        BY <2>3, <3>2 DEF ProcessVadChunk, StayInSpeech, HandleSpeechDetected, Pause, RemainIdle,
           TreatAsBackchannel, TurnDropped, TurnCompletes, TurnWaits, NoTurnEvent, Hears
      <4> QED  BY <3>1, <4>1, <4>2 DEF GateForwardAllows
    <3>3. CASE s = t
      <4>0. Reacts(s)
        BY <2>0, <3>1, <3>3 DEF Reacts
      <4>1. CASE HandleSpeechDetected(s)
        <5>1. /\ event'[s] = IF wiring[s] = "none" THEN "none" ELSE "speech_started"
              /\ s \in turn'
              /\ gate_open' = IF wiring[s] = "wired" THEN gate_open \cup {s} ELSE gate_open
          BY <2>0, <4>1 DEF HandleSpeechDetected, Emit, Hears
        <5> QED  BY <2>0, <3>1, <4>0, <5>1 DEF GateForwardAllows, Ended
      <4>2. CASE TurnCompletes(s)
        <5>1. /\ wiring[s] = "none" => event'[s] = "none"
              /\ wiring[s] # "none" => event'[s] \in Ended
              /\ s \in turn /\ s \notin turn'
              /\ gate_open' = IF wiring[s] = "wired" THEN gate_open \ {s} ELSE gate_open
          BY <2>0, <4>2 DEF TurnCompletes, TurnIsTested, FirstSilence, Emit, Hears, Ended
        <5> QED  BY <2>0, <3>1, <4>0, <5>1 DEF GateForwardAllows, Ended
      <4>3. CASE \/ StayInSpeech(s) \/ Pause(s) \/ RemainIdle(s) \/ TreatAsBackchannel(s)
                 \/ TurnDropped(s) \/ TurnWaits(s)
        <5>1. event'[s] \in {"none", "speech_ended"} /\ gate_open' = gate_open /\ turn' = turn
          BY <2>0, <3>1, <3>3, <4>3 DEF StayInSpeech, Pause, RemainIdle, TreatAsBackchannel,
             TurnDropped, TurnWaits, NoTurnEvent, Emit
        <5> QED  BY <3>1, <4>0, <5>1 DEF GateForwardAllows, Ended
      <4> QED  BY <2>3, <3>3, <4>1, <4>2, <4>3 DEF ProcessVadChunk
    <3> QED  BY <3>2, <3>3
  <2> QED  BY <2>1, <2>2, <2>3 DEF Next
<1>2. Init => turn = {} /\ gate_open = {}
  BY DEF Init
<1> QED  BY <1>1, <1>2, Invariance, PTL DEF Spec
=============================================================================
