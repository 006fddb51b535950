\* One session, the durations of the code.
SPECIFICATION Spec
CONSTANTS
  Session = {s1}
  kChunkDurationMs = 32
  min_speech_duration_ms = 50
  min_silence_duration_ms = 300
  kMinUtteranceDurationMs = 400
  kSilenceTimeoutBaseMs = 1000
  kSilenceTimeoutExtendedMs = 3000
  TurnResult = {"low", "mid", "high"}
INVARIANTS
  BackchannelIsIgnored
