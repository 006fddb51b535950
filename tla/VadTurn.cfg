\* Two sessions that share the VAD, models that may fail; durations in chunks,
\* each threshold more than one, none greater than one that is greater in the code.
SPECIFICATION FairSpec
CONSTANTS
  Session = {s1, s2}
  kChunkDurationMs = 1
  min_speech_duration_ms = 2
  min_silence_duration_ms = 2
  kMinUtteranceDurationMs = 3
  kSilenceTimeoutBaseMs = 3
  kSilenceTimeoutExtendedMs = 4
  TurnResult = {"low", "mid", "high", "fail"}
INVARIANTS
  TurnEndsInSilence
  TurnIsAnnounced
PROPERTIES
  OneStartPerTurn
  TurnEnds
