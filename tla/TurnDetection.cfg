\* Every size of the code divided, with its order among the others kept.
SPECIFICATION Spec
CONSTANTS
  kMaxSamples = 20
  SizeModulus = 64
  kFFTSize = 12
  kHopLength = 5
  kNumMelBins = 2
  kTargetSampleCount = 20
  Modulus = 13
  RootOfUnity = 2
  ImaginaryUnit = 5
  Headroom = 8
  filters_ <- MCFilters
  kVadChunkSize = 8
  MaxResampled = 2
  ThreadCounts = {1, 2, 3}
  Wave <- MCWave
  MaxHeard = 48
INVARIANTS
  RecentAudio
  EnoughToReflect
  SpectrumIsReference
CHECK_DEADLOCK FALSE
