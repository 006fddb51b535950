-------------------------- MODULE LogMelSpectrogram --------------------------
(***************************************************************************)
(* The log-mel spectrogram of a turn, as LogMelSpectrogram::Compute lays   *)
(* it out: padding, frames, windows, an FFT that works in the two arrays   *)
(* of a worker, the power spectrum in place, and the filter bank.          *)
(*                                                                         *)
(* Floats are the field of integers modulo the prime Modulus, in which a   *)
(* primitive root of unity and a root of -1 give sines and cosines that    *)
(* obey the same addition theorems: the algorithm computes the transform   *)
(* or it does not, and no rounding hides which.  log10 is the identity,    *)
(* with 0 for the logarithm of the floor 1e-10.                            *)
(***************************************************************************)
EXTENDS Integers

CONSTANTS kFFTSize, kHopLength, kNumMelBins, kTargetSampleCount,
          Modulus,          \* the prime
          RootOfUnity,      \* of order kFFTSize
          ImaginaryUnit,    \* a square root of -1
          Headroom,         \* the 8.0 below the maximum at which values are clipped
          filters_          \* filters_.data[j * n_fft + k], as [j][k]

Number == 0..(Modulus - 1)
Half   == (Modulus + 1) \div 2

PowerOfRoot[k \in Nat] == IF k = 0 THEN 1 ELSE (PowerOfRoot[k - 1] * RootOfUnity) % Modulus

ASSUME LogMelAssumption ==
  /\ {kFFTSize, kHopLength, kNumMelBins, kTargetSampleCount} \subseteq Nat \ {0}
  /\ kFFTSize % 2 = 0
  /\ Modulus \in Nat \ {0} /\ Modulus % 2 = 1
  /\ {RootOfUnity, ImaginaryUnit} \subseteq Number
  /\ PowerOfRoot[kFFTSize] = 1
  /\ PowerOfRoot[kFFTSize \div 2] = Modulus - 1
  /\ (ImaginaryUnit * ImaginaryUnit) % Modulus = Modulus - 1
  /\ Headroom \in Nat
  /\ filters_ \in [0..(kNumMelBins - 1) -> [0..(kFFTSize \div 2) -> Number]]

kSinCosTableSize == kFFTSize
n_fft            == kFFTSize \div 2 + 1
stage_2_pad      == kFFTSize \div 2

(* f[first] + ... + f[last - 1], as a loop adds them up. *)
SumOf(f, first, last) ==
  LET sum[k \in first..last] == IF k = first THEN 0 ELSE sum[k - 1] + f[k - 1]
  IN sum[last] % Modulus

(* FillSinCosTable, FillHannWindow: e^ix is a root of unity, and cos and sin are
   the halves of the sum and, over i, of the difference of it and its inverse. *)
cos_vals_ == [k \in 0..(kSinCosTableSize - 1) |->
  (Half * (PowerOfRoot[k] + PowerOfRoot[kSinCosTableSize - k])) % Modulus]
sin_vals_ == [k \in 0..(kSinCosTableSize - 1) |->
  (Half * ImaginaryUnit * (PowerOfRoot[kSinCosTableSize - k] - PowerOfRoot[k])) % Modulus]
hann_window_ == [k \in 0..(kFFTSize - 1) |-> (Half * (1 - cos_vals_[k])) % Modulus]

-----------------------------------------------------------------------------
(* The two arrays of a worker.  FFT splits and transforms inside of them, at
   offsets that the caller chooses. *)
Memory == [fft_in  : [0..(2 * kFFTSize - 1) -> Number],
           fft_out : [0..(8 * kFFTSize - 1) -> Number]]

ZeroMemory == [fft_in  |-> [a \in 0..(2 * kFFTSize - 1) |-> 0],
               fft_out |-> [a \in 0..(8 * kFFTSize - 1) |-> 0]]

(* The array with the values put at an offset. *)
Put(array, at, values) ==
  [a \in DOMAIN array |-> IF a - at \in DOMAIN values THEN values[a - at] ELSE array[a]]

(* A transform of one number. *)
Copy(m, in, out) ==
  [m EXCEPT !.fft_out = Put(@, out, [a \in 0..1 |-> IF a = 0 THEN m.fft_in[in] ELSE 0])]

(* DFT, for odd sizes: the sums by the definition, real and imaginary parts
   side by side. *)
DFT(m, in, N, out) ==
  LET sin_cos_step  == kSinCosTableSize \div N
      idx(k, n)     == (k * n * sin_cos_step) % kSinCosTableSize
      re(k) == SumOf([n \in 0..(N - 1) |-> m.fft_in[in + n] * cos_vals_[idx(k, n)]], 0, N)
      im(k) == SumOf([n \in 0..(N - 1) |-> -(m.fft_in[in + n] * sin_vals_[idx(k, n)])], 0, N)
  IN [m EXCEPT !.fft_out = Put(@, out, [a \in 0..(2 * N - 1) |->
                                          IF a % 2 = 0 THEN re(a \div 2) ELSE im(a \div 2)])]

(* The even or the odd half of the input is copied behind the input. *)
Split(m, in, N, odd) ==
  [m EXCEPT !.fft_in = Put(@, in + N, [i \in 0..(N \div 2 - 1) |-> @[in + 2 * i + odd]])]

(* The butterflies. *)
Combine(m, N, out, even_fft, odd_fft) ==
  LET sin_cos_step == kSinCosTableSize \div N
      x(a)  == m.fft_out[a]
      re(k) == cos_vals_[k * sin_cos_step]
      im(k) == -sin_vals_[k * sin_cos_step]
      re_turned(k) == re(k) * x(odd_fft + 2 * k) - im(k) * x(odd_fft + 2 * k + 1)
      im_turned(k) == re(k) * x(odd_fft + 2 * k + 1) + im(k) * x(odd_fft + 2 * k)
      turned(a)    == IF a % 2 = 0 THEN re_turned(a \div 2) ELSE im_turned(a \div 2)
  IN [m EXCEPT !.fft_out = Put(@, out, [a \in 0..(2 * N - 1) |->
        (IF a < N THEN x(even_fft + a) + turned(a)
                  ELSE x(even_fft + a - N) - turned(a - N)) % Modulus])]

(* FFT(in, N, out): the halves are transformed one after the other, both from
   the same part of the input. *)
FFT[N \in 1..kFFTSize] ==
  [in \in 0..(2 * kFFTSize) |-> [out \in 0..(8 * kFFTSize) |-> [m \in Memory |->
     IF N = 1 THEN Copy(m, in, out)
     ELSE IF N % 2 = 1 THEN DFT(m, in, N, out)
     ELSE LET half_N   == N \div 2
              even_fft == out + 2 * N
              odd_fft  == even_fft + N
              evened   == FFT[half_N][in + N][even_fft][Split(m, in, N, 0)]
              both     == FFT[half_N][in + N][odd_fft][Split(evened, in, N, 1)]
          IN Combine(both, N, out, even_fft, odd_fft)]]]

(* The power spectrum overwrites the transform it is computed from, bin after
   bin. *)
PowerBin(m, j) ==
  [m EXCEPT !.fft_out[j] = (m.fft_out[2 * j] * m.fft_out[2 * j]
                            + m.fft_out[2 * j + 1] * m.fft_out[2 * j + 1]) % Modulus]
Power(m) ==
  LET power[bins \in 0..n_fft] == IF bins = 0 THEN m ELSE PowerBin(power[bins - 1], bins - 1)
  IN power[n_fft]

(* The filter bank, four bins at a time and the rest one by one. *)
Mel(m, j) ==
  LET unrolled == (n_fft \div 4) * 4
      terms    == [k \in 0..(n_fft - 1) |-> m.fft_out[k] * filters_[j][k]]
  IN (SumOf(terms, 0, unrolled) + SumOf(terms, unrolled, n_fft)) % Modulus

-----------------------------------------------------------------------------
(* Compute: the padded copy of n_samples samples, which starts with a mirror
   image of samples[1] .. samples[stage_2_pad], and its columns. *)
stage_1_pad(n_samples) ==
  IF n_samples < kTargetSampleCount THEN kTargetSampleCount - n_samples ELSE 0

PaddedSize(n_samples) == n_samples + stage_1_pad(n_samples) + 2 * stage_2_pad

Padded(samples, n_samples) ==
  [t \in 0..(PaddedSize(n_samples) - 1) |->
     CASE t < stage_2_pad             -> samples[stage_2_pad - t]
       [] t \in stage_2_pad..(stage_2_pad + n_samples - 1) -> samples[t - stage_2_pad]
       [] OTHER                       -> 0]

n_len(n_samples) == (PaddedSize(n_samples) - kFFTSize) \div kHopLength

(* Bug: what the last frame left behind the samples is not overwritten. *)
WithFrameUnfilled(m, padded, n, i) ==
  LET offset == i * kHopLength IN
    [m EXCEPT !.fft_in = [a \in DOMAIN @ |->
       IF a < kFFTSize /\ offset + a < n
         THEN (hann_window_[a] * padded[offset + a]) % Modulus ELSE @[a]]]

(* A column of a worker that is given n samples: the window is laid over what
   is left of them, zeros over the rest, and everything else is computed in m. *)
WithFrame(m, padded, n, i) ==
  LET offset == i * kHopLength IN
    [m EXCEPT !.fft_in = [a \in DOMAIN @ |->
       IF a < kFFTSize /\ offset + a < n
         THEN (hann_window_[a] * padded[offset + a]) % Modulus
         ELSE IF n - offset < kFFTSize THEN 0 ELSE @[a]]]

Transformed(m, padded, n, i) ==
  Power(FFT[kFFTSize][0][0][WithFrame(m, padded, n, i)])

Column(m)     == [j \in 0..(kNumMelBins - 1) |-> Mel(m, j)]
SilentColumn  == [j \in 0..(kNumMelBins - 1) |-> 0]

(* The columns that hold samples. *)
Sounding(n, columns) == {i \in 0..(columns - 1) : i < n \div kHopLength + 1}

(* Clamping and normalization, in quarters. *)
Normalized(data) ==
  LET max_value == CHOOSE x \in {data[c][j] : c \in DOMAIN data, j \in 0..(kNumMelBins - 1)} :
                     \A c \in DOMAIN data, j \in 0..(kNumMelBins - 1) : data[c][j] <= x
      clipped(x) == IF x < max_value - Headroom THEN max_value - Headroom ELSE x
  IN [c \in DOMAIN data |-> [j \in 0..(kNumMelBins - 1) |-> clipped(data[c][j]) + 4]]

-----------------------------------------------------------------------------
(* What it is to compute, by definition: column i is the filtered power of the
   windowed stretch of the padded samples that begins at i * kHopLength. *)
ReferenceColumn(samples, n_samples, i) ==
  LET frame == [a \in 0..(kFFTSize - 1) |->
                  Padded(samples, n_samples)[i * kHopLength + a] * hann_window_[a]]
      re(k) == SumOf([a \in 0..(kFFTSize - 1) |-> frame[a] * cos_vals_[(k * a) % kFFTSize]], 0, kFFTSize)
      im(k) == SumOf([a \in 0..(kFFTSize - 1) |-> frame[a] * sin_vals_[(k * a) % kFFTSize]], 0, kFFTSize)
      power(k) == re(k) * re(k) + im(k) * im(k)
  IN [j \in 0..(kNumMelBins - 1) |->
        SumOf([k \in 0..(n_fft - 1) |-> power(k) * filters_[j][k]], 0, n_fft)]

Reference(samples, n_samples) ==
  Normalized([i \in 0..(n_len(n_samples) - 1) |-> ReferenceColumn(samples, n_samples, i)])
=============================================================================
