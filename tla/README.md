# Verification of saasy-media-engine

TLA+ models of the two media engines of saasy-media-engine, the TLC runs that
check them and the TLAPS proofs about them. Every definition is translated from
the C++ source; `PROJECT.json` maps each one to its lines, lists the runs, the
hazards the properties are aimed at, and for each property a mutation of the
code that breaks it.

- [The system](#the-system)
- [Modules](#modules)
- [Runs](#runs)
- [Fairness](#fairness)
- [Proofs](#proofs)
- [What the models show of the code](#what-the-models-show-of-the-code)
- [What is left out](#what-is-left-out)
- [Plan](#plan)

## The system

Two processes, each a gRPC server that an orchestrator controls and a WebRTC
peer of an SFU. The *speaking engine* plays synthesized audio into a session;
the *listening engine* takes the user's audio, finds the turns in it and
forwards speech. Both are built from `common/`. There are no tests in the
repository; the references are the code and its comments.

| component | state | operations | correct when |
|---|---|---|---|
| command framework (`common/src/command_framework.cpp`) | a queue with a stop flag, a worker thread | Push, TryPop, Stop; Start, RunLoop, Stop, destructor | commands run one at a time in order, none is lost before Stop, none runs after it, Stop returns |
| playback ADM (`speaking-engine/src/custom_audio_device_module.cpp`) | SPSC queue of chunks, sample ring, two flags, the capture thread | RunCaptureLoop, FlushAudioBuffer, SpeechGenerationComplete, StopRecording, Terminate | audio is played in order and once, never later than the cap, a flush silences, the end of speech is announced once |
| control and event streams (both engines) | `running_`, outgoing queue, a writing and a reading thread, pending requests | QueueMessage, QueueEvent, ProcessOutgoing, ProcessIncoming, Stop, destructor | messages go out in order, none is lost while the client is there, no thread outlives the object |
| session map and call handlers (both `*_engine_service.cpp`) | `sessions_` under `sessions_mutex_`, raw pointers in handlers | Control, Events, Media, RemoveSession, the detached thread of `close_session` | no session is leaked, used after its destructor, or made past the limit; every removal completes |
| session of the speaking engine (`session.cpp`, `commands.cpp`, `event_stream.cpp`) | streams, transport, ADM, queue, processor | RequestRemoval, Cleanup, destructor; StartProduction, FlushAudio | nothing of it runs when it is freed; removal ends |
| session of the listening engine (`session.cpp`, `streams.cpp`) | sink, consumers, streams, playout | Cleanup, destructor, SetControlStream | the same; a stream that replaces another leaves no thread behind |
| commands (both `commands.cpp`) | device, transport and its listener, consumers and their sinks | LoadDevice, GetDeviceRtpCapabilities, CreateTransport, CreateConsumer, ResumeConsumer | each request is answered once, whatever throws; what a command uses is there; no track keeps a sink that is destroyed |
| VAD and turn pipeline (`vad_turn/`) | the state of one SileroVAD *for all sessions*, and of a pipeline for each session | Process, GetState, ProcessVadChunk | a turn is announced once, ends in silence and does end |
| sink and media stream of the listening engine | SPSC queue, pre-roll buffer, gate, listeners | OnData, GetNextFrame, ForwardLoop, OnSpeechStarted, OnUserTurnComplete | frames go out in order and only in a turn |
| RTP and JSON conversion (`common/src/*_converter.cpp`) | none | JsonToProto, ProtoToJson | the two are inverse to each other |
| turn buffer, chunk accumulator, log-mel spectrogram (`vad_turn/`) | the audio of a turn, a rest of samples, two arrays for each worker | Append, Clear, ProcessAudio, Compute, WorkerThread | what is judged is the latest audio without a gap, and its features are what their definition says, for any number of workers |
| smart turn detector, resampler | model weights | Process | signal processing by libraries |
| WebRTC factory, fake ADM, `main` | static | set-up | - |

How they interact. gRPC runs each call of a client (Control, Events, Media) on
a handler thread of its own, which creates or finds the session, makes a
stream object that holds a raw pointer to the call, moves it into the session,
writes the acknowledgement to the call itself, and polls every 100 ms until the
client leaves or the session asks to be removed; whichever handler or detached
thread removes the session destroys its streams. A stream object has a reading
thread, and control and event streams have a writing one. Control messages
become commands for the worker of the session's
`CommandProcessor`; a command answers through the control stream. Media frames
go to the ADM through a lock-free queue, where the capture thread of the ADM
takes them. In the other engine the playout thread of WebRTC pushes audio into
the sink and runs the VAD, whose events call listeners on the same thread; the
forwarding thread of the media stream drains the sink.

What is hard: five to nine threads for a session, raw pointers between objects
with different owners, stop flags written outside the mutex of the condition
they are part of, two state machines for speech that see the same audio, an
answer from the network awaited on the only thread that runs commands, and
destructors that join threads with locks held.

## Modules

| module | models | state and actions |
|---|---|---|
| `OrderedExecutor` | the abstract serial executor: accept, begin, return, close | `log`, `performed`, `finished`, `open` |
| `CommandProcessor` | `CommandQueue`, `CommandProcessor` and their threads; implements `OrderedExecutor` | `queue`, `running`, `stopped` are the members; `worker` is where `RunLoop` is and `owner` how far the thread that calls `Start` and `Stop` is. One action for each critical section or atomic access |
| `CommonProofs` | theorems about `common/`: `CommandProcessor` and `RtpConverters` | |
| `AudioPlayer` | the abstract player: accept, play a frame, skip, flush, announce, end and close | `accepted`, `pending`, `played`, `asked`, `announced`, `flushing`, `mark`, `keep`, `session` |
| `PlaybackADM` | media thread, capture loop, command thread and the middle of `Session::Cleanup` on one ADM; implements `AudioPlayer` | `audio_queue`, `ring_samples`, `recording`, `speech_generation_complete` are the members; audio is numbered in *units* in the order of acceptance, a 10 ms frame being `FrameUnits` of them. One action for each step between which another thread can get in: each pop of the drain, the assembly, the delivery, the test of completion, its reset, the callback |
| `PlaybackADMProofs` | theorems about it | |
| `OrderedChannel` | the abstract channel to the orchestrator: send, deliver, greet, hang up, close | `sent`, `delivered`, `received`, `greeted`, `gone`, `closed` |
| `StreamOutbox`, `StreamOutboxProofs` | implement `OrderedChannel`: one ControlStream or EventStream (`kind`), its producers, the handler that acknowledges the call, and the removal of the session | `outgoing`, `incoming`, `handler`, `remover` are program counters; the removal is a thread of its own, which may begin before the acknowledgement; the wait of the condition variable is taken apart into predicate, block and wake |
| `SessionRegistry` | the map, handlers of Control, Events and Media, detached removal threads | a Session object is a number; `session[h]` is the raw pointer of handler `h`; `freed` is history |
| `SessionTeardown` | RemoveSession, Cleanup and ~Session of the speaking engine against the readers, the writers and the worker, with `OnProduce` and its promise | `remover` walks the stages of the removal in source order. Its `TeardownInit`, `TeardownNext` and `TeardownSpec` are named so that one module can extend it and `SessionRegistry` |
| `SessionProofs` | theorems about `SessionRegistry` and `SessionTeardown` | |
| `VadTurn`, `VadTurnProofs` | `SileroVAD::UpdateState`, `VadTurnPipeline`, the wiring of its events and the gate | `vad` is shared by all sessions; `Process` and `GetState` are separate steps, as in the code; `wiring` is what hears the events of a session: nothing, the event stream, or the listener too; `turn`, `late`, `alone`, `heard`, `quiet` and `dropped` are history |
| `AudioTurnBuffer` | the buffer of a turn, with sizes that wrap as `size_t` does | `AppendSamples`, an operator on sequences |
| `LogMelSpectrogram` | tables, padding, FFT, power, filter bank, clipping, and the definition they are compared with | operators; the arrays of a worker are `Memory`, so that what one column leaves there meets the next. A loop that adds up is `SumOf`, the recursion `FFT` a function of the size, the two offsets and the arrays; the filter bank `filters_` is a function of the mel bin, then of the bin |
| `TurnDetection`, `TurnDetectionProofs` | the way of samples from a frame to the turn buffer, the accumulator and its chunks, and the workers of the spectrogram | samples are numbered; `column` is the loop variable of each worker |
| `MCTurnDetection` | signal and filter bank of its run | |
| `SessionCommands`, `SessionCommandsProofs` | the readers of Control calls, the worker with all commands of the listening engine (three of which the speaking engine has too), the replacement of a control stream, and Cleanup | `device`, `listener`, `transport`, `consumers` are the members; objects are numbered, so that a pointer can be told from what is there now; `cleaner` walks the stages of the removal |
| `GateForward`, `GateForwardProofs` | OnData, the forwarding thread, the wiring of listeners, the removal of a listening session to the joins of its last stream | `playout`, `forwarder`, `cleaner` are program counters, the lock of the consumers follows from `cleaner`; `asleep` has the writing threads that missed the stop of their stream |
| `RtpConverters` | JsonToProto and ProtoToJson for DTLS parameters, RTP parameters and RTP capabilities | `doc` is a JSON object or a message, each a function on its present fields; `sent` is the JSON it was last read from; `Standard` says which descriptions are standard, `Complete` what defaults they are completed with |
| `MCRtpConverters` | the descriptions of the run of `RtpConverters` | |

How they compose. `CommandProcessor` refines `OrderedExecutor`, `PlaybackADM` refines
`AudioPlayer`, `StreamOutbox` refines `OrderedChannel`; `SessionTeardown`
uses a command queue and an outbox as serial queues with a stop, which is what
`CommandProcessor` and `StreamOutbox` show of them. That a writing thread may sleep
through the stop of its stream is the one failure `HangsOnlyAsleep` allows;
`SessionTeardown` has it as a state of the writers, `GateForward` as the set
`asleep`, and both join them where the destructors do. `SessionRegistry` takes the
removal of a session as one interval with `sessions_mutex_` held, and
`SessionTeardown` and `GateForward` look inside that interval for each engine.
`GateForward` takes the events of the pipeline from an automaton that allows
every sequence `VadTurn` has, with an event stream and without, with a listener and
before it is wired (`EventsAreThoseOfTheGate` proves it), and
`TurnDetection` in the same way takes the states of the VAD, which no theorem
connects with it. `SessionCommands` puts what the commands do to the members
into the same Cleanup that `GateForward` has for the threads of the audio.

A definition whose comment begins with *Bug:* is not part of a model. It is
what a plausible mistake would have made of the definition that follows it, and
shows that a property notices.

## Runs

Twelve runs. "Violation" runs check one sentence of the source that the code
does not keep.

| run | checks | shows | bounds |
|---|---|---|---|
| `CommandProcessor` | QuietAfterStop, ImplementsExecutor, StopReturns, EveryCommandPerformed | the queue and its worker are a serial executor that stops for good | two commands, four pushes: one running, two waiting and one refused at once |
| `PlaybackADM` | InOrder, LatencyBound, FlushEffective, CompletionOverlooksQueueOnly, ImplementsPlayer, NothingVanishes, CompletionAnnounced | order, cap, flush, completion, and that all of it is one player | frame 2, cap 5, chunks of 1 and 4, queue of 2: queue and ring both overflow, rests of less than a frame occur; three chunks, one flush, two ends of speech |
| `SessionRegistry` | NoOrphan, RemovalCompletes | no leak, no freed session in the map, removals end as far as their destructors do (`RemovalEnds` of the two engines says when those do not) | two ids, room for one, three Session objects: an id comes back, a call meets a full map, three detached threads, two handlers |
| `RegistryDangling` (violation) | NoDanglingSession | a polling handler reads a destroyed session | one id, two objects, three handlers |
| `StreamOutbox` | SentInOrder, ImplementsChannel, QueuedIsSent, HangsOnlyAsleep | a stream is an ordered channel, no message of which follows its destructor; delivery and destruction, on either class of stream, whoever removes the session and whenever | two producers, three messages: a queue with a message behind the one being written |
| `SessionTeardown` | AnswersReachTheirPromise, QuietWhenFreed, RemovalEnds | the order of the removal is sound; it hangs only for an unanswered production or a writing thread that did not hear the stop | two productions, one waiting behind the other, and a flush |
| `VadTurn` | TurnIsAnnounced, TurnEndsInSilence, OneStartPerTurn, TurnEnds | whatever sessions do to each other's VAD, no turn goes on unannounced to what was attached, its gate open just if the listener was wired when it began; a session that has it for itself is judged in silence only, announced once, and its turns end | two sessions on one VAD, which come and go and are wired at any time or never; durations in chunks, each threshold two to four of them, none greater than one that is greater in the code; counters are capped at the threshold they are compared with, which loses nothing; the model may fail |
| `VadBackchannel` (violation) | BackchannelIsIgnored | an utterance shorter than the minimum completes a turn | one session, durations of the code (32, 50, 300, 400, 1000, 3000 ms) |
| `GateForward` | OneStraggler, Wired, QuietWhenFreed, LiveInOrder, FramesAreTaken, RemovalEnds | the path of a frame, the wiring and the removal | queue of two, pre-roll of one, three frames: both buffers overflow, two turns |
| `TurnDetection` | RecentAudio, EnoughToReflect, SpectrumIsReference | the audio that is judged, and its spectrogram | buffer 20, chunk 8, FFT 12, hop 5: every size of the code divided, their order kept; 48 samples, so that the buffer wraps twice; one to three workers in every order |
| `SessionCommands` | AnsweredOnce, CommandsUseWhatLives, SinksDetached, StreamsOutliveTheirUse, EveryRequestAnswered | commands, their failures and the removal | two Control calls, four requests: a device, a transport, a consumer and one more, in any order and each with any outcome; a queue of one |
| `RtpConverters` | Faithful, Stable | the tables, optional and required fields of the two converters fit together | every name of every table; all subsets of the optional fields of an element; digits of base 4, numbers modulo 16; two conversions |

Each state machine but `RtpConverters` has a `TypeOK`. It is not among the properties
of a run: it is proved.

The bounds count threads and events, not time. Each module's interleavings come
from a fixed set of threads, all of which are there; the bounds are on the
number of inputs, chosen such that every buffer overflows, every queue has an
element behind another, and each request can meet each stage of a removal.
Deadlock checking is off where a system stops by design (after destruction, or
when no client calls); what must still happen is stated as a liveness property.

What the properties of the converters leave to the reader: an unknown name is
replaced silently (an unknown audio codec comes out as `audio/opus`, an unknown
kind as `audio`, an unknown URI as the empty string), a parameter that is
neither string nor number is dropped, and a negative one wraps. `Faithful` is
about standard descriptions, the reference being `Complete`, which adds defaults
and changes nothing; `Stable` says these losses happen once.

## Fairness

- Threads of the engine are scheduled: weak fairness of each thread's next step
  (`RunLoop`, `RunCaptureLoop`, `Outgoing`, `Worker`, `Forward`, `Remove`, ...).
- Mutexes are granted in the end: in `SessionRegistry` the handlers and
  detached threads have strong fairness, as each competes with others for
  `sessions_mutex_` that may come and go for ever. A handler that polls is
  excepted: nothing makes a client hang up.
- Clients promise nothing, with these exceptions, each named in the module's
  comment. In `SessionRegistry`, `SessionTeardown` and `GateForward` a client hangs
  up on a session that is being destroyed, without which a destructor that joins a
  reader never returns; in `SessionTeardown` it does so once the requests it
  received are answered, and it answers; in `StreamOutbox` it hangs up on a stream whose
  destructor waits. Reads then fail, as gRPC makes them. In `GateForward`, which has
  no readers of its own, this is the weak fairness of `JoinStream`.
- `VadTurn`: audio keeps arriving in each live session and the inference of the
  VAD succeeds again and again (strong fairness of a chunk that is processed).
  When anybody speaks, and what the turn model says, is left open.
- `SessionCommands`: the worker goes on (`RunLoop`), and a removal that has begun
  does (`Remove`), as far as it does not wait for a client. `TurnDetection` states
  no liveness, and has no fairness.
- No fairness on commands, media, flushes, speech, wiring of streams that are not
  there, `close_session`, spurious wake-ups (a writing thread that sleeps through a
  stop need not wake) or failures.

## Proofs

Eight modules of theorems, checked by TLAPS with no gap: 45 theorems, for every
value of the constants that the named assumptions allow, where the runs have one
instance. They state every safety invariant and action property of the passing runs,
and the `TypeOK` of each state machine that has one.

| module | theorems | property of a run |
|---|---|---|
| `CommonProofs` | TypeCorrect | |
| | NothingIsLost | |
| | QuietWhenStopped | QuietAfterStop |
| | Implementation | ImplementsExecutor |
| | DescriptionReturns | |
| | DescriptionsAreFaithful, DescriptionsAreStable | Faithful, Stable |
| `PlaybackADMProofs` | TypeCorrect | |
| | NoEventUnasked | |
| | PlayedInOrder, WithinCap | InOrder, LatencyBound |
| | Implementation | ImplementsPlayer |
| | FlushSilences, CompletionIsHonest, NoAudioVanishes | FlushEffective, CompletionOverlooksQueueOnly, NothingVanishes |
| `SessionProofs` | TypeCorrect, SessionsAreDestroyedOnce | |
| | SessionsAreNotOrphaned | NoOrphan |
| | TeardownTypeCorrect | |
| | AnswersAreDelivered, FreedInQuiet | AnswersReachTheirPromise, QuietWhenFreed |
| `StreamOutboxProofs` | TypeCorrect | |
| | MessagesAreSentInOrder | SentInOrder |
| | Implementation | ImplementsChannel |
| `SessionCommandsProofs` | TypeCorrect | |
| | RequestsAreAnsweredOnce, CommandsHaveTheirObjects | AnsweredOnce, CommandsUseWhatLives |
| | SinksAreDetached, StreamsAreThere | SinksDetached, StreamsOutliveTheirUse |
| `VadTurnProofs` | TypeCorrect | |
| | TurnsAreAnnounced, TurnsEndInSilence, TurnsStartOnce | TurnIsAnnounced, TurnEndsInSilence, OneStartPerTurn |
| | EventsAreThoseOfTheGate | |
| `TurnDetectionProofs` | TypeCorrect, AppendKeepsLatest | |
| | TurnsAreRecentAudio, JudgedTurnsCanBePadded | RecentAudio, EnoughToReflect |
| | FastTransformIsTransform | |
| | SpectrogramIsReference | SpectrumIsReference |
| `GateForwardProofs` | TypeCorrect | |
| | SilenceIsSuppressed, TurnsReachTheGate | OneStraggler, Wired |
| | StreamsAreFreedInQuiet, FramesAreWrittenInOrder | QuietWhenFreed, LiveInOrder |

*Assumptions.* Only the named assumptions of the modules, which TLC evaluates in
each run, and the library's theorems on sequences, finite sets and well-founded
relations. Most give
types. Those that say more, each true of the code's constants: a frame and a chunk
are not empty (`PlaybackAssumption`); whoever can hold the mutex is not
`None`, and handlers and Session objects differ (`RegistryAssumption`, about
the encoding of the holder); a chunk of 32 ms is shorter than the 300 ms of
`min_silence_duration_ms` (`VadTurnAssumption`: without it one chunk could end
speech and its silence together, and the pipeline would miss the silence); the
turn buffer and `size_t` are large enough for each other, a chunk fits the turn
buffer, and the samples of a frame with the padding fit a chunk
(`AudioTurnBufferAssumption`, `TurnDetectionAssumption`: the last is why a turn is
long enough to be padded); `kFFTSize` is even, the modulus odd, and the root of unity
has returned to 1 after a whole turn and is -1 after half of one, the imaginary unit
being a root of -1 (`LogMelAssumption`: what the code's `2 * M_PI * i / size` is; that
the modulus is a prime is not needed). `ConvertersAssumption` says that what callers
send are lists where the code reads lists; what is in them is free.

*Induction over data.* The provers cannot instantiate the library's induction rules,
which have an operator as a parameter. `NatSetInduction` says the same of a set: one
that holds 0 and is closed under successors is `Nat`, which follows from the
library's theorem that a well-founded relation has minimal elements. A recursive
function of the models is reached through it in three steps: for every n there is a
finite function that satisfies the recursion up to n; two of these agree where both
are defined; so the model's `CHOOSE`n function satisfies its own recursion
(`SumsExist`, `SumsAgree`, `SumOfSteps`; the same for `PowerOfRoot`, the levels of
`FFT`, the bins of `Power` and the digits of a fingerprint).

The invariants of the runs are seldom inductive by themselves. What each proof
adds, in the invariant `IInv` of its module (`TeardownIInv` for the removal):

*Command processor*, for any set of commands and number of pushes. `Positions`
(which of `running`, `stopped` and the two program counters go together: the
worker has left once `Stop` has joined it), `OneAtATime` (the executions that
have ended are all that began, but for the one under way) and `Drained` (a
stopped queue is empty). The refinement step uses `OneAtATime` to see that a
command begins only when the one before has returned, and `NothingLost` to see
that the command taken is the next one of the log.

*Converters*, for lists, fingerprints and parameters of any length and any numbers.
`DescriptionReturns` is about the operators: a standard description is read and comes
back as `Complete` says, and what comes back of any description that can be read,
odd names and absent fields included, is standard and complete. It rests on one lemma for each table (the two that convert a name list the
same rows, `RoleNames` to `ModeNames`), one for the hexadecimal digits of a
fingerprint (`HexReturns`) and one for each kind of element. Neither property of the
run is inductive; `ConverterInv` adds what they follow from: what was written before
is settled (standard and complete), and the message at hand was read from what was
sent last.

*Playback*, for any frame size, cap, queue capacity, chunk sizes and fades.
`InOrder` is stated over delivered audio, the frame under way, the ring and the
queue, so that each step moves a unit from one part to the part before it.
`FlagAtReset`: the capture thread clears the flag it has found set, and no other
thread clears it in between. `RingPlayed`: a frame exists only while it is
delivered, and nothing enters the ring between the test of completion and the
event. `FlushUnderWay`: a flush keeps the capture thread out of its critical
sections and has cut the ring to the fade when it empties the queue. From there
`FlushEffective` is preserved because no step plays old audio again: a unit that is
to be played after a step was to be played before it, or is newer than all that was
accepted (`OnlyNewUnits`), and what is counted can only become less. For
`NothingVanishes` two lemmas say that a cut loses nothing (`CutKeepsUnits`) and
the cap just what `OverCap` names (`CapTakesOverCap`). In the refinement what is
still to be played is `Held`, wherever it is, so that a drain is invisible and the
assembly of a frame is a `Skip` or nothing; one lemma for each step that touches
audio says what becomes of `Held` (`PushHolds` to `DeliverHolds`), and `FlushLeaves`
counts what a flush leaves. `EventsAreOwed` (the events sent, the one under way and
the one the flag owes are no more than were asked for) lets an event be an
`Announce`; `CleanupUnderWay` (what the removal has joined has ended, what it has
cleared stays empty) shows that the player does nothing once it is closed, although
a flush may still be in the code.

*Map of sessions*, for any ids, handlers, Session objects and capacity.
`EntryIsAlive` and `AliveIsEntry` (entry and Session know each other),
`HolderHasEntry` (whoever took the mutex to destroy found an entry and nobody has
taken it since), `CallsHaveSessions`. `SessionsAreDestroyedOnce` states an
action property no run checks: each erasure meets a Session that is alive.

*Removal*, for any number of productions and flushes. `ProductionsCounted`: the
requests the engine has numbered, the productions that wait in the queue and the
one under way are no more than were asked for; `RequestsInOrder`: registered, then
queued, then sent, and what was sent is pending or answered, which is why a
response never comes too early; `JoinedHasEnded`: what a stage has joined does not
start again.

*Outbox*, for any number of producers and messages and both classes of stream.
`QueueInOrder` and `WireInOrder`: the wire has the oldest messages, the writing
thread the next one, the queue the newest. For the refinement `Joined` adds that the
writing thread of a destroyed stream has ended, which no notification undoes. The
abstract channel has delivered what is neither queued nor being written; only
`WriteReturns` delivers (`DeliveredByWrite`), the join of the writing thread closes
the channel, and every other step is invisible in it. The acknowledgement is the
greeting, which the channel allows at any time, also when it is closed: the handler
writes it to its call, whatever has become of the stream.

*Commands of the listening engine*, for any number of calls and requests and any
outcome of each. `Progress` (the worker is gone once the removal has joined it),
`Requests` (one that was read waits once, is performed, was dropped or was answered
once, and a stopped queue is empty), `Members` (what was made is bounded by what was
asked, and a track with the sink belongs to a consumer that Cleanup will still find,
that is about to be inserted, or that it has missed) and `ControlStreams` (a stream is
attached, was replaced, or is not attached yet).

*Voice activity*, for any number of sessions, any durations and failures of the
models. Nothing ties the shared VAD to a session; for one that has it for itself
`VadFollows` says that the VAD has counted at least the speech the session has
and, in a turn, at most its silence; `PipelineFollows` that such a session sees
every state of the VAD, so that none of its turns is taken for a backchannel;
`TurnFollows` and `JudgedInSilence` carry this over to turns and events.
`GateIsOfTurn` says that the open gates are those of the turns whose beginning their
listener heard, and that there is none without a listener; with `InTurn`, that a
pipeline outside `kIdle` is in a turn, it is all that `TurnsAreAnnounced` and
`EventsAreThoseOfTheGate` need, and holds of every session, also of those that share.

*Turn detection*, for any size of buffer, chunk, frame and padding.
`AppendKeepsLatest` is about the operator: the last `kMaxSamples` of both, also
where `size_t` wraps. `Newest` says that buffer and accumulator are runs of samples
that end with the one heard last, `WholeChunks` counts what the VAD was given, and
`Rests` how little of the audio before a turn can be in the accumulator when the
turn begins: less than one frame adds, so that most of the chunk that ends a turn
is audio of the turn.

*Spectrogram*, for any size of transform, hop and filter bank, any signal and any
number of workers. Everything is equality modulo `Modulus` (`Same`). From the
assumption on the root follow the period and the half turn of the tables and the
addition theorems (`Addition`, `HalfTurn`), from them the decimation in time
(`Butterfly`: the sums of a size are those of its even and its odd half, combined).
`FastTransformIsTransform` is about the recursion in memory, by strong induction on
the size: at every pair of offsets at which input and scratch space fit, the transform of the input is
at the output, the input is still there, and nothing outside of the room it claims has
changed. The last two are what the second half needs of the first: both are
transformed from the same part of the input, and the first one's output has to survive
the second. `PowerComputes` shows that squaring in place never overwrites a value it
has yet to read. `ColumnsInv`, which a run of TLC found to be inductive on its bounds
before it was proved, says that worker t is at one of the columns t, t + n, t + 2n, ...,
that the columns before where their worker is are written, each as it is by
definition, and no other; without it that two workers never write the same column
cannot be seen.

*Gate*, for any capacities and number of frames. `QueueIsNewest` (the queue is the
newest of the frames accepted, and nobody but the forwarding thread takes any before
the removal), `WrittenOnce`, `OneInFlight`, `NothingQueued` (the playout thread opens
the gate and queues nothing meanwhile) and `NothingSkipped` (of what was accepted
since the gate opened, and has passed the forwarding thread, everything was
written); `Wiring` and `Joined` for the handlers and the removal.

*Only model-checked.* All liveness properties (`StopReturns`, `EveryCommandPerformed`,
`CompletionAnnounced`, `RemovalCompletes`, `QueuedIsSent`, `HangsOnlyAsleep`,
`RemovalEnds` of both engines, `TurnEnds`, `FramesAreTaken`,
`EveryRequestAnswered`): they need fairness and `ENABLED`, which the prover does not
reason about. No invariant and no action property of a passing run is left to the
model checker alone. The two violations are counterexamples and have no theorem.

## What the models show of the code

Two sentences of the source do not hold, each with a run:

1. `RegistryDangling`: the polling loop dereferences a session another thread
   has destroyed (`speaking_engine_service.cpp:138`).
2. `VadBackchannel`: the filter for short utterances is skipped when a pause
   came before the end (`vad_turn_pipeline.cpp:137`).

The properties of the passing runs are stated such that they hold, and where an
exception was needed it is in the statement. These are the exceptions, and
other behaviours of the models a reader should know of:

- Playback is announced complete while a chunk that was accepted before the end
  of speech still waits in the queue: `custom_audio_device_module.cpp:171` looks
  at the ring only. `CompletionOverlooksQueueOnly` says that this is all it
  overlooks.
- A rest of less than 10 ms in the ring is never played and keeps the end of
  speech from being announced (the exception of `CompletionAnnounced`).
- `Stop` of both stream classes writes `running_` without the mutex and
  notifies without it; a writer between its predicate and its wait misses both
  and sleeps for good (the exception of `HangsOnlyAsleep`). The removal that joins
  it hangs with `sessions_mutex_` held (an exception of `RemovalEnds` in both engines).
- Messages queued when a stream stops are not sent, the answer to
  `close_session` among them; the acknowledgement need not be the first
  message on the wire, and as the handler writes it after it has given the stream
  away, it may go out when the stream has been destroyed by another thread.
- A production nobody answers any more holds the worker, and with it the
  removal and `sessions_mutex_` (an exception of `RemovalEnds` in `SessionTeardown`): Cleanup
  stops the streams that would bring the answer before it joins the worker.
- `RemoveSession` goes by id, so a call that ends late removes the session a
  client has made anew under it.
- A Cleanup that is in `RemoveSink` holds `consumers_mutex_` and waits for the
  playout thread, which may be in a listener that wants that mutex (an
  exception of `RemovalEnds` in `GateForward`, `session.cpp:71-75` of the listening
  engine).
- The pipeline does not wait for Events and Media. A turn that begins before Events
  is there is announced to nobody, and one that begins before the listener is wired
  has its gate closed to its end, so that what Media could forward of it is held
  back (`late` in `TurnIsAnnounced`).
- `audio_queue` and the ADM are tested and then used while Cleanup may drop
  them; Terminate clears the ring without its mutex.
- The pipeline copies the silence of the VAD into its own state before
  HandleSilenceDetected looks at it: after a pause `speech_ended` is not sent
  and the timeout counts from an earlier silence.
- Blips of speech in an idle VAD add up. The VAD is shared by sessions and not
  reset between them. When the turn model fails, the turn ends without an
  event and the gate stays open (which is why `OneStartPerTurn` leaves out the
  turn after a failure, `dropped`). What a session does to the VAD another one
  uses may end that one's turn in the middle of speech, announce it again, or
  keep it open: three of the properties are about a session that is `alone`.
- The pre-roll buffer is not cleared when it is sent: its frames go out again with
  the next turn, and once for each listener. A frame that the forwarding thread
  takes from the queue between the copy of the pre-roll and the opening of the
  gate is in neither (`opened` in `LiveInOrder` bounds what is lost so).
- A LoadDevice whose `Load` threw leaves a device that is not loaded, and the
  next LoadDevice answers success without loading it. A CreateTransport that
  throws after it made its listener leaves the transport before it with a
  listener that is destroyed, and a new transport leaves the consumers of the
  old one in the map (`orphaned`, the exception of `CommandsUseWhatLives`).
- ResumeConsumer looks a consumer up without `consumers_mutex_`, and uses it while
  Cleanup may empty the map; Cleanup tests the transport and then closes it,
  while the worker, which it stops later, may replace it.
- A consumer that is inserted beside Cleanup, or whose entry is taken by another
  of the same id, keeps a pointer to the session's sink (`late`, the exception of
  `SinksDetached`).
- A second Control call replaces the control stream and the VAD pipeline of the
  session. Its handler waits for the reader of the first, which only its client
  can wake; callbacks that the worker holds may still answer on the old stream
  (`replaced`, the exceptions of `StreamsOutliveTheirUse`); and when the first
  call ends it removes the session of the second.
- A second StartProduction replaces the producer's listener under the producer.

## What is left out

- gRPC, WebRTC, libmediasoupclient, ONNX and boost's SPSC queue are external:
  a Read returns a message or fails once the client is gone, a push or pop of a
  queue is atomic, a track calls its sinks under the lock under which it
  forgets one. Data races on plain memory are noted as hazards where they are;
  their undefined behaviour has no states of its own.
- `StreamOutbox` does not tell a client that only half-closes from one that
  hangs up. `GateForward` and `PlaybackADM` have one Media call for a session;
  the one replacement of a stream that is modelled is that of a control stream.
- `VadTurn` has audio time advance with wall time, and any outcome of a
  network for any chunk. The threshold of the turn model is in the three classes low,
  mid and high, and of the timeouts the code interpolates between base and extended
  there are the ends and the middle. Audio may come at any state of the wiring; in
  the code a consumer needs the event stream for its transport to connect.
- `GateForward` has of the reading and writing threads of the control and the event
  stream only how their joins end; `SessionTeardown` and `StreamOutbox` have the
  threads.
- `GateForward`'s events may come a little later than the code's when the
  pipeline is being stopped.
- `TurnDetection` and `LogMelSpectrogram` compute in the field of integers modulo
  13 with roots of unity in place of floats: the transform, its scratch space
  and its frames are exact, rounding is not there, and the logarithm is the
  identity. The order of values, by which the clipping goes, is that of the
  field's representatives, the same on both sides of `SpectrumIsReference`. One
  signal and one filter bank are tried, neither with a symmetry or a zero that
  would hide a wrong index.
- `SessionCommands` leaves what a request carries, and the failure to write an
  answer, out; what a handler does with a session that is destroyed under it is
  in `SessionRegistry`.
- `RtpConverters`: a field of the wrong type is one that is absent (for
  `channels` the code throws instead), strings in a fingerprint that are no
  digits, and the ICE messages, which are written and never read. Numbers other
  than fmtp parameters fit 32 bits.
- Logging, statistics, texts of errors, the arithmetic of fades and resampling,
  device enumeration, build scripts and images.
- The listening engine's copies of the stream threads and of the
  session map are the same code as the speaking engine's; the map names the
  latter for them.

## Plan

Built so far, in order: `CommandProcessor`, `PlaybackADM`, `SessionRegistry`,
`StreamOutbox`, `SessionTeardown`, `VadTurn`, `GateForward`, `RtpConverters`,
then `TurnDetection` with its two libraries of operators, and `SessionCommands`.
What would be modelled next: a second Events or Media call of a session, ICE
parameters and candidates in `RtpConverters`, and a constructor of a session
that gives up half way.

What would be proved next: that `SessionTeardown` implements an abstract removal
of a session, in which answers are given or refused and then everything is
freed at once; that its two serial queues are those of `OrderedExecutor` and
`OrderedChannel`, which would need the two with a stop in their interfaces; and
that the states `TurnDetection` takes from the VAD are those of `VadTurn`.
