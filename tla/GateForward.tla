----------------------------- MODULE GateForward -----------------------------
(***************************************************************************)
(* The audio of a user on its way through the listening engine:            *)
(*   - the playout thread of WebRTC calls AudioTrackSink::OnData, which    *)
(*     queues the frame, runs the VAD pipeline on it and, when that emits  *)
(*     an event, notifies the listeners: the MediaStream then sends its    *)
(*     pre-roll buffer and opens its gate, or closes it;                   *)
(*   - the forwarding thread of the MediaStream takes the frames, keeps    *)
(*     the latest in the pre-roll buffer and writes them if the gate is    *)
(*     open;                                                               *)
(*   - the Events and the Media handler attach their streams and wire one  *)
(*     to the other;                                                       *)
(*   - a thread that removes the session runs Cleanup and the destructor.  *)
(*                                                                         *)
(* VadTurn says which events the pipeline emits; here any that VadTurn     *)
(* allows.  A frame is a number, counted as the queue accepts them.        *)
(***************************************************************************)
EXTENDS Naturals, Sequences

CONSTANTS QueueCap,       \* capacity of the sink's queue (256 in the code)
          PreRollFrames,  \* frames the pre-roll buffer holds (kPreRollMs)
          MaxCalls        \* bound: calls of OnData

ASSUME GateAssumption == QueueCap \in Nat /\ PreRollFrames \in Nat \ {0} /\ MaxCalls \in Nat

VARIABLES
  sink_running, audio_queue,  \* running_ and audio_queue_ of the sink
  calls, accepted,            \* calls of OnData, frames accepted
  playout,     \* where the playout thread is
  todo,        \* the listeners it has still to notify
  turn,        \* whether the pipeline has announced a turn
  running,     \* running_ of the MediaStream
  pre_roll,    \* pre_roll_buffer_
  gate_open,   \* gate_open_
  forwarder,   \* where the forwarding thread is
  frame,       \* the frame it took last
  events, media,  \* how far the Events and the Media handler are
  listeners,   \* how many listeners are registered
  consumer,    \* how far CreateConsumerCommand is
  cleaner,     \* the next thing the removal of the session does
  asleep,      \* the streams whose writing thread has missed the last notification
  gone,        \* whether the client of the Media call has hung up
  last_live,   \* history: the frame the forwarding thread wrote last
  stragglers,  \* history: frames it wrote since the gate was closed
  opened       \* history: frames accepted when a turn last began to be sent

sink_vars   == <<sink_running, audio_queue, calls, accepted>>
play_vars   == <<playout, todo, turn>>
stream_vars == <<running, pre_roll, gate_open, forwarder, frame, gone, last_live, stragglers,
                 opened>>
wire_vars   == <<events, media, listeners, consumer>>
removal_vars == <<cleaner, asleep>>
vars == <<sink_vars, play_vars, stream_vars, wire_vars, removal_vars>>

PlayoutPc   == {"idle", "push", "react", "copy", "send", "open", "close", "joined"}
ForwarderPc == {"none", "top", "pop", "store", "gate", "send", "done"}
HandlerPc   == {"none", "attached", "wired"}
Notifying   == playout \in {"copy", "send", "open", "close"}

(* Cleanup and ~Session, in order. *)
Stage == <<"none", "stop_sink", "drain_sink", "lock_consumers", "remove_sink",
           "stop_streams", "clear_consumers", "stop_playout", "stop_commands",
           "stop_media", "join_media", "stop_event", "join_event", "join_control", "freed">>
StageOf(name) == CHOOSE k \in 1..Len(Stage) : Stage[k] = name

(* consumers_mutex_ is held over more than a step by the removal only. *)
ConsumersFree == cleaner # "remove_sink"

Init ==
  /\ sink_running = TRUE /\ audio_queue = <<>> /\ calls = 0 /\ accepted = 0
  /\ playout = "idle" /\ todo = 0 /\ turn = FALSE
  /\ running = FALSE /\ pre_roll = <<>> /\ gate_open = FALSE
  /\ forwarder = "none" /\ frame = 0 /\ gone = FALSE
  /\ last_live = 0 /\ stragglers = 0 /\ opened = 0
  /\ events = "none" /\ media = "none" /\ listeners = 0 /\ consumer = "none"
  /\ cleaner = "none" /\ asleep = {}

-----------------------------------------------------------------------------
(* The playout thread. *)

PlayoutSteps(from, to) == playout = from /\ playout' = to

(* OnData, from a track the sink was added to: if (!running_) return. *)
OnData ==
  /\ consumer # "none"
  /\ sink_running
  /\ calls < MaxCalls
  /\ calls' = calls + 1
  /\ PlayoutSteps("idle", "push")
  /\ UNCHANGED <<sink_running, audio_queue, accepted, todo, turn,
                 stream_vars, wire_vars, removal_vars>>

(* audio_queue_.push: a full queue drops the frame. *)
PushFrame ==
  /\ PlayoutSteps("push", "react")
  /\ IF Len(audio_queue) < QueueCap
     THEN audio_queue' = Append(audio_queue, accepted + 1) /\ accepted' = accepted + 1
     ELSE UNCHANGED <<audio_queue, accepted>>
  /\ UNCHANGED <<sink_running, calls, todo, turn, stream_vars, wire_vars,
                 removal_vars>>

(* ProcessAudio emits nothing. *)
NoEvent ==
  /\ PlayoutSteps("react", "idle")
  /\ UNCHANGED <<todo, turn, sink_vars, stream_vars, wire_vars, removal_vars>>

(* SendOnSpeechStartedEvent and SendOnUserTurnCompleteEvent notify the listeners
   of the event stream, with listeners_mutex_ held; without an event stream
   nobody hears of the turn. *)
Reached == events # "none" /\ listeners > 0

SpeechStarted ==
  /\ PlayoutSteps("react", IF Reached THEN "copy" ELSE "idle")
  /\ todo' = IF Reached THEN listeners ELSE 0
  /\ turn' = TRUE
  /\ UNCHANGED <<sink_vars, stream_vars, wire_vars, removal_vars>>

UserTurnComplete ==
  /\ turn
  /\ PlayoutSteps("react", IF Reached THEN "close" ELSE "idle")
  /\ todo' = IF Reached THEN listeners ELSE 0
  /\ turn' = FALSE
  /\ UNCHANGED <<sink_vars, stream_vars, wire_vars, removal_vars>>

(* FlushPreRollBuffer: an empty buffer is not sent; another is copied under
   pre_roll_mutex_, and not cleared. *)
CopyPreRoll ==
  /\ PlayoutSteps("copy", IF pre_roll = <<>> THEN "open" ELSE "send")
  /\ opened' = IF gate_open THEN opened ELSE accepted
  /\ UNCHANGED <<running, pre_roll, gate_open, forwarder, frame, gone, last_live, stragglers,
                 todo, turn, sink_vars, wire_vars, removal_vars>>

(* GetFirstConsumerId takes consumers_mutex_; SendMediaFrame, if there is a
   consumer and the stream runs: a Write that fails stops the stream. *)
SendPreRoll ==
  /\ ConsumersFree
  /\ PlayoutSteps("send", "open")
  /\ running' = (running /\ ~(gone /\ consumer = "listed"))
  /\ UNCHANGED <<pre_roll, gate_open, forwarder, frame, gone, last_live, stragglers, opened,
                 todo, turn, sink_vars, wire_vars, removal_vars>>

(* gate_open_.store(true), and the next listener. *)
OpenGate ==
  /\ PlayoutSteps("open", IF todo > 1 THEN "copy" ELSE "idle")
  /\ todo' = todo - 1
  /\ gate_open' = TRUE
  /\ stragglers' = 0
  /\ UNCHANGED <<running, pre_roll, forwarder, frame, gone, last_live, opened, turn,
                 sink_vars, wire_vars, removal_vars>>

CloseGate ==
  /\ PlayoutSteps("close", IF todo > 1 THEN "close" ELSE "idle")
  /\ todo' = todo - 1
  /\ gate_open' = FALSE
  /\ UNCHANGED <<running, pre_roll, forwarder, frame, gone, last_live, stragglers, opened,
                 turn, sink_vars, wire_vars, removal_vars>>

Playout ==
  \/ PushFrame \/ NoEvent \/ SpeechStarted \/ UserTurnComplete
  \/ CopyPreRoll \/ SendPreRoll \/ OpenGate \/ CloseGate

-----------------------------------------------------------------------------
(* The forwarding thread: ForwardMediaStream. *)

ForwarderSteps(from, to) ==
  /\ forwarder = from
  /\ forwarder' = to
  /\ UNCHANGED <<gate_open, gone, opened, play_vars, wire_vars, removal_vars>>

TestRunning ==
  /\ ForwarderSteps("top", IF running THEN "pop" ELSE "done")
  /\ UNCHANGED <<running, pre_roll, frame, last_live, stragglers, sink_vars>>

(* Bug: the thread ends when there is nothing to forward. *)
PopOrEnd ==
  /\ ForwarderSteps("pop", IF audio_queue = <<>> THEN "done" ELSE "store")
  /\ frame' = IF audio_queue = <<>> THEN frame ELSE Head(audio_queue)
  /\ audio_queue' = IF audio_queue = <<>> THEN <<>> ELSE Tail(audio_queue)
  /\ UNCHANGED <<running, pre_roll, last_live, stragglers, sink_running, calls, accepted>>

(* Bug: the thread catches up, and takes the newest frame for all that wait. *)
PopNewest ==
  /\ ForwarderSteps("pop", IF audio_queue = <<>> THEN "top" ELSE "store")
  /\ frame' = IF audio_queue = <<>> THEN frame ELSE audio_queue[Len(audio_queue)]
  /\ audio_queue' = <<>>
  /\ UNCHANGED <<running, pre_roll, last_live, stragglers, sink_running, calls, accepted>>

(* GetNextFrame, or a sleep of 10 ms. *)
GetNextFrame ==
  /\ ForwarderSteps("pop", IF audio_queue = <<>> THEN "top" ELSE "store")
  /\ frame' = IF audio_queue = <<>> THEN frame ELSE Head(audio_queue)
  /\ audio_queue' = IF audio_queue = <<>> THEN <<>> ELSE Tail(audio_queue)
  /\ UNCHANGED <<running, pre_roll, last_live, stragglers, sink_running, calls, accepted>>

(* The circular pre-roll buffer takes every frame and forgets the oldest. *)
StorePreRoll ==
  /\ ForwarderSteps("store", "gate")
  /\ pre_roll' = IF Len(pre_roll) < PreRollFrames THEN Append(pre_roll, frame)
                 ELSE Append(Tail(pre_roll), frame)
  /\ UNCHANGED <<running, frame, last_live, stragglers, sink_vars>>

(* Bug: frames pass whatever the gate. *)
PassGate ==
  /\ ForwarderSteps("gate", "send")
  /\ UNCHANGED <<running, pre_roll, frame, last_live, stragglers, sink_vars>>

(* gate_open_ is read; a closed gate drops the frame. *)
TestGate ==
  /\ ForwarderSteps("gate", IF gate_open THEN "send" ELSE "top")
  /\ UNCHANGED <<running, pre_roll, frame, last_live, stragglers, sink_vars>>

(* GetFirstConsumerId and SendMediaFrame again. *)
SendFrame ==
  /\ ConsumersFree
  /\ ForwarderSteps("send", "top")
  /\ LET tried == running /\ consumer = "listed" IN
       /\ running' = (running /\ ~(tried /\ gone))
       /\ last_live' = IF tried /\ ~gone THEN frame ELSE last_live
       /\ stragglers' = IF tried /\ ~gone /\ ~gate_open THEN stragglers + 1 ELSE stragglers
  /\ UNCHANGED <<pre_roll, frame, sink_vars>>

Forward == TestRunning \/ GetNextFrame \/ StorePreRoll \/ TestGate \/ SendFrame

-----------------------------------------------------------------------------
(* The handlers of the Events and the Media call, while there is a session.
   A handler attaches its stream, then looks for the other one. *)

Attachable == StageOf(cleaner) <= StageOf("stop_media")

AttachEvents ==
  /\ Attachable
  /\ events = "none"
  /\ events' = "attached"
  /\ UNCHANGED <<media, listeners, consumer, sink_vars, play_vars, stream_vars, removal_vars>>

(* RegisterEventListener takes listeners_mutex_. *)
WireEvents ==
  /\ Attachable
  /\ events = "attached"
  /\ media # "none" => ~Notifying
  /\ events' = "wired"
  /\ listeners' = IF media # "none" THEN listeners + 1 ELSE listeners
  /\ UNCHANGED <<media, consumer, sink_vars, play_vars, stream_vars, removal_vars>>

(* The forwarding thread is started before the stream is attached. *)
AttachMedia ==
  /\ Attachable
  /\ media = "none"
  /\ media' = "attached"
  /\ running' = TRUE
  /\ forwarder' = "top"
  /\ UNCHANGED <<events, listeners, consumer, pre_roll, gate_open, frame, gone, last_live,
                 stragglers, opened, sink_vars, play_vars, removal_vars>>

(* Bug: the wiring is left to the Events handler. *)
WireMediaNever ==
  /\ Attachable
  /\ media = "attached"
  /\ media' = "wired"
  /\ UNCHANGED <<events, listeners, consumer, sink_vars, play_vars, stream_vars, removal_vars>>

WireMedia ==
  /\ Attachable
  /\ media = "attached"
  /\ events # "none" => ~Notifying
  /\ media' = "wired"
  /\ listeners' = IF events # "none" THEN listeners + 1 ELSE listeners
  /\ UNCHANGED <<events, consumer, sink_vars, play_vars, stream_vars, removal_vars>>

(* CreateConsumerCommand takes a consumer from the transport, which the removal
   closes, and adds the sink to its track; then it lists the consumer. *)
AddSink ==
  /\ StageOf(cleaner) <= StageOf("clear_consumers")
  /\ consumer = "none"
  /\ consumer' = "sink"
  /\ UNCHANGED <<events, media, listeners, sink_vars, play_vars, stream_vars, removal_vars>>

ListConsumer ==
  /\ ConsumersFree
  /\ consumer = "sink"
  /\ consumer' = "listed"
  /\ opened' = accepted
  /\ UNCHANGED <<events, media, listeners, sink_vars, play_vars, removal_vars, running, pre_roll,
                 gate_open, forwarder, frame, gone, last_live, stragglers>>

HangUp ==
  /\ ~gone
  /\ gone' = TRUE
  /\ UNCHANGED <<running, pre_roll, gate_open, forwarder, frame, last_live, stragglers, opened,
                 sink_vars, play_vars, wire_vars, removal_vars>>

-----------------------------------------------------------------------------
(* The removal of the session. *)

CleanerSteps(from) ==
  /\ cleaner = from
  /\ cleaner' = Stage[StageOf(from) + 1]
  /\ UNCHANGED <<calls, accepted, todo, turn, pre_roll, gate_open, forwarder,
                 frame, gone, last_live, stragglers, opened, events, media, listeners>>

RemoveSession ==
  /\ CleanerSteps("none")
  /\ UNCHANGED <<sink_running, audio_queue, playout, running, consumer, asleep>>

(* AudioTrackSink::Stop: running_ first, then the queue is emptied, beside the
   forwarding thread that may empty it as well. *)
StopSink ==
  /\ CleanerSteps("stop_sink")
  /\ sink_running' = FALSE
  /\ UNCHANGED <<audio_queue, playout, running, consumer, asleep>>

DrainSink ==
  /\ cleaner = "drain_sink"
  /\ IF audio_queue = <<>>
     THEN CleanerSteps("drain_sink") /\ UNCHANGED audio_queue
     ELSE /\ audio_queue' = Tail(audio_queue)
          /\ UNCHANGED <<calls, accepted, todo, turn, pre_roll, gate_open,
                         forwarder, frame, gone, last_live, stragglers, opened, events, media,
                         listeners, cleaner>>
  /\ UNCHANGED <<sink_running, playout, running, consumer, asleep>>

LockConsumers ==
  /\ CleanerSteps("lock_consumers")
  /\ UNCHANGED <<sink_running, audio_queue, playout, running, consumer, asleep>>

(* RemoveSink of the consumer that is listed waits, with consumers_mutex_ held,
   for the call of OnData to return: a track calls its sinks under the lock
   under which it forgets one. *)
RemoveSink ==
  /\ consumer = "listed" => playout = "idle"
  /\ CleanerSteps("remove_sink")
  /\ UNCHANGED <<sink_running, audio_queue, playout, running, consumer, asleep>>

StopStreams ==
  /\ CleanerSteps("stop_streams")
  /\ running' = FALSE
  /\ UNCHANGED <<sink_running, audio_queue, playout, consumer, asleep>>

ClearConsumers ==
  /\ CleanerSteps("clear_consumers")
  /\ consumer' = IF consumer = "listed" THEN "none" ELSE consumer
  /\ UNCHANGED <<sink_running, audio_queue, playout, running, asleep>>

(* Bug: the playout thread is not joined. *)
StopPlayoutOnly ==
  /\ CleanerSteps("stop_playout")
  /\ UNCHANGED <<sink_running, audio_queue, playout, running, consumer, asleep>>

(* StopPlayout joins the playout thread. *)
StopPlayout ==
  /\ CleanerSteps("stop_playout")
  /\ PlayoutSteps("idle", "joined")
  /\ UNCHANGED <<sink_running, audio_queue, running, consumer, asleep>>

(* CommandProcessor::Stop waits for the command that is being executed. *)
StopCommands ==
  /\ CleanerSteps("stop_commands")
  /\ consumer # "sink"
  /\ UNCHANGED <<sink_running, audio_queue, playout, running, consumer, asleep>>

(* Bug: the destructor relies on StopAllStreams. *)
StopMediaNever ==
  /\ CleanerSteps("stop_media")
  /\ UNCHANGED <<sink_running, audio_queue, playout, running, consumer, asleep>>

(* ~MediaStream stops the stream again, which Cleanup may have missed. *)
StopMedia ==
  /\ CleanerSteps("stop_media")
  /\ running' = FALSE
  /\ UNCHANGED <<sink_running, audio_queue, playout, consumer, asleep>>

JoinMedia ==
  /\ forwarder \in {"none", "done"}
  /\ CleanerSteps("join_media")
  /\ UNCHANGED <<sink_running, audio_queue, playout, running, consumer, asleep>>

(* ~EventStream stops its stream once more.  That was the last its writing thread
   hears of it, as the first Stop was for the one of the control stream: either may
   have been between its predicate and its wait. *)
StopEvent ==
  /\ CleanerSteps("stop_event")
  /\ asleep' \in SUBSET ({"control"} \cup IF events = "none" THEN {} ELSE {"event"})
  /\ UNCHANGED <<sink_running, audio_queue, playout, running, consumer>>

(* The standard lets a wait end by itself. *)
WriterWakes(s) ==
  /\ s \in asleep
  /\ asleep' = asleep \ {s}
  /\ UNCHANGED <<sink_vars, play_vars, stream_vars, wire_vars, cleaner>>

(* The destructors of the event and the control stream join their reading thread,
   which ends when its client hangs up or sends, and their writing thread, which
   ends unless it sleeps. *)
JoinStream(s) ==
  /\ s \notin asleep
  /\ CleanerSteps(IF s = "event" THEN "join_event" ELSE "join_control")
  /\ UNCHANGED <<sink_running, audio_queue, playout, running, consumer, asleep>>

Remove ==
  \/ StopSink \/ DrainSink \/ LockConsumers \/ RemoveSink \/ StopStreams \/ ClearConsumers
  \/ StopPlayout \/ StopCommands \/ StopMedia \/ JoinMedia \/ StopEvent

-----------------------------------------------------------------------------
Next ==
  \/ OnData \/ Playout
  \/ Forward
  \/ AttachEvents \/ WireEvents \/ AttachMedia \/ WireMedia
  \/ AddSink \/ ListConsumer \/ HangUp
  \/ RemoveSession \/ Remove
  \/ \E s \in {"event", "control"} : JoinStream(s) \/ WriterWakes(s)

Spec == Init /\ [][Next]_vars

(* Threads run, a Write returns, a handler goes on to its wiring and a command
   to its end, and the clients of a session that is removed hang up; who speaks,
   calls or removes is nobody's obligation. *)
Fairness ==
  /\ WF_vars(Playout)
  /\ WF_vars(Forward)
  /\ WF_vars(Remove)
  /\ WF_vars(JoinStream("event") \/ JoinStream("control"))
  /\ WF_vars(WireEvents) /\ WF_vars(WireMedia) /\ WF_vars(ListConsumer)

FairSpec == Spec /\ Fairness

-----------------------------------------------------------------------------
Frame == 1..MaxCalls

TypeOK ==
  /\ sink_running \in BOOLEAN
  /\ audio_queue \in Seq(Frame) /\ Len(audio_queue) <= QueueCap
  /\ calls \in 0..MaxCalls /\ accepted \in 0..calls
  /\ playout \in PlayoutPc
  /\ todo \in 0..2 /\ (todo > 0 <=> Notifying)
  /\ turn \in BOOLEAN
  /\ running \in BOOLEAN
  /\ pre_roll \in Seq(Frame) /\ Len(pre_roll) <= PreRollFrames
  /\ gate_open \in BOOLEAN
  /\ forwarder \in ForwarderPc
  /\ frame \in 0..accepted
  /\ events \in HandlerPc /\ media \in HandlerPc
  /\ listeners \in 0..2
  /\ consumer \in {"none", "sink", "listed"}
  /\ cleaner \in {Stage[k] : k \in 1..Len(Stage)}
  /\ asleep \subseteq {"event", "control"}
  /\ gone \in BOOLEAN
  /\ last_live \in 0..frame /\ stragglers \in Nat /\ opened \in 0..accepted

(* The forwarding thread writes each frame at most once and in the order in
   which the sink accepted them, whoever else empties the queue.  Until the
   session is removed it skips none but between turns, and what the opening of a
   gate misses was accepted before the pre-roll was copied: the first frame after
   that is sent, for the playout thread queues none while it writes the pre-roll. *)
LiveInOrder ==
  [][last_live' # last_live =>
       /\ last_live' > last_live
       /\ cleaner = "none" => last_live' = last_live + 1 \/ last_live' <= opened + 1]_vars

(* After the gate is closed at most one more frame gets through, the one whose
   gate was tested before: silence is suppressed from there on. *)
OneStraggler == stragglers <= 1

(* However the Events and the Media handler interleave, once both are through,
   one of them has seen the stream of the other: turns reach the gate. *)
Wired == events = "wired" /\ media = "wired" => listeners > 0

(* A listener holds a raw pointer to the MediaStream, and the forwarding thread
   its `this`: neither thread is there when the stream is destroyed. *)
QuietWhenFreed ==
  StageOf(cleaner) > StageOf("join_media") =>
    playout = "joined" /\ forwarder \in {"none", "done"}

(* While the stream runs the queue is emptied: frames do not wait in it. *)
FramesAreTaken ==
  \A f \in Frame :
    (accepted >= f /\ running) ~> (frame >= f \/ ~running \/ cleaner # "none")

(* The playout thread wants the consumers_mutex_ of the removal that waits for it,
   or a writing thread is joined that sleeps. *)
Hung ==
  \/ cleaner = "remove_sink" /\ playout = "send"
  \/ cleaner = "join_event" /\ "event" \in asleep
  \/ cleaner = "join_control" /\ "control" \in asleep

(* The removal of a session ends, or hangs for good in one of these places: there
   is no other. *)
RemovalEnds == (cleaner # "none") ~> (cleaner = "freed" \/ []Hung)
=============================================================================
