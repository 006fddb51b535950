--------------------------- MODULE SessionCommands ---------------------------
(***************************************************************************)
(* What the commands of a session do to its members, in the listening      *)
(* engine: LoadDevice, GetDeviceRtpCapabilities, CreateTransport (which    *)
(* the speaking engine has too), CreateConsumer and ResumeConsumer.  One   *)
(* worker performs them, and any call into mediasoupclient may throw.      *)
(* Beside it run the readers of the Control calls, a second of which       *)
(* replaces the stream of the first, and the Cleanup of the session.       *)
(*                                                                         *)
(* Transports, listeners and consumers are numbered as they are made; what *)
(* a pointer points to is a number, which is not current any more when the *)
(* object is destroyed.  Which command a request carries is settled when   *)
(* the worker begins it.                                                   *)
(***************************************************************************)
EXTENDS Naturals, Sequences

CONSTANTS ConsumerId,     \* ids of consumers
          MaxRequests,    \* bound: requests of all clients
          MaxQueued,      \* bound: commands that wait
          MaxCalls        \* bound: Control calls of the session

ASSUME CommandsAssumption == {MaxRequests, MaxQueued, MaxCalls} \subseteq Nat

Call == 1..MaxCalls

VARIABLES
  call,       \* where the handler of each Control call is
  stream,     \* the ControlStream of each call
  reader,     \* where its reading thread is
  control_stream,  \* control_stream_ of Streams: a call, or 0
  replaced,   \* history: the streams that were replaced by another
  asked,      \* requests read so far
  answers,    \* how many answers each has been given
  refused,    \* history: requests whose command was dropped by a stopped queue
  queue,      \* the command queue: requests, and the streams they came from
  stopped,    \* stopped_ of the command queue
  worker,     \* where the worker is
  command,    \* the request it performs
  picked,     \* the consumer it has a pointer to
  device,     \* "none", "unloaded" or "loaded"
  listener,   \* transport_listener, 0 at first
  transport,  \* the transport and the listener it was made with
  orphaned,   \* history: the latest CreateTransport threw
  made,       \* transports and consumers made so far
  consumers,  \* the map of consumers
  sinks,      \* the consumers whose track has the audio sink
  late,       \* history: consumers that Cleanup or the map had passed over
  removal_requested,
  cleaner     \* the next thing the removal of the session does

call_vars    == <<call, stream, reader, control_stream, replaced, removal_requested>>
request_vars == <<asked, answers, refused, queue, stopped>>
device_vars  == <<device, listener, transport, orphaned>>
media_vars   == <<made, consumers, sinks, late>>
member_vars  == <<device_vars, media_vars>>
worker_vars  == <<worker, command, picked>>
vars == <<call_vars, request_vars, worker_vars, member_vars, cleaner>>

NoTransport == [no |-> 0, listener |-> 0]
NoConsumer  == [no |-> 0, transport |-> 0]
NoCommand   == [id |-> 0, from |-> 0]

(* Cleanup and ~Session, in order. *)
Stage == <<"none", "remove_sinks", "stop_streams", "clear_consumers", "close_transport",
           "stop_commands", "join_worker", "join_reader", "freed">>
StageOf(name) == CHOOSE k \in 1..Len(Stage) : Stage[k] = name
Past(name)    == StageOf(cleaner) > StageOf(name)

Init ==
  /\ call = [c \in Call |-> "none"]
  /\ stream = [c \in Call |-> "none"]
  /\ reader = [c \in Call |-> "none"]
  /\ control_stream = 0 /\ replaced = {}
  /\ removal_requested = FALSE
  /\ asked = 0 /\ answers = [r \in 1..MaxRequests |-> 0] /\ refused = {}
  /\ queue = <<>> /\ stopped = FALSE
  /\ worker = "idle" /\ command = NoCommand /\ picked = NoConsumer
  /\ device = "none" /\ listener = 0 /\ transport = NoTransport /\ orphaned = FALSE
  /\ made = 0 /\ consumers = <<>> /\ sinks = {} /\ late = {}
  /\ cleaner = "none"

-----------------------------------------------------------------------------
(* The handlers of Control calls.  What a handler does with a session that is
   destroyed under it is left to SessionRegistry. *)

HandlerSteps(c, from, to) == call[c] = from /\ call' = [call EXCEPT ![c] = to]

Control(c) ==
  /\ cleaner = "none"
  /\ \A b \in 1..(c - 1) : call[b] # "none"
  /\ HandlerSteps(c, "none", "attach")
  /\ stream' = [stream EXCEPT ![c] = "running"]
  /\ reader' = [reader EXCEPT ![c] = "test"]
  /\ UNCHANGED <<control_stream, replaced, removal_requested,
                 request_vars, worker_vars, member_vars, cleaner>>

(* SetControlStream: the pointer is set, and then the stream it had before is
   destroyed, which begins with its Stop.  Cleanup does not keep it from that, as
   long as the Streams are there. *)
SetControlStream(c) ==
  /\ ~Past("join_worker")
  /\ HandlerSteps(c, "attach", IF control_stream = 0 THEN "poll" ELSE "replace")
  /\ control_stream' = c
  /\ stream' = [b \in Call |-> IF b = control_stream THEN "stopped" ELSE stream[b]]
  /\ replaced' = replaced \cup ({control_stream} \ {0})
  /\ UNCHANGED <<reader, removal_requested, request_vars, worker_vars,
                 member_vars, cleaner>>

(* Its reader has been joined. *)
DestroyReplaced(c) ==
  /\ HandlerSteps(c, "replace", "poll")
  /\ \A b \in replaced : reader[b] = "ended"
  /\ stream' = [b \in Call |-> IF b \in replaced THEN "destroyed" ELSE stream[b]]
  /\ UNCHANGED <<reader, control_stream, replaced, removal_requested,
                 request_vars, worker_vars, member_vars, cleaner>>

(* The client cancels the call, or the removal is requested: RemoveSession. *)
LeavePolling(c) ==
  /\ HandlerSteps(c, "poll", "over")
  /\ cleaner' = IF cleaner = "none" THEN "remove_sinks" ELSE cleaner
  /\ UNCHANGED <<stream, reader, control_stream, replaced, removal_requested,
                 request_vars, worker_vars, member_vars>>

-----------------------------------------------------------------------------
(* ProcessIncomingMessages and HandleIncomingRequest. *)

ReaderSteps(c, from, to) == reader[c] = from /\ reader' = [reader EXCEPT ![c] = to]

TestRunning(c) ==
  /\ ReaderSteps(c, "test", IF stream[c] = "running" THEN "read" ELSE "ended")
  /\ UNCHANGED <<call, stream, control_stream, replaced, removal_requested,
                 request_vars, worker_vars, member_vars, cleaner>>

(* The client cancels the call, or closes its side of it. *)
ReadFails(c) ==
  /\ ReaderSteps(c, "read", "ended")
  /\ stream' = [stream EXCEPT ![c] = IF @ = "running" THEN "stopped" ELSE @]
  /\ UNCHANGED <<call, control_stream, replaced, removal_requested,
                 request_vars, worker_vars, member_vars, cleaner>>

(* A request is read and handled, and running_ is tested again. *)
ReadRequest(c) ==
  /\ ReaderSteps(c, "read", IF stream[c] = "running" THEN "read" ELSE "ended")
  /\ asked < MaxRequests
  /\ asked' = asked + 1
  /\ UNCHANGED <<call, stream, control_stream, replaced, stopped,
                 worker_vars, member_vars, cleaner>>

Answered(r) == answers' = [answers EXCEPT ![r] = @ + 1]

(* Bug: the request of another session is answered with an error, and performed. *)
RejectAndPerform(c) ==
  /\ ReadRequest(c)
  /\ Answered(asked')
  /\ queue' = Append(queue, [id |-> asked', from |-> c])
  /\ UNCHANGED <<removal_requested, refused>>

(* A request of another session, or of an unknown type. *)
RejectRequest(c) ==
  /\ ReadRequest(c)
  /\ Answered(asked')
  /\ UNCHANGED <<removal_requested, queue, refused>>

CloseSession(c) ==
  /\ ReadRequest(c)
  /\ Answered(asked')
  /\ removal_requested' = TRUE
  /\ UNCHANGED <<queue, refused>>

(* A command, with a callback that holds a pointer to this stream. *)
PushCommand(c) ==
  /\ ReadRequest(c)
  /\ Len(queue) < MaxQueued
  /\ IF stopped
     THEN refused' = refused \cup {asked'} /\ UNCHANGED queue
     ELSE queue' = Append(queue, [id |-> asked', from |-> c]) /\ UNCHANGED refused
  /\ UNCHANGED <<removal_requested, answers>>

ProcessIncomingMessages(c) ==
  \/ TestRunning(c) \/ ReadFails(c)
  \/ RejectRequest(c) \/ CloseSession(c) \/ PushCommand(c)

-----------------------------------------------------------------------------
(* The worker.  A command that throws is answered with the error. *)

WorkerSteps(from, to) ==
  /\ worker = from
  /\ worker' = to
  /\ UNCHANGED <<call_vars, cleaner>>

(* TryPop, and the first step of the command. *)
Begin(to) ==
  /\ WorkerSteps("idle", to)
  /\ queue # <<>>
  /\ command' = Head(queue)
  /\ queue' = Tail(queue)
  /\ UNCHANGED <<asked, answers, refused, stopped>>

(* Bug: a device that is there is not worth an answer. *)
LoadWithoutAnswer ==
  /\ Begin(IF device = "none" THEN "answer" ELSE "idle")
  /\ device' \in IF device = "none" THEN {"unloaded", "loaded"} ELSE {device}
  /\ UNCHANGED <<listener, transport, orphaned, media_vars, picked>>

(* A device is made once.  When Load throws it stays, and the next LoadDevice
   finds it and is answered as a success. *)
LoadDevice ==
  /\ Begin("answer")
  /\ device' \in IF device = "none" THEN {"unloaded", "loaded"} ELSE {device}
  /\ UNCHANGED <<listener, transport, orphaned, media_vars, picked>>

(* A command that fails before it changes anything, or that changes nothing:
   GetDeviceRtpCapabilities, no device, no transport, no consumer of that id, a
   kind that is not audio, parameters that cannot be converted, and a Consume
   that throws or returns nothing. *)
AnswerOnly ==
  /\ Begin("answer")
  /\ UNCHANGED <<member_vars, picked>>

(* CreateTransport: the listener is replaced, and the old one destroyed, while
   the transport that was made with it is still there. *)
ReplaceListener ==
  /\ Begin("connect")
  /\ device # "none"
  /\ listener' = listener + 1
  /\ orphaned' = FALSE
  /\ UNCHANGED <<device, transport, media_vars, picked>>

(* Bug: the listener is made anew when the transport has been given the old. *)
TransportBeforeListener ==
  /\ WorkerSteps("connect", "answer")
  /\ device = "loaded"
  /\ made' = made + 1
  /\ transport' = [no |-> made', listener |-> listener]
  /\ listener' = listener + 1
  /\ UNCHANGED <<request_vars, command, picked, device, orphaned, consumers, sinks, late>>

(* mediasoupclient makes no transport of a device that is not loaded. *)
TransportCreated ==
  /\ WorkerSteps("connect", "answer")
  /\ device = "loaded"
  /\ made' = made + 1
  /\ transport' = [no |-> made', listener |-> listener]
  /\ UNCHANGED <<request_vars, command, picked, device, listener, orphaned,
                 consumers, sinks, late>>

TransportThrows ==
  /\ WorkerSteps("connect", "answer")
  /\ orphaned' = TRUE
  /\ UNCHANGED <<request_vars, command, picked, device, listener, transport, media_vars>>

(* CreateConsumer as far as AddSink. *)
Consume ==
  /\ Begin("insert")
  /\ transport # NoTransport
  /\ made' = made + 1
  /\ picked' = [no |-> made', transport |-> transport.no]
  /\ sinks' = sinks \cup {made'}
  /\ UNCHANGED <<device_vars, consumers, late>>

(* The consumer is put into the map, with consumers_mutex_ held; one of the same
   id is destroyed, and its track keeps the sink. *)
InsertConsumer(id) ==
  /\ WorkerSteps("insert", "answer")
  /\ consumers' = [i \in DOMAIN consumers \cup {id} |->
                     IF i = id THEN picked ELSE consumers[i]]
  /\ late' = late \cup (IF Past("remove_sinks") THEN {picked.no} ELSE {})
                  \cup (IF id \in DOMAIN consumers THEN {consumers[id].no} ELSE {})
  /\ picked' = NoConsumer
  /\ UNCHANGED <<request_vars, command, device_vars, made, sinks>>

(* ResumeConsumer looks the consumer up without the mutex, and then uses it. *)
FindConsumer(id) ==
  /\ Begin("resume")
  /\ id \in DOMAIN consumers
  /\ picked' = consumers[id]
  /\ UNCHANGED member_vars

Resume ==
  /\ WorkerSteps("resume", "answer")
  /\ picked' = NoConsumer
  /\ UNCHANGED <<request_vars, command, member_vars>>

(* InvokeCallback, with the result or the error: QueueMessage on the stream. *)
InvokeCallback ==
  /\ WorkerSteps("answer", "idle")
  /\ Answered(command.id)
  /\ command' = NoCommand
  /\ UNCHANGED <<asked, refused, queue, stopped, picked, member_vars>>

LeaveLoop ==
  /\ WorkerSteps("idle", "gone")
  /\ stopped
  /\ UNCHANGED <<request_vars, command, picked, member_vars>>

RunLoop ==
  \/ LoadDevice \/ AnswerOnly
  \/ ReplaceListener \/ TransportCreated \/ TransportThrows
  \/ Consume \/ Resume \/ InvokeCallback \/ LeaveLoop
  \/ \E id \in ConsumerId : InsertConsumer(id) \/ FindConsumer(id)

-----------------------------------------------------------------------------
(* The removal of the session. *)

Clean(from) ==
  /\ cleaner = from
  /\ cleaner' = Stage[StageOf(from) + 1]
  /\ UNCHANGED <<call, reader, control_stream, replaced, removal_requested,
                 asked, answers, worker_vars, device_vars, made, late>>

(* The thread that close_session detaches. *)
DetachedRemove ==
  /\ removal_requested
  /\ Clean("none")
  /\ UNCHANGED <<stream, queue, stopped, refused, consumers, sinks>>

Current(k) == \E id \in DOMAIN consumers : consumers[id].no = k

(* Bug: only the sinks of the present transport's consumers are removed. *)
RemoveSinksOfTransport ==
  /\ Clean("remove_sinks")
  /\ sinks' = {k \in sinks : ~\E id \in DOMAIN consumers :
                 consumers[id].no = k /\ consumers[id].transport = transport.no}
  /\ UNCHANGED <<stream, queue, stopped, refused, consumers>>

RemoveSinks ==
  /\ Clean("remove_sinks")
  /\ sinks' = {k \in sinks : ~Current(k)}
  /\ UNCHANGED <<stream, queue, stopped, refused, consumers>>

(* Stop of the control stream: by StopAllStreams, and by its destructor, which
   matters for one that was attached beside Cleanup. *)
StopStream == stream' = [c \in Call |-> IF c = control_stream THEN "stopped" ELSE stream[c]]

StopStreams ==
  /\ Clean("stop_streams")
  /\ StopStream
  /\ UNCHANGED <<queue, stopped, refused, consumers, sinks>>

ClearConsumers ==
  /\ Clean("clear_consumers")
  /\ consumers' = <<>>
  /\ UNCHANGED <<stream, queue, stopped, refused, sinks>>

CloseTransport ==
  /\ Clean("close_transport")
  /\ UNCHANGED <<stream, queue, stopped, refused, consumers, sinks>>

(* What waits in the queue is dropped, and gets no answer. *)
StopCommands ==
  /\ Clean("stop_commands")
  /\ stopped' = TRUE
  /\ queue' = <<>>
  /\ refused' = refused \cup {queue[k].id : k \in 1..Len(queue)}
  /\ UNCHANGED <<stream, consumers, sinks>>

(* Bug: the worker is not waited for. *)
JoinWorkerNot ==
  /\ Clean("join_worker")
  /\ StopStream
  /\ UNCHANGED <<queue, stopped, refused, consumers, sinks>>

(* Cleanup ends when the worker has, and the destructors of the members begin. *)
JoinWorker ==
  /\ Clean("join_worker")
  /\ worker = "gone"
  /\ StopStream
  /\ UNCHANGED <<queue, stopped, refused, consumers, sinks>>

(* The destructor of the control stream joins its reader. *)
JoinReader ==
  /\ Clean("join_reader")
  /\ control_stream # 0 => reader[control_stream] = "ended"
  /\ stream' = [c \in Call |-> IF c = control_stream THEN "destroyed" ELSE stream[c]]
  /\ UNCHANGED <<queue, stopped, refused, consumers, sinks>>

Remove ==
  \/ DetachedRemove \/ RemoveSinks \/ StopStreams \/ ClearConsumers \/ CloseTransport
  \/ StopCommands \/ JoinWorker \/ JoinReader

Next ==
  \/ \E c \in Call :
       \/ Control(c) \/ SetControlStream(c) \/ DestroyReplaced(c) \/ LeavePolling(c)
       \/ ProcessIncomingMessages(c)
  \/ RunLoop
  \/ Remove

Spec == Init /\ [][Next]_vars

(* The threads of the engine run; clients promise nothing. *)
FairSpec == Spec /\ WF_vars(RunLoop) /\ WF_vars(Remove)

-----------------------------------------------------------------------------
Number   == 0..MaxRequests
Consumer == [no : Number, transport : Number]
Request  == [id : Number, from : 0..MaxCalls]

TypeOK ==
  /\ call \in [Call -> {"none", "attach", "replace", "poll", "over"}]
  /\ stream \in [Call -> {"none", "running", "stopped", "destroyed"}]
  /\ reader \in [Call -> {"none", "test", "read", "ended"}]
  /\ control_stream \in 0..MaxCalls /\ replaced \subseteq Call
  /\ asked \in Number /\ answers \in [1..MaxRequests -> Nat] /\ refused \subseteq 1..asked
  /\ queue \in Seq(Request) /\ Len(queue) <= MaxQueued
  /\ worker \in {"idle", "answer", "connect", "insert", "resume", "gone"}
  /\ command \in Request /\ picked \in Consumer
  /\ device \in {"none", "unloaded", "loaded"}
  /\ listener \in Number /\ transport \in [no : Number, listener : Number]
  /\ made \in Number
  /\ DOMAIN consumers \subseteq ConsumerId
  /\ \A id \in DOMAIN consumers : consumers[id] \in Consumer
  /\ sinks \subseteq 1..made /\ late \subseteq 1..made
  /\ {stopped, orphaned, removal_requested} \subseteq BOOLEAN
  /\ cleaner \in {Stage[k] : k \in 1..Len(Stage)}

(* Every request that was read is answered once, waits for its answer, or was
   dropped by the queue that Cleanup has stopped: whatever fails, in whatever
   state the session is, no path of a command forgets its callback or calls it
   twice. *)
AnsweredOnce ==
  \A r \in 1..asked :
    LET waiting  == r \in {queue[k].id : k \in 1..Len(queue)}
        underway == command.id = r
        dropped  == r \in refused
    IN /\ answers[r] <= 1
       /\ answers[r] = 1 <=> ~(waiting \/ underway \/ dropped)
       /\ dropped => Past("stop_commands")

(* While nobody removes the session every request gets its answer. *)
EveryRequestAnswered ==
  \A r \in 1..MaxRequests : asked >= r ~> (answers[r] = 1 \/ cleaner # "none")

(* What a command uses is what was made for it.  A transport is one of a loaded
   device and has the listener it was made with, except within a CreateTransport
   and after one that threw: that leaves the transport before it with a listener
   that is destroyed.  The consumer ResumeConsumer has found is still there when
   it is resumed, unless Cleanup has emptied the map in between and has not yet
   joined the worker: that no mutex is held costs no more than that window. *)
CommandsUseWhatLives ==
  /\ transport # NoTransport =>
       /\ device = "loaded"
       /\ transport.listener = listener \/ worker = "connect" \/ orphaned
  /\ worker = "resume" =>
       \/ Current(picked.no)
       \/ Past("clear_consumers") /\ ~Past("join_worker")

(* Cleanup takes the sink from every track before the session is destroyed, but
   for consumers that are inserted beside it, and those whose entry in the map
   was taken by another of the same id. *)
SinksDetached == cleaner = "freed" => sinks \subseteq late

(* A command answers on a stream that is there, and no thread of a stream or of
   the worker outlives the session.  A stream that a second Control call has
   replaced is the exception to both, and one that its handler has started and not
   yet attached to the second. *)
StreamsOutliveTheirUse ==
  /\ worker \notin {"idle", "gone"} =>
       stream[command.from] # "destroyed" \/ command.from \in replaced
  /\ cleaner = "freed" =>
       /\ worker = "gone"
       /\ \A c \in Call \ replaced : reader[c] \in {"none", "ended"} \/ call[c] = "attach"
=============================================================================
