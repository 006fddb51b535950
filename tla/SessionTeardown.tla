-------------------------- MODULE SessionTeardown ---------------------------
(***************************************************************************)
(* The end of a session of the speaking engine: RemoveSession runs Cleanup *)
(* and the destructor with sessions_mutex_ held, while the threads of the  *)
(* session go on: the reading threads of its three streams, the writing    *)
(* threads of two of them, and the worker of its command processor.  The   *)
(* hard part is StartProduction: its command blocks the worker until the   *)
(* orchestrator has answered a request of the engine, and the answer comes *)
(* through the threads that the removal stops.                             *)
(*                                                                         *)
(* CommandProcessor and StreamOutbox have the insides of the worker's and  *)
(* the writers' loops.  Here a command is taken, and a message is written, *)
(* in one step; of a writer's wait there is what decides whether it hears  *)
(* that its stream is stopped.                                             *)
(***************************************************************************)
EXTENDS Naturals, Sequences

CONSTANTS MaxProductions,  \* bound: StartProduction requests
          MaxFlushes       \* bound: FlushAudio requests

ASSUME TeardownAssumption == MaxProductions \in Nat /\ MaxFlushes \in Nat

Stream  == {"control", "event", "media"}
Writing == {"control", "event"}       \* the streams that have a writing thread
Request == 1..MaxProductions  \* ids of the engine's requests: request_counter_

VARIABLES
  running,   \* running_ of each stream
  reader,    \* where the reading thread of each stream is
  writer,    \* where the writing thread of two of them is
  gone,      \* whether the client has hung up each call
  commands,  \* the command queue
  stopped,   \* whether the command processor was stopped
  worker,    \* where the worker of the command processor is
  counter,   \* request_counter_: the latest request of the engine
  pending,   \* pending_requests_
  outbox,    \* the requests queued and not yet written
  sent,      \* history: the requests that reached the orchestrator
  answered,  \* history: the requests whose response was read
  satisfied, \* how often the promise of each request was set
  productions, flushes,  \* requests of the client so far
  closing,   \* whether close_session was handled and the removal is yet to begin
  remover    \* how far RemoveSession has come

streams_vars == <<running, reader, writer, gone>>
worker_vars  == <<commands, stopped, worker, counter, outbox>>
answer_vars  == <<pending, sent, answered, satisfied>>
client_vars  == <<productions, flushes, closing>>
teardown_vars == <<streams_vars, worker_vars, answer_vars, client_vars, remover>>

ReaderPc == {"top", "read", "push", "done"}
WriterPc == {"loop", "block", "drain", "asleep", "done"}
WorkerPc == {"idle", "produce", "register", "queue", "await", "flush", "exited"}

(* The stages of RemoveSession, in order: each name is the next thing done. *)
Stage == <<"none", "stop_streams", "close_transport", "drop_adm", "drop_queue",
           "stop_processor", "join_worker", "join_media", "stop_event", "join_event",
           "join_event_writer", "join_control", "join_control_writer", "freed">>
StageOf(name) == CHOOSE k \in 1..Len(Stage) : Stage[k] = name
Past(name)    == StageOf(remover) > StageOf(name)

TeardownInit ==
  /\ running = [s \in Stream |-> TRUE]
  /\ reader = [s \in Stream |-> "top"]
  /\ writer = [s \in Writing |-> "loop"]
  /\ gone = [s \in Stream |-> FALSE]
  /\ commands = <<>>
  /\ stopped = FALSE
  /\ worker = "idle"
  /\ counter = 0
  /\ pending = {}
  /\ outbox = {}
  /\ sent = {}
  /\ answered = {}
  /\ satisfied = [k \in Request |-> 0]
  /\ productions = 0
  /\ flushes = 0
  /\ closing = FALSE
  /\ remover = "none"

-----------------------------------------------------------------------------
(* The reading threads. *)

Read(s, to) ==
  /\ reader[s] = "read"
  /\ ~gone[s]
  /\ reader' = [reader EXCEPT ![s] = to]
  /\ UNCHANGED <<running, writer, gone, remover>>

(* while (running_ && stream_->Read(&message)): once inside Read, a thread
   gets the next message even when running_ has become false. *)
TestRunning(s) ==
  /\ reader[s] = "top"
  /\ reader' = [reader EXCEPT ![s] = IF running[s] THEN "read" ELSE "done"]
  /\ UNCHANGED <<running, writer, gone, worker_vars, answer_vars, client_vars, remover>>

(* Read returns false; ControlStream then stops itself, once. *)
ReadFails(s) ==
  /\ reader[s] = "read"
  /\ gone[s]
  /\ reader' = [reader EXCEPT ![s] = "done"]
  /\ running' = IF s = "control" THEN [running EXCEPT ![s] = FALSE] ELSE running
  /\ UNCHANGED <<writer, gone, worker_vars, answer_vars, client_vars, remover>>

(* HandleIncomingRequest pushes a command, which a stopped queue drops. *)
ReadCommand(c) ==
  /\ Read("control", "top")
  /\ commands' = IF stopped THEN commands ELSE Append(commands, c)
  /\ UNCHANGED <<stopped, worker, counter, outbox, answer_vars, closing>>

ReadStartProduction ==
  /\ productions < MaxProductions
  /\ productions' = productions + 1
  /\ ReadCommand("produce")
  /\ UNCHANGED flushes

ReadFlushAudio ==
  /\ flushes < MaxFlushes
  /\ flushes' = flushes + 1
  /\ ReadCommand("flush")
  /\ UNCHANGED productions

(* close_session: RequestRemoval, which comes to nothing once a removal is under way. *)
ReadCloseSession ==
  /\ Read("control", "top")
  /\ closing' = (remover = "none")
  /\ UNCHANGED <<worker_vars, answer_vars, productions, flushes>>

(* Bug: the entry of pending_requests_ is not erased. *)
ReadResponseKept(k) ==
  /\ k \in sent
  /\ Read("control", "top")
  /\ answered' = answered \cup {k}
  /\ satisfied' = IF k \in pending THEN [satisfied EXCEPT ![k] = @ + 1] ELSE satisfied
  /\ UNCHANGED <<pending, sent, worker_vars, client_vars>>

(* The response to request k, which the orchestrator may send more than once:
   its callback is invoked and forgotten, or there is none. *)
ReadResponse(k) ==
  /\ k \in sent
  /\ Read("control", "top")
  /\ answered' = answered \cup {k}
  /\ satisfied' = IF k \in pending THEN [satisfied EXCEPT ![k] = @ + 1] ELSE satisfied
  /\ pending' = pending \ {k}
  /\ UNCHANGED <<sent, worker_vars, client_vars>>

(* HandleMediaFrame: adm and audio_queue are tested, ... *)
ReadMediaFrame ==
  /\ Read("media", IF Past("drop_adm") THEN "top" ELSE "push")
  /\ UNCHANGED <<worker_vars, answer_vars, client_vars>>

(* ... and later used. *)
PushMediaFrame ==
  /\ reader["media"] = "push"
  /\ reader' = [reader EXCEPT !["media"] = "top"]
  /\ UNCHANGED <<running, writer, gone, worker_vars, answer_vars, client_vars, remover>>

-----------------------------------------------------------------------------
(* The worker of the command processor. *)

WorkerSteps(from, to) ==
  /\ worker = from
  /\ worker' = to
  /\ UNCHANGED <<stopped, streams_vars, client_vars, remover>>

(* A command is taken.  FlushAudio tests session_->adm here; StartProduction
   tests transport and audio_track. *)
TakeCommand ==
  /\ ~stopped
  /\ commands # <<>>
  /\ commands' = Tail(commands)
  /\ WorkerSteps("idle",
       CASE Head(commands) = "flush" ->
              IF Past("drop_adm") THEN "idle" ELSE "flush"
         [] Head(commands) = "produce" ->
              IF Past("close_transport") THEN "idle" ELSE "produce")
  /\ UNCHANGED <<counter, outbox, answer_vars>>

(* FlushAudioBuffer returns. *)
FlushReturns ==
  WorkerSteps("flush", "idle") /\ UNCHANGED <<commands, counter, outbox, answer_vars>>

(* SendTransport::Produce throws on a closed transport; otherwise it calls
   OnProduce. *)
Produce ==
  /\ WorkerSteps("produce", IF Past("close_transport") THEN "idle" ELSE "register")
  /\ counter' = IF Past("close_transport") THEN counter ELSE counter + 1
  /\ UNCHANGED <<commands, outbox, answer_vars>>

(* GetRouterProducerId: the callback is stored under pending_requests_mutex_,
   then the request is queued. *)
RegisterCallback ==
  /\ WorkerSteps("register", "queue")
  /\ pending' = pending \cup {counter}
  /\ UNCHANGED <<commands, counter, outbox, sent, answered, satisfied>>

(* Under queue_mutex_, which the writer has between its predicate and its wait. *)
QueueRequest ==
  /\ writer["control"] # "block"
  /\ WorkerSteps("queue", "await")
  /\ outbox' = outbox \cup {counter}
  /\ UNCHANGED <<commands, counter, answer_vars>>

(* The future is ready: Produce returns and the command ends. *)
ProduceReturns ==
  /\ WorkerSteps("await", "idle")
  /\ satisfied[counter] > 0
  /\ UNCHANGED <<commands, counter, outbox, answer_vars>>

WorkerExits ==
  /\ stopped
  /\ WorkerSteps("idle", "exited")
  /\ UNCHANGED <<commands, counter, outbox, answer_vars>>

Worker ==
  \/ TakeCommand \/ FlushReturns \/ Produce \/ RegisterCallback \/ QueueRequest
  \/ ProduceReturns \/ WorkerExits

-----------------------------------------------------------------------------
(* The writing threads. *)

WriterSteps(s, from, to) ==
  /\ writer[s] = from
  /\ writer' = [writer EXCEPT ![s] = to]
  /\ UNCHANGED <<running, reader, gone, worker_vars, answer_vars, client_vars, remover>>

(* In "loop" a writer is before its predicate, or in the wait set, where every
   message and every Stop finds it: it ends when its stream has stopped.  Of the
   event writer only what follows the last notification is here. *)
WriterEnds(s) ==
  /\ ~running[s]
  /\ s = "event" => Past("stop_event")
  /\ WriterSteps(s, "loop", "done")

(* The predicate holds: a request is queued, or a message that is left out here. *)
WriterDrains == running["control"] /\ WriterSteps("control", "loop", "drain")

(* The predicate does not hold, and the writer has yet to enter the wait set. *)
WriterBlocks == running["control"] /\ outbox = {} /\ WriterSteps("control", "loop", "block")

(* It enters.  If its stream was stopped meanwhile, it may have missed the
   notification; one that comes later still wakes it. *)
WriterWaits(s) == WriterSteps(s, "block", IF running[s] THEN "loop" ELSE "asleep")

(* That one, or the wait ends by itself. *)
WriterWakes(s) == WriterSteps(s, "asleep", "loop")

(* The inner loop of ControlStream does not look at running_. *)
WriteRequest(k) ==
  /\ writer["control"] = "drain"
  /\ k \in outbox
  /\ outbox' = outbox \ {k}
  /\ sent' = IF gone["control"] THEN sent ELSE sent \cup {k}
  /\ UNCHANGED <<commands, stopped, worker, counter, pending, answered, satisfied,
                 streams_vars, client_vars, remover>>

Drained == outbox = {} /\ WriterSteps("control", "drain", "loop")

Writer(s) == WriterEnds(s) \/ WriterWaits(s)
ControlWriter == WriterDrains \/ WriterBlocks \/ Drained

-----------------------------------------------------------------------------
(* RemoveSession. *)

RemoverSteps(from) ==
  /\ remover = from
  /\ remover' = Stage[StageOf(from) + 1]
  /\ closing' = FALSE
  /\ UNCHANGED <<reader, gone, commands, worker, counter, outbox, answer_vars, productions,
                 flushes>>

(* By the detached thread of close_session, or by a handler whose call ended. *)
RemovalBegins ==
  /\ closing \/ \E s \in Stream : gone[s]
  /\ RemoverSteps("none")
  /\ UNCHANGED <<running, writer, stopped>>

(* Cleanup: StopAllStreams writes running_ without a mutex and interrupts no Read.
   It notifies the writers, of which one that is about to wait hears nothing. *)
StopAllStreams ==
  /\ RemoverSteps("stop_streams")
  /\ running' = [s \in Stream |-> FALSE]
  /\ UNCHANGED <<writer, stopped>>

CleanupSteps ==
  /\ \/ RemoverSteps("close_transport")  \* transport->Close()
     \/ RemoverSteps("drop_adm")         \* StopRecording, Terminate, adm = nullptr
     \/ RemoverSteps("drop_queue")       \* audio_queue.reset()
  /\ UNCHANGED <<running, writer, stopped>>

(* Bug: the worker is told to stop and never joined. *)
StopProcessorOnly ==
  /\ remover = "stop_processor"
  /\ remover' = "join_media"
  /\ stopped' = TRUE
  /\ UNCHANGED <<streams_vars, commands, worker, counter, outbox, answer_vars,
                 client_vars>>

(* Bug: the worker is joined and was not told to stop. *)
StopForgotten == RemoverSteps("stop_processor") /\ UNCHANGED <<running, writer, stopped>>

(* command_processor->Stop(), and the join of its worker. *)
StopProcessor ==
  /\ RemoverSteps("stop_processor")
  /\ stopped' = TRUE
  /\ UNCHANGED <<running, writer>>

JoinWorker ==
  /\ worker = "exited"
  /\ RemoverSteps("join_worker")
  /\ UNCHANGED <<running, writer, stopped>>

(* Of the Stops in the destructors only this one may still notify: EventStream's,
   which came twice before.  Its writer may have been between its predicate and its
   wait all the time. *)
StopEvent ==
  /\ RemoverSteps("stop_event")
  /\ \E pc \in {"loop", "block"} : writer' = [writer EXCEPT !["event"] = pc]
  /\ UNCHANGED <<running, stopped>>

(* ~Streams destroys its members in reverse order.  Each joins its reader ... *)
JoinReader(s) ==
  /\ reader[s] = "done"
  /\ RemoverSteps(CASE s = "media" -> "join_media" [] s = "event" -> "join_event"
                    [] s = "control" -> "join_control")
  /\ UNCHANGED <<running, writer, stopped>>

(* ... and then its writer. *)
WriterJoin(s) == IF s = "event" THEN "join_event_writer" ELSE "join_control_writer"

JoinWriter(s) ==
  /\ writer[s] = "done"
  /\ RemoverSteps(WriterJoin(s))
  /\ UNCHANGED <<running, writer, stopped>>

Remove ==
  \/ RemovalBegins \/ StopAllStreams \/ CleanupSteps \/ StopProcessor \/ JoinWorker
  \/ StopEvent
  \/ \E s \in Stream : JoinReader(s)
  \/ \E s \in Writing : JoinWriter(s)

HangUp(s) ==
  /\ ~gone[s]
  /\ gone' = [gone EXCEPT ![s] = TRUE]
  /\ UNCHANGED <<running, reader, writer, worker_vars, answer_vars, client_vars, remover>>

-----------------------------------------------------------------------------
TeardownNext ==
  \/ \E s \in Stream : TestRunning(s) \/ ReadFails(s) \/ HangUp(s)
  \/ ReadStartProduction \/ ReadFlushAudio \/ ReadCloseSession
  \/ \E k \in Request : ReadResponse(k) \/ WriteRequest(k)
  \/ ReadMediaFrame \/ PushMediaFrame
  \/ \E s \in Writing : Writer(s) \/ WriterWakes(s)
  \/ ControlWriter
  \/ Worker
  \/ Remove

TeardownSpec == TeardownInit /\ [][TeardownNext]_teardown_vars

(* Threads run; a writer that is asleep need not wake.  The orchestrator answers
   every request that reaches it, for as long as the engine reads; a client hangs
   up all its calls once its session is being removed and has no answer left to
   give. *)
TeardownFairness ==
  /\ \A s \in Stream : WF_teardown_vars(TestRunning(s) \/ ReadFails(s))
  /\ WF_teardown_vars(PushMediaFrame)
  /\ \A s \in Writing : WF_teardown_vars(Writer(s))
  /\ WF_teardown_vars(ControlWriter)
  /\ WF_teardown_vars(Worker)
  /\ WF_teardown_vars(Remove)
  /\ \A k \in Request :
       /\ WF_teardown_vars(WriteRequest(k))
       /\ WF_teardown_vars(k \notin answered /\ ReadResponse(k))
  /\ \A s \in Stream : WF_teardown_vars(remover # "none" /\ sent \subseteq answered /\ HangUp(s))

TeardownFairSpec == TeardownSpec /\ TeardownFairness

-----------------------------------------------------------------------------
TeardownTypeOK ==
  /\ running \in [Stream -> BOOLEAN]
  /\ reader \in [Stream -> ReaderPc]
  /\ writer \in [Writing -> WriterPc]
  /\ gone \in [Stream -> BOOLEAN]
  /\ commands \in Seq({"produce", "flush"})
  /\ stopped \in BOOLEAN
  /\ worker \in WorkerPc
  /\ counter \in 0..productions
  /\ pending \subseteq 1..counter
  /\ outbox \subseteq pending
  /\ sent \subseteq 1..counter
  /\ answered \subseteq sent
  /\ satisfied \in [Request -> 0..2]
  /\ productions \in 0..MaxProductions
  /\ flushes \in 0..MaxFlushes
  /\ closing \in BOOLEAN
  /\ remover \in {Stage[k] : k \in 1..Len(Stage)}

(* A promise is set at most once (a second time would throw in the reading
   thread), and a response that was read has set it: none arrives before its
   callback is there. *)
AnswersReachTheirPromise ==
  \A k \in Request : satisfied[k] = (IF k \in answered THEN 1 ELSE 0)

(* Nothing of the session runs when it is freed: the callbacks of its commands
   find their control stream, the readers their session, the writers their queue. *)
QuietWhenFreed ==
  remover = "freed" =>
    /\ worker = "exited"
    /\ \A s \in Stream : reader[s] = "done"
    /\ \A s \in Writing : writer[s] = "done"

(* The worker waits for a promise that nobody is left to set, or a writer sleeps
   that did not hear its stream stop. *)
Hung ==
  \/ remover = "join_worker" /\ worker = "await"
  \/ \E s \in Writing : remover = WriterJoin(s) /\ writer[s] = "asleep"

(* Once begun, the removal ends, and sessions_mutex_ is released, or it hangs for
   good in one of three joins: there is no other way for it to hang. *)
RemovalEnds == (remover = "stop_streams") ~> (remover = "freed" \/ []Hung)
=============================================================================
